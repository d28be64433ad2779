--------------------------- MODULE ModelPromotion ---------------------------
(***************************************************************************)
(* From a fine-tuning run to the decision to serve its model: the end of   *)
(* _run in finetune/train.py (fp32 report, export to CTranslate2),         *)
(* `speechai evaluate --gate`, and scripts/verify_ct2_model.py, which      *)
(* compares the exported int8 model with the fp32 report and tries it on   *)
(* the serving paths.                                                      *)
(*                                                                         *)
(* All of them work on one output directory, in turn.  A word error rate   *)
(* is a whole number; a mean is a fraction, and the rounding to 1/10000 is *)
(* left out.  What a training run makes is chosen when it starts: the word *)
(* error rates of the fp32 model on the validation utterances and of the   *)
(* int8 model on all of them.                                              *)
(*                                                                         *)
(* pc: "idle"; "trained", "export", "convert", "overwrite", "trainEnd" in  *)
(* the training; "evaluate", "batch", "ws", "report", "track" in           *)
(* verify_ct2_model.                                                       *)
(***************************************************************************)
EXTENDS Integers, FiniteSets, FiniteSetsExt, ExperimentTracker

CONSTANTS
    Utterances, Wers,
    MaxWerAbs, MaxWerGap,  \* the bars, in the unit of Wers
    Setups,                \* the settings, data and flags, see below
    Nothing,
    MaxRuns                \* bound: training runs

\* A manifest has so many lines.
ASSUME UtterancesAssumption == IsFiniteSet(Utterances)
ASSUME WersAssumption == Wers \subseteq Nat /\ MaxWerAbs \in Nat /\ MaxWerGap \in Nat
ASSUME NothingAssumption ==
    Nothing \notin {0, 1, 2, 137} /\ Nothing \notin [run : Nat, passed : BOOLEAN]
ASSUME RunsAssumption == MaxRuns \in Nat
\* valid: the validation utterances that are probed; eval: those of the
\* manifest; file: the manifest is one, and no directory; export: not
\* --no-export-ct2; apiKey: the settings hold an API key; spot: the spot checks
\* that are not turned off; mlflow: tracking is on; legacy: an old MLflow.
ASSUME SetupsAssumption ==
    Setups \subseteq [valid : SUBSET Utterances, eval : SUBSET Utterances,
                      file : BOOLEAN, export : BOOLEAN, apiKey : BOOLEAN,
                      spot : SUBSET {"batch", "ws"},
                      mlflow : BOOLEAN, legacy : BOOLEAN]

VARIABLES
    setup,
    pc,
    run, model,           \* the training run and the model it has in hand
    report, ct2, verdict, \* the disk: report_finetuned.json, ct2/, the result
    problems, spots,      \* of the verification under way
    tracker,
    exit,                 \* how the last process ended: its code, 137 if killed
    stops                 \* history: where training runs were stopped

vars == <<setup, pc, run, model, report, ct2, verdict, problems, spots,
          tracker, exit, stops>>
trainVars == <<run, model, report, ct2, stops>>
verifyVars == <<verdict, problems, spots>>

Training == {"trained", "export", "convert", "overwrite", "trainEnd"}
Verifying == {"evaluate", "batch", "ws", "report", "track"}

Init ==
    /\ setup \in Setups
    /\ pc = "idle" /\ run = 0 /\ model = Nothing
    /\ report = Nothing /\ ct2 = Nothing /\ verdict = Nothing
    /\ problems = {} /\ spots = {}
    /\ tracker = Off /\ exit = Nothing /\ stops = {}

-----------------------------------------------------------------------------
(* The report of a fine-tuning run and its export *)

StartTraining ==
    /\ pc = "idle" /\ run < MaxRuns
    /\ run' = run + 1
    /\ \E fp32 \in [setup.valid -> Wers], int8 \in [Utterances -> Wers] :
         model' = [run |-> run', fp32 |-> fp32, int8 |-> int8]
    /\ \E t \in Trackers(setup.mlflow) : tracker' \in Start(t)
    /\ pc' = "trained" /\ exit' = Nothing
    /\ UNCHANGED <<setup, report, ct2, stops, verifyVars>>

\* Without validation utterances no report is written, and the one of an
\* earlier run stays.
SaveReport ==
    /\ pc = "trained"
    /\ IF setup.valid = {} THEN UNCHANGED <<report, tracker>>
       ELSE report' = [run |-> run, wer |-> model.fp32] /\ tracker' \in Log(tracker)
    /\ pc' = IF setup.export THEN "export" ELSE "trainEnd"
    /\ UNCHANGED <<setup, run, model, ct2, stops, verifyVars, exit>>

\* Mutant: the old export is left in place until it is overwritten.
KeepExport ==
    /\ pc = "export" /\ pc' = "convert"
    /\ UNCHANGED <<setup, trainVars, verifyVars, tracker, exit>>

ClearExport ==
    /\ pc = "export" /\ pc' = "convert"
    /\ ct2' = Nothing
    /\ UNCHANGED <<setup, run, model, report, stops, verifyVars, tracker, exit>>

\* The removal ignores its errors, and the conversion then meets the old export.
ExportStays ==
    /\ pc = "export" /\ ct2 # Nothing /\ pc' = "overwrite"
    /\ UNCHANGED <<setup, trainVars, verifyVars, tracker, exit>>

Convert ==
    /\ pc \in {"convert", "overwrite"} /\ pc' = "trainEnd"
    /\ ct2' = [run |-> run, int8 |-> model.int8]
    /\ UNCHANGED <<setup, run, model, report, stops, verifyVars, tracker, exit>>

EndTraining ==
    /\ pc = "trainEnd" /\ pc' = "idle" /\ exit' = 0 /\ model' = Nothing
    /\ \E t \in Log(tracker) : tracker' \in End(t, "FINISHED", setup.legacy)
    /\ UNCHANGED <<setup, run, report, ct2, stops, verifyVars>>

\* An exception in _run: 2 for a missing package, 1 for any other.
FailTraining ==
    /\ pc \in Training /\ pc' = "idle" /\ exit' \in {1, 2}
    /\ tracker' \in End(tracker, "FAILED", setup.legacy)
    /\ stops' = stops \cup {pc} /\ model' = Nothing
    /\ UNCHANGED <<setup, run, report, ct2, verifyVars>>

KillTraining ==
    /\ pc \in Training /\ pc' = "idle" /\ exit' = 137
    /\ stops' = stops \cup {pc} /\ model' = Nothing
    /\ UNCHANGED <<setup, run, report, ct2, verifyVars, tracker>>

-----------------------------------------------------------------------------
(* Means and gates *)

\* The mean of nothing is 0.0.
Mean(wer) ==
    IF DOMAIN wer = {} THEN [sum |-> 0, n |-> 1]
    ELSE [sum |-> MapThenSumSet(LAMBDA u : wer[u], DOMAIN wer),
          n |-> Cardinality(DOMAIN wer)]

Above(mean, bar) == mean.sum > bar * mean.n

\* Mutant: the other way round.
AboveByReversed(mean, base, bar) ==
    base.sum * mean.n - mean.sum * base.n > bar * mean.n * base.n

AboveBy(mean, base, bar) ==
    mean.sum * base.n - base.sum * mean.n > bar * mean.n * base.n

Measured == [u \in setup.eval |-> ct2.int8[u]]

GatherProblems(slow) ==
    (IF AboveBy(Mean(Measured), Mean(report.wer), MaxWerGap) THEN {"gap"} ELSE {})
      \cup (IF Above(Mean(Measured), MaxWerAbs) THEN {"wer"} ELSE {})
      \cup (IF slow THEN {"rtf"} ELSE {})

\* By how much an utterance of both the report and the manifest got worse.
Regressions ==
    [u \in setup.eval \cap DOMAIN report.wer |-> ct2.int8[u] - report.wer[u]]

-----------------------------------------------------------------------------
(* speechai evaluate, of the export *)

\* The run is ended after the gate, so that its status tells the outcome.  An
\* exception before the tracker is made leaves no run.
Evaluate ==
    /\ pc = "idle"
    /\ \/ exit' = 1 /\ tracker' = Off
       \/ /\ ct2 # Nothing
          /\ \E gate, slow \in BOOLEAN :
               exit' = IF gate /\ (slow \/ Above(Mean(Measured), MaxWerAbs)) THEN 1 ELSE 0
          /\ \E t \in Trackers(setup.mlflow) : \E s \in Start(t) : \E l \in Log(s) :
               tracker' \in End(l, IF exit' = 0 THEN "FINISHED" ELSE "FAILED", setup.legacy)
    /\ UNCHANGED <<setup, pc, trainVars, verifyVars>>

-----------------------------------------------------------------------------
(* verify_ct2_model *)

\* A model, a manifest that is a file, and a report, or exit code 2.  The result
\* of an earlier verification stays on the disk.
Verify ==
    /\ pc = "idle"
    /\ problems' = {} /\ spots' = {} /\ tracker' = Off
    /\ IF ct2 # Nothing /\ setup.file /\ report # Nothing
       THEN pc' = "evaluate" /\ exit' = Nothing
       ELSE pc' = pc /\ exit' = 2
    /\ UNCHANGED <<setup, trainVars, verdict>>

Int8Evaluation ==
    /\ pc = "evaluate"
    /\ \/ pc' = "batch" /\ exit' = exit
          /\ \E slow \in BOOLEAN : problems' = GatherProblems(slow)
       \/ pc' = "idle" /\ exit' = 1 /\ UNCHANGED problems
    /\ UNCHANGED <<setup, trainVars, verdict, spots, tracker>>

\* The job and the stream bring no API key: where one is set, both are refused.
SpotCheck(path) ==
    IF path \notin setup.spot THEN UNCHANGED <<problems, spots>>
    ELSE \E ok \in (IF setup.apiKey THEN {FALSE} ELSE BOOLEAN) :
           /\ spots' = spots \cup {<<path, ok>>}
           /\ problems' = IF ok THEN problems ELSE problems \cup {path}

CheckBatchPath ==
    /\ pc = "batch" /\ pc' = "ws" /\ SpotCheck("batch")
    /\ UNCHANGED <<setup, trainVars, verdict, tracker, exit>>

CheckWsPath ==
    /\ pc = "ws" /\ pc' = "report" /\ SpotCheck("ws")
    /\ UNCHANGED <<setup, trainVars, verdict, tracker, exit>>

\* The result is written before the tracker is made; where it cannot be, the
\* exception is nobody's.
WriteVerdict ==
    /\ pc = "report"
    /\ \/ pc' = "track" /\ exit' = exit
          /\ verdict' = [run |-> ct2.run, passed |-> problems = {}]
          /\ \E t \in Trackers(setup.mlflow) : \E s \in Start(t) : tracker' \in Log(s)
       \/ pc' = "idle" /\ exit' = 1 /\ UNCHANGED <<verdict, tracker>>
    /\ UNCHANGED <<setup, trainVars, problems, spots>>

\* Mutant: the exit code tells the gates and not the spot checks.
ReturnGates ==
    /\ pc = "track" /\ pc' = "idle"
    /\ tracker' \in End(tracker, IF problems = {} THEN "FINISHED" ELSE "FAILED", setup.legacy)
    /\ exit' = IF problems \cap {"gap", "wer", "rtf"} = {} THEN 0 ELSE 1
    /\ UNCHANGED <<setup, trainVars, verifyVars>>

Return ==
    /\ pc = "track" /\ pc' = "idle"
    /\ tracker' \in End(tracker, IF problems = {} THEN "FINISHED" ELSE "FAILED", setup.legacy)
    /\ exit' = IF problems = {} THEN 0 ELSE 1
    /\ UNCHANGED <<setup, trainVars, verifyVars>>

-----------------------------------------------------------------------------
Train == \/ StartTraining \/ SaveReport \/ ClearExport \/ ExportStays
         \/ Convert \/ EndTraining
VerifySteps == Int8Evaluation \/ CheckBatchPath \/ CheckWsPath \/ WriteVerdict \/ Return

Next == Train \/ FailTraining \/ KillTraining \/ Evaluate \/ Verify \/ VerifySteps

Spec == Init /\ [][Next]_vars

-----------------------------------------------------------------------------
TypeOK ==
    /\ setup \in Setups
    /\ pc \in {"idle"} \cup Training \cup Verifying
    /\ run \in 0..MaxRuns
    /\ tracker \in Tracker
    /\ exit \in {0, 1, 2, 137, Nothing}
    /\ problems \subseteq {"gap", "wer", "rtf", "batch", "ws"}
    /\ spots \subseteq {"batch", "ws"} \X BOOLEAN
    /\ stops \subseteq Training

\* A verification that returns 0 has left a verdict "passed" about the model
\* that is in the directory, and everything it was asked to try has worked: a
\* verdict of an earlier export is on the disk until then.
Promoted ==
    /\ verdict # Nothing /\ verdict.passed /\ verdict.run = ct2.run
    /\ spots = {<<path, TRUE>> : path \in setup.spot}

PassedServes == [][exit' = 0 /\ pc \in Verifying => Promoted']_vars

\* The exit code and the status of the MLflow run agree, of the training, the
\* evaluation and the verification: a process that returns anything but 0 never
\* leaves a FINISHED run, one that returns 0 never a FAILED one, and a run is
\* left running only by a kill or after a failure of the server.
OutcomesAgree ==
    pc = "idle" =>
        /\ tracker.run = "FAILED" => exit \in {1, 2}
        /\ tracker.run = "FINISHED" /\ ~setup.legacy => exit = 0
        /\ tracker.run = "running" => tracker.faulty \/ exit = 137

\* Where the training probes and exports, the fp32 report and the int8 model that
\* lie side by side are of one model, unless a training run was stopped between
\* the report and the removal of the old export, or before the conversion was
\* done where that removal had failed.
PairedUnlessTorn ==
    pc = "idle" /\ setup.valid # {} /\ setup.export /\ report # Nothing /\ ct2 # Nothing =>
        report.run = ct2.run \/ stops \cap {"export", "overwrite"} # {}

\* With one set of utterances in the report and the manifest, a quantization gap
\* that is reported is that of some utterance, and where every utterance is
\* worse by more than the bar a gap is reported.
GapMeansRegression ==
    pc \in {"batch", "ws", "report", "track"} /\ setup.valid = setup.eval /\ setup.eval # {} =>
        /\ "gap" \in problems => \E u \in setup.eval : Regressions[u] > MaxWerGap
        /\ (\A u \in setup.eval : Regressions[u] > MaxWerGap) => "gap" \in problems
=============================================================================

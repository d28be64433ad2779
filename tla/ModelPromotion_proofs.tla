----------------------- MODULE ModelPromotion_proofs -----------------------
(***************************************************************************)
(* What a verification that passes, an exit code, an fp32 report beside an *)
(* export and a quantization gap say, for any utterances, settings and     *)
(* number of runs.  The last needs that sums over a set compare as their   *)
(* terms do, which is induction: over sets of subsets, since the theorems  *)
(* of the library that are about formulas are out of the provers' reach.   *)
(***************************************************************************)
EXTENDS ModelPromotion, FiniteSetTheorems, TLAPS

Pcs == {"idle"} \cup Training \cup Verifying

\* The tracked run: none is open before its tool starts one, it is not ended
\* before its tool ends, and it is out of the tool's reach only after a fault.
TrackInv ==
    /\ tracker \in Tracker
    /\ pc \in {"evaluate", "batch", "ws", "report"} => tracker = Off
    /\ pc \in Training \cup {"track"} =>
         /\ tracker.run \in {"none", "running"}
         /\ tracker.run = "running" /\ ~tracker.enabled => tracker.faulty

\* The report and the export that lie side by side.
PairInv ==
    setup.valid # {} /\ setup.export =>
        /\ pc \in {"idle", "trained"} \cup Verifying =>
             (report # Nothing /\ ct2 # Nothing =>
                report.run = ct2.run \/ stops \cap {"export", "overwrite"} # {})
        /\ pc \in {"export", "convert", "overwrite", "trainEnd"} => report.run = run
        /\ pc = "convert" => ct2 = Nothing
        /\ pc = "trainEnd" => ct2.run = run

\* The spot checks that are over, and what is known of each.
Tried == CASE pc = "ws" -> {"batch"} [] pc \in {"report", "track"} -> {"batch", "ws"} [] OTHER -> {}

SpotInv ==
    pc \in Verifying =>
        /\ exit = Nothing
        /\ spots \subseteq (Tried \cap setup.spot) \X BOOLEAN
        /\ \A path \in Tried \cap setup.spot :
             /\ <<path, TRUE>> \in spots \/ path \in problems
             /\ <<path, FALSE>> \in spots => path \in problems

VerdictInv ==
    /\ ct2 # Nothing => ct2.run \in Nat
    /\ pc \in Verifying => ct2 # Nothing
    /\ pc = "track" => verdict = [run |-> ct2.run, passed |-> problems = {}]

IInv == /\ pc \in Pcs /\ run \in Nat /\ setup \in Setups
        /\ TrackInv /\ PairInv /\ SpotInv /\ VerdictInv

USE WersAssumption, SetupsAssumption, NothingAssumption, RunsAssumption

-----------------------------------------------------------------------------
LEMMA InitIInv == Init => IInv
<1> SUFFICES ASSUME Init PROVE IInv
  OBVIOUS
<1>1. pc = "idle" /\ tracker = Off /\ Off \in Tracker /\ run \in Nat
  BY DEF Init, Off, Tracker, Ends
<1>2. pc \in Pcs /\ setup \in Setups /\ TrackInv
  BY <1>1 DEF Init, Pcs, TrackInv, Training
<1>3. PairInv /\ SpotInv /\ VerdictInv
  BY <1>1 DEF Init, PairInv, SpotInv, VerdictInv, Verifying
<1>4. QED
  BY <1>1, <1>2, <1>3 DEF IInv

-----------------------------------------------------------------------------
(* The tracker *)

LEMMA FieldsOfTracker ==
    ASSUME NEW t \in Tracker
    PROVE  /\ t.enabled \in BOOLEAN /\ t.run \in {"none", "running", "FINISHED", "FAILED"}
           /\ \A r \in {"none", "running", "FINISHED", "FAILED"} : 
                /\ [t EXCEPT !.run = r] \in Tracker
                /\ [t EXCEPT !.run = r].run = r
                /\ [t EXCEPT !.run = r].enabled = t.enabled
                /\ [t EXCEPT !.run = r].faulty = t.faulty
           /\ [t EXCEPT !.logged = TRUE] \in Tracker
           /\ [t EXCEPT !.logged = TRUE].run = t.run
           /\ [t EXCEPT !.logged = TRUE].enabled = t.enabled
           /\ [t EXCEPT !.logged = TRUE].faulty = t.faulty
           /\ Faulty(t) \in Tracker /\ Faulty(t).faulty
           /\ Faulty(t).run = t.run /\ Faulty(t).enabled = t.enabled
  BY DEF Tracker, Ends, Faulty

\* A tool that has started and not ended its run.
Open(t) ==
    /\ t \in Tracker /\ t.run \in {"none", "running"}
    /\ t.run = "running" /\ ~t.enabled => t.faulty

LEMMA TrackersNew ==
    ASSUME NEW wanted \in BOOLEAN, NEW t \in Trackers(wanted)
    PROVE  t \in Tracker /\ t.run = "none"
<1>1. Off \in Tracker /\ Off.run = "none"
  BY DEF Off, Tracker, Ends
<1>2. [Off EXCEPT !.enabled = TRUE] \in Tracker /\ [Off EXCEPT !.enabled = TRUE].run = "none"
  BY DEF Off, Tracker, Ends
<1>3. QED
  BY <1>1, <1>2 DEF Trackers

LEMMA StartOpens ==
    ASSUME NEW wanted \in BOOLEAN, NEW t \in Trackers(wanted), NEW s \in Start(t)
    PROVE  Open(s)
<1>1. t \in Tracker /\ t.run = "none"
  BY TrackersNew
<1>2. CASE s = t
  BY <1>1, <1>2 DEF Open
<1>3. CASE t.enabled /\ s = [t EXCEPT !.run = "running"]
  <2>1. s \in Tracker /\ s.run = "running" /\ s.enabled = t.enabled
    BY <1>1, <1>3, FieldsOfTracker
  <2>2. QED
    BY <1>3, <2>1 DEF Open
<1>4. Faulty(t) \in Tracker /\ Faulty(t).faulty /\ Faulty(t).run = "none"
  BY <1>1, FieldsOfTracker
<1>5. CASE s = [Faulty(t) EXCEPT !.enabled = FALSE]
  BY <1>4, <1>5 DEF Open, Tracker
<1>6. CASE s = [Faulty(t) EXCEPT !.enabled = FALSE, !.run = "running"]
  BY <1>4, <1>6 DEF Open, Tracker
<1>7. QED
  BY <1>2, <1>3, <1>5, <1>6 DEF Start

LEMMA LogKeepsOpen ==
    ASSUME NEW t, Open(t), NEW s \in Log(t)
    PROVE  Open(s)
<1>1. s = t \/ s = [t EXCEPT !.logged = TRUE] \/ s = Faulty(t)
  BY DEF Log
<1>2. t \in Tracker
  BY DEF Open
<1>3. s \in Tracker /\ s.run = t.run /\ s.enabled = t.enabled /\ (t.faulty => s.faulty)
  <2>1. CASE s = t
    BY <1>2, <2>1
  <2>2. CASE s = [t EXCEPT !.logged = TRUE]
    BY <1>2, <2>2 DEF Tracker
  <2>3. CASE s = Faulty(t)
    BY <1>2, <2>3, FieldsOfTracker
  <2>4. QED
    BY <1>1, <2>1, <2>2, <2>3
<1>4. QED
  BY <1>3 DEF Open

\* The run that is ended has the status, or a call failed, or the tool was never
\* to be tracked.
LEMMA EndCloses ==
    ASSUME NEW t, Open(t), NEW status \in Ends, NEW legacy \in BOOLEAN,
           NEW s \in End(t, status, legacy)
    PROVE  /\ s \in Tracker
           /\ s.run = "running" => s.faulty
           /\ s.run = "FAILED" => status = "FAILED"
           /\ s.run = "FINISHED" => legacy \/ status = "FINISHED"
<1>1. CASE ~t.enabled /\ s = t
  BY <1>1, FieldsOfTracker DEF Open
<1>2. CASE s = Faulty(t)
  BY <1>2, FieldsOfTracker DEF Open
<1>3. CASE s = [t EXCEPT !.run = IF legacy THEN "FINISHED" ELSE status]
  <2>1. CASE legacy
    BY <1>3, <2>1, FieldsOfTracker DEF Open
  <2>2. CASE ~legacy /\ status = "FINISHED"
    BY <1>3, <2>2, FieldsOfTracker DEF Open
  <2>3. CASE ~legacy /\ status = "FAILED"
    BY <1>3, <2>3, FieldsOfTracker DEF Open
  <2>4. QED
    BY <2>1, <2>2, <2>3 DEF Ends
<1>4. QED
  BY <1>1, <1>2, <1>3 DEF End
-----------------------------------------------------------------------------
(* The invariant *)

\* Open says of the tracker what TrackInv does.
LEMMA TrackedIsOpen ==
    ASSUME TrackInv, pc \in Training \cup {"track"}
    PROVE  Open(tracker)
  BY DEF TrackInv, Open

LEMMA TrainIInv ==
    ASSUME IInv, Train
    PROVE  IInv'
<1>0. setup.mlflow \in BOOLEAN /\ setup.legacy \in BOOLEAN
  BY DEF IInv
<1>1. CASE StartTraining
  <2>1. Open(tracker')
    BY <1>0, <1>1, StartOpens DEF StartTraining
  <2>2. TrackInv'
    BY <1>1, <2>1 DEF StartTraining, TrackInv, Open, Training
  <2>3. PairInv'
    BY <1>1 DEF IInv, PairInv, StartTraining, verifyVars, Training, Verifying
  <2>4. SpotInv' /\ VerdictInv'
    BY <1>1 DEF IInv, SpotInv, VerdictInv, StartTraining, verifyVars, Training, Verifying
  <2>5. QED
    BY <1>1, <2>2, <2>3, <2>4 DEF IInv, StartTraining, Pcs, Training
<1>2. CASE SaveReport
  <2>1. Open(tracker')
    BY <1>2, TrackedIsOpen, LogKeepsOpen DEF IInv, SaveReport, Training
  <2>2. TrackInv'
    BY <1>2, <2>1 DEF SaveReport, TrackInv, Open, Training
  <2>3. PairInv'
    BY <1>2 DEF IInv, PairInv, SaveReport, verifyVars, Training, Verifying
  <2>4. SpotInv' /\ VerdictInv'
    BY <1>2 DEF IInv, SpotInv, VerdictInv, SaveReport, verifyVars, Training, Verifying
  <2>5. QED
    BY <1>2, <2>2, <2>3, <2>4 DEF IInv, SaveReport, Pcs, Training
<1>3. CASE ClearExport
  <2>1. TrackInv'
    BY <1>3 DEF IInv, ClearExport, TrackInv, Training
  <2>2. PairInv'
    BY <1>3 DEF IInv, PairInv, ClearExport, verifyVars, Training, Verifying
  <2>3. SpotInv' /\ VerdictInv'
    BY <1>3 DEF IInv, SpotInv, VerdictInv, ClearExport, verifyVars, Training, Verifying
  <2>4. QED
    BY <1>3, <2>1, <2>2, <2>3 DEF IInv, ClearExport, Pcs, Training
<1>4. CASE ExportStays
  <2>1. TrackInv'
    BY <1>4 DEF IInv, ExportStays, TrackInv, Training
  <2>2. PairInv'
    BY <1>4 DEF IInv, PairInv, ExportStays, trainVars, verifyVars, Training, Verifying
  <2>3. SpotInv' /\ VerdictInv'
    BY <1>4 DEF IInv, SpotInv, VerdictInv, ExportStays, trainVars, verifyVars, Training, Verifying
  <2>4. QED
    BY <1>4, <2>1, <2>2, <2>3 DEF IInv, ExportStays, trainVars, Pcs, Training
<1>5. CASE Convert
  <2>1. TrackInv'
    BY <1>5 DEF IInv, Convert, TrackInv, Training
  <2>2. PairInv'
    BY <1>5 DEF IInv, PairInv, Convert, verifyVars, Training, Verifying
  <2>3. SpotInv' /\ VerdictInv'
    BY <1>5 DEF IInv, SpotInv, VerdictInv, Convert, verifyVars, Training, Verifying
  <2>4. QED
    BY <1>5, <2>1, <2>2, <2>3 DEF IInv, Convert, Pcs, Training
<1>6. CASE EndTraining
  <2>1. tracker' \in Tracker
    BY <1>0, <1>6, TrackedIsOpen, LogKeepsOpen, EndCloses DEF IInv, EndTraining, Training, Ends
  <2>2. TrackInv'
    BY <1>6, <2>1 DEF EndTraining, TrackInv, Training
  <2>3. PairInv'
    BY <1>6 DEF IInv, PairInv, EndTraining, verifyVars, Training, Verifying
  <2>4. SpotInv' /\ VerdictInv'
    BY <1>6 DEF IInv, SpotInv, VerdictInv, EndTraining, verifyVars, Training, Verifying
  <2>5. QED
    BY <1>6, <2>2, <2>3, <2>4 DEF IInv, EndTraining, Pcs
<1>7. QED
  BY <1>1, <1>2, <1>3, <1>4, <1>5, <1>6 DEF Train

LEMMA StopIInv ==
    ASSUME IInv, FailTraining \/ KillTraining
    PROVE  IInv'
<1>0. setup.legacy \in BOOLEAN
  BY DEF IInv
<1>1. tracker' \in Tracker
  <2>1. CASE FailTraining
    BY <1>0, <2>1, TrackedIsOpen, EndCloses DEF IInv, FailTraining, Ends
  <2>2. CASE KillTraining
    BY <2>2 DEF IInv, TrackInv, KillTraining
  <2>3. QED
    BY <2>1, <2>2
<1>2. /\ pc \in Training /\ pc' = "idle" /\ stops' = stops \cup {pc}
      /\ UNCHANGED <<setup, run, report, ct2, verdict>>
  BY DEF FailTraining, KillTraining, verifyVars
<1>3. TrackInv'
  BY <1>1, <1>2 DEF TrackInv, Training
<1>4. PairInv'
  <2>1. CASE pc = "convert"
    BY <1>2, <2>1 DEF IInv, PairInv, Training, Verifying
  <2>2. CASE pc # "convert"
    BY <1>2, <2>2 DEF IInv, PairInv, Training, Verifying
  <2>3. QED
    BY <2>1, <2>2
<1>5. SpotInv' /\ VerdictInv'
  BY <1>2 DEF IInv, SpotInv, VerdictInv, Training, Verifying
<1>6. QED
  BY <1>2, <1>3, <1>4, <1>5 DEF IInv, Pcs

LEMMA EvaluateIInv ==
    ASSUME IInv, Evaluate
    PROVE  IInv'
<1>0. setup.mlflow \in BOOLEAN /\ setup.legacy \in BOOLEAN
  BY DEF IInv
<1>1. tracker' \in Tracker
  <2>1. CASE tracker' = Off
    BY <2>1 DEF Off, Tracker, Ends
  <2>2. CASE \E t \in Trackers(setup.mlflow) : \E s \in Start(t) : \E l \in Log(s) :
               tracker' \in End(l, IF exit' = 0 THEN "FINISHED" ELSE "FAILED", setup.legacy)
    BY <1>0, <2>2, StartOpens, LogKeepsOpen, EndCloses DEF Ends
  <2>3. QED
    BY <2>1, <2>2 DEF Evaluate
<1>2. pc = "idle" /\ UNCHANGED <<setup, pc, trainVars, verifyVars>>
  BY DEF Evaluate
<1>3. TrackInv'
  BY <1>1, <1>2 DEF TrackInv, Training
<1>4. PairInv'
  BY <1>2 DEF IInv, PairInv, trainVars
<1>5. SpotInv' /\ VerdictInv'
  BY <1>2 DEF IInv, SpotInv, VerdictInv, Verifying, trainVars, verifyVars
<1>6. QED
  BY <1>2, <1>3, <1>4, <1>5 DEF IInv, trainVars

\* A path is tried and known, or turned off.
LEMMA SpotKnown ==
    ASSUME SpotInv, pc \in Verifying, NEW path, path \notin Tried, SpotCheck(path), UNCHANGED setup
    PROVE  /\ spots' \subseteq ((Tried \cup {path}) \cap setup.spot) \X BOOLEAN
           /\ \A p \in (Tried \cup {path}) \cap setup.spot :
                /\ <<p, TRUE>> \in spots' \/ p \in problems'
                /\ <<p, FALSE>> \in spots' => p \in problems'
<1>1. CASE path \notin setup.spot
  <2>1. UNCHANGED <<problems, spots>>
    BY <1>1 DEF SpotCheck
  <2>2. (Tried \cup {path}) \cap setup.spot = Tried \cap setup.spot
    BY <1>1
  <2>3. /\ spots \subseteq (Tried \cap setup.spot) \X BOOLEAN
        /\ \A p \in Tried \cap setup.spot :
             /\ <<p, TRUE>> \in spots \/ p \in problems
             /\ <<p, FALSE>> \in spots => p \in problems
    BY DEF SpotInv
  <2>4. QED
    BY <2>1, <2>2, <2>3
<1>2. CASE path \in setup.spot
  <2>1. PICK ok \in BOOLEAN :
          /\ spots' = spots \cup {<<path, ok>>}
          /\ problems' = IF ok THEN problems ELSE problems \cup {path}
    BY <1>2 DEF SpotCheck
  <2>2. /\ spots \subseteq (Tried \cap setup.spot) \X BOOLEAN
        /\ \A p \in Tried \cap setup.spot :
             /\ <<p, TRUE>> \in spots \/ p \in problems
             /\ <<p, FALSE>> \in spots => p \in problems
    BY DEF SpotInv
  <2>3. <<path, TRUE>> \notin spots /\ <<path, FALSE>> \notin spots
    BY <2>2
  <2>4. spots' \subseteq ((Tried \cup {path}) \cap setup.spot) \X BOOLEAN
    BY <1>2, <2>1, <2>2
  <2>5. ASSUME NEW p \in Tried \cap setup.spot, p # path
        PROVE  /\ <<p, TRUE>> \in spots' \/ p \in problems'
               /\ <<p, FALSE>> \in spots' => p \in problems'
    <3>1. <<p, FALSE>> \in spots' => <<p, FALSE>> \in spots
      BY <2>1, <2>5
    <3>2. spots \subseteq spots' /\ problems \subseteq problems'
      BY <2>1
    <3>3. QED
      BY <2>2, <2>5, <3>1, <3>2
  <2>6. /\ <<path, TRUE>> \in spots' \/ path \in problems'
        /\ <<path, FALSE>> \in spots' => path \in problems'
    <3>1. CASE ok = TRUE
      <4>1. spots' = spots \cup {<<path, TRUE>>} /\ <<path, TRUE>> # <<path, FALSE>>
        BY <2>1, <3>1
      <4>2. QED
        BY <2>3, <4>1
    <3>2. CASE ok = FALSE
      BY <2>1, <3>2
    <3>3. QED
      BY <3>1, <3>2
  <2>7. QED
    BY <2>4, <2>5, <2>6
<1>3. QED
  BY <1>1, <1>2

LEMMA VerifyIInv ==
    ASSUME IInv, Verify
    PROVE  IInv'
<1>1. tracker' = Off /\ Off \in Tracker /\ UNCHANGED <<setup, run, report, ct2, stops, verdict>>
  BY DEF Verify, trainVars, Off, Tracker, Ends
<1>2. pc = "idle" /\ pc' \in {"idle", "evaluate"}
  BY DEF Verify
<1>3. TrackInv'
  BY <1>1, <1>2 DEF TrackInv, Training
<1>4. PairInv'
  BY <1>1, <1>2 DEF IInv, PairInv, Verifying
<1>5. SpotInv' /\ VerdictInv'
  BY <1>1, <1>2 DEF IInv, SpotInv, VerdictInv, Verify, Verifying, Tried
<1>6. QED
  BY <1>1, <1>2, <1>3, <1>4, <1>5 DEF IInv, Pcs, Verifying

LEMMA VerifyStepIInv ==
    ASSUME IInv, VerifySteps
    PROVE  IInv'
<1>0. setup.mlflow \in BOOLEAN /\ setup.legacy \in BOOLEAN
  BY DEF IInv
<1>1. /\ pc \in Verifying /\ pc' \in {"idle", "batch", "ws", "report", "track"}
      /\ UNCHANGED <<setup, run, report, ct2, stops>>
  BY DEF VerifySteps, Int8Evaluation, CheckBatchPath, CheckWsPath, WriteVerdict, Return,
         trainVars, Verifying
<1>2. TrackInv'
  <2>1. CASE (Int8Evaluation \/ CheckBatchPath \/ CheckWsPath)
    BY <2>1 DEF IInv, TrackInv, Int8Evaluation, CheckBatchPath, CheckWsPath, Training
  <2>2. CASE WriteVerdict
    <3>1. CASE pc' = "track"
      <4>1. Open(tracker')
        BY <1>0, <2>2, <3>1, StartOpens, LogKeepsOpen DEF WriteVerdict
      <4>2. QED
        BY <3>1, <4>1 DEF TrackInv, Open, Training
    <3>2. CASE pc' = "idle" /\ UNCHANGED tracker
      BY <3>2 DEF IInv, TrackInv, Training
    <3>3. QED
      BY <2>2, <3>1, <3>2 DEF WriteVerdict
  <2>3. CASE Return
    <3>1. tracker' \in Tracker
      BY <1>0, <2>3, TrackedIsOpen, EndCloses DEF IInv, Return, Ends
    <3>2. QED
      BY <2>3, <3>1 DEF Return, TrackInv, Training
  <2>4. QED
    BY <2>1, <2>2, <2>3 DEF VerifySteps
<1>3. PairInv'
  BY <1>1 DEF IInv, PairInv, Verifying
<1>4. SpotInv'
  <2>1. CASE Int8Evaluation
    BY <2>1 DEF IInv, SpotInv, Int8Evaluation, Tried, Verifying
  <2>2. CASE CheckBatchPath
    <3>1. Tried = {} /\ Tried' = {"batch"} /\ pc' = "ws" /\ exit' = Nothing /\ UNCHANGED setup
      BY <2>2 DEF IInv, SpotInv, CheckBatchPath, Tried, Verifying
    <3>2. SpotCheck("batch") /\ pc \in Verifying
      BY <2>2 DEF CheckBatchPath, Verifying
    <3>3. Tried' = Tried \cup {"batch"} /\ "batch" \notin Tried
      BY <3>1
    <3>4. QED
      BY <3>1, <3>2, <3>3, SpotKnown DEF IInv, SpotInv
  <2>3. CASE CheckWsPath
    <3>1. /\ Tried = {"batch"} /\ Tried' = {"batch", "ws"} /\ pc' = "report"
          /\ exit' = Nothing /\ UNCHANGED setup
      BY <2>3 DEF IInv, SpotInv, CheckWsPath, Tried, Verifying
    <3>2. SpotCheck("ws") /\ pc \in Verifying
      BY <2>3 DEF CheckWsPath, Verifying
    <3>3. Tried' = Tried \cup {"ws"} /\ "ws" \notin Tried
      BY <3>1
    <3>4. QED
      BY <3>1, <3>2, <3>3, SpotKnown DEF IInv, SpotInv
  <2>4. CASE WriteVerdict
    BY <2>4 DEF IInv, SpotInv, WriteVerdict, Tried, Verifying
  <2>5. CASE Return
    BY <2>5 DEF SpotInv, Return, Verifying
  <2>6. QED
    BY <2>1, <2>2, <2>3, <2>4, <2>5 DEF VerifySteps
<1>5. VerdictInv'
  <2>1. CASE pc' # "track"
    BY <1>1, <2>1 DEF IInv, VerdictInv, Verifying
  <2>2. CASE pc' = "track"
    <3>1. verdict' = [run |-> ct2.run, passed |-> problems = {}] /\ UNCHANGED problems
      BY <2>2 DEF VerifySteps, Int8Evaluation, CheckBatchPath, CheckWsPath, WriteVerdict, Return
    <3>2. QED
      BY <1>1, <2>2, <3>1 DEF IInv, VerdictInv
  <2>3. QED
    BY <2>1, <2>2
<1>6. QED
  BY <1>1, <1>2, <1>3, <1>4, <1>5 DEF IInv, Pcs, Verifying

LEMMA StepIInv == IInv /\ [Next]_vars => IInv'
<1> SUFFICES ASSUME IInv, [Next]_vars PROVE IInv'
  OBVIOUS
<1>1. CASE Next
  BY <1>1, TrainIInv, StopIInv, EvaluateIInv, VerifyIInv, VerifyStepIInv DEF Next
<1>2. CASE UNCHANGED vars
  BY <1>2 DEF IInv, TrackInv, PairInv, SpotInv, VerdictInv, Tried, vars
<1>3. QED
  BY <1>1, <1>2

LEMMA Inductive == Spec => []IInv
<1>1. QED
  BY InitIInv, StepIInv, PTL DEF Spec

-----------------------------------------------------------------------------
\* What TypeOK says beyond the invariant: each action keeps it.
LEMMA RestTyped ==
    ASSUME TypeOK, Next
    PROVE  /\ run' \in 0..MaxRuns /\ exit' \in {0, 1, 2, 137, Nothing} /\ stops' \subseteq Training
           /\ problems' \subseteq {"gap", "wer", "rtf", "batch", "ws"}
           /\ spots' \subseteq {"batch", "ws"} \X BOOLEAN
<1>1. /\ run \in 0..MaxRuns /\ exit \in {0, 1, 2, 137, Nothing} /\ stops \subseteq Training
      /\ problems \subseteq {"gap", "wer", "rtf", "batch", "ws"}
      /\ spots \subseteq {"batch", "ws"} \X BOOLEAN
  BY DEF TypeOK
<1>2. CASE Train
  <2>1. UNCHANGED verifyVars /\ UNCHANGED stops
    BY <1>2 DEF Train, StartTraining, SaveReport, ClearExport, ExportStays,
                   Convert, EndTraining, trainVars
  <2>2. run' = run \/ (run < MaxRuns /\ run' = run + 1)
    BY <1>2 DEF Train, StartTraining, SaveReport, ClearExport, ExportStays,
                   Convert, EndTraining, trainVars
  <2>3. exit' \in {0, Nothing} \/ exit' = exit
    BY <1>2 DEF Train, StartTraining, SaveReport, ClearExport, ExportStays,
                   Convert, EndTraining, trainVars
  <2>4. QED
    BY <1>1, <2>1, <2>2, <2>3 DEF verifyVars
<1>3. CASE FailTraining \/ KillTraining
  <2>1. /\ pc \in Training /\ exit' \in {1, 2, 137} /\ stops' = stops \cup {pc}
        /\ UNCHANGED <<run, verifyVars>>
    BY <1>3 DEF FailTraining, KillTraining
  <2>2. QED
    BY <1>1, <2>1 DEF verifyVars
<1>4. CASE Evaluate
  BY <1>1, <1>4 DEF Evaluate, trainVars, verifyVars
<1>5. CASE Verify
  BY <1>1, <1>5 DEF Verify, trainVars
<1>6. CASE VerifySteps
  <2>1. UNCHANGED <<run, stops>> /\ exit' \in {0, 1, exit}
    BY <1>6 DEF VerifySteps, Int8Evaluation, CheckBatchPath, CheckWsPath, WriteVerdict, Return,
                trainVars
  <2>2. CASE SpotCheck("batch") \/ SpotCheck("ws")
    <3>1. PICK path \in {"batch", "ws"} : SpotCheck(path)
      BY <2>2
    <3>2. \/ UNCHANGED <<problems, spots>>
          \/ \E ok \in BOOLEAN : /\ spots' = spots \cup {<<path, ok>>}
                                 /\ problems' = IF ok THEN problems ELSE problems \cup {path}
      BY <3>1 DEF SpotCheck
    <3>3. QED
      BY <1>1, <2>1, <3>2
  <2>3. CASE UNCHANGED spots /\ (UNCHANGED problems \/ \E slow \in BOOLEAN : problems' = GatherProblems(slow))
    BY <1>1, <2>1, <2>3 DEF GatherProblems
  <2>4. QED
    BY <1>6, <2>2, <2>3 DEF VerifySteps, Int8Evaluation, CheckBatchPath, CheckWsPath, WriteVerdict,
                            Return, verifyVars
<1>7. QED
  BY <1>2, <1>3, <1>4, <1>5, <1>6 DEF Next

\* The tools leave a known exit code, and name no problem or spot check but
\* those there are.
THEOREM TypeCorrect == Spec => []TypeOK
<1>1. Init => TypeOK
  BY InitIInv DEF Init, IInv, TypeOK, TrackInv, Pcs
<1>2. ASSUME IInv, TypeOK, [Next]_vars
      PROVE  TypeOK'
  <2>1. IInv'
    BY <1>2, StepIInv
  <2>2. CASE Next
    BY <1>2, <2>1, <2>2, RestTyped DEF IInv, TypeOK, TrackInv, Pcs
  <2>3. CASE UNCHANGED vars
    BY <1>2, <2>3 DEF vars, TypeOK, Training, Verifying
  <2>4. QED
    BY <1>2, <2>2, <2>3
<1>3. QED
  BY <1>1, <1>2, Inductive, PTL DEF Spec

\* Report and export that lie side by side are of one model unless a run was
\* stopped between the two.
THEOREM ReportMatchesExport == Spec => []PairedUnlessTorn
<1>1. IInv => PairedUnlessTorn
  BY DEF IInv, PairInv, PairedUnlessTorn
<1>2. QED
  BY <1>1, Inductive, PTL

\* Exit code 0 of a verification is about the model in the directory, and all
\* that was to be tried has worked.
THEOREM PassIsEarned == Spec => PassedServes
<1>1. ASSUME IInv, [Next]_vars
      PROVE  [exit' = 0 /\ pc \in Verifying => Promoted']_vars
  <2> SUFFICES ASSUME exit' = 0, pc \in Verifying, ~UNCHANGED vars PROVE Promoted'
    OBVIOUS
  <2>1. exit = Nothing /\ exit # 0
    BY <1>1 DEF IInv, SpotInv
  <2>2. Return
    BY <1>1, <2>1 DEF Next, Train, FailTraining, KillTraining, StartTraining, SaveReport, ClearExport,
                      ExportStays, Convert, EndTraining, Evaluate, Verify, VerifySteps, Int8Evaluation,
                      CheckBatchPath, CheckWsPath, WriteVerdict, Training, Verifying, verifyVars
  <2>3. /\ pc = "track" /\ problems = {} 
        /\ UNCHANGED <<setup, ct2, verdict, problems, spots>>
    BY <2>2 DEF Return, trainVars, verifyVars
  <2>4. verdict # Nothing /\ verdict.passed /\ verdict.run = ct2.run
    <3>1. ct2.run \in Nat
      BY <1>1, <2>3 DEF IInv, VerdictInv, Verifying
    <3>2. verdict = [run |-> ct2.run, passed |-> TRUE]
      BY <1>1, <2>3 DEF IInv, VerdictInv
    <3>3. verdict \in [run : Nat, passed : BOOLEAN]
      BY <3>1, <3>2
    <3>4. QED
      BY <3>2, <3>3
  <2>5. spots = {<<path, TRUE>> : path \in setup.spot}
    <3>1. setup.spot \subseteq {"batch", "ws"}
      BY <1>1 DEF IInv
    <3>2. /\ spots \subseteq setup.spot \X BOOLEAN
          /\ \A path \in setup.spot : <<path, TRUE>> \in spots /\ <<path, FALSE>> \notin spots
      BY <1>1, <2>3, <3>1 DEF IInv, SpotInv, Tried, Verifying
    <3>3. ASSUME NEW x \in spots PROVE x \in {<<path, TRUE>> : path \in setup.spot}
      <4>1. PICK p \in setup.spot, b \in BOOLEAN : x = <<p, b>>
        BY <3>2
      <4>2. b = TRUE
        BY <3>2, <4>1
      <4>3. QED
        BY <4>1, <4>2
    <3>4. QED
      BY <3>2, <3>3
  <2>6. QED
    BY <2>3, <2>4, <2>5 DEF Promoted
<1>2. QED
  BY <1>1, Inductive, PTL DEF Spec, PassedServes

\* A step of the training, the evaluation or the verification that ends in
\* "idle" ends the run as its exit code says.
LEMMA OutcomeKept ==
    ASSUME IInv, OutcomesAgree, Next
    PROVE  OutcomesAgree'
<1>0. setup.mlflow \in BOOLEAN /\ setup.legacy \in BOOLEAN
  BY DEF IInv
<1>1. CASE pc' # "idle"
  BY <1>1 DEF OutcomesAgree
<1>2. CASE EndTraining
  <2>1. PICK t \in Log(tracker) : tracker' \in End(t, "FINISHED", setup.legacy)
    BY <1>2 DEF EndTraining
  <2>2. Open(t)
    BY <1>2, <2>1, TrackedIsOpen, LogKeepsOpen DEF IInv, EndTraining, Training
  <2>3. tracker'.run # "FAILED" /\ (tracker'.run = "running" => tracker'.faulty)
    BY <1>0, <2>1, <2>2, EndCloses DEF Ends
  <2>4. QED
    BY <1>2, <2>3 DEF EndTraining, OutcomesAgree
<1>3. CASE FailTraining
  <2>1. /\ tracker'.run = "running" => tracker'.faulty
        /\ tracker'.run = "FINISHED" => setup.legacy
    BY <1>0, <1>3, TrackedIsOpen, EndCloses DEF IInv, FailTraining, Ends
  <2>2. QED
    BY <1>3, <2>1 DEF FailTraining, OutcomesAgree
<1>4. CASE KillTraining
  BY <1>4 DEF IInv, TrackInv, KillTraining, OutcomesAgree
<1>5. CASE Evaluate
  <2>1. CASE exit' = 1 /\ tracker' = Off
    BY <2>1 DEF OutcomesAgree, Off
  <2>2. CASE \E t \in Trackers(setup.mlflow) : \E s \in Start(t) : \E l \in Log(s) :
               tracker' \in End(l, IF exit' = 0 THEN "FINISHED" ELSE "FAILED", setup.legacy)
    <3>1. PICK t \in Trackers(setup.mlflow) : \E s \in Start(t) : \E l \in Log(s) :
            tracker' \in End(l, IF exit' = 0 THEN "FINISHED" ELSE "FAILED", setup.legacy)
      BY <2>2
    <3>2. PICK s \in Start(t) : \E l \in Log(s) :
            tracker' \in End(l, IF exit' = 0 THEN "FINISHED" ELSE "FAILED", setup.legacy)
      BY <3>1
    <3>3. PICK l \in Log(s) :
            tracker' \in End(l, IF exit' = 0 THEN "FINISHED" ELSE "FAILED", setup.legacy)
      BY <3>2
    <3>4. Open(l)
      BY <1>0, StartOpens, LogKeepsOpen
    <3>5. /\ tracker'.run = "running" => tracker'.faulty
          /\ tracker'.run = "FAILED" => exit' # 0
          /\ tracker'.run = "FINISHED" => setup.legacy \/ exit' = 0
      BY <1>0, <3>3, <3>4, EndCloses DEF Ends
    <3>6. exit' \in {0, 1} /\ UNCHANGED setup
      BY <1>5 DEF Evaluate
    <3>7. QED
      BY <3>5, <3>6 DEF OutcomesAgree
  <2>3. QED
    BY <1>5, <2>1, <2>2 DEF Evaluate
<1>6. CASE Verify
  BY <1>6 DEF Verify, OutcomesAgree, Off
<1>7. CASE Int8Evaluation \/ CheckBatchPath \/ CheckWsPath \/ WriteVerdict
  <2>1. CASE pc' = "idle"
    <3>1. tracker' = Off
      BY <1>7, <2>1 DEF IInv, TrackInv, Int8Evaluation, CheckBatchPath, CheckWsPath, WriteVerdict
    <3>2. QED
      BY <3>1 DEF OutcomesAgree, Off
  <2>2. QED
    BY <1>1, <2>1
<1>8. CASE Return
  <2>1. /\ tracker'.run = "running" => tracker'.faulty
        /\ tracker'.run = "FAILED" => problems # {}
        /\ tracker'.run = "FINISHED" => setup.legacy \/ problems = {}
    BY <1>0, <1>8, TrackedIsOpen, EndCloses DEF IInv, Return, Ends
  <2>2. QED
    BY <1>8, <2>1 DEF Return, trainVars, OutcomesAgree
<1>9. QED
  <2>1. CASE StartTraining \/ SaveReport \/ ClearExport \/ ExportStays \/ Convert
    BY <1>1, <2>1 DEF StartTraining, SaveReport, ClearExport, ExportStays, Convert
  <2>2. QED
    BY <1>2, <1>3, <1>4, <1>5, <1>6, <1>7, <1>8, <2>1 DEF Next, Train, VerifySteps

\* Exit code and tracked status never contradict each other.
THEOREM ExitMatchesStatus == Spec => []OutcomesAgree
<1>1. Init => OutcomesAgree
  BY DEF Init, OutcomesAgree, Off
<1>2. IInv /\ OutcomesAgree /\ [Next]_vars => OutcomesAgree'
  <2>1. ASSUME OutcomesAgree, UNCHANGED vars PROVE OutcomesAgree'
    BY <2>1 DEF OutcomesAgree, vars
  <2>2. QED
    BY <2>1, OutcomeKept
<1>3. QED
  BY <1>1, <1>2, Inductive, PTL DEF Spec

-----------------------------------------------------------------------------
(* Induction *)

\* In a finite set any set of subsets has a minimal element.
LEMMA Minimal ==
    ASSUME NEW D, IsFiniteSet(D), NEW F, F \subseteq SUBSET D, F # {}
    PROVE  \E m \in F : \A k \in F : k \subseteq m => k = m
<1>1. F \subseteq FiniteSubsetsOf(D)
  BY FS_FiniteSubsetsOfFinite
<1>2. PICK m \in F : \A k \in F : <<k, m>> \notin StrictSubsetOrdering(D)
  BY <1>1, FS_StrictSubsetOrderingWellFounded, WFMin
<1>3. QED
  BY <1>2 DEF StrictSubsetOrdering

\* Induction over a set, where a formula would be an operator's argument.
LEMMA NatSetInduction ==
    ASSUME NEW T, 0 \in T, \A n \in Nat : n \in T => n + 1 \in T
    PROVE  \A n \in Nat : n \in T
<1> SUFFICES ASSUME NEW n \in Nat, n \notin T
             PROVE  FALSE
  OBVIOUS
<1> DEFINE left == {k \in 0..n : k \notin T}
           initials == {0..k : k \in left}
<1>1. initials \subseteq SUBSET (0..n) /\ initials # {}
  OBVIOUS
<1>2. IsFiniteSet(0..n)
  BY FS_Interval
<1>3. PICK m \in initials : \A s \in initials : s \subseteq m => s = m
  <2> DEFINE D == 0..n
  <2>1. IsFiniteSet(D) /\ initials \subseteq SUBSET D /\ initials # {}
    BY <1>1, <1>2
  <2> HIDE DEF initials, D
  <2>2. QED
    BY <2>1, Minimal
<1>4. PICK k \in left : m = 0..k
  BY <1>3
<1>5. k \in Nat /\ k # 0 /\ k \notin T
  <2>1. k \in left
    BY <1>4
  <2>2. k \in 0..n /\ k \notin T
    BY <2>1
  <2>3. QED
    BY <2>2
<1>6. k - 1 \in left
  BY <1>5
<1>7. 0..(k - 1) \in initials
  BY <1>6
<1>8. k \in 0..k /\ k \notin 0..(k - 1) /\ 0..(k - 1) \subseteq 0..k
  BY <1>5
<1>9. QED
  BY <1>3, <1>4, <1>7, <1>8

-----------------------------------------------------------------------------
(* Sums *)

Chosen(s) == CHOOSE x \in s : TRUE

\* The sums of w over the subsets of D.
SumStep(g, w, s) == IF s = {} THEN 0 ELSE w[Chosen(s)] + g[s \ {Chosen(s)}]
Sums(g, w, D) == g = [s \in SUBSET D |-> SumStep(g, w, s)]

\* The recursion of MapThenSumSet has a solution: one that is right for sets of n
\* elements gives one for sets of n + 1.
LEMMA SumsExist ==
    ASSUME NEW w, NEW D, IsFiniteSet(D)
    PROVE  \E g : Sums(g, w, D)
<1> DEFINE Upto(g, n) == \A s \in SUBSET D : Cardinality(s) <= n => g[s] = SumStep(g, w, s)
           reach == {n \in Nat : \E g : Upto(g, n)}
<1>1. \A s \in SUBSET D : IsFiniteSet(s) /\ Cardinality(s) \in Nat /\ Cardinality(s) <= Cardinality(D)
  BY FS_Subset, FS_CardinalityType
<1>2. 0 \in reach
  <2> DEFINE g == [s \in SUBSET D |-> 0]
  <2>1. \A s \in SUBSET D : Cardinality(s) <= 0 => s = {}
    BY <1>1, FS_EmptySet
  <2>2. Upto(g, 0)
    BY <2>1 DEF SumStep
  <2>3. QED
    BY <2>2
<1>3. ASSUME NEW n \in Nat, n \in reach
      PROVE  n + 1 \in reach
  <2>1. PICK g : Upto(g, n)
    BY <1>3
  <2> DEFINE h == [s \in SUBSET D |-> SumStep(g, w, s)]
  <2>2. ASSUME NEW s \in SUBSET D, Cardinality(s) <= n + 1
        PROVE  h[s] = SumStep(h, w, s)
    <3>1. CASE s = {}
      BY <3>1 DEF SumStep
    <3>2. CASE s # {}
      <4> DEFINE r == s \ {Chosen(s)}
      <4>1. Chosen(s) \in s
        BY <3>2 DEF Chosen
      <4>2. r \in SUBSET D /\ Cardinality(r) = Cardinality(s) - 1
        BY <1>1, <4>1, FS_RemoveElement
      <4>3. h[r] = g[r]
        BY <1>1, <2>1, <2>2, <4>2
      <4>4. QED
        BY <3>2, <4>3 DEF SumStep
    <3>3. QED
      BY <3>1, <3>2
  <2> HIDE DEF h
  <2>3. QED
    BY <2>2
<1> HIDE DEF reach
<1>4. \A n \in Nat : n \in reach
  BY <1>2, <1>3, NatSetInduction
<1>5. Cardinality(D) \in reach
  BY <1>1, <1>4
<1>6. PICK g : \A s \in SUBSET D : g[s] = SumStep(g, w, s)
  BY <1>1, <1>5 DEF reach
<1> DEFINE f == [s \in SUBSET D |-> g[s]]
<1>7. \A s \in SUBSET D : SumStep(f, w, s) = SumStep(g, w, s)
  <2> SUFFICES ASSUME NEW s \in SUBSET D PROVE SumStep(f, w, s) = SumStep(g, w, s)
    OBVIOUS
  <2>1. s \ {Chosen(s)} \in SUBSET D
    OBVIOUS
  <2>2. f[s \ {Chosen(s)}] = g[s \ {Chosen(s)}]
    BY <2>1
  <2> HIDE DEF f
  <2>3. QED
    BY <2>2 DEF SumStep
<1>8. Sums(f, w, D)
  BY <1>6, <1>7 DEF Sums
<1>9. QED
  BY <1>8

Total(w, D) == MapThenSumSet(LAMBDA u : w[u], D)

LEMMA TotalIs ==
    ASSUME NEW w, NEW D, IsFiniteSet(D)
    PROVE  \E g : Sums(g, w, D) /\ Total(w, D) = g[D]
<1>1. Total(w, D) = (CHOOSE g : Sums(g, w, D))[D]
  BY DEF Total, MapThenSumSet, MapThenFoldSet, Sums, SumStep, Chosen
<1>2. QED
  BY <1>1, SumsExist

\* Totals over one set compare as their terms do.
LEMMA TotalsCompare ==
    ASSUME NEW D, IsFiniteSet(D), NEW v \in [D -> Nat], NEW w \in [D -> Nat], NEW b \in Nat
    PROVE  /\ Total(v, D) \in Nat /\ Total(w, D) \in Nat
           /\ (\A u \in D : v[u] - w[u] <= b) =>
                 Total(v, D) - Total(w, D) <= b * Cardinality(D)
           /\ D # {} /\ (\A u \in D : v[u] - w[u] > b) =>
                 Total(v, D) - Total(w, D) > b * Cardinality(D)
<1>1. PICK g : Sums(g, v, D) /\ Total(v, D) = g[D]
  BY TotalIs
<1>2. PICK h : Sums(h, w, D) /\ Total(w, D) = h[D]
  BY TotalIs
<1>3. /\ \A s \in SUBSET D : g[s] = SumStep(g, v, s)
      /\ \A s \in SUBSET D : h[s] = SumStep(h, w, s)
  BY <1>1, <1>2 DEF Sums
<1> DEFINE Good(s) ==
             /\ g[s] \in Nat /\ h[s] \in Nat
             /\ (\A u \in D : v[u] - w[u] <= b) => g[s] - h[s] <= b * Cardinality(s)
             /\ s # {} /\ (\A u \in D : v[u] - w[u] > b) => g[s] - h[s] > b * Cardinality(s)
           bad == {s \in SUBSET D : ~Good(s)}
<1>4. SUFFICES ASSUME bad # {}
               PROVE  FALSE
  BY <1>1, <1>2
<1>5. PICK s \in bad : \A t \in bad : t \subseteq s => t = s
  <2>1. bad \subseteq SUBSET D
    OBVIOUS
  <2> HIDE DEF bad
  <2>2. QED
    BY <1>4, <2>1, Minimal
<1> DEFINE x == Chosen(s)
           r == s \ {Chosen(s)}
<1>6. s \in SUBSET D /\ ~Good(s)
  BY <1>5
<1>7. s # {}
  <2>1. SUFFICES ASSUME s = {} PROVE Good(s)
    BY <1>6
  <2>2. g[s] = 0 /\ h[s] = 0 /\ Cardinality(s) = 0
    BY <1>3, <1>6, <2>1, FS_EmptySet DEF SumStep
  <2>3. QED
    BY <2>1, <2>2
<1>8. x \in s /\ x \in D /\ r \in SUBSET D /\ r # s
  BY <1>6, <1>7 DEF Chosen
<1>9. Good(r)
  BY <1>5, <1>8
<1>10. g[s] = v[x] + g[r] /\ h[s] = w[x] + h[r]
  BY <1>3, <1>6, <1>7 DEF SumStep
<1>11. Cardinality(s) = Cardinality(r) + 1 /\ Cardinality(r) \in Nat
       /\ (r = {} => g[r] = 0 /\ h[r] = 0 /\ Cardinality(r) = 0)
  <2>1. IsFiniteSet(s) /\ IsFiniteSet(r)
    BY <1>6, <1>8, FS_Subset
  <2>2. Cardinality(r) = Cardinality(s) - 1 /\ Cardinality(r) \in Nat /\ Cardinality(s) \in Nat
    BY <1>8, <2>1, FS_RemoveElement, FS_CardinalityType
  <2>3. r = {} => g[r] = 0 /\ h[r] = 0 /\ Cardinality(r) = 0
    BY <1>3, <1>8, FS_EmptySet DEF SumStep
  <2>4. QED
    BY <2>2, <2>3
<1>12. v[x] \in Nat /\ w[x] \in Nat
  BY <1>8
<1> DEFINE c == Cardinality(r)
<1>13. b * Cardinality(s) = b * c + b /\ b * c \in Nat
  BY <1>11
<1>14. ASSUME \A u \in D : v[u] - w[u] <= b
       PROVE  g[s] - h[s] <= b * Cardinality(s)
  <2>1. v[x] - w[x] <= b /\ g[r] - h[r] <= b * c /\ g[r] \in Nat /\ h[r] \in Nat
    BY <1>8, <1>9, <1>14
  <2> HIDE DEF x, r, c
  <2>2. QED
    BY <1>10, <1>12, <1>13, <2>1
<1>15. ASSUME \A u \in D : v[u] - w[u] > b
       PROVE  g[s] - h[s] > b * Cardinality(s)
  <2>1. v[x] - w[x] > b /\ g[r] \in Nat /\ h[r] \in Nat /\ g[r] - h[r] >= b * c
    <3>1. v[x] - w[x] > b
      BY <1>8, <1>15
    <3>2. r # {} => g[r] - h[r] > b * c
      BY <1>9, <1>15
    <3>3. r = {} => g[r] - h[r] = 0 /\ b * c = 0
      BY <1>11
    <3>4. g[r] \in Nat /\ h[r] \in Nat /\ c \in Nat
      BY <1>9, <1>11
    <3> HIDE DEF x, r, c
    <3>5. QED
      BY <1>13, <3>1, <3>2, <3>3, <3>4
  <2> HIDE DEF x, r, c
  <2>2. QED
    BY <1>10, <1>12, <1>13, <2>1
<1>16. g[s] \in Nat /\ h[s] \in Nat
  BY <1>9, <1>10, <1>12
<1>17. QED
  BY <1>6, <1>14, <1>15, <1>16

-----------------------------------------------------------------------------
(* The gap *)

Gated == {"batch", "ws", "report", "track"}

\* The word error rates on the disk are of the utterances they are to be of.
RatesInv ==
    /\ pc \in Training =>
         model.fp32 \in [setup.valid -> Wers] /\ model.int8 \in [Utterances -> Wers]
    /\ report # Nothing => report.wer \in [setup.valid -> Wers]
    /\ ct2 # Nothing => ct2.int8 \in [Utterances -> Wers]
    /\ pc \in Verifying => report # Nothing

\* The gap is among the problems just when the rates on the disk have it.
GapInv ==
    pc \in Gated =>
        ("gap" \in problems <=> AboveBy(Mean(Measured), Mean(report.wer), MaxWerGap))

LEMMA StepRates == IInv /\ RatesInv /\ [Next]_vars => RatesInv'
<1> SUFFICES ASSUME IInv, RatesInv, [Next]_vars
             PROVE  RatesInv'
  OBVIOUS
<1>1. CASE UNCHANGED vars
  BY <1>1 DEF vars, RatesInv, Training, Verifying
<1>2. CASE StartTraining
  <2>1. PICK fp32 \in [setup.valid -> Wers], int8 \in [Utterances -> Wers] :
            model' = [run |-> run', fp32 |-> fp32, int8 |-> int8]
    BY <1>2 DEF StartTraining
  <2>2. /\ pc' = "trained" /\ UNCHANGED <<setup, report, ct2>>
    BY <1>2 DEF StartTraining
  <2>3. QED
    BY <2>1, <2>2 DEF RatesInv, Training, Verifying
<1>3. CASE SaveReport \/ ClearExport \/ ExportStays \/ Convert
  BY <1>3 DEF SaveReport, ClearExport, ExportStays, trainVars, Convert, RatesInv, Training, Verifying
<1>4. CASE EndTraining \/ FailTraining \/ KillTraining \/ Evaluate
  BY <1>4 DEF EndTraining, FailTraining, KillTraining, Evaluate, trainVars, RatesInv, Training,
              Verifying
<1>5. CASE Verify \/ VerifySteps
  <2>1. /\ UNCHANGED <<setup, report, ct2>>
        /\ pc' \in Verifying => report # Nothing
        /\ pc' \notin Training
    BY <1>5 DEF Verify, VerifySteps, Int8Evaluation, CheckBatchPath, CheckWsPath, WriteVerdict,
                Return, trainVars, RatesInv, Training, Verifying
  <2>2. QED
    BY <2>1 DEF RatesInv
<1>6. QED
  BY <1>1, <1>2, <1>3, <1>4, <1>5 DEF Next, Train

LEMMA StepGap == IInv /\ GapInv /\ [Next]_vars => GapInv'
<1> SUFFICES ASSUME IInv, GapInv, [Next]_vars, pc' \in Gated
             PROVE  ("gap" \in problems <=> AboveBy(Mean(Measured), Mean(report.wer), MaxWerGap))'
  BY DEF GapInv
<1> DEFINE gap == AboveBy(Mean(Measured), Mean(report.wer), MaxWerGap)
<1>1. UNCHANGED <<setup, report, ct2>> => gap' = gap
  BY DEF AboveBy, Mean, Measured, MapThenSumSet, MapThenFoldSet
<1>2. CASE UNCHANGED vars \/ Evaluate
  <2>1. UNCHANGED <<setup, pc, report, ct2, problems>>
    BY <1>2 DEF vars, Evaluate, trainVars, verifyVars
  <2> HIDE DEF gap
  <2>2. QED
    BY <1>1, <2>1 DEF GapInv, gap
<1>3. CASE Train \/ FailTraining \/ KillTraining \/ Verify
  BY <1>3 DEF Train, StartTraining, SaveReport, ClearExport, ExportStays, Convert, EndTraining, FailTraining,
              KillTraining, Verify, Gated, IInv, Pcs, Training, Verifying
<1>4. CASE Int8Evaluation
  <2>1. /\ \E slow \in BOOLEAN : problems' = GatherProblems(slow)
        /\ UNCHANGED <<setup, report, ct2>>
    BY <1>4 DEF Int8Evaluation, Gated, trainVars
  <2>2. "gap" \in problems' <=> gap
    <3> HIDE DEF gap
    <3>1. PICK slow \in BOOLEAN : problems' = GatherProblems(slow)
      BY <2>1
    <3>2. GatherProblems(slow) = (IF gap THEN {"gap"} ELSE {})
             \cup (IF Above(Mean(Measured), MaxWerAbs) THEN {"wer"} ELSE {})
             \cup (IF slow THEN {"rtf"} ELSE {})
      BY DEF GatherProblems, gap
    <3>3. QED
      BY <3>1, <3>2
  <2> HIDE DEF gap
  <2>3. QED
    BY <1>1, <2>1, <2>2 DEF gap
<1>5. CASE CheckBatchPath \/ CheckWsPath \/ WriteVerdict \/ Return
  <2>1. /\ "gap" \in problems' <=> "gap" \in problems
        /\ pc \in Gated /\ UNCHANGED <<setup, report, ct2>>
    <3>1. ASSUME NEW path \in {"batch", "ws"}, SpotCheck(path)
          PROVE  "gap" \in problems' <=> "gap" \in problems
      <4>1. \/ UNCHANGED problems
            \/ \E ok \in BOOLEAN : problems' = IF ok THEN problems ELSE problems \cup {path}
        BY <3>1 DEF SpotCheck
      <4>2. QED
        BY <4>1
    <3>2. CASE CheckBatchPath \/ CheckWsPath
      BY <3>1, <3>2 DEF CheckBatchPath, CheckWsPath, Gated, trainVars
    <3>3. CASE WriteVerdict \/ Return
      BY <3>3 DEF WriteVerdict, Return, Gated, trainVars, verifyVars
    <3>4. QED
      BY <1>5, <3>2, <3>3
  <2> HIDE DEF gap
  <2>2. QED
    BY <1>1, <2>1 DEF GapInv, gap
<1>6. QED
  BY <1>2, <1>3, <1>4, <1>5 DEF Next, VerifySteps

LEMMA ProductsOf ==
    ASSUME NEW a \in Nat, NEW b \in Nat, NEW bar \in Nat, NEW n \in Nat \ {0}
    PROVE  a * n - b * n > bar * n * n <=> a - b > bar * n
<1> DEFINE d == a - b
           e == bar * n
<1>1. d \in Int /\ e \in Int /\ a * n - b * n = d * n /\ bar * n * n = e * n
  OBVIOUS
<1> HIDE DEF d, e
<1>2. d * n > e * n <=> d > e
  BY <1>1
<1>3. QED
  BY <1>1, <1>2 DEF d, e

\* A mean gap above the bar is that of some utterance, and utterances that all
\* are worse by more than the bar make one.
LEMMA GapOfMeans ==
    ASSUME NEW D, IsFiniteSet(D), D # {}, NEW v \in [D -> Nat], NEW w \in [D -> Nat],
           NEW bar \in Nat
    PROVE  /\ AboveBy(Mean(v), Mean(w), bar) => \E u \in D : v[u] - w[u] > bar
           /\ (\A u \in D : v[u] - w[u] > bar) => AboveBy(Mean(v), Mean(w), bar)
<1> DEFINE n == Cardinality(D)
<1>1. /\ Mean(v).sum = Total(v, D) /\ Mean(v).n = n
      /\ Mean(w).sum = Total(w, D) /\ Mean(w).n = n
  BY DEF Mean, Total
<1>2. n \in Nat \ {0}
  BY FS_CardinalityType, FS_EmptySet
<1>3. Total(v, D) \in Nat /\ Total(w, D) \in Nat
  BY TotalsCompare
<1>4. AboveBy(Mean(v), Mean(w), bar) <=> Total(v, D) - Total(w, D) > bar * n
  <2> DEFINE a == Total(v, D)
             b == Total(w, D)
  <2>1. AboveBy(Mean(v), Mean(w), bar) <=> a * n - b * n > bar * n * n
    BY <1>1 DEF AboveBy
  <2> HIDE DEF a, b, n
  <2>2. QED
    BY <1>2, <1>3, <2>1, ProductsOf DEF a, b
<1> DEFINE gap == Total(v, D) - Total(w, D)
<1>5. (\A u \in D : v[u] - w[u] <= bar) => gap <= bar * n
  BY TotalsCompare
<1>6. (\A u \in D : v[u] - w[u] > bar) => gap > bar * n
  BY TotalsCompare
<1>7. gap \in Int /\ bar * n \in Int /\ \A u \in D : v[u] - w[u] \in Int
  BY <1>2, <1>3
<1> HIDE DEF gap, n
<1>8. QED
  BY <1>4, <1>5, <1>6, <1>7 DEF gap

\* A quantization gap that the verification reports is that of some utterance,
\* and where every utterance is worse by more than the bar one is reported.
THEOREM GapIsReal == Spec => []GapMeansRegression
<1>1. Init => RatesInv /\ GapInv
  BY DEF Init, RatesInv, GapInv, Gated, Training, Verifying
<1>2. IInv /\ RatesInv /\ GapInv => GapMeansRegression
  <2> SUFFICES ASSUME IInv, RatesInv, GapInv, pc \in Gated,
                      setup.valid = setup.eval, setup.eval # {}
               PROVE  /\ "gap" \in problems => \E u \in setup.eval : Regressions[u] > MaxWerGap
                      /\ (\A u \in setup.eval : Regressions[u] > MaxWerGap) => "gap" \in problems
    BY DEF GapMeansRegression, Gated
  <2> DEFINE D == setup.eval
             v == Measured
             w == report.wer
  <2>1. D \subseteq Utterances /\ IsFiniteSet(D) /\ MaxWerGap \in Nat /\ Wers \subseteq Nat
    BY UtterancesAssumption, FS_Subset DEF IInv
  <2>2. w \in [D -> Wers] /\ ct2.int8 \in [Utterances -> Wers]
    BY DEF RatesInv, IInv, VerdictInv, Gated, Verifying
  <2>3. v \in [D -> Nat] /\ w \in [D -> Nat] /\ \A u \in D : Regressions[u] = v[u] - w[u]
    BY <2>1, <2>2 DEF Measured, Regressions
  <2>4. "gap" \in problems <=> AboveBy(Mean(v), Mean(w), MaxWerGap)
    BY DEF GapInv
  <2> HIDE DEF v, w, D
  <2>5. QED
    BY <2>1, <2>3, <2>4, GapOfMeans DEF D
<1>3. QED
  BY <1>1, <1>2, StepRates, StepGap, Inductive, PTL DEF Spec
=============================================================================

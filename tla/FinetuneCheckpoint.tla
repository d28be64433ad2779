------------------------- MODULE FinetuneCheckpoint -------------------------
(***************************************************************************)
(* The training loop of speechai-finetune (_run in finetune/train.py), its *)
(* checkpoint latest.pt, its early stopping and best.pt, and the user who  *)
(* reruns the same command, with --resume-from once there is a checkpoint, *)
(* whenever the process has died.                                          *)
(*                                                                         *)
(* The weights are abstracted to what went into them: trained[e] is the    *)
(* number of batches of epoch e that were trained on; the gradients of     *)
(* applied batches are in the weights and those of pending ones in .grad.  *)
(* A word error rate is a whole number of the 1/10000 that reports are     *)
(* rounded to.  latest.pt is written beside itself and renamed, so a crash *)
(* leaves the old one or the new one; best.pt is written in place.         *)
(*                                                                         *)
(* pc: "off" no process; "start" up to the checkpoint before the loop;     *)
(* "batch" in the loop over batches; "epochEnd" after it; "probe" the      *)
(* held-out WER; "best" and "writing" saving best.pt; "restore" loading    *)
(* it; "final" after the loop; "done"; "failed" main returned 1.           *)
(***************************************************************************)
EXTENDS Integers, Sequences

CONSTANTS
    Epochs,      \* config.epochs
    Batches,     \* len(dataloader)
    Wers,        \* the word error rates a probe may find
    Settings,    \* the flags a run may be given
    NoWer, Torn, NoCheckpoint,
    MaxResumes   \* bound: times the user resumes; one more crash is allowed

ASSUME LoopAssumption == Epochs \in Nat \ {0} /\ Batches \in Nat \ {0}
ASSUME WerAssumption == Wers \subseteq Nat /\ NoWer \notin Wers /\ Torn \notin Wers
ASSUME ResumesAssumption == MaxResumes \in Nat
ASSUME SettingsAssumption ==
    Settings \subseteq [accum : Nat \ {0}, saveEvery : Nat, maxSteps : Nat,
                        patience : Nat, minDelta : Nat, evalEvery : Nat \ {0}]

VARIABLES
    flags,                        \* the command line, the same on every run
    latest, bestFile,             \* the disk: latest.pt and best.pt
    pc, epoch, batch, step,       \* the process: global_step is step
    updates, trained,             \* optimizer and scheduler steps; the weights
    applied, pending,             \* batches in the weights, and in .grad
    best, stall, bestPath,        \* best_val_wer, stall_count, best_state_path set
    restored,                     \* WER of the model restored from best.pt
    resumes, crashes, probed, recent  \* history: probed ever, and by this process

disk == <<latest, bestFile>>
weights == <<step, updates, trained, applied, pending>>
stopVars == <<best, stall, bestPath, restored>>
historyVars == <<resumes, crashes, probed, recent>>
vars == <<flags, disk, pc, epoch, batch, weights, stopVars, historyVars>>

Pcs == {"off", "start", "batch", "epochEnd", "probe", "best", "writing",
        "restore", "final", "done", "failed"}

Trained == [1..Epochs -> Nat]
Checkpoint == [next : 1..(Epochs + 1), step : Nat, updates : Nat,
               best : Wers \cup {NoWer}, trained : Trained, applied : Nat]

ASSUME CheckpointAssumption == NoCheckpoint \notin Checkpoint

TypeOK ==
    /\ flags \in Settings
    /\ latest \in Checkpoint \cup {NoCheckpoint}
    /\ bestFile \in Wers \cup {NoWer, Torn}
    /\ pc \in Pcs
    /\ epoch \in 1..(Epochs + 1) /\ batch \in 0..Batches
    /\ step \in Nat /\ updates \in Nat /\ trained \in Trained
    /\ applied \in Nat /\ pending \in Nat
    /\ best \in Wers \cup {NoWer} /\ stall \in Nat /\ bestPath \in BOOLEAN
    /\ restored \in Wers \cup {NoWer}
    /\ resumes \in 0..MaxResumes /\ crashes \in Nat
    /\ probed \subseteq Wers
    /\ recent \in Seq([wer : Wers, before : Wers \cup {NoWer}])

Init ==
    /\ flags \in Settings
    /\ latest = NoCheckpoint /\ bestFile = NoWer
    /\ pc = "start" /\ epoch = 1 /\ batch = 0
    /\ step = 0 /\ updates = 0 /\ trained = [e \in 1..Epochs |-> 0]
    /\ applied = 0 /\ pending = 0
    /\ best = NoWer /\ stall = 0 /\ bestPath = FALSE /\ restored = NoWer
    /\ resumes = 0 /\ crashes = 0 /\ probed = {} /\ recent = <<>>

-----------------------------------------------------------------------------
(* Checkpoints *)

\* What _save_checkpoint is given at the end of a step: the state after it.
Snapshot(next) ==
    [next |-> next, step |-> step', updates |-> updates', best |-> best,
     trained |-> trained', applied |-> applied']

SaveBaseline ==
    /\ pc = "start"
    /\ UNCHANGED weights
    /\ latest' = Snapshot(1)
    /\ pc' = "batch"
    /\ UNCHANGED <<flags, bestFile, epoch, batch, stopVars, historyVars>>

\* The model, the optimizer, the scheduler, the counters and the best WER come
\* from the checkpoint.  The count of stalls does not, nor do gradients that no
\* update has used: both start anew.
LoadCheckpoint ==
    /\ epoch' = latest.next /\ batch' = 0
    /\ step' = latest.step /\ updates' = latest.updates
    /\ trained' = latest.trained /\ applied' = latest.applied /\ pending' = 0
    /\ best' = latest.best
    /\ stall' = 0
    /\ bestPath' = (flags.patience > 0 /\ latest.best # NoWer)
    /\ restored' = NoWer
    /\ recent' = <<>>

Resume ==
    /\ pc \in {"off", "failed"}
    /\ latest # NoCheckpoint
    /\ resumes < MaxResumes
    /\ resumes' = resumes + 1
    /\ LoadCheckpoint
    /\ pc' = IF epoch' > Epochs THEN "final" ELSE "batch"
    /\ UNCHANGED <<flags, disk, crashes, probed>>

\* A process that has resumed from nothing.
BeginAnew ==
    /\ epoch' = 1 /\ batch' = 0
    /\ step' = 0 /\ updates' = 0 /\ trained' = [e \in 1..Epochs |-> 0]
    /\ applied' = 0 /\ pending' = 0
    /\ best' = NoWer /\ stall' = 0 /\ bestPath' = FALSE /\ restored' = NoWer
    /\ recent' = <<>>

\* Killed before there was a checkpoint: the command is run as it was.
StartAgain ==
    /\ pc = "off"
    /\ latest = NoCheckpoint
    /\ pc' = "start" /\ BeginAnew
    /\ UNCHANGED <<flags, disk, resumes, crashes, probed>>

-----------------------------------------------------------------------------
(* The training loop *)

Larger(a, b) == IF a >= b THEN a ELSE b

\* Mutant: the length of one epoch.
PlannedOnce ==
    IF flags.maxSteps > 0 THEN flags.maxSteps ELSE Larger(Batches \div flags.accum, 1)

\* The updates after which the learning rate is zero.  max_steps counts batches.
Planned ==
    IF flags.maxSteps > 0 THEN flags.maxSteps
    ELSE Larger(Batches \div flags.accum, 1) * Epochs

Reached == flags.maxSteps > 0 /\ step' >= flags.maxSteps

\* Mutant: the gradients are not reset.
AccumulateOn ==
    IF step' % flags.accum = 0
    THEN updates' = updates + 1 /\ applied' = applied + pending + 1 /\ pending' = pending + 1
    ELSE pending' = pending + 1 /\ UNCHANGED <<updates, applied>>

\* The optimizer and the scheduler take a step on every accum-th batch, wherever
\* epochs begin.
Accumulate ==
    IF step' % flags.accum = 0
    THEN updates' = updates + 1 /\ applied' = applied + pending + 1 /\ pending' = 0
    ELSE pending' = pending + 1 /\ UNCHANGED <<updates, applied>>

\* Mutant: it names the next epoch.
SaveNext ==
    latest' = IF flags.saveEvery > 0 /\ step' % flags.saveEvery = 0
              THEN Snapshot(epoch + 1) ELSE latest

\* Mutant: batches are counted from the start of the epoch.
SaveByEpoch ==
    latest' = IF flags.saveEvery > 0 /\ batch' % flags.saveEvery = 0
              THEN Snapshot(epoch) ELSE latest

\* A checkpoint in the middle of an epoch makes a resumed run start it over.
Save ==
    latest' = IF flags.saveEvery > 0 /\ step' % flags.saveEvery = 0
              THEN Snapshot(epoch) ELSE latest

\* global_step counts the batches.
TrainBatch ==
    /\ pc = "batch"
    /\ batch' = batch + 1
    /\ step' = step + 1
    /\ Accumulate
    /\ trained' = [trained EXCEPT ![epoch] = @ + 1]
    /\ Save
    /\ pc' = IF Reached \/ batch' = Batches THEN "epochEnd" ELSE "batch"
    /\ UNCHANGED <<flags, bestFile, epoch, stopVars, historyVars>>

NextEpoch ==
    /\ epoch' = epoch + 1
    /\ batch' = 0
    /\ pc' = IF epoch = Epochs THEN "final" ELSE "batch"

\* The checkpoint of an epoch comes before its probe.
EndEpoch ==
    /\ pc = "epochEnd"
    /\ UNCHANGED weights
    /\ latest' = IF flags.saveEvery = 0 THEN Snapshot(epoch + 1) ELSE latest
    /\ \/ /\ Reached
          /\ pc' = "final" /\ UNCHANGED <<epoch, batch>>
       \/ /\ ~Reached /\ flags.patience > 0 /\ epoch % flags.evalEvery = 0
          /\ pc' = "probe" /\ UNCHANGED <<epoch, batch>>
       \/ /\ ~Reached /\ ~(flags.patience > 0 /\ epoch % flags.evalEvery = 0)
          /\ NextEpoch
    /\ UNCHANGED <<flags, bestFile, stopVars, historyVars>>

-----------------------------------------------------------------------------
(* Early stopping *)

Improves(wer) == best # NoWer => wer <= best - flags.minDelta

\* Mutant: an improvement does not reset the count.
ProbeKeepsStall ==
    /\ pc = "probe"
    /\ \E wer \in Wers :
         /\ probed' = probed \cup {wer}
         /\ recent' = Append(recent, [wer |-> wer, before |-> best])
         /\ \/ /\ Improves(wer)
               /\ best' = wer /\ UNCHANGED stall
               /\ pc' = "best" /\ UNCHANGED <<epoch, batch>>
            \/ /\ ~Improves(wer)
               /\ stall' = stall + 1 /\ UNCHANGED best
               /\ IF stall' >= flags.patience
                  THEN pc' = "restore" /\ UNCHANGED <<epoch, batch>>
                  ELSE NextEpoch
    /\ UNCHANGED <<flags, disk, weights, bestPath, restored, resumes, crashes>>

Probe ==
    /\ pc = "probe"
    /\ \E wer \in Wers :
         /\ probed' = probed \cup {wer}
         /\ recent' = Append(recent, [wer |-> wer, before |-> best])
         /\ \/ /\ Improves(wer)
               /\ best' = wer /\ stall' = 0
               /\ pc' = "best" /\ UNCHANGED <<epoch, batch>>
            \/ /\ ~Improves(wer)
               /\ stall' = stall + 1 /\ UNCHANGED best
               /\ IF stall' >= flags.patience
                  THEN pc' = "restore" /\ UNCHANGED <<epoch, batch>>
                  ELSE NextEpoch
    /\ UNCHANGED <<flags, disk, weights, bestPath, restored, resumes, crashes>>

OpenBest ==
    /\ pc = "best"
    /\ bestPath' = TRUE
    /\ bestFile' = Torn
    /\ pc' = "writing"
    /\ UNCHANGED <<flags, latest, epoch, batch, weights, best, stall, restored,
                   historyVars>>

CloseBest ==
    /\ pc = "writing"
    /\ bestFile' = best
    /\ NextEpoch
    /\ UNCHANGED <<flags, latest, weights, stopVars, historyVars>>

\* torch.load of a torn or missing file raises, and main returns 1.
Restore ==
    /\ pc = "restore"
    /\ \/ bestPath /\ bestFile \in Wers /\ restored' = bestFile /\ pc' = "final"
       \/ bestPath /\ bestFile \notin Wers /\ pc' = "failed" /\ UNCHANGED restored
       \/ ~bestPath /\ pc' = "final" /\ UNCHANGED restored
    /\ UNCHANGED <<flags, disk, epoch, batch, weights, best, stall, bestPath,
                   historyVars>>

\* The last probe, the adapter and the export of the model in hand.
Export ==
    /\ pc = "final"
    /\ pc' = "done"
    /\ UNCHANGED <<flags, disk, epoch, batch, weights, stopVars, historyVars>>

Alive == pc \notin {"off", "done", "failed"}

\* All but the disk is lost.
Crash ==
    /\ Alive
    /\ crashes <= MaxResumes
    /\ crashes' = crashes + 1
    /\ pc' = "off" /\ BeginAnew
    /\ UNCHANGED <<flags, disk, resumes, probed>>

-----------------------------------------------------------------------------
Process ==
    \/ SaveBaseline \/ TrainBatch \/ EndEpoch
    \/ Probe \/ OpenBest \/ CloseBest \/ Restore \/ Export

Next == Process \/ Crash \/ Resume \/ StartAgain

Spec == Init /\ [][Next]_vars

-----------------------------------------------------------------------------
StoppedEarly == pc \in {"final", "done"} /\ restored # NoWer
CutShort == flags.maxSteps > 0 /\ step >= flags.maxSteps

\* A model that was trained to the last epoch has seen every batch of every
\* epoch, whatever crashes there were: exactly once when checkpoints are saved
\* at the end of epochs, at least once when a resumed epoch starts over.
NoEpochSkipped ==
    pc \in {"final", "done"} /\ ~StoppedEarly /\ ~CutShort =>
        \A e \in 1..Epochs :
            IF flags.saveEvery = 0 THEN trained[e] = Batches
                                   ELSE trained[e] >= Batches

\* The learning rate reaches zero before training ends by less than one update
\* for each epoch, although updates run on across epochs; resuming in the middle
\* of epochs adds at most the updates of an epoch each.
ScheduleSuffices ==
    updates - Planned <=
        IF flags.maxSteps > 0 THEN resumes
        ELSE Epochs - 1 + (IF flags.saveEvery > 0
                           THEN resumes * (Batches \div flags.accum + 1) ELSE 0)

\* Every batch that was trained on is in the weights or waits for the next update,
\* once; a resume loses those that waited when the checkpoint was saved, fewer
\* than grad_accum_steps, and nothing else does.
GradientsKept ==
    step - applied - pending \in 0..(resumes * (flags.accum - 1))

\* A crash costs at most the batches of one save interval.
LostWorkBounded ==
    Alive /\ pc # "start" => step - latest.step <= IF flags.saveEvery > 0 THEN flags.saveEvery
                                      ELSE Batches

\* Training is stopped only after patience probes in a row, by this process,
\* none of which bettered the best before it by min_delta: a resume may put
\* the stop off and never brings it forward.
EarlyStopEarned ==
    pc = "restore" =>
        /\ Len(recent) >= flags.patience
        /\ \A i \in 1..Len(recent) :
             i > Len(recent) - flags.patience =>
                 recent[i].before # NoWer /\ recent[i].wer > recent[i].before - flags.minDelta

\* HOW_TO_FINETUNE_FOR_BANKING.md:601, the run stops and "restores the best
\* model", "the best seen so far".  The checkpoint of an epoch holds the best
\* WER from before the probe of that epoch, so a crash forgets the best.
EarlyStopRestoresBest ==
    /\ pc # "failed"
    /\ StoppedEarly => \A w \in probed : restored <= w + flags.minDelta
=============================================================================

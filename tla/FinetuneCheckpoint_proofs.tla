--------------------- MODULE FinetuneCheckpoint_proofs ---------------------
(***************************************************************************)
(* What a fine-tuning run keeps across crashes and resumes, for any number *)
(* of epochs, batches and resumes and for any flags: IInv for the epochs,  *)
(* the gradients and what a crash costs; on top of it StallInv for early   *)
(* stopping and ScheduleInv, which counts updates and batches, for the     *)
(* learning rate.                                                          *)
(***************************************************************************)
EXTENDS FinetuneCheckpoint, TLAPS

Running == Pcs \ {"off", "start", "failed"}

\* The batches whose gradients r resumes may lose.
Allowance(r) == r * (flags.accum - 1)

\* Gradients wait for the batches since the last update, and no others.
GradientInv ==
    /\ step - applied - pending \in 0..Allowance(resumes)
    /\ pending <= step % flags.accum
    /\ latest \in Checkpoint => latest.step - latest.applied \in 0..Allowance(resumes + 1)

\* How far the checkpoint is behind.
DistanceInv ==
    /\ pc \in Running => latest \in Checkpoint
    /\ flags.saveEvery > 0 =>
         /\ latest \in Checkpoint => latest.step % flags.saveEvery = 0
         /\ pc \in Running => step = latest.step + (step % flags.saveEvery)
    /\ flags.saveEvery = 0 =>
         /\ pc \in {"batch", "epochEnd"} => step = latest.step + batch
         /\ pc \in Running \ {"batch", "epochEnd"} => step = latest.step

\* What was trained on, of the epochs before the one in hand, of that one, and
\* of those to come.
Short(s) == flags.maxSteps > 0 /\ s >= flags.maxSteps

Covered(weighed, next) ==
    \A e \in 1..Epochs :
        /\ e < next => IF flags.saveEvery = 0 THEN weighed[e] = Batches ELSE weighed[e] >= Batches
        /\ e > next /\ flags.saveEvery = 0 => weighed[e] = 0

Begun(weighed, next, n) ==
    next \in 1..Epochs => IF flags.saveEvery = 0 THEN weighed[next] = n ELSE weighed[next] >= n

EpochInv ==
    /\ latest \in Checkpoint =>
         Short(latest.step) \/ (Covered(latest.trained, latest.next) /\ Begun(latest.trained, latest.next, 0))
    /\ pc = "start" => epoch = 1 /\ batch = 0 /\ step = 0 /\ trained = [e \in 1..Epochs |-> 0]
    /\ pc = "batch" => epoch <= Epochs /\ batch < Batches
    /\ pc \in {"epochEnd", "probe", "best", "writing", "restore"} => epoch <= Epochs
    /\ pc \in Running =>
         \/ Short(step)
         \/ /\ Covered(trained, epoch)
            /\ Begun(trained, epoch, batch)
            /\ pc \in {"epochEnd", "probe", "best", "writing", "restore"} => batch = Batches
            /\ pc \in {"final", "done"} => restored # NoWer \/ epoch = Epochs + 1

\* Early stopping has a best.pt to restore.
BestInv ==
    /\ latest \in Checkpoint /\ latest.best # NoWer => flags.patience > 0
    /\ best # NoWer => flags.patience > 0 /\ (bestPath \/ pc = "best")
    /\ pc \in {"probe", "best", "writing", "restore"} => flags.patience > 0
    /\ pc = "restore" => best # NoWer
    /\ pc = "best" => best \in Wers

IInv == TypeOK /\ GradientInv /\ DistanceInv /\ EpochInv /\ BestInv

USE LoopAssumption, WerAssumption, ResumesAssumption, SettingsAssumption, CheckpointAssumption

-----------------------------------------------------------------------------
(* Remainders *)

LEMMA Remainder ==
    ASSUME NEW m \in Nat \ {0}, NEW s \in Nat
    PROVE  s % m \in 0..(m - 1) /\ s \div m \in Int /\ 0 % m = 0
  BY SMT

LEMMA RemainderUnique ==
    ASSUME NEW m \in Nat \ {0}, NEW q \in Int, NEW r \in 0..(m - 1)
    PROVE  (m * q + r) % m = r
  BY SMTT(30)

LEMMA Quotient ==
    ASSUME NEW m \in Int, m > 0, NEW s \in Int
    PROVE  s = m * (s \div m) + (s % m)
  BY Z3T(60)

\* The next number leaves the next remainder, or none.
LEMMA NextRemainder ==
    ASSUME NEW m \in Nat \ {0}, NEW s \in Nat
    PROVE  (s + 1) % m = 0 \/ (s + 1) % m = (s % m) + 1
<1> DEFINE q == s \div m
           r == s % m
<1>1. s = m * q + r /\ q \in Int /\ r \in 0..(m - 1)
  BY Remainder, Quotient
<1> HIDE DEF q, r
<1>2. CASE r + 1 < m
  <2>1. s + 1 = m * q + (r + 1) /\ r + 1 \in 0..(m - 1)
    BY <1>1, <1>2
  <2>2. (m * q + (r + 1)) % m = r + 1
    BY <1>1, <2>1, RemainderUnique
  <2>3. QED
    BY <2>1, <2>2 DEF r
<1>3. CASE r + 1 = m
  <2>1. s + 1 = m * (q + 1) + 0 /\ q + 1 \in Int /\ 0 \in 0..(m - 1)
    BY <1>1, <1>3
  <2>2. (m * (q + 1) + 0) % m = 0
    BY <2>1, RemainderUnique
  <2>3. QED
    BY <2>1, <2>2
<1>4. QED
  BY <1>1, <1>2, <1>3

LEMMA AllowanceGrows ==
    ASSUME NEW r \in Nat, flags \in Settings
    PROVE  /\ Allowance(r) \in Nat /\ flags.accum \in Nat \ {0}
           /\ Allowance(r + 1) = Allowance(r) + (flags.accum - 1)
<1>1. flags.accum \in Nat \ {0}
  OBVIOUS
<1> DEFINE a == flags.accum - 1
<1>2. a \in Nat
  BY <1>1
<1> HIDE DEF a
<1>3. r * a \in Nat /\ (r + 1) * a = r * a + a
  BY <1>2
<1>4. QED
  BY <1>1, <1>3 DEF Allowance, a

-----------------------------------------------------------------------------
LEMMA InitIInv == Init => IInv
<1> SUFFICES ASSUME Init PROVE IInv
  OBVIOUS
<1>1. TypeOK
  <2>1. recent \in Seq([wer : Wers, before : Wers \cup {NoWer}])
    BY DEF Init
  <2>2. trained \in Trained /\ pc \in Pcs
    BY DEF Init, Trained, Pcs
  <2>3. /\ epoch \in 1..(Epochs + 1) /\ batch \in 0..Batches /\ resumes \in 0..MaxResumes
        /\ step \in Nat /\ updates \in Nat /\ applied \in Nat /\ pending \in Nat
        /\ stall \in Nat /\ crashes \in Nat
    BY DEF Init
  <2>4. /\ flags \in Settings /\ latest \in Checkpoint \cup {NoCheckpoint}
        /\ bestFile \in Wers \cup {NoWer, Torn} /\ best \in Wers \cup {NoWer}
        /\ bestPath \in BOOLEAN /\ restored \in Wers \cup {NoWer} /\ probed \subseteq Wers
    BY DEF Init
  <2>5. QED
    BY <2>1, <2>2, <2>3, <2>4 DEF TypeOK
<1>2. latest \notin Checkpoint
  BY DEF Init
<1>3. GradientInv
  <2>1. 0 % flags.accum = 0 /\ Allowance(0) \in Nat
    BY Remainder, AllowanceGrows DEF Init
  <2>2. QED
    BY <1>2, <2>1 DEF Init, GradientInv
<1>4. DistanceInv
  BY <1>2 DEF Init, DistanceInv, Running
<1>5. EpochInv
  BY <1>2 DEF Init, EpochInv, Running
<1>6. BestInv
  BY <1>2 DEF Init, BestInv
<1>7. QED
  BY <1>1, <1>3, <1>4, <1>5, <1>6 DEF IInv

\* A checkpoint is one, and holds what it is made of.
LEMMA SnapshotTyped ==
    ASSUME TypeOK, TypeOK', NEW next \in 1..(Epochs + 1)
    PROVE  /\ Snapshot(next) \in Checkpoint
           /\ Snapshot(next).next = next /\ Snapshot(next).step = step'
           /\ Snapshot(next).applied = applied' /\ Snapshot(next).trained = trained'
           /\ Snapshot(next).best = best
  BY DEF Snapshot, Checkpoint, TypeOK

\* The same without the type of the next state, for the proof of it.
LEMMA SnapshotIs ==
    ASSUME TypeOK, NEW next \in 1..(Epochs + 1), step' \in Nat, updates' \in Nat,
           trained' \in Trained, applied' \in Nat
    PROVE  Snapshot(next) \in Checkpoint
  BY DEF Snapshot, Checkpoint, TypeOK

\* What a checkpoint may lose: less than an update more than was lost before.
LEMMA WaitingBounded ==
    ASSUME NEW r \in Nat, flags \in Settings, NEW done \in Nat, NEW used \in Nat, NEW waiting \in Nat,
           done - used - waiting \in 0..Allowance(r), waiting <= done % flags.accum
    PROVE  done - used \in 0..Allowance(r + 1)
<1>1. done % flags.accum \in 0..(flags.accum - 1)
  BY AllowanceGrows, Remainder
<1>2. /\ Allowance(r + 1) = Allowance(r) + (flags.accum - 1)
      /\ Allowance(r) \in Nat /\ flags.accum \in Nat \ {0}
  BY AllowanceGrows
<1>3. QED
  BY <1>1, <1>2

LEMMA BaselineIInv ==
    ASSUME IInv, SaveBaseline
    PROVE  IInv'
<1>1. /\ UNCHANGED <<flags, bestFile, epoch, batch, weights, stopVars, historyVars>>
      /\ pc = "start" /\ pc' = "batch" /\ latest' = Snapshot(1)
  BY DEF SaveBaseline
<1>2. TypeOK'
  <2>1. Snapshot(1) \in Checkpoint
    BY <1>1, SnapshotIs DEF IInv, TypeOK, weights
  <2>2. QED
    BY <1>1, <2>1 DEF IInv, TypeOK, weights, stopVars, historyVars, Pcs
<1>3. /\ latest' \in Checkpoint /\ latest'.next = 1 /\ latest'.step = step
      /\ latest'.applied = applied /\ latest'.trained = trained /\ latest'.best = best
  BY <1>1, <1>2, SnapshotTyped DEF IInv, weights
<1>4. epoch = 1 /\ batch = 0 /\ step = 0 /\ trained = [e \in 1..Epochs |-> 0]
  BY <1>1 DEF IInv, EpochInv
<1>5. GradientInv'
  <2>1. /\ step - applied - pending \in 0..Allowance(resumes) /\ pending <= step % flags.accum
        /\ step \in Nat /\ applied \in Nat /\ pending \in Nat /\ resumes \in Nat
        /\ flags \in Settings
    BY DEF IInv, GradientInv, TypeOK
  <2>2. latest'.step - latest'.applied \in 0..Allowance(resumes + 1)
    BY <1>3, <2>1, WaitingBounded
  <2>3. QED
    BY <1>1, <2>1, <2>2 DEF GradientInv, Allowance, weights, historyVars
<1>6. DistanceInv'
  <2>1. flags.saveEvery > 0 => step % flags.saveEvery = 0
    <3>1. flags.saveEvery \in Nat
      BY DEF IInv, TypeOK
    <3>2. flags.saveEvery \in Nat \ {0} => 0 % flags.saveEvery = 0
      BY Remainder
    <3>3. QED
      BY <1>4, <3>1, <3>2
  <2>2. QED
    BY <1>1, <1>3, <1>4, <2>1 DEF DistanceInv, Running, Pcs, weights
<1>7. EpochInv'
  BY <1>1, <1>3, <1>4 DEF EpochInv, Covered, Begun, Short, Running, Pcs, weights, stopVars
<1>8. BestInv'
  BY <1>1, <1>3 DEF IInv, BestInv, stopVars
<1>9. QED
  BY <1>2, <1>5, <1>6, <1>7, <1>8 DEF IInv

\* A process that comes back from a checkpoint.
LEMMA ResumeIInv ==
    ASSUME IInv, Resume
    PROVE  IInv'
<1>1. /\ latest \in Checkpoint /\ LoadCheckpoint
      /\ resumes' = resumes + 1 /\ resumes < MaxResumes
      /\ pc' = IF epoch' > Epochs THEN "final" ELSE "batch"
      /\ UNCHANGED <<flags, disk, crashes, probed>>
  BY DEF Resume, IInv, TypeOK
<1>2. /\ latest.next \in 1..(Epochs + 1) /\ latest.step \in Nat /\ latest.updates \in Nat
      /\ latest.best \in Wers \cup {NoWer} /\ latest.trained \in Trained /\ latest.applied \in Nat
  BY <1>1 DEF Checkpoint
<1>3. /\ epoch' = latest.next /\ batch' = 0 /\ step' = latest.step /\ updates' = latest.updates
      /\ trained' = latest.trained /\ applied' = latest.applied /\ pending' = 0
      /\ best' = latest.best /\ stall' = 0 /\ restored' = NoWer /\ recent' = <<>>
      /\ bestPath' = (flags.patience > 0 /\ latest.best # NoWer)
      /\ UNCHANGED <<flags, latest, bestFile>>
  BY <1>1 DEF LoadCheckpoint, disk
<1>4. TypeOK'
  <2>1. recent' \in Seq([wer : Wers, before : Wers \cup {NoWer}])
    BY <1>3
  <2>2. pc' \in Pcs /\ resumes' \in 0..MaxResumes
    BY <1>1 DEF Pcs, IInv, TypeOK
  <2>3. QED
    BY <1>1, <1>2, <1>3, <2>1, <2>2 DEF IInv, TypeOK
<1>5. GradientInv'
  <2>1. /\ resumes \in Nat /\ resumes' = resumes + 1 /\ flags \in Settings
        /\ latest.step - latest.applied \in 0..Allowance(resumes + 1)
    BY <1>1 DEF IInv, TypeOK, GradientInv
  <2>2. flags.accum \in Nat \ {0} /\ Allowance(resumes + 1) \in Nat
        /\ Allowance(resumes + 1 + 1) = Allowance(resumes + 1) + (flags.accum - 1)
    BY <2>1, AllowanceGrows
  <2>3. latest.step % flags.accum \in 0..(flags.accum - 1)
    BY <1>2, <2>2, Remainder
  <2>4. latest.step - latest.applied \in 0..Allowance(resumes + 1 + 1)
    BY <1>2, <2>1, <2>2
  <2>5. latest.step - latest.applied - 0 \in 0..Allowance(resumes + 1)
    BY <1>2, <2>1
  <2>6. QED
    BY <1>3, <2>1, <2>3, <2>4, <2>5 DEF GradientInv, Allowance
<1>6. DistanceInv'
  <2>1. flags.saveEvery > 0 => latest.step % flags.saveEvery = 0
    BY <1>1 DEF IInv, DistanceInv
  <2>2. QED
    BY <1>1, <1>2, <1>3, <2>1 DEF DistanceInv, Running, Pcs
<1>7. EpochInv'
  <2>1. Short(latest.step) \/ (Covered(latest.trained, latest.next) /\ Begun(latest.trained, latest.next, 0))
    BY <1>1 DEF IInv, EpochInv
  <2>2. Short(latest.step)' = Short(latest.step)
        /\ (Covered(trained, epoch))' = Covered(latest.trained, latest.next)
        /\ (Begun(trained, epoch, batch))' = Begun(latest.trained, latest.next, 0)
        /\ Short(step)' = Short(latest.step)
    BY <1>3 DEF Short, Covered, Begun
  <2>3. /\ latest' \in Checkpoint =>
              Short(latest.step) \/ (Covered(latest.trained, latest.next) /\ Begun(latest.trained, latest.next, 0))
    BY <2>1
  <2>4. pc' \in {"batch", "final"} /\ (pc' = "batch" => epoch' <= Epochs /\ batch' < Batches)
        /\ (pc' = "final" => epoch' = Epochs + 1)
    BY <1>1, <1>2, <1>3
  <2>5. QED
    BY <1>3, <2>1, <2>2, <2>4 DEF EpochInv, Short, Covered, Begun
<1>8. BestInv'
  BY <1>1, <1>2, <1>3 DEF IInv, BestInv
<1>9. QED
  BY <1>4, <1>5, <1>6, <1>7, <1>8 DEF IInv

\* A process that is gone, or starts from nothing.
LEMMA AnewIInv ==
    ASSUME IInv, Crash \/ StartAgain
    PROVE  IInv'
<1>1. /\ BeginAnew /\ UNCHANGED <<flags, disk, resumes, probed>>
      /\ \/ pc' = "off" /\ crashes' = crashes + 1
         \/ pc' = "start" /\ UNCHANGED crashes
  BY DEF Crash, StartAgain
<1>2. /\ epoch' = 1 /\ batch' = 0 /\ step' = 0 /\ updates' = 0
      /\ trained' = [e \in 1..Epochs |-> 0] /\ applied' = 0 /\ pending' = 0
      /\ best' = NoWer /\ stall' = 0 /\ bestPath' = FALSE /\ restored' = NoWer /\ recent' = <<>>
      /\ UNCHANGED <<flags, latest, bestFile, resumes, probed>>
  BY <1>1 DEF BeginAnew, disk
<1>3. TypeOK'
  <2>1. recent' \in Seq([wer : Wers, before : Wers \cup {NoWer}])
    BY <1>2
  <2>2. pc' \in Pcs /\ crashes' \in Nat /\ trained' \in Trained
    BY <1>1, <1>2 DEF Pcs, Trained, IInv, TypeOK
  <2>3. /\ epoch' \in 1..(Epochs + 1) /\ batch' \in 0..Batches
        /\ step' \in Nat /\ updates' \in Nat /\ applied' \in Nat /\ pending' \in Nat
        /\ stall' \in Nat
    BY <1>2
  <2>4. /\ best' \in Wers \cup {NoWer} /\ bestPath' \in BOOLEAN
        /\ restored' \in Wers \cup {NoWer}
    BY <1>2
  <2>5. /\ flags' \in Settings /\ latest' \in Checkpoint \cup {NoCheckpoint}
        /\ bestFile' \in Wers \cup {NoWer, Torn} /\ resumes' \in 0..MaxResumes
        /\ probed' \subseteq Wers
    BY <1>2 DEF IInv, TypeOK
  <2>6. QED
    BY <2>1, <2>2, <2>3, <2>4, <2>5 DEF TypeOK
<1>4. GradientInv'
  <2>1. resumes \in Nat /\ flags \in Settings
    BY DEF IInv, TypeOK
  <2>2. 0 % flags.accum = 0 /\ Allowance(resumes) \in Nat
    BY <2>1, Remainder, AllowanceGrows
  <2>3. QED
    BY <1>2, <2>1, <2>2 DEF IInv, GradientInv, Allowance
<1>5. DistanceInv'
  BY <1>1, <1>2 DEF IInv, DistanceInv, Running
<1>6. EpochInv'
  BY <1>1, <1>2 DEF IInv, EpochInv, Covered, Begun, Short, Running
<1>7. BestInv'
  BY <1>1, <1>2 DEF IInv, BestInv
<1>8. QED
  BY <1>3, <1>4, <1>5, <1>6, <1>7 DEF IInv

-----------------------------------------------------------------------------
(* The training loop *)

LEMMA TrainBatchIInv ==
    ASSUME IInv, TrainBatch
    PROVE  IInv'
<1>1. /\ pc = "batch" /\ batch' = batch + 1 /\ step' = step + 1 /\ Accumulate /\ Save
      /\ trained' = [trained EXCEPT ![epoch] = @ + 1]
      /\ pc' = IF Reached \/ batch' = Batches THEN "epochEnd" ELSE "batch"
      /\ UNCHANGED <<flags, bestFile, epoch, stopVars, historyVars>>
  BY DEF TrainBatch
<1>2. UNCHANGED <<flags, bestFile, epoch, best, stall, bestPath, restored, resumes, crashes, probed, recent>>
  BY <1>1 DEF stopVars, historyVars
<1>3. /\ flags \in Settings /\ flags.accum \in Nat \ {0} /\ flags.saveEvery \in Nat
      /\ flags.maxSteps \in Nat
      /\ epoch \in 1..Epochs /\ batch \in 0..(Batches - 1) /\ step \in Nat /\ updates \in Nat
      /\ trained \in Trained /\ applied \in Nat /\ pending \in Nat /\ resumes \in Nat
      /\ latest \in Checkpoint /\ latest.step \in Nat
  <2>1. epoch <= Epochs /\ batch < Batches
    BY <1>1 DEF IInv, EpochInv
  <2>2. latest \in Checkpoint
    BY <1>1 DEF IInv, DistanceInv, Running, Pcs
  <2>3. latest.step \in Nat
    BY <2>2 DEF Checkpoint
  <2>4. flags \in Settings
    BY DEF IInv, TypeOK
  <2>5. flags.accum \in Nat \ {0} /\ flags.saveEvery \in Nat /\ flags.maxSteps \in Nat
    BY <2>4
  <2>6. QED
    BY <2>1, <2>2, <2>3, <2>4, <2>5 DEF IInv, TypeOK
<1>4. /\ applied' \in Nat /\ pending' \in Nat /\ updates' \in Nat
      /\ step' - applied' - pending' = step - applied - pending
  BY <1>1, <1>3 DEF Accumulate
<1>5. /\ step' \in Nat /\ batch' \in 1..Batches
      /\ trained' \in Trained
      /\ trained'[epoch] = trained[epoch] + 1
      /\ \A e \in 1..Epochs : e # epoch => trained'[e] = trained[e]
      /\ \A e \in 1..Epochs : trained[e] \in Nat
  <2>1. trained \in [1..Epochs -> Nat] /\ epoch \in 1..Epochs
    BY <1>3 DEF Trained
  <2>2. trained[epoch] \in Nat /\ trained[epoch] + 1 \in Nat
    BY <2>1
  <2>3. trained' \in Trained
    BY <1>1, <2>1, <2>2 DEF Trained
  <2>4. step' \in Nat /\ batch' \in 1..Batches
    BY <1>1, <1>3
  <2>5. QED
    BY <1>1, <2>1, <2>3, <2>4
<1>6. \/ flags.saveEvery > 0 /\ step' % flags.saveEvery = 0 /\ latest' = Snapshot(epoch)
      \/ ~(flags.saveEvery > 0 /\ step' % flags.saveEvery = 0) /\ latest' = latest
  BY <1>1 DEF Save
<1>7. TypeOK'
  <2>1. latest' \in Checkpoint
    <3>1. Snapshot(epoch) \in Checkpoint
      BY <1>3, <1>4, <1>5, SnapshotIs DEF IInv
    <3>2. QED
      BY <1>3, <1>6, <3>1
  <2>2. pc' \in Pcs /\ batch' \in 0..Batches
    BY <1>1, <1>5 DEF Pcs
  <2>3. QED
    BY <1>2, <1>4, <1>5, <2>1, <2>2 DEF IInv, TypeOK
<1>8. latest' = Snapshot(epoch) =>
        /\ latest'.step = step' /\ latest'.applied = applied' /\ latest'.trained = trained'
        /\ latest'.next = epoch /\ latest'.best = best
  BY <1>3, <1>7, SnapshotTyped DEF IInv
<1>9. GradientInv'
  <2>1. /\ step - applied - pending \in 0..Allowance(resumes) /\ pending <= step % flags.accum
        /\ latest.step - latest.applied \in 0..Allowance(resumes + 1)
    BY <1>3 DEF IInv, GradientInv
  <2>2. pending' <= step' % flags.accum
    <3>1. step % flags.accum \in Int
      BY <1>3, Remainder
    <3>2. step' % flags.accum = 0 \/ step' % flags.accum = (step % flags.accum) + 1
      BY <1>1, <1>3, NextRemainder
    <3>3. CASE step' % flags.accum = 0
      BY <1>1, <3>3 DEF Accumulate
    <3>4. CASE step' % flags.accum # 0
      <4>1. pending' = pending + 1
        BY <1>1, <3>4 DEF Accumulate
      <4>2. QED
        BY <1>3, <2>1, <3>1, <3>2, <3>4, <4>1
    <3>5. QED
      BY <3>3, <3>4
  <2>3. step' - applied' - pending' \in 0..Allowance(resumes)
    BY <1>4, <2>1
  <2>4. step' - applied' \in 0..Allowance(resumes + 1)
    BY <1>3, <1>4, <1>5, <2>2, <2>3, WaitingBounded
  <2>5. latest'.step - latest'.applied \in 0..Allowance(resumes + 1)
    BY <1>6, <1>8, <2>1, <2>4
  <2>6. QED
    BY <1>2, <2>2, <2>3, <2>5 DEF GradientInv, Allowance
<1>10. DistanceInv'
  <2>1. latest' \in Checkpoint /\ pc' \in {"batch", "epochEnd"}
    BY <1>1, <1>3, <1>6, <1>7, SnapshotTyped DEF IInv
  <2>2. ASSUME flags.saveEvery > 0
        PROVE  latest'.step % flags.saveEvery = 0 /\ step' = latest'.step + (step' % flags.saveEvery)
    <3>1. latest.step % flags.saveEvery = 0 /\ step = latest.step + (step % flags.saveEvery)
      BY <1>1, <1>3, <2>2 DEF IInv, DistanceInv, Running, Pcs
    <3>2. step' % flags.saveEvery = 0 \/ step' % flags.saveEvery = (step % flags.saveEvery) + 1
      BY <1>1, <1>3, <2>2, NextRemainder
    <3>3. step % flags.saveEvery \in Int
      BY <1>3, <2>2, Remainder
    <3>4. CASE step' % flags.saveEvery = 0
      BY <1>5, <1>6, <1>8, <2>2, <3>4
    <3>5. CASE step' % flags.saveEvery # 0
      <4>1. latest' = latest
        BY <1>6, <3>5
      <4>2. QED
        BY <1>1, <1>3, <3>1, <3>2, <3>3, <3>5, <4>1
    <3>6. QED
      BY <3>4, <3>5
  <2>3. ASSUME flags.saveEvery = 0
        PROVE  step' = latest'.step + batch'
    <3>1. latest' = latest /\ step = latest.step + batch
      BY <1>1, <1>6, <2>3 DEF IInv, DistanceInv
    <3>2. QED
      BY <1>1, <1>3, <3>1
  <2>4. QED
    BY <1>2, <2>1, <2>2, <2>3 DEF DistanceInv, Running
<1>11. EpochInv'
  <2>1. \/ Short(step)
        \/ Covered(trained, epoch) /\ Begun(trained, epoch, batch)
    BY <1>1 DEF IInv, EpochInv, Running, Pcs
  <2>2. Short(step) => flags.maxSteps > 0 /\ step' >= flags.maxSteps
    BY <1>1, <1>3 DEF Short
  <2>3. ASSUME Covered(trained, epoch), Begun(trained, epoch, batch)
        PROVE  Covered(trained, epoch)' /\ Begun(trained, epoch, batch)'
    <3>1. Covered(trained, epoch)'
      BY <1>2, <1>3, <1>5, <2>3 DEF Covered
    <3>2. Begun(trained, epoch, batch)'
      BY <1>1, <1>2, <1>3, <1>5, <2>3 DEF Begun
    <3>3. QED
      BY <3>1, <3>2
  <2>4. \/ Short(latest.step)'
        \/ Covered(latest.trained, latest.next)' /\ Begun(latest.trained, latest.next, 0)'
    <3>1. CASE latest' = latest
      <4>1. \/ Short(latest.step)
            \/ Covered(latest.trained, latest.next) /\ Begun(latest.trained, latest.next, 0)
        BY <1>3 DEF IInv, EpochInv
      <4>2. QED
        BY <1>2, <3>1, <4>1 DEF Short, Covered, Begun
    <3>2. CASE flags.saveEvery > 0 /\ latest' = Snapshot(epoch)
      <4>1. CASE Short(step)
        BY <1>2, <1>8, <2>2, <3>2, <4>1 DEF Short
      <4>2. CASE Covered(trained, epoch) /\ Begun(trained, epoch, batch)
        <5>1. Covered(trained, epoch)'
          BY <2>3, <4>2
        <5>2. latest'.trained = trained' /\ latest'.next = epoch' /\ trained'[epoch] >= 0
          BY <1>2, <1>3, <1>5, <1>8, <3>2
        <5>3. Covered(latest.trained, latest.next)'
          BY <5>1, <5>2 DEF Covered
        <5>4. Begun(latest.trained, latest.next, 0)'
          BY <1>2, <3>2, <5>2 DEF Begun
        <5>5. QED
          BY <5>3, <5>4
      <4>3. QED
        BY <2>1, <4>1, <4>2
    <3>3. QED
      BY <1>6, <3>1, <3>2
  <2>5. /\ pc' = "batch" => epoch' <= Epochs /\ batch' < Batches
        /\ pc' \in {"batch", "epochEnd"} /\ epoch' <= Epochs
    BY <1>1, <1>2, <1>3, <1>5
  <2>6. \/ Short(step)'
        \/ /\ Covered(trained, epoch)' /\ Begun(trained, epoch, batch)'
           /\ pc' = "epochEnd" => batch' = Batches
    <3>1. CASE Reached
      BY <1>2, <3>1 DEF Reached, Short
    <3>2. CASE Short(step)
      BY <1>2, <2>2, <3>2 DEF Short
    <3>3. CASE ~Reached /\ ~Short(step)
      BY <1>1, <2>1, <2>3, <3>3
    <3>4. QED
      BY <3>1, <3>2, <3>3
  <2>7. QED
    BY <2>4, <2>5, <2>6 DEF EpochInv, Running
<1>12. BestInv'
  <2>1. latest'.best # NoWer => flags.patience > 0
    BY <1>3, <1>6, <1>8 DEF IInv, BestInv
  <2>2. best # NoWer => flags.patience > 0 /\ bestPath
    BY <1>1 DEF IInv, BestInv
  <2>3. pc' \in {"batch", "epochEnd"}
    BY <1>1
  <2>4. QED
    BY <1>2, <2>1, <2>2, <2>3 DEF BestInv
<1>13. QED
  BY <1>7, <1>9, <1>10, <1>11, <1>12 DEF IInv

-----------------------------------------------------------------------------
(* From epoch to epoch *)

LEMMA EpochCovered ==
    ASSUME flags \in Settings, epoch \in 1..Epochs, trained \in Trained,
           Covered(trained, epoch), Begun(trained, epoch, Batches)
    PROVE  Covered(trained, epoch + 1) /\ Begun(trained, epoch + 1, 0)
<1>1. \A e \in 1..Epochs : trained[e] \in Nat
  BY DEF Trained
<1>2. Covered(trained, epoch + 1)
  BY DEF Covered, Begun
<1>3. Begun(trained, epoch + 1, 0)
  BY <1>1 DEF Covered, Begun
<1>4. QED
  BY <1>2, <1>3

LEMMA EndEpochIInv ==
    ASSUME IInv, EndEpoch
    PROVE  IInv'
<1>1. /\ pc = "epochEnd" /\ UNCHANGED weights
      /\ latest' = IF flags.saveEvery = 0 THEN Snapshot(epoch + 1) ELSE latest
      /\ \/ Reached /\ pc' = "final" /\ UNCHANGED <<epoch, batch>>
         \/ ~Reached /\ flags.patience > 0 /\ pc' = "probe" /\ UNCHANGED <<epoch, batch>>
         \/ ~Reached /\ NextEpoch
      /\ UNCHANGED <<flags, bestFile, stopVars, historyVars>>
  BY DEF EndEpoch
<1>2. UNCHANGED <<flags, bestFile, step, updates, trained, applied, pending, best, stall, bestPath,
                  restored, resumes, crashes, probed, recent>>
  BY <1>1 DEF weights, stopVars, historyVars
<1>3. /\ flags \in Settings /\ epoch \in 1..Epochs /\ batch \in 0..Batches /\ step \in Nat
      /\ updates \in Nat /\ trained \in Trained /\ applied \in Nat /\ pending \in Nat
      /\ resumes \in Nat /\ latest \in Checkpoint
  <2>1. epoch <= Epochs
    BY <1>1 DEF IInv, EpochInv
  <2>2. latest \in Checkpoint
    BY <1>1 DEF IInv, DistanceInv, Running, Pcs
  <2>3. QED
    BY <2>1, <2>2 DEF IInv, TypeOK
<1>4. TypeOK'
  <2>1. latest' \in Checkpoint
    <3>1. Snapshot(epoch + 1) \in Checkpoint
      BY <1>2, <1>3, SnapshotIs DEF IInv
    <3>2. QED
      BY <1>1, <1>3, <3>1
  <2>2. pc' \in Pcs /\ epoch' \in 1..(Epochs + 1) /\ batch' \in 0..Batches
    BY <1>1, <1>3 DEF Pcs, NextEpoch
  <2>3. QED
    BY <1>2, <2>1, <2>2 DEF IInv, TypeOK
<1>5. flags.saveEvery = 0 =>
        /\ latest'.step = step /\ latest'.applied = applied /\ latest'.trained = trained
        /\ latest'.next = epoch + 1 /\ latest'.best = best
  BY <1>1, <1>2, <1>3, <1>4, SnapshotTyped DEF IInv
<1>6. flags.saveEvery # 0 => latest' = latest
  BY <1>1
<1>7. GradientInv'
  <2>1. /\ step - applied - pending \in 0..Allowance(resumes) /\ pending <= step % flags.accum
        /\ latest.step - latest.applied \in 0..Allowance(resumes + 1)
    BY <1>3 DEF IInv, GradientInv
  <2>2. step - applied \in 0..Allowance(resumes + 1)
    BY <1>3, <2>1, WaitingBounded
  <2>3. latest'.step - latest'.applied \in 0..Allowance(resumes + 1)
    BY <1>5, <1>6, <2>1, <2>2
  <2>4. QED
    BY <1>2, <2>1, <2>3 DEF GradientInv, Allowance
<1>8. DistanceInv'
  <2>1. latest' \in Checkpoint /\ latest'.step \in Nat
    BY <1>1, <1>3, <1>4, SnapshotTyped DEF IInv, Checkpoint
  <2>2. flags.saveEvery > 0 =>
          latest.step % flags.saveEvery = 0 /\ step = latest.step + (step % flags.saveEvery)
    BY <1>1, <1>3 DEF IInv, DistanceInv, Running, Pcs
  <2>3. pc' \in {"batch", "final", "probe"} /\ (pc' = "batch" => batch' = 0)
    BY <1>1 DEF NextEpoch
  <2>4. flags.saveEvery = 0 => step' = latest'.step /\ (pc' = "batch" => step' = latest'.step + batch')
    BY <1>2, <1>3, <1>5, <2>1, <2>3
  <2>5. QED
    BY <1>2, <1>6, <2>1, <2>2, <2>3, <2>4 DEF DistanceInv, Running
<1>9. EpochInv'
  <2>1. \/ Short(step)
        \/ /\ Covered(trained, epoch) /\ Begun(trained, epoch, Batches) /\ batch = Batches
    BY <1>1 DEF IInv, EpochInv, Running, Pcs
  <2>2. \/ Short(step)
        \/ Covered(trained, epoch + 1) /\ Begun(trained, epoch + 1, 0)
    BY <1>3, <2>1, EpochCovered
  <2>3. \/ Short(latest.step)'
        \/ Covered(latest.trained, latest.next)' /\ Begun(latest.trained, latest.next, 0)'
    <3>1. CASE flags.saveEvery = 0
      BY <1>2, <1>5, <2>2, <3>1 DEF Short, Covered, Begun
    <3>2. CASE flags.saveEvery # 0
      <4>1. \/ Short(latest.step)
            \/ Covered(latest.trained, latest.next) /\ Begun(latest.trained, latest.next, 0)
        BY <1>3 DEF IInv, EpochInv
      <4>2. QED
        BY <1>2, <1>6, <3>2, <4>1 DEF Short, Covered, Begun
    <3>3. QED
      BY <3>1, <3>2
  <2>4. CASE Reached /\ pc' = "final"
    <3>1. Short(step)'
      BY <1>2, <2>4 DEF Reached, Short
    <3>2. QED
      BY <2>3, <2>4, <3>1 DEF EpochInv
  <2>5. CASE pc' = "probe" /\ UNCHANGED <<epoch, batch>>
    <3>1. Short(step)' \/ (Covered(trained, epoch)' /\ Begun(trained, epoch, batch)' /\ batch' = Batches)
      BY <1>2, <2>1, <2>5 DEF Short, Covered, Begun
    <3>2. QED
      BY <1>3, <2>3, <2>5, <3>1 DEF EpochInv
  <2>6. CASE NextEpoch
    <3>1. /\ epoch' = epoch + 1 /\ batch' = 0
          /\ pc' \in {"batch", "final"}
          /\ pc' = "batch" => epoch' <= Epochs /\ batch' < Batches
          /\ pc' = "final" => epoch' = Epochs + 1
      BY <1>3, <2>6 DEF NextEpoch
    <3>2. Short(step)' \/ (Covered(trained, epoch)' /\ Begun(trained, epoch, batch)')
      BY <1>2, <2>2, <3>1 DEF Short, Covered, Begun
    <3>3. QED
      BY <2>3, <3>1, <3>2 DEF EpochInv
  <2>7. QED
    BY <1>1, <2>4, <2>5, <2>6
<1>10. BestInv'
  <2>1. best # NoWer => flags.patience > 0 /\ bestPath
    BY <1>1 DEF IInv, BestInv
  <2>2. latest' \in Checkpoint /\ latest'.best # NoWer => flags.patience > 0
    BY <1>3, <1>5, <1>6, <2>1 DEF IInv, BestInv
  <2>3. pc' \in {"batch", "final", "probe"} /\ (pc' = "probe" => flags.patience > 0)
    BY <1>1 DEF NextEpoch
  <2>4. QED
    BY <1>2, <2>1, <2>2, <2>3 DEF BestInv
<1>11. QED
  BY <1>4, <1>7, <1>8, <1>9, <1>10 DEF IInv

\* A step after the end of an epoch leaves the weights and the checkpoint alone.
LEMMA WeightsKept ==
    ASSUME IInv, UNCHANGED <<flags, latest, weights, resumes>>,
           pc \in Running \ {"batch", "epochEnd"},
           pc' \in (Running \ {"epochEnd"}) \cup {"failed"}, pc' = "batch" => batch' = 0
    PROVE  GradientInv' /\ DistanceInv'
<1>1. latest \in Checkpoint /\ latest.step \in Nat
  BY DEF IInv, DistanceInv, Checkpoint
<1>2. GradientInv'
  BY DEF IInv, GradientInv, Allowance, weights
<1>3. flags.saveEvery = 0 => step' = latest'.step /\ (pc' = "batch" => step' = latest'.step + batch')
  BY <1>1 DEF IInv, DistanceInv, weights
<1>4. flags.saveEvery > 0 =>
        latest.step % flags.saveEvery = 0 /\ step = latest.step + (step % flags.saveEvery)
  BY <1>1 DEF IInv, DistanceInv
<1>5. DistanceInv'
  BY <1>1, <1>3, <1>4 DEF DistanceInv, weights
<1>6. QED
  BY <1>2, <1>5

\* It stays at the end of the epoch, or goes on with the next.
LEMMA EpochKept ==
    ASSUME IInv, UNCHANGED <<flags, latest, weights>>, pc \in {"probe", "best", "writing", "restore"},
           \/ NextEpoch
           \/ UNCHANGED <<epoch, batch>> /\ pc' \in {"best", "writing", "restore", "failed"}
           \/ UNCHANGED <<epoch, batch>> /\ pc' = "final" /\ restored' # NoWer
    PROVE  EpochInv'
<1>1. /\ flags \in Settings /\ epoch \in 1..Epochs /\ trained \in Trained /\ latest \in Checkpoint
  <2>1. epoch <= Epochs
    BY DEF IInv, EpochInv
  <2>2. latest \in Checkpoint
    BY DEF IInv, DistanceInv, Running, Pcs
  <2>3. QED
    BY <2>1, <2>2 DEF IInv, TypeOK
<1>2. \/ Short(step)
      \/ Covered(trained, epoch) /\ Begun(trained, epoch, Batches) /\ batch = Batches
  BY DEF IInv, EpochInv, Running, Pcs
<1>3. \/ Short(latest.step)'
      \/ Covered(latest.trained, latest.next)' /\ Begun(latest.trained, latest.next, 0)'
  <2>1. \/ Short(latest.step)
        \/ Covered(latest.trained, latest.next) /\ Begun(latest.trained, latest.next, 0)
    BY <1>1 DEF IInv, EpochInv
  <2>2. QED
    BY <2>1 DEF Short, Covered, Begun
<1>4. CASE NextEpoch
  <2>1. /\ epoch' = epoch + 1 /\ batch' = 0
        /\ pc' \in {"batch", "final"}
        /\ pc' = "batch" => epoch' <= Epochs /\ batch' < Batches
        /\ pc' = "final" => epoch' = Epochs + 1
    BY <1>1, <1>4 DEF NextEpoch
  <2>2. Short(step) \/ (Covered(trained, epoch + 1) /\ Begun(trained, epoch + 1, 0))
    BY <1>1, <1>2, EpochCovered
  <2>3. Short(step)' \/ (Covered(trained, epoch)' /\ Begun(trained, epoch, batch)')
    BY <2>1, <2>2 DEF Short, Covered, Begun, weights
  <2>4. QED
    BY <1>3, <2>1, <2>3 DEF EpochInv
<1>5. CASE /\ UNCHANGED <<epoch, batch>>
           /\ \/ pc' \in {"best", "writing", "restore", "failed"}
              \/ pc' = "final" /\ restored' # NoWer
  <2>1. Short(step)' \/ (Covered(trained, epoch)' /\ Begun(trained, epoch, batch)' /\ batch' = Batches)
    BY <1>2, <1>5 DEF Short, Covered, Begun, weights
  <2>2. epoch' <= Epochs
    BY <1>1, <1>5
  <2>3. QED
    BY <1>3, <1>5, <2>1, <2>2 DEF EpochInv
<1>6. QED
  BY <1>4, <1>5

LEMMA ProbeIInv ==
    ASSUME IInv, Probe
    PROVE  IInv'
<1>1. /\ pc = "probe"
      /\ UNCHANGED <<flags, latest, bestFile, weights, bestPath, restored, resumes, crashes>>
  BY DEF Probe, disk
<1>2. PICK wer \in Wers :
         /\ probed' = probed \cup {wer}
         /\ recent' = Append(recent, [wer |-> wer, before |-> best])
         /\ \/ /\ Improves(wer)
               /\ best' = wer /\ stall' = 0
               /\ pc' = "best" /\ UNCHANGED <<epoch, batch>>
            \/ /\ ~Improves(wer)
               /\ stall' = stall + 1 /\ UNCHANGED best
               /\ IF stall' >= flags.patience
                  THEN pc' = "restore" /\ UNCHANGED <<epoch, batch>>
                  ELSE NextEpoch
  BY DEF Probe
<1>3. epoch \in 1..Epochs /\ batch \in 0..Batches /\ stall \in Nat /\ best \in Wers \cup {NoWer}
  <2>1. epoch <= Epochs
    BY <1>1 DEF IInv, EpochInv
  <2>2. QED
    BY <2>1 DEF IInv, TypeOK
<1>4. \/ pc' \in {"best", "restore"} /\ UNCHANGED <<epoch, batch>>
      \/ NextEpoch
  BY <1>2
<1>5. /\ pc' \in {"best", "restore", "batch", "final"}
      /\ epoch' \in 1..(Epochs + 1) /\ batch' \in 0..Batches
      /\ pc' = "batch" => batch' = 0
  BY <1>3, <1>4 DEF NextEpoch
<1>6. TypeOK'
  <2>1. probed' \subseteq Wers /\ best' \in Wers \cup {NoWer} /\ stall' \in Nat
    BY <1>2, <1>3 DEF IInv, TypeOK
  <2>2. recent' \in Seq([wer : Wers, before : Wers \cup {NoWer}])
    <3>1. [wer |-> wer, before |-> best] \in [wer : Wers, before : Wers \cup {NoWer}]
      BY <1>3
    <3>2. recent \in Seq([wer : Wers, before : Wers \cup {NoWer}])
      BY DEF IInv, TypeOK
    <3>3. QED
      BY <1>2, <3>1, <3>2
  <2>3. pc' \in Pcs
    BY <1>5 DEF Pcs
  <2>4. QED
    BY <1>1, <1>5, <2>1, <2>2, <2>3 DEF IInv, TypeOK, weights
<1>7. GradientInv' /\ DistanceInv'
  <2>1. pc \in Running \ {"batch", "epochEnd"} /\ pc' \in (Running \ {"epochEnd"}) \cup {"failed"}
    BY <1>1, <1>5 DEF Running, Pcs
  <2>2. QED
    BY <1>1, <1>5, <2>1, WeightsKept
<1>8. EpochInv'
  BY <1>1, <1>4, EpochKept
<1>9. BestInv'
  <2>1. flags.patience > 0 /\ (best # NoWer => bestPath)
    BY <1>1 DEF IInv, BestInv
  <2>2. pc' = "best" => best' \in Wers
    BY <1>2 DEF NextEpoch
  <2>3. pc' # "best" => best' = best /\ best # NoWer
    BY <1>2 DEF Improves
  <2>4. latest' = latest /\ bestPath' = bestPath /\ flags' = flags
    BY <1>1
  <2>5. QED
    BY <1>5, <2>1, <2>2, <2>3, <2>4 DEF IInv, BestInv
<1>10. QED
  BY <1>6, <1>7, <1>8, <1>9 DEF IInv

LEMMA OpenBestIInv ==
    ASSUME IInv, OpenBest
    PROVE  IInv'
<1>1. /\ pc = "best" /\ pc' = "writing" /\ bestPath' = TRUE /\ bestFile' = Torn
      /\ UNCHANGED <<flags, latest, epoch, batch, weights, best, stall, restored, historyVars>>
  BY DEF OpenBest
<1>2. TypeOK'
  BY <1>1 DEF IInv, TypeOK, Pcs, weights, historyVars
<1>3. GradientInv' /\ DistanceInv'
  <2>1. pc \in Running \ {"batch", "epochEnd"} /\ pc' \in (Running \ {"epochEnd"}) \cup {"failed"}
    BY <1>1 DEF Running, Pcs
  <2>2. QED
    BY <1>1, <2>1, WeightsKept DEF historyVars
<1>4. EpochInv'
  BY <1>1, EpochKept
<1>5. BestInv'
  BY <1>1 DEF IInv, BestInv
<1>6. QED
  BY <1>2, <1>3, <1>4, <1>5 DEF IInv

LEMMA CloseBestIInv ==
    ASSUME IInv, CloseBest
    PROVE  IInv'
<1>1. /\ pc = "writing" /\ bestFile' = best /\ NextEpoch
      /\ UNCHANGED <<flags, latest, weights, stopVars, historyVars>>
  BY DEF CloseBest
<1>2. /\ pc' \in {"batch", "final"} /\ (pc' = "batch" => batch' = 0)
      /\ epoch' \in 1..(Epochs + 1) /\ batch' \in 0..Batches
  <2>1. epoch \in 1..Epochs
    BY <1>1 DEF IInv, EpochInv, TypeOK
  <2>2. QED
    BY <1>1, <2>1 DEF NextEpoch
<1>3. TypeOK'
  BY <1>1, <1>2 DEF IInv, TypeOK, Pcs, weights, stopVars, historyVars
<1>4. GradientInv' /\ DistanceInv'
  <2>1. pc \in Running \ {"batch", "epochEnd"} /\ pc' \in (Running \ {"epochEnd"}) \cup {"failed"}
    BY <1>1, <1>2 DEF Running, Pcs
  <2>2. QED
    BY <1>1, <1>2, <2>1, WeightsKept DEF historyVars
<1>5. EpochInv'
  BY <1>1, EpochKept
<1>6. BestInv'
  BY <1>1, <1>2 DEF IInv, BestInv, stopVars
<1>7. QED
  BY <1>3, <1>4, <1>5, <1>6 DEF IInv

LEMMA RestoreIInv ==
    ASSUME IInv, Restore
    PROVE  IInv'
<1>1. /\ pc = "restore"
      /\ \/ bestPath /\ bestFile \in Wers /\ restored' = bestFile /\ pc' = "final"
         \/ bestPath /\ bestFile \notin Wers /\ pc' = "failed" /\ UNCHANGED restored
         \/ ~bestPath /\ pc' = "final" /\ UNCHANGED restored
      /\ UNCHANGED <<flags, disk, epoch, batch, weights, best, stall, bestPath, historyVars>>
  BY DEF Restore
<1>2. bestPath
  BY <1>1 DEF IInv, BestInv
<1>3. \/ pc' = "final" /\ restored' \in Wers /\ restored' # NoWer
      \/ pc' = "failed" /\ UNCHANGED restored
  BY <1>1, <1>2
<1>4. TypeOK'
  BY <1>1, <1>3 DEF IInv, TypeOK, Pcs, disk, weights, historyVars
<1>5. GradientInv' /\ DistanceInv'
  <2>1. pc \in Running \ {"batch", "epochEnd"} /\ pc' \in (Running \ {"epochEnd"}) \cup {"failed"}
    BY <1>1, <1>3 DEF Running, Pcs
  <2>2. UNCHANGED <<flags, latest, weights, resumes>> /\ pc' # "batch"
    BY <1>1, <1>3 DEF disk, historyVars
  <2>3. QED
    BY <2>1, <2>2, WeightsKept
<1>6. EpochInv'
  <2>1. UNCHANGED <<flags, latest, weights>> /\ UNCHANGED <<epoch, batch>>
    BY <1>1 DEF disk
  <2>2. QED
    BY <1>1, <1>3, <2>1, EpochKept
<1>7. BestInv'
  BY <1>1, <1>2, <1>3 DEF IInv, BestInv, disk
<1>8. QED
  BY <1>4, <1>5, <1>6, <1>7 DEF IInv

LEMMA ExportIInv ==
    ASSUME IInv, Export
    PROVE  IInv'
<1>1. /\ pc = "final" /\ pc' = "done"
      /\ UNCHANGED <<flags, disk, epoch, batch, weights, stopVars, historyVars>>
  BY DEF Export
<1>2. TypeOK'
  BY <1>1 DEF IInv, TypeOK, Pcs, disk, weights, stopVars, historyVars
<1>3. GradientInv' /\ DistanceInv'
  <2>1. pc \in Running \ {"batch", "epochEnd"} /\ pc' \in (Running \ {"epochEnd"}) \cup {"failed"}
    BY <1>1 DEF Running, Pcs
  <2>2. QED
    BY <1>1, <2>1, WeightsKept DEF disk, historyVars
<1>4. EpochInv'
  <2>1. \/ Short(step)
        \/ Covered(trained, epoch) /\ Begun(trained, epoch, batch) /\ (restored # NoWer \/ epoch = Epochs + 1)
    BY <1>1 DEF IInv, EpochInv, Running, Pcs
  <2>2. latest \in Checkpoint =>
          \/ Short(latest.step)
          \/ Covered(latest.trained, latest.next) /\ Begun(latest.trained, latest.next, 0)
    BY DEF IInv, EpochInv
  <2>3. \/ Short(step)'
        \/ (Covered(trained, epoch) /\ Begun(trained, epoch, batch) /\ (restored # NoWer \/ epoch = Epochs + 1))'
    BY <1>1, <2>1 DEF Short, Covered, Begun, weights, stopVars
  <2>4. (latest \in Checkpoint =>
           \/ Short(latest.step)
           \/ Covered(latest.trained, latest.next) /\ Begun(latest.trained, latest.next, 0))'
    BY <1>1, <2>2 DEF Short, Covered, Begun, disk
  <2>5. QED
    BY <1>1, <2>3, <2>4 DEF EpochInv
<1>5. BestInv'
  BY <1>1 DEF IInv, BestInv, disk, stopVars
<1>6. QED
  BY <1>2, <1>3, <1>4, <1>5 DEF IInv

LEMMA StutterIInv ==
    ASSUME IInv, UNCHANGED vars
    PROVE  IInv'
<1>1. UNCHANGED <<flags, disk, pc, epoch, batch, weights, stopVars, historyVars>>
  BY DEF vars
<1>2. TypeOK' /\ GradientInv' /\ DistanceInv' /\ BestInv'
  BY <1>1 DEF IInv, TypeOK, GradientInv, Allowance, DistanceInv, BestInv,
              disk, weights, stopVars, historyVars
<1>3. EpochInv'
  BY <1>1 DEF IInv, EpochInv, Short, Covered, Begun, disk, weights, stopVars
<1>4. QED
  BY <1>2, <1>3 DEF IInv

LEMMA StepIInv ==
    ASSUME IInv, [Next]_vars
    PROVE  IInv'
  BY BaselineIInv, ResumeIInv, AnewIInv, TrainBatchIInv, EndEpochIInv, ProbeIInv, OpenBestIInv,
     CloseBestIInv, RestoreIInv, ExportIInv, StutterIInv DEF Next, Process

LEMMA Inductive == Spec => []IInv
  BY InitIInv, StepIInv, PTL DEF Spec

-----------------------------------------------------------------------------
(* Theorems *)

\* The state of the loop, the disk and the history always has its shape: every
\* checkpoint on disk is whole, and no epoch but those of the run is counted.
THEOREM TypeCorrect == Spec => []TypeOK
<1>1. IInv => TypeOK
  BY DEF IInv
<1>2. QED
  BY <1>1, Inductive, PTL

\* A run that reached its last epoch has trained on every batch of every epoch,
\* whatever crashes and resumes there were.
THEOREM EveryEpochTrained == Spec => []NoEpochSkipped
<1>1. ASSUME IInv
      PROVE  NoEpochSkipped
  <2>1. SUFFICES ASSUME pc \in {"final", "done"}, ~StoppedEarly, ~CutShort
                 PROVE  \A e \in 1..Epochs :
                          IF flags.saveEvery = 0 THEN trained[e] = Batches ELSE trained[e] >= Batches
    BY DEF NoEpochSkipped
  <2>2. ~Short(step) /\ restored = NoWer
    BY <2>1 DEF StoppedEarly, CutShort, Short
  <2>3. Covered(trained, epoch) /\ epoch = Epochs + 1
    BY <1>1, <2>1, <2>2 DEF IInv, EpochInv, Running, Pcs
  <2>4. QED
    BY <2>3 DEF Covered
<1>2. QED
  BY <1>1, Inductive, PTL

\* A crash never costs more batches than lie between two checkpoints.
THEOREM LittleIsLost == Spec => []LostWorkBounded
<1>1. ASSUME IInv
      PROVE  LostWorkBounded
  <2>1. SUFFICES ASSUME Alive, pc # "start"
                 PROVE  step - latest.step <= IF flags.saveEvery > 0 THEN flags.saveEvery ELSE Batches
    BY DEF LostWorkBounded
  <2>2. pc \in Running /\ latest \in Checkpoint
    BY <1>1, <2>1 DEF IInv, TypeOK, DistanceInv, Alive, Running, Pcs
  <2>3. latest.step \in Nat /\ step \in Nat /\ batch \in 0..Batches /\ flags.saveEvery \in Nat
    BY <1>1, <2>2 DEF IInv, TypeOK, Checkpoint
  <2>4. CASE flags.saveEvery > 0
    <3>1. step = latest.step + (step % flags.saveEvery)
      BY <1>1, <2>2, <2>4 DEF IInv, DistanceInv
    <3>2. step % flags.saveEvery \in 0..(flags.saveEvery - 1)
      BY <2>3, <2>4, Remainder
    <3>3. QED
      BY <2>3, <2>4, <3>1, <3>2
  <2>5. CASE flags.saveEvery = 0
    <3>1. step = latest.step + batch \/ step = latest.step
      BY <1>1, <2>2, <2>5 DEF IInv, DistanceInv
    <3>2. QED
      BY <2>3, <2>5, <3>1
  <2>6. QED
    BY <2>3, <2>4, <2>5
<1>2. QED
  BY <1>1, Inductive, PTL

\* The weights and the gradients that wait hold every batch that was trained on,
\* but for the fewer than grad_accum_steps that each resume lost.
THEOREM NoGradientLost == Spec => []GradientsKept
<1>1. IInv => GradientsKept
  BY DEF IInv, GradientInv, Allowance, GradientsKept
<1>2. QED
  BY <1>1, Inductive, PTL

-----------------------------------------------------------------------------
(* Early stopping *)

\* The probes since the last improvement, which are this process's own.
StallInv ==
    /\ stall <= Len(recent)
    /\ \A i \in 1..Len(recent) :
         i > Len(recent) - stall =>
             recent[i].before # NoWer /\ recent[i].wer > recent[i].before - flags.minDelta
    /\ pc = "restore" => stall >= flags.patience

LEMMA ProbeStall ==
    ASSUME IInv, StallInv, Probe
    PROVE  StallInv'
<1>1. PICK wer \in Wers :
        /\ recent' = Append(recent, [wer |-> wer, before |-> best])
        /\ \/ stall' = 0 /\ pc' = "best"
           \/ /\ ~Improves(wer) /\ stall' = stall + 1
              /\ pc' = "restore" => stall' >= flags.patience
  BY DEF Probe, NextEpoch
<1>2. /\ recent \in Seq([wer : Wers, before : Wers \cup {NoWer}])
      /\ best \in Wers \cup {NoWer} /\ stall \in Nat
      /\ flags.minDelta \in Nat /\ flags.patience \in Nat
  BY DEF IInv, TypeOK
<1>3. flags' = flags
  BY DEF Probe
<1> DEFINE new == [wer |-> wer, before |-> best]
<1>4. /\ Len(recent) \in Nat /\ Len(recent') = Len(recent) + 1
      /\ \A i \in 1..Len(recent) : recent'[i] = recent[i]
      /\ recent'[Len(recent) + 1] = new
  <2>1. new \in [wer : Wers, before : Wers \cup {NoWer}]
    BY <1>2
  <2> HIDE DEF new
  <2>2. QED
    BY <1>1, <1>2, <2>1 DEF new
<1>5. CASE stall' = 0 /\ pc' = "best"
  BY <1>4, <1>5 DEF StallInv
<1>6. CASE ~Improves(wer) /\ stall' = stall + 1 /\ (pc' = "restore" => stall' >= flags.patience)
  <2>1. best # NoWer /\ wer > best - flags.minDelta
    BY <1>2, <1>6 DEF Improves
  <2>2. new.before # NoWer /\ new.wer > new.before - flags.minDelta
    BY <2>1
  <2> HIDE DEF new
  <2>3. QED
    BY <1>2, <1>3, <1>4, <1>6, <2>2 DEF StallInv
<1>7. QED
  BY <1>1, <1>5, <1>6

LEMMA StepStall == IInv /\ StallInv /\ [Next]_vars => StallInv'
<1> SUFFICES ASSUME IInv, StallInv, [Next]_vars
             PROVE  StallInv'
  OBVIOUS
<1>1. CASE Resume \/ Crash \/ StartAgain
  <2>1. recent' = <<>> /\ Len(recent') = 0 /\ stall' = 0 /\ pc' # "restore"
    BY <1>1 DEF Resume, LoadCheckpoint, Crash, StartAgain, BeginAnew
  <2>2. QED
    BY <2>1 DEF StallInv
<1>2. CASE UNCHANGED <<flags, stall, recent>> /\ (pc' # "restore" \/ pc' = pc)
  BY <1>2 DEF StallInv
<1>3. SaveBaseline \/ TrainBatch \/ EndEpoch \/ OpenBest \/ CloseBest \/ Restore \/ Export
        => UNCHANGED <<flags, stall, recent>> /\ pc' # "restore"
  BY DEF SaveBaseline, TrainBatch, EndEpoch, OpenBest, CloseBest, Restore, Export, NextEpoch,
     stopVars, historyVars
<1>4. UNCHANGED vars => UNCHANGED <<flags, stall, recent, pc>>
  BY DEF vars, stopVars, historyVars
<1>5. QED
  BY <1>1, <1>2, <1>3, <1>4, ProbeStall DEF Next, Process

\* Training is stopped early only after patience probes in a row of this process
\* that did not improve, however often it was resumed before.
THEOREM StopIsEarned == Spec => []EarlyStopEarned
<1>1. Init => StallInv
  BY DEF Init, StallInv
<1>2. ASSUME IInv, StallInv
      PROVE  EarlyStopEarned
  <2>1. Len(recent) \in Nat /\ stall \in Nat /\ flags.patience \in Nat
    BY <1>2 DEF IInv, TypeOK
  <2>2. QED
    BY <1>2, <2>1 DEF StallInv, EarlyStopEarned
<1>3. QED
  BY <1>1, <1>2, StepStall, Inductive, PTL DEF Spec

-----------------------------------------------------------------------------
(* The learning rate schedule *)

\* Batches trained on more than once: where a checkpoint may lie within an
\* epoch, each resume may start one over.
Again(r) == IF flags.saveEvery > 0 THEN r * Batches ELSE 0

\* Updates are made every accum-th batch of all, and the batches are those of
\* the epochs so far and of those started over.
UpdatesInv ==
    /\ updates = step \div flags.accum
    /\ latest \in Checkpoint => latest.updates = latest.step \div flags.accum

LengthInv ==
    flags.maxSteps = 0 =>
        /\ step <= (epoch - 1) * Batches + batch + Again(resumes)
        /\ epoch = Epochs + 1 => batch = 0
        /\ latest \in Checkpoint =>
             latest.step <= (latest.next - 1) * Batches + Again(resumes + 1)

\* A run that max_steps has stopped makes one batch more whenever it is resumed.
CutInv ==
    flags.maxSteps > 0 =>
        /\ step <= flags.maxSteps + resumes
        /\ pc \in {"start", "batch"} => step < flags.maxSteps + resumes
        /\ pc \in {"probe", "best", "writing"} => step < flags.maxSteps
        /\ latest \in Checkpoint => latest.step <= flags.maxSteps + resumes

LEMMA CancelFactor ==
    ASSUME NEW m \in Nat \ {0}, NEW p \in Int, NEW q \in Int
    PROVE  (m * p = m * q => p = q) /\ (m * p < m * q => p < q)
  BY Z3T(60)

LEMMA NoUpdatesYet ==
    ASSUME NEW m \in Nat \ {0}
    PROVE  0 \div m = 0
<1> DEFINE z == 0 \div m
           t == 0 % m
<1>1. 0 = m * z + t /\ t = 0 /\ z \in Int
  BY Remainder, Quotient
<1> HIDE DEF z, t
<1>2. m * z = m * 0
  BY <1>1
<1>3. z = 0
  BY <1>1, <1>2, CancelFactor
<1>4. QED
  BY <1>3 DEF z

\* The quotient grows where the remainder starts over.
LEMMA NextQuotient ==
    ASSUME NEW m \in Nat \ {0}, NEW s \in Nat
    PROVE  (s + 1) \div m = IF (s + 1) % m = 0 THEN (s \div m) + 1 ELSE s \div m
<1> DEFINE q == s \div m
           r == s % m
           p == (s + 1) \div m
           t == (s + 1) % m
<1>1. s = m * q + r /\ q \in Int /\ r \in 0..(m - 1)
  BY Remainder, Quotient
<1>2. s + 1 = m * p + t /\ p \in Int /\ t \in 0..(m - 1)
  BY Remainder, Quotient
<1>3. t = 0 \/ t = r + 1
  BY NextRemainder
<1> HIDE DEF q, r, p, t
<1>4. CASE t = r + 1
  <2>1. m * p = m * q /\ t # 0
    BY <1>1, <1>2, <1>4
  <2>2. p = q
    BY <1>1, <1>2, <2>1, CancelFactor
  <2>3. QED
    BY <2>1, <2>2 DEF p, q, t
<1>5. CASE t = 0
  <2>1. m * p = m * q + r + 1
    BY <1>1, <1>2, <1>5
  <2>2. m * q < m * p /\ m * p < m * (q + 2)
    BY <1>1, <1>2, <2>1
  <2>3. q < p /\ p < q + 2
    BY <1>1, <1>2, <2>2, CancelFactor
  <2>4. p = q + 1
    BY <1>1, <1>2, <2>3
  <2>5. QED
    BY <1>5, <2>4 DEF p, q, t
<1>6. QED
  BY <1>3, <1>4, <1>5

\* The updates of n epochs are those of each and less than one more for each.
LEMMA UpdatesOfEpochs ==
    ASSUME NEW a \in Nat \ {0}, NEW n \in Nat \ {0}, NEW s \in Nat, s <= n * Batches
    PROVE  s \div a <= n * (Batches \div a) + n - 1
<1> DEFINE u == s \div a
           q == Batches \div a
           r == Batches % a
<1>1. Batches = a * q + r /\ q \in Int /\ r \in 0..(a - 1)
  BY Remainder, Quotient
<1>2. a * u <= s /\ u \in Int
  <2>1. s = a * u + (s % a) /\ s % a \in 0..(a - 1) /\ u \in Int
    BY Remainder, Quotient
  <2> HIDE DEF u
  <2>2. a * u \in Int
    BY <2>1
  <2>3. QED
    BY <2>1, <2>2
<1> HIDE DEF u, q, r
<1>3. n * Batches = a * (n * q) + n * r
  BY <1>1
<1>4. n * r <= n * (a - 1)
  BY <1>1
<1>5. n * (a - 1) = a * n - n
  OBVIOUS
<1>6. a * (n * q) + a * n = a * (n * q + n)
  BY <1>1
<1>7. a * u < a * (n * q + n)
  <2>1. /\ a * u \in Int /\ n * Batches \in Int /\ a * (n * q) \in Int /\ n * r \in Int
        /\ n * (a - 1) \in Int /\ a * n \in Int /\ a * (n * q + n) \in Int
    BY <1>1, <1>2
  <2>2. QED
    BY <1>2, <1>3, <1>4, <1>5, <1>6, <2>1
<1>8. u < n * q + n
  BY <1>1, <1>2, <1>7, CancelFactor
<1>9. QED
  BY <1>1, <1>2, <1>8 DEF u, q

LEMMA SnapshotCounts ==
    ASSUME NEW next
    PROVE  /\ Snapshot(next).next = next
           /\ Snapshot(next).step = step' /\ Snapshot(next).updates = updates'
BY DEF Snapshot

\* An update is made on every accum-th batch, counted over all epochs.
LEMMA StepUpdates == IInv /\ IInv' /\ UpdatesInv /\ [Next]_vars => UpdatesInv'
<1> SUFFICES ASSUME IInv, IInv', UpdatesInv, [Next]_vars
             PROVE  UpdatesInv'
  OBVIOUS
<1>1. /\ flags.accum \in Nat \ {0} /\ step \in Nat /\ updates \in Nat
      /\ latest \in Checkpoint \cup {NoCheckpoint}
  BY DEF IInv, TypeOK
<1>2. 0 \div flags.accum = 0
  BY <1>1, NoUpdatesYet
<1>3. CASE TrainBatch
  <2>1. /\ step' = step + 1 /\ flags' = flags /\ Accumulate
        /\ latest' = latest \/ latest' = Snapshot(epoch)
    BY <1>3 DEF TrainBatch, Save
  <2>2. updates' = IF step' % flags.accum = 0 THEN updates + 1 ELSE updates
    BY <2>1 DEF Accumulate
  <2>3. updates' = step' \div flags'.accum
    BY <1>1, <2>1, <2>2, NextQuotient DEF UpdatesInv
  <2>4. QED
    BY <1>1, <2>1, <2>3, SnapshotCounts DEF UpdatesInv
<1>4. CASE SaveBaseline \/ EndEpoch
  <2>1. /\ UNCHANGED <<step, updates, flags>>
        /\ latest' = latest \/ \E next : latest' = Snapshot(next)
    BY <1>4 DEF SaveBaseline, EndEpoch, weights
  <2>2. QED
    BY <1>1, <2>1, SnapshotCounts DEF UpdatesInv
<1>5. CASE Resume
  BY <1>5 DEF Resume, LoadCheckpoint, UpdatesInv, IInv, TypeOK, disk
<1>6. CASE Crash \/ StartAgain
  BY <1>2, <1>6 DEF Crash, StartAgain, BeginAnew, UpdatesInv, disk
<1>7. CASE UNCHANGED <<flags, latest, step, updates>>
  BY <1>7 DEF UpdatesInv
<1>8. Probe \/ OpenBest \/ CloseBest \/ Restore \/ Export \/ UNCHANGED vars
        => UNCHANGED <<flags, latest, step, updates>>
  BY DEF Probe, OpenBest, CloseBest, Restore, Export, vars, disk, weights
<1>9. QED
  BY <1>3, <1>4, <1>5, <1>6, <1>7, <1>8 DEF Next, Process

LEMMA AgainGrows ==
    ASSUME NEW r \in Nat, flags.saveEvery \in Nat
    PROVE  /\ Again(r) \in Nat
           /\ Again(r + 1) = Again(r) + (IF flags.saveEvery > 0 THEN Batches ELSE 0)
<1>1. r * Batches \in Nat /\ (r + 1) * Batches = r * Batches + Batches
  OBVIOUS
<1>2. QED
  BY <1>1 DEF Again

\* The first batches of epoch e + 1 come after those of e.
LEMMA EpochLength ==
    ASSUME NEW e \in Nat \ {0}
    PROVE  (e - 1) * Batches \in Nat /\ (e + 1 - 1) * Batches = (e - 1) * Batches + Batches
OBVIOUS

\* While a process lives it is on its way through the epochs.
LEMMA RunLength ==
    ASSUME IInv, LengthInv, Process, flags.maxSteps = 0
    PROVE  LengthInv'
<1>1. /\ flags.saveEvery \in Nat /\ step \in Nat /\ epoch \in 1..(Epochs + 1)
      /\ batch \in 0..Batches /\ resumes \in Nat
  BY DEF IInv, TypeOK
<1>2. UNCHANGED <<flags, resumes>>
  BY DEF Process, SaveBaseline, TrainBatch, EndEpoch, Probe, OpenBest, CloseBest,
     Restore, Export, historyVars
<1>3. Again(resumes)' = Again(resumes) /\ Again(resumes + 1)' = Again(resumes + 1)
  BY <1>2 DEF Again
<1>4. PICK a0 \in Nat, a1 \in Nat :
        /\ a0 = Again(resumes) /\ a1 = Again(resumes + 1)
        /\ a1 = a0 + (IF flags.saveEvery > 0 THEN Batches ELSE 0)
  <2>1. Again(resumes) \in Nat /\ Again(resumes + 1) \in Nat
    BY <1>1, AgainGrows
  <2>2. Again(resumes + 1) = Again(resumes) + (IF flags.saveEvery > 0 THEN Batches ELSE 0)
    BY <1>1, AgainGrows
  <2>3. QED
    BY <2>1, <2>2
<1>5. /\ step <= (epoch - 1) * Batches + batch + a0
      /\ epoch = Epochs + 1 => batch = 0
      /\ latest \in Checkpoint => latest.step <= (latest.next - 1) * Batches + a1
  BY <1>4 DEF LengthInv
<1>6. SUFFICES /\ step' <= (epoch' - 1) * Batches + batch' + a0
               /\ epoch' = Epochs + 1 => batch' = 0
               /\ latest' \in Checkpoint => latest'.step <= (latest'.next - 1) * Batches + a1
  BY <1>3, <1>4 DEF LengthInv
<1>7. PICK l \in Nat : l = (epoch - 1) * Batches /\ l + Batches = (epoch + 1 - 1) * Batches
  BY <1>1, EpochLength
<1>8. CASE TrainBatch
  <2>1. /\ pc = "batch" /\ step' = step + 1 /\ batch' = batch + 1 /\ epoch' = epoch
        /\ \/ latest' = latest
           \/ flags.saveEvery > 0 /\ latest' = Snapshot(epoch)
    BY <1>8 DEF TrainBatch, Save
  <2>2. epoch <= Epochs /\ batch < Batches
    BY <2>1 DEF IInv, EpochInv
  <2>3. step + 1 <= l + (batch + 1) + a0
    BY <1>1, <1>5, <1>7
  <2>4. latest' = Snapshot(epoch) /\ flags.saveEvery > 0 =>
          latest'.step <= (latest'.next - 1) * Batches + a1
    <3>1. SUFFICES ASSUME latest' = Snapshot(epoch), flags.saveEvery > 0
                   PROVE  latest'.step <= (latest'.next - 1) * Batches + a1
      OBVIOUS
    <3>2. latest'.step = step + 1 /\ latest'.next = epoch
      BY <2>1, <3>1, SnapshotCounts
    <3>3. step + 1 <= l + a1
      BY <1>1, <1>4, <2>2, <2>3, <3>1
    <3>4. QED
      BY <1>7, <3>2, <3>3
  <2>5. QED
    BY <1>1, <1>5, <1>7, <2>1, <2>2, <2>3, <2>4
<1>9. CASE SaveBaseline
  <2>1. /\ UNCHANGED <<step, epoch, batch>> /\ latest' = Snapshot(1) /\ step = 0
    BY <1>9 DEF SaveBaseline, weights, IInv, EpochInv
  <2>2. latest'.step = 0 /\ latest'.next = 1
    BY <2>1, SnapshotCounts
  <2>3. (1 - 1) * Batches = 0
    OBVIOUS
  <2>4. QED
    BY <1>4, <1>5, <2>1, <2>2, <2>3
\* An epoch ends with batch at most Batches, and the next one starts at 0.
<1>10. ASSUME epoch <= Epochs, NextEpoch, step' = step
       PROVE  /\ step' <= (epoch' - 1) * Batches + batch' + a0
              /\ epoch' = Epochs + 1 => batch' = 0
  <2>1. epoch' = epoch + 1 /\ batch' = 0
    BY <1>10 DEF NextEpoch
  <2>2. step <= l + Batches + a0
    BY <1>1, <1>5, <1>7
  <2>3. (epoch' - 1) * Batches = l + Batches
    <3>1. epoch' - 1 = epoch + 1 - 1
      BY <1>1, <2>1
    <3>2. QED
      BY <1>7, <3>1
  <2>4. step' <= (epoch' - 1) * Batches + batch' + a0
    BY <1>1, <1>10, <2>1, <2>2, <2>3
  <2>5. QED
    BY <2>1, <2>4
<1>11. CASE EndEpoch
  <2>1. /\ pc = "epochEnd" /\ step' = step
        /\ \/ UNCHANGED <<epoch, batch>>
           \/ NextEpoch
        /\ \/ latest' = latest
           \/ flags.saveEvery = 0 /\ latest' = Snapshot(epoch + 1)
    BY <1>11 DEF EndEpoch, weights
  <2>2. epoch <= Epochs
    BY <2>1 DEF IInv, EpochInv
  <2>3. latest' = Snapshot(epoch + 1) =>
          latest'.step <= (latest'.next - 1) * Batches + a1
    <3>1. step <= l + Batches + a1
      BY <1>1, <1>4, <1>5, <1>7
    <3>2. SUFFICES ASSUME latest' = Snapshot(epoch + 1)
                   PROVE  latest'.step <= (latest'.next - 1) * Batches + a1
      OBVIOUS
    <3>3. latest'.step = step /\ latest'.next = epoch + 1
      BY <2>1, <3>2, SnapshotCounts
    <3>4. (latest'.next - 1) * Batches = l + Batches
      <4>1. latest'.next - 1 = epoch + 1 - 1
        BY <1>1, <3>3
      <4>2. QED
        BY <1>7, <4>1
    <3>5. QED
      BY <3>1, <3>3, <3>4
  <2>4. latest' \in Checkpoint => latest'.step <= (latest'.next - 1) * Batches + a1
    BY <1>5, <2>1, <2>3
  <2>5. QED
    BY <1>5, <1>10, <2>1, <2>2, <2>4
<1>12. CASE Probe \/ CloseBest
  <2>1. epoch <= Epochs
    BY <1>12 DEF Probe, CloseBest, IInv, EpochInv
  <2>2. /\ UNCHANGED <<latest, step>>
        /\ \/ UNCHANGED <<epoch, batch>>
           \/ NextEpoch
    BY <1>12 DEF Probe, CloseBest, disk, weights
  <2>3. QED
    BY <1>5, <1>10, <2>1, <2>2
<1>13. CASE OpenBest \/ Restore \/ Export
  BY <1>5, <1>13 DEF OpenBest, Restore, Export, disk, weights
<1>14. QED
  BY <1>8, <1>9, <1>11, <1>12, <1>13 DEF Process

LEMMA StepLength == IInv /\ LengthInv /\ [Next]_vars => LengthInv'
<1> SUFFICES ASSUME IInv, LengthInv, [Next]_vars, flags'.maxSteps = 0
             PROVE  LengthInv'
  BY DEF LengthInv
<1>1. /\ flags.saveEvery \in Nat /\ resumes \in Nat
      /\ latest \in Checkpoint => latest.next \in 1..(Epochs + 1) /\ latest.step \in Nat
  BY DEF IInv, TypeOK, Checkpoint
<1>2. flags' = flags
  BY DEF Next, Process, SaveBaseline, TrainBatch, EndEpoch, Probe, OpenBest, CloseBest,
     Restore, Export, Crash, Resume, StartAgain, vars
<1>3. CASE Process
  BY <1>2, <1>3, RunLength
<1>4. CASE Resume
  <2>1. /\ latest \in Checkpoint /\ latest' = latest /\ resumes' = resumes + 1
        /\ epoch' = latest.next /\ batch' = 0 /\ step' = latest.step
    BY <1>4 DEF Resume, LoadCheckpoint, disk, IInv, TypeOK
  <2>2. Again(resumes)' = Again(resumes + 1) /\ Again(resumes + 1)' = Again(resumes + 1 + 1)
    BY <1>2, <2>1 DEF Again
  <2>3. PICK a1 \in Nat, a2 \in Nat :
          a1 = Again(resumes + 1) /\ a2 = Again(resumes + 1 + 1) /\ a1 <= a2
    <3>1. Again(resumes + 1) \in Nat /\ Again(resumes + 1 + 1) \in Nat
      BY <1>1, AgainGrows
    <3>2. Again(resumes + 1) <= Again(resumes + 1 + 1)
      BY <1>1, <3>1, AgainGrows
    <3>3. QED
      BY <3>1, <3>2
  <2>4. PICK l \in Nat : l = (latest.next - 1) * Batches
    BY <1>1, <2>1, EpochLength
  <2>5. latest.step <= l + a1 /\ latest.step <= l + a2
    BY <1>1, <1>2, <2>1, <2>3, <2>4 DEF LengthInv
  <2>6. QED
    BY <2>1, <2>2, <2>3, <2>4, <2>5 DEF LengthInv
<1>5. CASE Crash \/ StartAgain
  <2>1. step' = 0 /\ epoch' = 1 /\ batch' = 0 /\ UNCHANGED <<latest, resumes>>
    BY <1>5 DEF Crash, StartAgain, BeginAnew, disk
  <2>2. Again(resumes)' = Again(resumes) /\ Again(resumes + 1)' = Again(resumes + 1)
    BY <1>2, <2>1 DEF Again
  <2>3. Again(resumes) \in Nat /\ (1 - 1) * Batches = 0
    BY <1>1, AgainGrows
  <2>4. QED
    BY <1>2, <2>1, <2>2, <2>3 DEF LengthInv
<1>6. CASE UNCHANGED vars
  BY <1>6 DEF vars, disk, weights, historyVars, LengthInv, Again
<1>7. QED
  BY <1>3, <1>4, <1>5, <1>6 DEF Next

LEMMA StepCut == IInv /\ CutInv /\ [Next]_vars => CutInv'
<1> SUFFICES ASSUME IInv, CutInv, [Next]_vars, flags'.maxSteps > 0
             PROVE  CutInv'
  BY DEF CutInv
<1>1. /\ flags.maxSteps \in Nat /\ step \in Nat /\ resumes \in Nat
      /\ latest \in Checkpoint => latest.step \in Nat
  BY DEF IInv, TypeOK, Checkpoint
<1>2. flags' = flags
  BY DEF Next, Process, SaveBaseline, TrainBatch, EndEpoch, Probe, OpenBest, CloseBest,
     Restore, Export, Crash, Resume, StartAgain, vars
<1>3. /\ flags.maxSteps > 0
      /\ step <= flags.maxSteps + resumes
      /\ pc \in {"start", "batch"} => step < flags.maxSteps + resumes
      /\ pc \in {"probe", "best", "writing"} => step < flags.maxSteps
      /\ latest \in Checkpoint => latest.step <= flags.maxSteps + resumes
  BY <1>2 DEF CutInv
<1>4. CASE TrainBatch
  <2>1. /\ pc = "batch" /\ step' = step + 1 /\ resumes' = resumes
        /\ pc' = "epochEnd" \/ (pc' = "batch" /\ ~Reached)
        /\ latest' = latest \/ latest' = Snapshot(epoch)
    BY <1>4 DEF TrainBatch, Save, historyVars
  <2>2. Reached <=> step + 1 >= flags.maxSteps
    BY <1>3, <2>1 DEF Reached
  <2>3. latest' \in Checkpoint => latest'.step <= flags.maxSteps + resumes
    BY <1>1, <1>3, <2>1, SnapshotCounts
  <2>4. QED
    BY <1>1, <1>2, <1>3, <2>1, <2>2, <2>3 DEF CutInv
<1>5. CASE SaveBaseline
  <2>1. /\ pc = "start" /\ pc' = "batch" /\ UNCHANGED <<step, resumes>> /\ latest' = Snapshot(1)
    BY <1>5 DEF SaveBaseline, weights, historyVars
  <2>2. latest'.step = step
    BY <2>1, SnapshotCounts
  <2>3. QED
    BY <1>1, <1>2, <1>3, <2>1, <2>2 DEF CutInv
<1>6. CASE EndEpoch
  <2>1. /\ UNCHANGED <<step, resumes>>
        /\ pc' = "final" \/ (pc' \in {"probe", "batch"} /\ ~Reached)
        /\ latest' = latest \/ latest' = Snapshot(epoch + 1)
    BY <1>6 DEF EndEpoch, NextEpoch, weights, historyVars
  <2>2. Reached <=> step >= flags.maxSteps
    BY <1>3, <2>1 DEF Reached
  <2>3. latest' \in Checkpoint => latest'.step <= flags.maxSteps + resumes
    BY <1>1, <1>3, <2>1, SnapshotCounts
  <2>4. QED
    BY <1>1, <1>2, <1>3, <2>1, <2>2, <2>3 DEF CutInv
<1>7. CASE Probe \/ OpenBest \/ CloseBest
  <2>1. /\ pc \in {"probe", "best", "writing"} /\ UNCHANGED <<step, latest, resumes>>
    BY <1>7 DEF Probe, OpenBest, CloseBest, disk, weights, historyVars
  <2>2. QED
    BY <1>1, <1>2, <1>3, <2>1 DEF CutInv
<1>8. CASE Restore \/ Export
  <2>1. /\ pc' \in {"final", "failed", "done"} /\ UNCHANGED <<step, latest, resumes>>
    BY <1>8 DEF Restore, Export, disk, weights, historyVars
  <2>2. QED
    BY <1>2, <1>3, <2>1 DEF CutInv
<1>9. CASE Resume
  <2>1. /\ latest \in Checkpoint /\ latest' = latest /\ resumes' = resumes + 1
        /\ step' = latest.step /\ pc' \in {"batch", "final"}
    BY <1>9 DEF Resume, LoadCheckpoint, disk, IInv, TypeOK
  <2>2. QED
    BY <1>1, <1>2, <1>3, <2>1 DEF CutInv
<1>10. CASE Crash \/ StartAgain
  <2>1. step' = 0 /\ pc' \in {"off", "start"} /\ UNCHANGED <<latest, resumes>>
    BY <1>10 DEF Crash, StartAgain, BeginAnew, disk
  <2>2. QED
    BY <1>1, <1>2, <1>3, <2>1 DEF CutInv
<1>11. CASE UNCHANGED vars
  BY <1>11 DEF vars, disk, weights, historyVars, CutInv
<1>12. QED
  BY <1>4, <1>5, <1>6, <1>7, <1>8, <1>9, <1>10, <1>11 DEF Next, Process

ScheduleInv == UpdatesInv /\ LengthInv /\ CutInv

LEMMA InitSchedule == Init => ScheduleInv
<1> SUFFICES ASSUME Init
             PROVE  ScheduleInv
  OBVIOUS
<1>1. /\ flags.accum \in Nat \ {0} /\ flags.maxSteps \in Nat /\ flags.saveEvery \in Nat
      /\ step = 0 /\ updates = 0 /\ epoch = 1 /\ batch = 0 /\ resumes = 0
      /\ latest \notin Checkpoint
  BY DEF Init
<1>2. UpdatesInv
  BY <1>1, NoUpdatesYet DEF UpdatesInv
<1>3. LengthInv
  <2>1. Again(resumes) \in Nat /\ (1 - 1) * Batches = 0
    BY <1>1, AgainGrows
  <2>2. QED
    BY <1>1, <2>1 DEF LengthInv
<1>4. CutInv
  BY <1>1 DEF Init, CutInv
<1>5. QED
  BY <1>2, <1>3, <1>4 DEF ScheduleInv

\* The whole length of a run, in batches.
LEMMA RunIsShort ==
    ASSUME IInv, LengthInv, flags.maxSteps = 0
    PROVE  step <= (Epochs + (IF flags.saveEvery > 0 THEN resumes ELSE 0)) * Batches
<1>1. /\ flags.saveEvery \in Nat /\ step \in Nat /\ epoch \in 1..(Epochs + 1)
      /\ batch \in 0..Batches /\ resumes \in Nat
      /\ step <= (epoch - 1) * Batches + batch + Again(resumes)
      /\ epoch = Epochs + 1 => batch = 0
  BY DEF IInv, TypeOK, LengthInv
<1>2. (epoch - 1) * Batches + batch <= Epochs * Batches
  <2>1. CASE epoch = Epochs + 1
    BY <1>1, <2>1
  <2>2. CASE epoch <= Epochs
    <3>1. (epoch - 1) * Batches + Batches = epoch * Batches
      BY <1>1
    <3>2. epoch * Batches <= Epochs * Batches
      BY <1>1, <2>2
    <3>3. (epoch - 1) * Batches \in Nat /\ epoch * Batches \in Nat /\ Epochs * Batches \in Nat
      BY <1>1
    <3>4. QED
      BY <1>1, <3>1, <3>2, <3>3
  <2>3. QED
    BY <1>1, <2>1, <2>2
<1>3. step <= Epochs * Batches + Again(resumes)
  <2>1. /\ (epoch - 1) * Batches \in Nat /\ Epochs * Batches \in Nat
        /\ Again(resumes) \in Nat
    BY <1>1, AgainGrows
  <2>2. QED
    BY <1>1, <1>2, <2>1
<1>4. CASE flags.saveEvery > 0
  <2>1. Epochs * Batches + resumes * Batches = (Epochs + resumes) * Batches
    BY <1>1
  <2>2. QED
    BY <1>3, <1>4, <2>1 DEF Again
<1>5. CASE ~(flags.saveEvery > 0)
  <2>1. Epochs * Batches + 0 = (Epochs + 0) * Batches
    OBVIOUS
  <2>2. QED
    BY <1>3, <1>5, <2>1 DEF Again
<1>6. QED
  BY <1>4, <1>5

LEMMA ScheduleKept ==
    ASSUME IInv, ScheduleInv
    PROVE  ScheduleSuffices
<1>1. /\ flags.accum \in Nat \ {0} /\ flags.maxSteps \in Nat /\ flags.saveEvery \in Nat
      /\ step \in Nat /\ resumes \in Nat /\ updates \in Nat
      /\ updates = step \div flags.accum
  BY DEF IInv, TypeOK, ScheduleInv, UpdatesInv
<1>2. CASE flags.maxSteps > 0
  <2>1. step <= flags.maxSteps + resumes
    BY <1>2 DEF ScheduleInv, CutInv
  <2>2. updates <= step
    <3>1. /\ step = flags.accum * updates + (step % flags.accum)
          /\ step % flags.accum \in 0..(flags.accum - 1)
      <4>1. step = flags.accum * (step \div flags.accum) + (step % flags.accum)
        BY <1>1, Quotient
      <4>2. step % flags.accum \in 0..(flags.accum - 1)
        BY <1>1, Remainder
      <4>3. QED
        BY <1>1, <4>1, <4>2
    <3>2. updates <= flags.accum * updates
      BY <1>1
    <3>3. flags.accum * updates \in Nat
      BY <1>1
    <3>4. QED
      BY <1>1, <3>1, <3>2, <3>3
  <2>3. QED
    BY <1>1, <1>2, <2>1, <2>2 DEF ScheduleSuffices, Planned
<1>3. CASE flags.maxSteps = 0
  <2>1. PICK extra \in Nat : extra = IF flags.saveEvery > 0 THEN resumes ELSE 0
    BY <1>1
  <2>2. step <= (Epochs + extra) * Batches
    BY <1>3, <2>1, RunIsShort DEF ScheduleInv
  <2>3. PICK q \in Int : q = Batches \div flags.accum
    BY <1>1, Remainder
  <2>4. updates <= (Epochs + extra) * q + (Epochs + extra) - 1
    <3>1. Epochs + extra \in Nat \ {0}
      OBVIOUS
    <3>2. step \div flags.accum
            <= (Epochs + extra) * (Batches \div flags.accum) + (Epochs + extra) - 1
      BY <1>1, <2>2, <3>1, UpdatesOfEpochs
    <3>3. QED
      BY <1>1, <2>3, <3>2
  <2>5. Planned = Larger(q, 1) * Epochs
    BY <1>3, <2>3 DEF Planned
  <2>6. q * Epochs <= Larger(q, 1) * Epochs
    BY <2>3 DEF Larger
  <2>7. (Epochs + extra) * q = q * Epochs + extra * q /\ extra * (q + 1) = extra * q + extra
    BY <2>3
  <2>8. updates - Planned <= Epochs - 1 + extra * (q + 1)
    <3>1. /\ q * Epochs \in Int /\ extra * q \in Int /\ Larger(q, 1) * Epochs \in Int
      BY <2>3 DEF Larger
    <3>2. QED
      BY <1>1, <2>4, <2>5, <2>6, <2>7, <3>1
  <2>9. CASE flags.saveEvery > 0
    BY <1>3, <2>1, <2>3, <2>8, <2>9 DEF ScheduleSuffices
  <2>10. CASE ~(flags.saveEvery > 0)
    <3>1. extra * (q + 1) = 0
      BY <2>1, <2>3, <2>10
    <3>2. QED
      BY <1>3, <2>8, <2>10, <3>1 DEF ScheduleSuffices
  <2>11. QED
    BY <2>9, <2>10
<1>4. QED
  BY <1>1, <1>2, <1>3

\* The learning rate never reaches zero long before training ends: by less than
\* one update for each epoch, and those of an epoch for each resume that starts
\* one over.
THEOREM LearningRateLasts == Spec => []ScheduleSuffices
<1>1. IInv /\ IInv' /\ ScheduleInv /\ [Next]_vars => ScheduleInv'
  BY StepUpdates, StepLength, StepCut DEF ScheduleInv
<1>2. IInv /\ ScheduleInv => ScheduleSuffices
  BY ScheduleKept
<1>3. QED
  BY <1>1, <1>2, InitSchedule, Inductive, PTL DEF Spec
=============================================================================

------------------------ MODULE RedisPipeline_proofs ------------------------
(***************************************************************************)
(* The Redis pipeline for any number of jobs, workers and failures.  The   *)
(* inductive invariant IInv says where each worker stands with its own     *)
(* copy of the job (WorkerInv), and which record each job can have given   *)
(* where it is (JobInv); the safety properties follow from it.  On top of  *)
(* it stand the refinement of JobLifecycle, step by step, which brings     *)
(* that module's theorems to this backend, and DoomInv, which counts what  *)
(* failures leave behind.                                                  *)
(***************************************************************************)
EXTENDS RedisPipeline, FiniteSetTheorems, TLAPS

-----------------------------------------------------------------------------
(* The three transitions keep a record's type, and take a whole record to  *)
(* a whole record.                                                         *)

\* A job record stays a job record through mark_started.
LEMMA MarkStartedType ==
    ASSUME NEW r \in JobRecord
    PROVE  MarkStarted(r) \in JobRecord
<1>1. r.attempts + 1 \in Nat
  BY SMT DEF JobRecord
<1>2. QED
  BY <1>1, Zenon DEF JobRecord, Status, MarkStarted

\* And through mark_succeeded and mark_failed.
LEMMA MarkEndedType ==
    ASSUME NEW r \in JobRecord
    PROVE  MarkSucceeded(r) \in JobRecord /\ MarkFailed(r) \in JobRecord
<1>1. MarkSucceeded(r) \in JobRecord
  BY Zenon DEF JobRecord, Status, MarkSucceeded
<1>2. MarkFailed(r) \in JobRecord
  BY Zenon DEF JobRecord, Status, MarkFailed
<1>3. QED
  BY <1>1, <1>2

\* A job as submitted is a whole record.
LEMMA NewJobWhole ==
    NewJob \in JobRecord /\ NewJob.status = "queued" /\ Coherent(NewJob)
<1> DEFINE n == NewJob
<1>1. NewJob \in JobRecord
  BY DEF NewJob, JobRecord, Status
<1>2. /\ n.status = "queued"
      /\ ~n.started /\ ~n.finished /\ ~n.result /\ ~n.error
      /\ n.started \in BOOLEAN /\ n.finished \in BOOLEAN
      /\ n.result \in BOOLEAN /\ n.error \in BOOLEAN
  BY SMT DEF NewJob
<1> HIDE DEF n
<1>3. Coherent(n)
  BY <1>2, SMT DEF Coherent, Terminal
<1>4. QED
  BY <1>1, <1>2, <1>3 DEF n

\* mark_started takes a whole queued job to a whole running one.
LEMMA MarkStartedWhole ==
    ASSUME NEW r \in JobRecord, Coherent(r), r.status = "queued"
    PROVE  MarkStarted(r).status = "running" /\ Coherent(MarkStarted(r))
<1> DEFINE m == MarkStarted(r)
<1>1. /\ m.status = "running" /\ m.started = TRUE
      /\ m.finished = r.finished /\ m.result = r.result /\ m.error = r.error
  BY SMT DEF JobRecord, MarkStarted
<1>2. /\ ~r.finished /\ ~r.result /\ ~r.error
      /\ r.finished \in BOOLEAN /\ r.result \in BOOLEAN /\ r.error \in BOOLEAN
  BY SMT DEF Coherent, Terminal, JobRecord
<1> HIDE DEF m
<1>3. m.started = (m.status # "queued")
  BY <1>1
<1>4. Coherent(m)
  BY <1>1, <1>2, <1>3, SMT DEF Coherent, Terminal
<1>5. QED
  BY <1>1, <1>4 DEF m

\* mark_succeeded takes a whole running job to a whole succeeded one.
LEMMA MarkSucceededWhole ==
    ASSUME NEW r \in JobRecord, Coherent(r), r.status = "running"
    PROVE  MarkSucceeded(r).status = "succeeded" /\ Coherent(MarkSucceeded(r))
<1>1. /\ MarkSucceeded(r).status = "succeeded"
      /\ MarkSucceeded(r).started = r.started
      /\ MarkSucceeded(r).finished = TRUE
      /\ MarkSucceeded(r).result = TRUE
      /\ MarkSucceeded(r).error = r.error
  BY SMT DEF JobRecord, MarkSucceeded
<1>2. QED
  BY <1>1 DEF Coherent, Terminal

\* mark_failed takes a whole running job to a whole failed one.
LEMMA MarkFailedWhole ==
    ASSUME NEW r \in JobRecord, Coherent(r), r.status = "running"
    PROVE  MarkFailed(r).status = "failed" /\ Coherent(MarkFailed(r))
<1>1. /\ MarkFailed(r).status = "failed"
      /\ MarkFailed(r).started = r.started
      /\ MarkFailed(r).finished = TRUE
      /\ MarkFailed(r).result = r.result
      /\ MarkFailed(r).error = TRUE
  BY SMT DEF JobRecord, MarkFailed
<1>2. QED
  BY <1>1 DEF Coherent, Terminal

-----------------------------------------------------------------------------
(* The inductive invariant *)

\* The four records a job can have.
Started == MarkStarted(NewJob)
Succeeded == MarkSucceeded(Started)
Failed == MarkFailed(Started)

UniqueList == \A i, k \in 1..Len(list) : list[i] = list[k] => i = k

UniqueHolder ==
    /\ \A v, w \in Workers : v # w /\ held[v] # NoJob => held[v] # held[w]
    /\ \A w \in Workers : ~InList(held[w])

WorkerInv(w) ==
    /\ pc[w] \in {"idle", "down"} => held[w] = NoJob
    /\ pc[w] \notin {"idle", "down"} => held[w] \in submitted
    /\ pc[w] = "ready" => copy[w] = NewJob
    /\ pc[w] \in {"exec", "saved"} => copy[w] = Started
    /\ pc[w] = "final" => copy[w] \in {Started, Succeeded, Failed}
    /\ pc[w] = "saved" => held[w] \in artifacts
    /\ pc[w] = "final" /\ copy[w] = Succeeded /\ held[w] \in SynthJobs
         => held[w] \in artifacts

JobInv(j) ==
    /\ InList(j) => j \in submitted /\ store[j] \in {NoRecord, NewJob}
    /\ j \notin submitted => store[j] = NoRecord /\ removal[j] = "none"
    /\ store[j] \in {NoRecord, NewJob, Started, Succeeded, Failed}
    /\ \A w \in Workers : held[w] = j =>
         /\ pc[w] \in {"fetch", "ready"} => store[j] \in {NoRecord, NewJob}
         /\ pc[w] \in {"exec", "saved", "final"} => store[j] \in {NoRecord, Started}
    /\ store[j] = Succeeded /\ j \in SynthJobs => j \in artifacts
    /\ removal[j] = "cancelled" =>
         store[j] = NoRecord /\ \A w \in Workers : held[w] = j => pc[w] = "fetch"

IInv ==
    /\ TypeOK
    /\ UniqueList
    /\ UniqueHolder
    /\ \A w \in Workers : WorkerInv(w)
    /\ \A j \in Jobs : JobInv(j)

USE NoRecordAssumption, NoJobAssumption, FailuresAssumption, SynthAssumption

-----------------------------------------------------------------------------
(* Records and the list *)

LEMMA RecordFacts ==
    /\ {NewJob, Started, Succeeded, Failed} \subseteq JobRecord
    /\ NoRecord \notin {NewJob, Started, Succeeded, Failed}
    /\ NewJob.status = "queued" /\ Started.status = "running"
    /\ Succeeded.status = "succeeded" /\ Failed.status = "failed"
    /\ Coherent(NewJob) /\ Coherent(Started) /\ Coherent(Succeeded) /\ Coherent(Failed)
<1>1. NewJob \in JobRecord /\ NewJob.status = "queued" /\ Coherent(NewJob)
  BY NewJobWhole
<1>2. Started \in JobRecord /\ Started.status = "running" /\ Coherent(Started)
  BY <1>1, MarkStartedType, MarkStartedWhole DEF Started
<1>3. /\ Succeeded \in JobRecord /\ Succeeded.status = "succeeded"
      /\ Coherent(Succeeded)
  BY <1>2, MarkEndedType, MarkSucceededWhole DEF Succeeded
<1>4. Failed \in JobRecord /\ Failed.status = "failed" /\ Coherent(Failed)
  BY <1>2, MarkEndedType, MarkFailedWhole DEF Failed
<1>5. QED
  BY <1>1, <1>2, <1>3, <1>4

LEMMA ListAppend ==
    ASSUME list \in Seq(Jobs), NEW j \in Jobs, list' = Append(list, j)
    PROVE  /\ list' \in Seq(Jobs)
           /\ \A k : InList(k)' <=> InList(k) \/ k = j
           /\ UniqueList /\ ~InList(j) => UniqueList'
<1>1. /\ list' \in Seq(Jobs)
      /\ Len(list') = Len(list) + 1 /\ Len(list) \in Nat
      /\ \A i \in 1..Len(list) : list'[i] = list[i]
      /\ list'[Len(list) + 1] = j
  OBVIOUS
<1>2. \A k : InList(k)' <=> InList(k) \/ k = j
  BY <1>1 DEF InList
<1>3. UniqueList /\ ~InList(j) => UniqueList'
  BY <1>1 DEF InList, UniqueList
<1>4. QED
  BY <1>1, <1>2, <1>3

LEMMA ListTail ==
    ASSUME list \in Seq(Jobs), list # <<>>, list' = Tail(list), UniqueList
    PROVE  /\ list' \in Seq(Jobs)
           /\ UniqueList'
           /\ Head(list) \in Jobs /\ InList(Head(list))
           /\ \A k : InList(k)' <=> InList(k) /\ k # Head(list)
<1>1. /\ list' \in Seq(Jobs)
      /\ Len(list) \in Nat /\ Len(list) > 0
      /\ Len(list') = Len(list) - 1
      /\ Head(list) = list[1]
      /\ \A i \in 1..Len(list') : list'[i] = list[i + 1]
      /\ \A i \in 1..Len(list) : list[i] \in Jobs
  OBVIOUS
<1>2. UniqueList'
  BY <1>1 DEF UniqueList
<1>3. Head(list) \in Jobs /\ InList(Head(list))
  BY <1>1 DEF InList
<1>4. ASSUME NEW k
      PROVE  InList(k)' <=> InList(k) /\ k # Head(list)
  <2>1. InList(k)' => InList(k) /\ k # Head(list)
    BY <1>1 DEF InList, UniqueList
  <2>2. ASSUME InList(k), k # Head(list)
        PROVE  InList(k)'
    <3>1. PICK i \in 1..Len(list) : list[i] = k
      BY <2>2 DEF InList
    <3>2. i # 1
      BY <1>1, <2>2, <3>1
    <3>3. i - 1 \in 1..Len(list') /\ list'[i - 1] = k
      BY <1>1, <3>1, <3>2
    <3>4. QED
      BY <3>3 DEF InList
  <2>3. QED
    BY <2>1, <2>2
<1>5. QED
  BY <1>1, <1>2, <1>3, <1>4

LEMMA ListSame == ASSUME list' = list
                  PROVE  (\A k : InList(k)' <=> InList(k)) /\ (UniqueList' <=> UniqueList)
BY DEF InList, UniqueList

-----------------------------------------------------------------------------
(* Each action preserves the invariant *)

LEMMA InitIInv == Init => IInv
<1> SUFFICES ASSUME Init PROVE IInv
  OBVIOUS
<1>1. list = <<>> /\ Len(list) = 0
  BY DEF Init, RedisInit
<1>2. \A k : ~InList(k)
  BY <1>1 DEF InList
<1>3. TypeOK
  <2>1. list \in Seq(Jobs)
    BY DEF Init, RedisInit
  <2>2. QED
    BY <2>1 DEF Init, RedisInit, TypeOK, RedisTypeOK, Pcs, Removals
<1>4. UniqueList /\ UniqueHolder
  BY <1>1, <1>2 DEF Init, UniqueList, UniqueHolder
<1>5. \A w \in Workers : WorkerInv(w)
  BY DEF Init, WorkerInv
<1>6. ASSUME NEW j \in Jobs PROVE JobInv(j)
  <2>1. ~InList(j) /\ store[j] = NoRecord /\ removal[j] = "none"
    BY <1>2 DEF Init, RedisInit
  <2>2. \A w \in Workers : held[w] # j
    BY DEF Init
  <2>3. NoRecord # Succeeded
    BY RecordFacts
  <2>4. QED
    BY <2>1, <2>2, <2>3 DEF JobInv
<1>7. QED
  BY <1>3, <1>4, <1>5, <1>6 DEF IInv

LEMMA SubmitIInv ==
    ASSUME IInv, NEW j \in Jobs, Submit(j)
    PROVE  IInv'
<1> USE DEF Submit, Enqueue, workerVars, IInv
<1>1. ~InList(j) /\ \A w \in Workers : held[w] # j
  BY DEF JobInv, WorkerInv
<1>2. /\ list' \in Seq(Jobs)
      /\ \A k : InList(k)' <=> InList(k) \/ k = j
      /\ UniqueList'
  BY <1>1, ListAppend DEF TypeOK, RedisTypeOK
<1>3. TypeOK'
  BY <1>2, RecordFacts DEF TypeOK, RedisTypeOK
<1>4. UniqueHolder'
  BY <1>1, <1>2 DEF UniqueHolder
<1>5. \A w \in Workers : WorkerInv(w)'
  BY DEF WorkerInv
<1>6. ASSUME NEW k \in Jobs PROVE JobInv(k)'
  BY <1>1, <1>2, RecordFacts DEF JobInv, TypeOK, RedisTypeOK
<1>7. QED
  BY <1>2, <1>3, <1>4, <1>5, <1>6

\* What DELETE and expiry share: the record goes, nothing else moves.
LEMMA RemoveKeeps ==
    ASSUME IInv, NEW j \in Jobs, NEW r \in Removals,
           store' = [store EXCEPT ![j] = NoRecord],
           removal' = [removal EXCEPT ![j] = r],
           r = "cancelled" => \A w \in Workers : held[w] = j => pc[w] = "fetch",
           j \in submitted,
           UNCHANGED <<list, submitted, workerVars, artifacts, failures>>
    PROVE  IInv'
<1> USE DEF workerVars, IInv
<1>1. (\A k : InList(k)' <=> InList(k)) /\ UniqueList'
  BY ListSame
<1>2. TypeOK'
  BY DEF TypeOK, RedisTypeOK
<1>3. UniqueHolder'
  BY <1>1 DEF UniqueHolder
<1>4. \A w \in Workers : WorkerInv(w)'
  BY DEF WorkerInv
<1>5. ASSUME NEW k \in Jobs PROVE JobInv(k)'
  BY <1>1, RecordFacts DEF JobInv, TypeOK, RedisTypeOK
<1>6. QED
  BY <1>1, <1>2, <1>3, <1>4, <1>5

LEMMA DeleteIInv ==
    ASSUME IInv, NEW j \in Jobs, DeleteJob(j)
    PROVE  IInv'
<1> DEFINE r == IF Waiting(j) THEN "cancelled" ELSE "deleted"
<1>1. j \in submitted
  BY DEF DeleteJob, Delete, IInv, JobInv
<1>2. r = "cancelled" => \A w \in Workers : held[w] = j => pc[w] = "fetch"
  BY DEF Waiting, IInv, UniqueHolder
<1>3. r \in Removals
  BY DEF Removals
<1>4. removal' = [removal EXCEPT ![j] = r]
  BY DEF DeleteJob
<1> HIDE DEF r
<1>5. QED
  BY <1>1, <1>2, <1>3, <1>4, RemoveKeeps DEF DeleteJob, Delete

LEMMA ExpireIInv ==
    ASSUME IInv, NEW j \in Jobs, ExpireJob(j)
    PROVE  IInv'
<1>1. j \in submitted
  BY DEF ExpireJob, Expire, IInv, JobInv
<1>2. "expired" \in Removals
  BY DEF Removals
<1>3. QED
  BY <1>1, <1>2, RemoveKeeps DEF ExpireJob, Expire

LEMMA PopIInv ==
    ASSUME IInv, NEW w \in Workers, Pop(w)
    PROVE  IInv'
<1> USE DEF IInv
<1>1. PICK j \in Jobs : Blpop(j) /\ held' = [held EXCEPT ![w] = j]
  BY DEF Pop
<1>2. /\ list' \in Seq(Jobs) /\ UniqueList' /\ InList(j)
      /\ \A k : InList(k)' <=> InList(k) /\ k # j
  BY <1>1, ListTail DEF Blpop, TypeOK, RedisTypeOK
<1>3. j \in submitted /\ held[w] = NoJob /\ \A v \in Workers : held[v] # j
  BY <1>2 DEF JobInv, WorkerInv, UniqueHolder, Pop
<1>4. TypeOK'
  BY <1>1, <1>2 DEF Pop, Blpop, TypeOK, RedisTypeOK, Pcs
<1>5. UniqueHolder'
  BY <1>1, <1>2, <1>3 DEF UniqueHolder, TypeOK
<1>6. ASSUME NEW v \in Workers PROVE WorkerInv(v)'
  BY <1>1, <1>3 DEF Pop, WorkerInv, TypeOK
<1>7. ASSUME NEW k \in Jobs PROVE JobInv(k)'
  BY <1>1, <1>2, <1>3 DEF Pop, Blpop, JobInv, TypeOK
<1>8. QED
  BY <1>2, <1>4, <1>5, <1>6, <1>7

\* Steps in which worker w keeps its job or lets it go, and which leave the
\* list and the submissions alone.
LEMMA WorkerStepKeepsHolders ==
    ASSUME IInv, NEW w \in Workers, UNCHANGED list,
           held' \in {held, [held EXCEPT ![w] = NoJob]}
    PROVE  /\ \A k : InList(k)' <=> InList(k)
           /\ UniqueList' /\ UniqueHolder'
<1>1. (\A k : InList(k)' <=> InList(k)) /\ UniqueList'
  BY ListSame DEF IInv
<1>2. ~InList(NoJob)
  <2>1. \A i \in 1..Len(list) : list[i] \in Jobs
    BY DEF IInv, TypeOK, RedisTypeOK
  <2>2. QED
    BY <2>1 DEF InList
<1>3. UniqueHolder'
  BY <1>1, <1>2 DEF IInv, UniqueHolder, TypeOK
<1>4. QED
  BY <1>1, <1>3

LEMMA FetchIInv ==
    ASSUME IInv, NEW w \in Workers, Fetch(w)
    PROVE  IInv'
<1> USE DEF IInv, Fetch, LetGo
<1>1. (\A k : InList(k)' <=> InList(k)) /\ UniqueList' /\ UniqueHolder'
  BY WorkerStepKeepsHolders
<1>2. held[w] \in Jobs /\ held[w] \in submitted
  BY DEF WorkerInv, TypeOK
<1>3. store[held[w]] \in {NoRecord, NewJob}
  BY <1>2 DEF JobInv
<1>4. TypeOK'
  BY <1>2 DEF TypeOK, RedisTypeOK, Pcs
<1>5. ASSUME NEW v \in Workers PROVE WorkerInv(v)'
  BY <1>2, <1>3 DEF WorkerInv, TypeOK
<1>6. ASSUME NEW k \in Jobs PROVE JobInv(k)'
  BY <1>1, <1>2, <1>3 DEF JobInv, TypeOK
<1>7. QED
  BY <1>1, <1>4, <1>5, <1>6

LEMMA BeginIInv ==
    ASSUME IInv, NEW w \in Workers, Begin(w)
    PROVE  IInv'
<1> USE DEF IInv, Begin, Update
<1>1. (\A k : InList(k)' <=> InList(k)) /\ UniqueList' /\ UniqueHolder'
  BY WorkerStepKeepsHolders
<1>2. held[w] \in Jobs /\ held[w] \in submitted /\ copy[w] = NewJob
  BY DEF WorkerInv, TypeOK
<1>3. /\ copy' = [copy EXCEPT ![w] = Started]
      /\ store' = [store EXCEPT ![held[w]] = Started]
  BY <1>2 DEF TypeOK, Started
<1>4. TypeOK'
  BY <1>2, <1>3, RecordFacts DEF TypeOK, RedisTypeOK, Pcs
<1>5. ASSUME NEW v \in Workers PROVE WorkerInv(v)'
  BY <1>2, <1>3 DEF WorkerInv, TypeOK
<1>6. removal[held[w]] # "cancelled"
  BY <1>2 DEF JobInv
<1>7. ~InList(held[w]) /\ \A v \in Workers : v # w => held[v] # held[w]
  BY <1>2 DEF UniqueHolder
<1>8. ASSUME NEW k \in Jobs PROVE JobInv(k)'
  <2>1. CASE k = held[w]
    BY <1>1, <1>2, <1>3, <1>6, <1>7, <2>1, RecordFacts DEF JobInv, TypeOK, RedisTypeOK
  <2>2. CASE k # held[w]
    BY <1>1, <1>2, <1>3, <2>2 DEF JobInv, TypeOK, RedisTypeOK
  <2>3. QED
    BY <2>1, <2>2
<1>9. QED
  BY <1>1, <1>4, <1>5, <1>8

LEMMA SaveArtifactIInv ==
    ASSUME IInv, NEW w \in Workers, SaveArtifact(w)
    PROVE  IInv'
<1> USE DEF IInv, SaveArtifact
<1>1. (\A k : InList(k)' <=> InList(k)) /\ UniqueList' /\ UniqueHolder'
  BY WorkerStepKeepsHolders
<1>2. TypeOK'
  BY DEF TypeOK, RedisTypeOK, Pcs
<1>3. ASSUME NEW v \in Workers PROVE WorkerInv(v)'
  BY DEF WorkerInv, TypeOK
<1>4. ASSUME NEW k \in Jobs PROVE JobInv(k)'
  BY <1>1 DEF JobInv, TypeOK
<1>5. QED
  BY <1>1, <1>2, <1>3, <1>4

LEMMA SucceedIInv ==
    ASSUME IInv, NEW w \in Workers, Succeed(w)
    PROVE  IInv'
<1> USE DEF IInv, Succeed
<1>1. (\A k : InList(k)' <=> InList(k)) /\ UniqueList' /\ UniqueHolder'
  BY WorkerStepKeepsHolders
<1>2. copy[w] = Started /\ copy' = [copy EXCEPT ![w] = Succeeded]
  BY DEF WorkerInv, Succeeded, TypeOK
<1>3. TypeOK'
  BY <1>2, RecordFacts DEF TypeOK, RedisTypeOK, Pcs
<1>4. ASSUME NEW v \in Workers PROVE WorkerInv(v)'
  BY <1>2 DEF WorkerInv, TypeOK
<1>5. ASSUME NEW k \in Jobs PROVE JobInv(k)'
  BY <1>1 DEF JobInv, TypeOK
<1>6. QED
  BY <1>1, <1>3, <1>4, <1>5

LEMMA FailIInv ==
    ASSUME IInv, NEW w \in Workers, Fail(w)
    PROVE  IInv'
<1> USE DEF IInv, Fail
<1>1. (\A k : InList(k)' <=> InList(k)) /\ UniqueList' /\ UniqueHolder'
  BY WorkerStepKeepsHolders
<1>2. copy[w] = Started /\ copy' = [copy EXCEPT ![w] = Failed]
  BY DEF WorkerInv, Failed, TypeOK
<1>3. Failed # Succeeded
  BY RecordFacts
<1>4. TypeOK'
  BY <1>2, RecordFacts DEF TypeOK, RedisTypeOK, Pcs
<1>5. ASSUME NEW v \in Workers PROVE WorkerInv(v)'
  BY <1>2, <1>3 DEF WorkerInv, TypeOK
<1>6. ASSUME NEW k \in Jobs PROVE JobInv(k)'
  BY <1>1 DEF JobInv, TypeOK
<1>7. QED
  BY <1>1, <1>4, <1>5, <1>6

LEMMA InterruptIInv ==
    ASSUME IInv, NEW w \in Workers, Interrupt(w)
    PROVE  IInv'
<1> USE DEF IInv, Interrupt
<1>1. (\A k : InList(k)' <=> InList(k)) /\ UniqueList' /\ UniqueHolder'
  BY WorkerStepKeepsHolders
<1>2. copy[w] = Started /\ Started # Succeeded
  BY RecordFacts DEF WorkerInv
<1>3. TypeOK'
  BY DEF TypeOK, RedisTypeOK, Pcs
<1>4. ASSUME NEW v \in Workers PROVE WorkerInv(v)'
  BY <1>2 DEF WorkerInv, TypeOK
<1>5. ASSUME NEW k \in Jobs PROVE JobInv(k)'
  BY <1>1 DEF JobInv, TypeOK
<1>6. QED
  BY <1>1, <1>3, <1>4, <1>5

LEMMA FinishIInv ==
    ASSUME IInv, NEW w \in Workers, Finish(w)
    PROVE  IInv'
<1> USE DEF IInv, Finish, Update
<1>1. (\A k : InList(k)' <=> InList(k)) /\ UniqueList' /\ UniqueHolder'
  BY WorkerStepKeepsHolders
<1>2. /\ held[w] \in Jobs /\ held[w] \in submitted
      /\ copy[w] \in {Started, Succeeded, Failed}
      /\ copy[w] = Succeeded /\ held[w] \in SynthJobs => held[w] \in artifacts
  BY DEF WorkerInv, TypeOK
<1>3. TypeOK'
  BY <1>2, RecordFacts DEF TypeOK, RedisTypeOK, Pcs
<1>4. ASSUME NEW v \in Workers PROVE WorkerInv(v)'
  BY <1>2 DEF WorkerInv, TypeOK
<1>5. removal[held[w]] # "cancelled"
  BY <1>2 DEF JobInv
<1>6. ~InList(held[w]) /\ \A v \in Workers : v # w => held[v] # held[w]
  BY <1>2 DEF UniqueHolder
<1>7. ASSUME NEW k \in Jobs PROVE JobInv(k)'
  <2>1. CASE k = held[w]
    BY <1>1, <1>2, <1>5, <1>6, <2>1, RecordFacts DEF JobInv, TypeOK, RedisTypeOK
  <2>2. CASE k # held[w]
    BY <1>1, <1>2, <2>2 DEF JobInv, TypeOK, RedisTypeOK
  <2>3. QED
    BY <2>1, <2>2
<1>8. QED
  BY <1>1, <1>3, <1>4, <1>7

LEMMA DrainIInv ==
    ASSUME IInv, NEW w \in Workers, Drain(w)
    PROVE  IInv'
<1> USE DEF IInv, Drain, LetGo
<1>1. (\A k : InList(k)' <=> InList(k)) /\ UniqueList' /\ UniqueHolder'
  BY WorkerStepKeepsHolders
<1>2. TypeOK' /\ artifacts \subseteq artifacts'
  BY DEF TypeOK, RedisTypeOK, Pcs
<1>3. ASSUME NEW v \in Workers PROVE WorkerInv(v)'
  BY <1>2 DEF WorkerInv, TypeOK
<1>4. ASSUME NEW k \in Jobs PROVE JobInv(k)'
  BY <1>1, <1>2 DEF JobInv, TypeOK
<1>5. QED
  BY <1>1, <1>2, <1>3, <1>4

LEMMA DieIInv ==
    ASSUME IInv, NEW w \in Workers, Die(w)
    PROVE  IInv'
<1> USE DEF IInv, Die, LetGo
<1>1. (\A k : InList(k)' <=> InList(k)) /\ UniqueList' /\ UniqueHolder'
  BY WorkerStepKeepsHolders
<1>2. TypeOK'
  BY DEF TypeOK, RedisTypeOK, Pcs
<1>3. ASSUME NEW v \in Workers PROVE WorkerInv(v)'
  BY DEF WorkerInv, TypeOK
<1>4. ASSUME NEW k \in Jobs PROVE JobInv(k)'
  BY <1>1 DEF JobInv, TypeOK
<1>5. QED
  BY <1>1, <1>2, <1>3, <1>4

LEMMA RestartIInv ==
    ASSUME IInv, NEW w \in Workers, Restart(w)
    PROVE  IInv'
<1> USE DEF IInv, Restart
<1>1. (\A k : InList(k)' <=> InList(k)) /\ UniqueList' /\ UniqueHolder'
  BY WorkerStepKeepsHolders
<1>2. TypeOK'
  BY DEF TypeOK, RedisTypeOK, Pcs
<1>3. ASSUME NEW v \in Workers PROVE WorkerInv(v)'
  BY DEF WorkerInv, TypeOK
<1>4. ASSUME NEW k \in Jobs PROVE JobInv(k)'
  BY <1>1 DEF JobInv, WorkerInv, TypeOK
<1>5. QED
  BY <1>1, <1>2, <1>3, <1>4

LEMMA NextIInv == IInv /\ [Next]_vars => IInv'
<1> SUFFICES ASSUME IInv, [Next]_vars
             PROVE  IInv'
  OBVIOUS
<1>1. CASE UNCHANGED vars
  BY <1>1 DEF vars, IInv, TypeOK, RedisTypeOK, UniqueList, UniqueHolder, InList,
              WorkerInv, JobInv
<1>2. ASSUME NEW j \in Jobs, Submit(j) \/ DeleteJob(j) \/ ExpireJob(j)
      PROVE  IInv'
  BY <1>2, SubmitIInv, DeleteIInv, ExpireIInv
<1>3. ASSUME NEW w \in Workers, Loop(w)
      PROVE  IInv'
  BY <1>3, PopIInv, FetchIInv, BeginIInv, SaveArtifactIInv, SucceedIInv, FailIInv,
     FinishIInv, DrainIInv DEF Loop
<1>4. ASSUME NEW w \in Workers, Interrupt(w) \/ Die(w) \/ Restart(w)
      PROVE  IInv'
  BY <1>4, InterruptIInv, DieIInv, RestartIInv
<1>5. QED
  BY <1>1, <1>2, <1>3, <1>4 DEF Next

LEMMA IInvAlways == Spec => []IInv
BY InitIInv, NextIInv, PTL DEF Spec

-----------------------------------------------------------------------------
(* The theorems *)

\* The pipeline's state keeps its type.
THEOREM TypeCorrect == Spec => []TypeOK
<1>1. IInv => TypeOK
  BY DEF IInv
<1>2. QED
  BY <1>1, IInvAlways, PTL

\* However many workers share the list and whichever die, no job is in two places
\* and none is begun by two workers or twice.
THEOREM NoJobRunsTwice == Spec => []RunOnce
<1>1. IInv => OneHolder
  BY DEF IInv, OneHolder, UniqueList, UniqueHolder
<1>2. IInv => \A w \in Workers : pc[w] = "ready" => copy[w] = NewJob
  BY DEF IInv, WorkerInv
<1>3. IInv => RunOnce
  BY <1>1, <1>2 DEF RunOnce
<1>4. QED
  BY <1>3, IInvAlways, PTL

\* A DELETE that comes before any worker reads the job is final.
THEOREM CancelIsFinal == Spec => []CancelledNeverRuns
<1>1. IInv => CancelledNeverRuns
  BY DEF IInv, CancelledNeverRuns, JobInv
<1>2. QED
  BY <1>1, IInvAlways, PTL

\* A succeeded synthesis job has its WAV, whatever dies and when.
THEOREM ArtifactBeforeOutcome == Spec => []SucceededHasArtifact
<1>1. ASSUME IInv, NEW j \in SynthJobs, store[j] # NoRecord,
             store[j].status = "succeeded"
      PROVE  j \in artifacts
  <2>1. JobInv(j)
    BY <1>1 DEF IInv
  <2>2. store[j] = Succeeded
    BY <1>1, <2>1, RecordFacts DEF JobInv
  <2>3. QED
    BY <1>1, <2>1, <2>2 DEF JobInv
<1>2. IInv => SucceededHasArtifact
  BY <1>1 DEF SucceededHasArtifact
<1>3. QED
  BY <1>2, IInvAlways, PTL

\* Every record in Redis is whole.
THEOREM EveryRecordCoherent == Spec => []RecordsCoherent
<1>1. IInv => RecordsCoherent
  BY RecordFacts DEF IInv, RecordsCoherent, JobInv
<1>2. QED
  BY <1>1, IInvAlways, PTL

-----------------------------------------------------------------------------
(* The refinement of the queue's promise.  StageOf picks a worker that     *)
(* holds the job; there is at most one, so the stage can be read off.      *)

StagesKnown ==
    \A j \in Jobs :
        /\ j \notin submitted => StageOf(j) = "new"
        /\ j \in submitted /\ Waiting(j) =>
             StageOf(j) = IF store[j] = NoRecord THEN "over" ELSE "queued"
        /\ \A w \in Workers : held[w] = j /\ pc[w] \notin {"fetch", "drain"} =>
             StageOf(j) = IF pc[w] = "ready" THEN "taken" ELSE copy[w].status
        /\ j \in submitted /\ ~Waiting(j) /\ (\A w \in Workers : ~Holds(w, j)) =>
             StageOf(j) = "over"

\* The stage of a job, case by case.
LEMMA StageFacts == IInv => StagesKnown
<1> SUFFICES ASSUME IInv, NEW j \in Jobs
             PROVE  StagesKnown!(j)
  BY DEF StagesKnown
<1>1. ASSUME NEW w \in Workers, held[w] = j, pc[w] \notin {"fetch", "drain"}
      PROVE  StageOf(j) = IF pc[w] = "ready" THEN "taken" ELSE copy[w].status
  <2>1. \A v \in Workers : held[v] = j => v = w
    BY <1>1, NoJobAssumption DEF IInv, UniqueHolder
  <2>2. HolderOf(j) = w
    BY <1>1, <2>1 DEF HolderOf, Holds
  <2>3. ~Waiting(j)
    BY <1>1, <2>1 DEF Waiting, IInv, UniqueHolder
  <2>4. j \in submitted
    BY <1>1, NoJobAssumption DEF IInv, WorkerInv
  <2>5. \E v \in Workers : Holds(v, j)
    BY <1>1 DEF Holds
  <2>6. QED
    BY <2>2, <2>3, <2>4, <2>5 DEF StageOf
<1>2. j \notin submitted => StageOf(j) = "new"
  BY DEF StageOf
<1>3. j \in submitted /\ Waiting(j) =>
        StageOf(j) = IF store[j] = NoRecord THEN "over" ELSE "queued"
  BY DEF StageOf
<1>4. j \in submitted /\ ~Waiting(j) /\ (\A w \in Workers : ~Holds(w, j)) =>
        StageOf(j) = "over"
  BY DEF StageOf
<1>5. QED
  BY <1>1, <1>2, <1>3, <1>4

LEMMA StageFactsNext == IInv' => StagesKnown'
BY StageFacts, PTL

\* A step of worker w is nothing to the jobs it neither holds nor takes.
LEMMA OthersUnmoved ==
    ASSUME IInv, IInv', NEW w \in Workers, NEW k \in Jobs,
           held[w] # k, held'[w] # k, UNCHANGED submitted, store'[k] = store[k],
           InList(k)' <=> InList(k),
           \A v \in Workers : v # w =>
               pc'[v] = pc[v] /\ held'[v] = held[v] /\ copy'[v] = copy[v]
    PROVE  StageOf(k)' = StageOf(k) /\ RecordOf(k)' = RecordOf(k)
<1>1. StagesKnown /\ StagesKnown'
  BY StageFacts, StageFactsNext
<1>2. RecordOf(k)' = RecordOf(k)
  BY DEF RecordOf
<1>3. /\ Waiting(k)' <=> Waiting(k)
      /\ \A v \in Workers : Holds(v, k)' <=> Holds(v, k)
  BY DEF Waiting, Holds
<1>4. CASE k \in submitted /\ ~Waiting(k) /\ \E v \in Workers : Holds(v, k)
  <2>1. PICK v \in Workers : Holds(v, k)
    BY <1>4
  <2>2. /\ v # w /\ held[v] = k /\ held'[v] = k /\ pc'[v] = pc[v]
        /\ pc[v] \notin {"fetch", "drain"} /\ copy'[v] = copy[v]
    BY <1>4, <2>1 DEF Holds, Waiting
  <2>3. QED
    BY <1>1, <1>2, <2>2 DEF StagesKnown
<1>5. CASE ~(k \in submitted /\ ~Waiting(k) /\ \E v \in Workers : Holds(v, k))
  BY <1>1, <1>2, <1>3, <1>5 DEF StagesKnown
<1>6. QED
  BY <1>4, <1>5

stageNow == [j \in Jobs |-> StageOf(j)]
recordNow == [j \in Jobs |-> RecordOf(j)]

\* A step under which every job keeps stage and record.
LEMMA Stutter ==
    ASSUME \A k \in Jobs : StageOf(k)' = StageOf(k) /\ RecordOf(k)' = RecordOf(k)
    PROVE  UNCHANGED Lifecycle!lifecycleVars
<1>1. stageNow' = stageNow /\ recordNow' = recordNow
  BY DEF stageNow, recordNow
<1>2. QED
  BY <1>1 DEF Lifecycle!lifecycleVars, stageNow, recordNow

\* A step under which one job moves, seen from the abstract variables.
LEMMA OneMoves ==
    ASSUME NEW j \in Jobs,
           \A k \in Jobs : k # j =>
               StageOf(k)' = StageOf(k) /\ RecordOf(k)' = RecordOf(k)
    PROVE  /\ stageNow' = [stageNow EXCEPT ![j] = StageOf(j)']
           /\ recordNow' = [recordNow EXCEPT ![j] = RecordOf(j)']
           /\ stageNow[j] = StageOf(j) /\ recordNow[j] = RecordOf(j)
BY DEF stageNow, recordNow

LEMMA RecordsSame ==
    ASSUME \A k \in Jobs : RecordOf(k)' = RecordOf(k)
    PROVE  recordNow' = recordNow
BY DEF recordNow

\* The job in the hands of a worker is a submitted one that is nowhere else.
LEMMA Hand ==
    ASSUME IInv, NEW w \in Workers, pc[w] \notin {"idle", "down"}
    PROVE  \E j \in submitted :
               /\ j \in Jobs /\ held[w] = j /\ j # NoJob /\ ~InList(j)
               /\ \A v \in Workers : v # w => held[v] # j
<1>1. held[w] \in submitted /\ held[w] \in Jobs
  BY DEF IInv, TypeOK, WorkerInv
<1>2. held[w] # NoJob
  BY <1>1, NoJobAssumption
<1>3. QED
  BY <1>1, <1>2 DEF IInv, UniqueHolder

\* A step of worker w moves no job but the one it holds.
LEMMA OnlyItsJobMoves ==
    ASSUME IInv, IInv', NEW w \in Workers, NEW j \in Jobs, held[w] = j,
           held' \in {held, [held EXCEPT ![w] = NoJob]},
           UNCHANGED <<list, submitted>>,
           \A k \in Jobs : k # j => store'[k] = store[k],
           \A v \in Workers : v # w => pc'[v] = pc[v] /\ copy'[v] = copy[v]
    PROVE  \A k \in Jobs : k # j =>
               StageOf(k)' = StageOf(k) /\ RecordOf(k)' = RecordOf(k)
<1>1. held \in [Workers -> Jobs \cup {NoJob}]
  BY DEF IInv, TypeOK
<1>2. \A k : InList(k)' <=> InList(k)
  BY ListSame
<1>3. ASSUME NEW k \in Jobs, k # j
      PROVE  StageOf(k)' = StageOf(k) /\ RecordOf(k)' = RecordOf(k)
  <2>1. held'[w] # k
    BY <1>1, <1>3, NoJobAssumption
  <2>2. \A v \in Workers : v # w => held'[v] = held[v]
    BY <1>1
  <2>3. QED
    BY <1>2, <1>3, <2>1, <2>2, OthersUnmoved
<1>4. QED
  BY <1>3

LEMMA FetchKeeps ==
    ASSUME IInv, IInv', NEW w \in Workers, Fetch(w)
    PROVE  [Lifecycle!LifecycleNext]_Lifecycle!lifecycleVars
<1>1. /\ StagesKnown /\ StagesKnown'
      /\ \A k : InList(k)' <=> InList(k)
  BY StageFacts, StageFactsNext, ListSame DEF Fetch
<1>2. PICK j \in submitted :
          /\ j \in Jobs /\ held[w] = j /\ j # NoJob /\ ~InList(j)
          /\ \A v \in Workers : v # w => held[v] # j
  BY Hand DEF Fetch
<1>3. pc[w] = "fetch" /\ Waiting(j)
  BY <1>2 DEF Fetch, Waiting
<1>4. held \in [Workers -> Jobs \cup {NoJob}] /\ pc \in [Workers -> Pcs]
  BY DEF IInv, TypeOK
<1>5. \A k \in Jobs : k # j =>
        StageOf(k)' = StageOf(k) /\ RecordOf(k)' = RecordOf(k)
  <2>1. held' \in {held, [held EXCEPT ![w] = NoJob]}
    BY DEF Fetch, LetGo
  <2>2. \A v \in Workers : v # w => pc'[v] = pc[v] /\ copy'[v] = copy[v]
    BY DEF Fetch, LetGo, IInv, TypeOK
  <2>3. QED
    BY <1>2, <2>1, <2>2, OnlyItsJobMoves DEF Fetch
<1>6. RecordOf(j)' = RecordOf(j)
  BY DEF RecordOf, Fetch
<1>7. CASE store[j] = NoRecord
  <2>1. StageOf(j) = "over"
    BY <1>1, <1>2, <1>3, <1>7 DEF StagesKnown
  <2>2. \A v \in Workers : held'[v] # j
    BY <1>2, <1>4, <1>7 DEF Fetch, LetGo
  <2>3. StageOf(j)' = "over"
    BY <1>1, <1>2, <2>2 DEF StagesKnown, Waiting, Holds, Fetch
  <2>4. QED
    BY <1>5, <1>6, <2>1, <2>3, Stutter
<1>8. CASE store[j] # NoRecord
  <2>1. StageOf(j) = "queued"
    BY <1>1, <1>2, <1>3, <1>8 DEF StagesKnown
  <2>2. held'[w] = j /\ pc'[w] = "ready"
    BY <1>2, <1>4, <1>8 DEF Fetch
  <2>3. StageOf(j)' = "taken"
    BY <1>1, <1>2, <2>2 DEF StagesKnown
  <2>4. /\ stageNow[j] = "queued"
        /\ stageNow' = [stageNow EXCEPT ![j] = "taken"]
        /\ recordNow' = recordNow
    BY <1>2, <1>5, <1>6, <2>1, <2>3, OneMoves, RecordsSame
  <2>5. Lifecycle!Take(j)
    BY <2>4 DEF Lifecycle!Take, stageNow, recordNow
  <2>6. QED
    BY <1>2, <2>5 DEF Lifecycle!LifecycleNext
<1>9. QED
  BY <1>7, <1>8

LEMMA BeginKeeps ==
    ASSUME IInv, IInv', NEW w \in Workers, Begin(w)
    PROVE  [Lifecycle!LifecycleNext]_Lifecycle!lifecycleVars
<1>1. PICK j \in submitted :
          /\ j \in Jobs /\ held[w] = j /\ j # NoJob /\ ~InList(j)
          /\ \A v \in Workers : v # w => held[v] # j
  BY Hand DEF Begin
<1>2. /\ StagesKnown /\ StagesKnown'
      /\ \A k : InList(k)' <=> InList(k)
  BY StageFacts, StageFactsNext, ListSame DEF Begin, Update
<1>3. /\ held \in [Workers -> Jobs \cup {NoJob}] /\ pc \in [Workers -> Pcs]
      /\ copy \in [Workers -> JobRecord \cup {NoRecord}]
      /\ store \in [Jobs -> JobRecord \cup {NoRecord}]
  BY DEF IInv, TypeOK, RedisTypeOK
<1>4. \A k \in Jobs : k # j =>
        StageOf(k)' = StageOf(k) /\ RecordOf(k)' = RecordOf(k)
  BY <1>1, <1>3, OnlyItsJobMoves DEF Begin, Update
<1>5. WorkerInv(w) /\ copy[w] = NewJob
  BY DEF IInv, WorkerInv, Begin
<1>6. StageOf(j) = "taken"
  BY <1>1, <1>2 DEF StagesKnown, Begin
<1>7. /\ held'[w] = j /\ pc'[w] = "exec" /\ copy'[w] = Started
      /\ store'[j] = Started
  BY <1>1, <1>3, <1>5 DEF Begin, Update, Started
<1>8. StageOf(j)' = "running" /\ RecordOf(j)' = "running"
  BY <1>1, <1>2, <1>7, RecordFacts, NoRecordAssumption DEF StagesKnown, RecordOf
<1>9. Lifecycle!Advance(j, "running")
  BY <1>1, <1>4, <1>6, <1>8, OneMoves DEF Lifecycle!Advance, stageNow, recordNow
<1>10. QED
  BY <1>1, <1>9 DEF Lifecycle!LifecycleNext, Lifecycle!Status

LEMMA SaveArtifactKeeps ==
    ASSUME IInv, IInv', NEW w \in Workers, SaveArtifact(w)
    PROVE  [Lifecycle!LifecycleNext]_Lifecycle!lifecycleVars
<1>1. PICK j \in submitted :
          /\ j \in Jobs /\ held[w] = j /\ j # NoJob /\ ~InList(j)
          /\ \A v \in Workers : v # w => held[v] # j
  BY Hand DEF SaveArtifact
<1>2. /\ StagesKnown /\ StagesKnown'
      /\ \A k : InList(k)' <=> InList(k)
  BY StageFacts, StageFactsNext, ListSame DEF SaveArtifact
<1>3. /\ held \in [Workers -> Jobs \cup {NoJob}] /\ pc \in [Workers -> Pcs]
      /\ copy \in [Workers -> JobRecord \cup {NoRecord}]
      /\ store \in [Jobs -> JobRecord \cup {NoRecord}]
  BY DEF IInv, TypeOK, RedisTypeOK
<1>4. \A k \in Jobs : k # j =>
        StageOf(k)' = StageOf(k) /\ RecordOf(k)' = RecordOf(k)
  BY <1>1, <1>3, OnlyItsJobMoves DEF SaveArtifact
<1>5. /\ pc[w] = "exec" /\ pc'[w] = "saved"
      /\ held'[w] = j /\ copy'[w] = copy[w]
  BY <1>1, <1>3 DEF SaveArtifact
<1>6. StageOf(j)' = StageOf(j) /\ RecordOf(j)' = RecordOf(j)
  BY <1>1, <1>2, <1>5 DEF StagesKnown, RecordOf, SaveArtifact
<1>7. QED
  BY <1>4, <1>6, Stutter

LEMMA SucceedKeeps ==
    ASSUME IInv, IInv', NEW w \in Workers, Succeed(w)
    PROVE  [Lifecycle!LifecycleNext]_Lifecycle!lifecycleVars
<1>1. PICK j \in submitted :
          /\ j \in Jobs /\ held[w] = j /\ j # NoJob /\ ~InList(j)
          /\ \A v \in Workers : v # w => held[v] # j
  BY Hand DEF Succeed
<1>2. /\ StagesKnown /\ StagesKnown'
      /\ \A k : InList(k)' <=> InList(k)
  BY StageFacts, StageFactsNext, ListSame DEF Succeed
<1>3. /\ held \in [Workers -> Jobs \cup {NoJob}] /\ pc \in [Workers -> Pcs]
      /\ copy \in [Workers -> JobRecord \cup {NoRecord}]
      /\ store \in [Jobs -> JobRecord \cup {NoRecord}]
  BY DEF IInv, TypeOK, RedisTypeOK
<1>4. \A k \in Jobs : k # j =>
        StageOf(k)' = StageOf(k) /\ RecordOf(k)' = RecordOf(k)
  BY <1>1, <1>3, OnlyItsJobMoves DEF Succeed
<1>5. pc[w] \in {"exec", "saved"} /\ copy[w] = Started
  BY DEF IInv, WorkerInv, Succeed
<1>6. StageOf(j) = "running"
  BY <1>1, <1>2, <1>5, RecordFacts DEF StagesKnown
<1>7. held'[w] = j /\ pc'[w] = "final" /\ copy'[w] = Succeeded
  BY <1>1, <1>3, <1>5 DEF Succeed, Succeeded
<1>8. StageOf(j)' = "succeeded" /\ RecordOf(j)' = RecordOf(j)
  BY <1>1, <1>2, <1>7, RecordFacts DEF StagesKnown, RecordOf, Succeed
<1>9. Lifecycle!Advance(j, "succeeded")
  BY <1>1, <1>4, <1>6, <1>8, OneMoves DEF Lifecycle!Advance, Lifecycle!Terminal, stageNow, recordNow
<1>10. QED
  BY <1>1, <1>9 DEF Lifecycle!LifecycleNext, Lifecycle!Status

LEMMA FailKeeps ==
    ASSUME IInv, IInv', NEW w \in Workers, Fail(w)
    PROVE  [Lifecycle!LifecycleNext]_Lifecycle!lifecycleVars
<1>1. PICK j \in submitted :
          /\ j \in Jobs /\ held[w] = j /\ j # NoJob /\ ~InList(j)
          /\ \A v \in Workers : v # w => held[v] # j
  BY Hand DEF Fail
<1>2. /\ StagesKnown /\ StagesKnown'
      /\ \A k : InList(k)' <=> InList(k)
  BY StageFacts, StageFactsNext, ListSame DEF Fail
<1>3. /\ held \in [Workers -> Jobs \cup {NoJob}] /\ pc \in [Workers -> Pcs]
      /\ copy \in [Workers -> JobRecord \cup {NoRecord}]
      /\ store \in [Jobs -> JobRecord \cup {NoRecord}]
  BY DEF IInv, TypeOK, RedisTypeOK
<1>4. \A k \in Jobs : k # j =>
        StageOf(k)' = StageOf(k) /\ RecordOf(k)' = RecordOf(k)
  BY <1>1, <1>3, OnlyItsJobMoves DEF Fail
<1>5. pc[w] \in {"exec", "saved"} /\ copy[w] = Started
  BY DEF IInv, WorkerInv, Fail
<1>6. StageOf(j) = "running"
  BY <1>1, <1>2, <1>5, RecordFacts DEF StagesKnown
<1>7. held'[w] = j /\ pc'[w] = "final" /\ copy'[w] = Failed
  BY <1>1, <1>3, <1>5 DEF Fail, Failed
<1>8. StageOf(j)' = "failed" /\ RecordOf(j)' = RecordOf(j)
  BY <1>1, <1>2, <1>7, RecordFacts DEF StagesKnown, RecordOf, Fail
<1>9. Lifecycle!Advance(j, "failed")
  BY <1>1, <1>4, <1>6, <1>8, OneMoves DEF Lifecycle!Advance, Lifecycle!Terminal, stageNow, recordNow
<1>10. QED
  BY <1>1, <1>9 DEF Lifecycle!LifecycleNext, Lifecycle!Status

LEMMA InterruptKeeps ==
    ASSUME IInv, IInv', NEW w \in Workers, Interrupt(w)
    PROVE  [Lifecycle!LifecycleNext]_Lifecycle!lifecycleVars
<1>1. PICK j \in submitted :
          /\ j \in Jobs /\ held[w] = j /\ j # NoJob /\ ~InList(j)
          /\ \A v \in Workers : v # w => held[v] # j
  BY Hand DEF Interrupt
<1>2. /\ StagesKnown /\ StagesKnown'
      /\ \A k : InList(k)' <=> InList(k)
  BY StageFacts, StageFactsNext, ListSame DEF Interrupt
<1>3. /\ held \in [Workers -> Jobs \cup {NoJob}] /\ pc \in [Workers -> Pcs]
      /\ copy \in [Workers -> JobRecord \cup {NoRecord}]
      /\ store \in [Jobs -> JobRecord \cup {NoRecord}]
  BY DEF IInv, TypeOK, RedisTypeOK
<1>4. \A k \in Jobs : k # j =>
        StageOf(k)' = StageOf(k) /\ RecordOf(k)' = RecordOf(k)
  BY <1>1, <1>3, OnlyItsJobMoves DEF Interrupt
<1>5. /\ pc[w] \in {"exec", "saved"} /\ pc'[w] = "final"
      /\ held'[w] = j /\ copy'[w] = copy[w]
  BY <1>1, <1>3 DEF Interrupt
<1>6. StageOf(j)' = StageOf(j) /\ RecordOf(j)' = RecordOf(j)
  BY <1>1, <1>2, <1>5 DEF StagesKnown, RecordOf, Interrupt
<1>7. QED
  BY <1>4, <1>6, Stutter

LEMMA FinishKeeps ==
    ASSUME IInv, IInv', NEW w \in Workers, Finish(w)
    PROVE  [Lifecycle!LifecycleNext]_Lifecycle!lifecycleVars
<1>1. PICK j \in submitted :
          /\ j \in Jobs /\ held[w] = j /\ j # NoJob /\ ~InList(j)
          /\ \A v \in Workers : v # w => held[v] # j
  BY Hand DEF Finish
<1>2. /\ StagesKnown /\ StagesKnown'
      /\ \A k : InList(k)' <=> InList(k)
  BY StageFacts, StageFactsNext, ListSame DEF Finish, Update
<1>3. /\ held \in [Workers -> Jobs \cup {NoJob}] /\ pc \in [Workers -> Pcs]
      /\ copy \in [Workers -> JobRecord \cup {NoRecord}]
      /\ store \in [Jobs -> JobRecord \cup {NoRecord}]
  BY DEF IInv, TypeOK, RedisTypeOK
<1>4. \A k \in Jobs : k # j =>
        StageOf(k)' = StageOf(k) /\ RecordOf(k)' = RecordOf(k)
  BY <1>1, <1>3, OnlyItsJobMoves DEF Finish, Update
<1>5. pc[w] = "final" /\ copy[w] \in {Started, Succeeded, Failed}
  BY DEF IInv, WorkerInv, Finish
<1>6. /\ StageOf(j) = copy[w].status
      /\ StageOf(j) \in {"running"} \cup Lifecycle!Terminal
  BY <1>1, <1>2, <1>5, RecordFacts DEF StagesKnown, Lifecycle!Terminal
<1>7. store'[j] = copy[w] /\ copy[w] # NoRecord
  BY <1>1, <1>3, <1>5, RecordFacts DEF Finish, Update
<1>8. RecordOf(j)' = StageOf(j)
  BY <1>6, <1>7 DEF RecordOf
<1>9. \A v \in Workers : held'[v] = j => pc'[v] = "drain"
  BY <1>1, <1>3 DEF Finish
<1>10. StageOf(j)' = "over"
  BY <1>1, <1>2, <1>9 DEF StagesKnown, Waiting, Holds, Finish
<1>11. Lifecycle!Settle(j)
  BY <1>1, <1>4, <1>6, <1>8, <1>10, OneMoves DEF Lifecycle!Settle, stageNow, recordNow
<1>12. QED
  BY <1>1, <1>11 DEF Lifecycle!LifecycleNext

LEMMA DrainKeeps ==
    ASSUME IInv, IInv', NEW w \in Workers, Drain(w)
    PROVE  [Lifecycle!LifecycleNext]_Lifecycle!lifecycleVars
<1>1. PICK j \in submitted :
          /\ j \in Jobs /\ held[w] = j /\ j # NoJob /\ ~InList(j)
          /\ \A v \in Workers : v # w => held[v] # j
  BY Hand DEF Drain
<1>2. /\ StagesKnown /\ StagesKnown'
      /\ \A k : InList(k)' <=> InList(k)
  BY StageFacts, StageFactsNext, ListSame DEF Drain, LetGo
<1>3. /\ held \in [Workers -> Jobs \cup {NoJob}] /\ pc \in [Workers -> Pcs]
      /\ copy \in [Workers -> JobRecord \cup {NoRecord}]
      /\ store \in [Jobs -> JobRecord \cup {NoRecord}]
  BY DEF IInv, TypeOK, RedisTypeOK
<1>4. \A k \in Jobs : k # j =>
        StageOf(k)' = StageOf(k) /\ RecordOf(k)' = RecordOf(k)
  BY <1>1, <1>3, OnlyItsJobMoves DEF Drain, LetGo
<1>5. pc[w] = "drain" /\ \A v \in Workers : held'[v] # j
  BY <1>1, <1>3 DEF Drain, LetGo
<1>6. StageOf(j) = "over"
  BY <1>1, <1>2, <1>5 DEF StagesKnown, Waiting, Holds
<1>7. StageOf(j)' = "over" /\ RecordOf(j)' = RecordOf(j)
  BY <1>1, <1>2, <1>5 DEF StagesKnown, Waiting, Holds, RecordOf, Drain
<1>8. QED
  BY <1>4, <1>6, <1>7, Stutter

\* BLPOP moves an id from the list into the hands of a worker: it still waits
\* to be read.
LEMMA PopKeeps ==
    ASSUME IInv, IInv', NEW w \in Workers, Pop(w)
    PROVE  [Lifecycle!LifecycleNext]_Lifecycle!lifecycleVars
<1>1. PICK j \in Jobs : Blpop(j) /\ held' = [held EXCEPT ![w] = j]
  BY DEF Pop
<1>2. InList(j) /\ \A k : InList(k)' <=> InList(k) /\ k # j
  BY <1>1, ListTail DEF Blpop, IInv, TypeOK, RedisTypeOK
<1>3. /\ held \in [Workers -> Jobs \cup {NoJob}] /\ pc \in [Workers -> Pcs]
      /\ held[w] = NoJob /\ j \in submitted /\ StagesKnown /\ StagesKnown'
  BY <1>2, StageFacts, StageFactsNext DEF IInv, TypeOK, WorkerInv, JobInv, Pop
<1>4. ASSUME NEW k \in Jobs, k # j
      PROVE  StageOf(k)' = StageOf(k) /\ RecordOf(k)' = RecordOf(k)
  <2>1. held[w] # k /\ held'[w] # k
    BY <1>1, <1>3, <1>4, NoJobAssumption
  <2>2. \A v \in Workers : v # w =>
           pc'[v] = pc[v] /\ held'[v] = held[v] /\ copy'[v] = copy[v]
    BY <1>1, <1>3 DEF Pop
  <2>3. QED
    BY <1>1, <1>2, <1>4, <2>1, <2>2, OthersUnmoved DEF Pop, Blpop
<1>5. Waiting(j) /\ Waiting(j)'
  <2>1. held'[w] = j /\ pc'[w] = "fetch"
    BY <1>1, <1>3 DEF Pop
  <2>2. QED
    BY <1>2, <2>1 DEF Waiting
<1>6. StageOf(j)' = StageOf(j) /\ RecordOf(j)' = RecordOf(j)
  BY <1>1, <1>3, <1>5 DEF StagesKnown, RecordOf, Pop, Blpop
<1>7. QED
  BY <1>4, <1>6, Stutter

\* A death takes the job its worker had: the lifecycle loses it, unless its
\* thread was all that was left of it, or it had been cancelled.
LEMMA DieKeeps ==
    ASSUME IInv, IInv', NEW w \in Workers, Die(w)
    PROVE  [Lifecycle!LifecycleNext]_Lifecycle!lifecycleVars
<1>1. /\ StagesKnown /\ StagesKnown'
      /\ \A k : InList(k)' <=> InList(k)
  BY StageFacts, StageFactsNext, ListSame DEF Die
<1>2. /\ held \in [Workers -> Jobs \cup {NoJob}] /\ pc \in [Workers -> Pcs]
      /\ copy \in [Workers -> JobRecord \cup {NoRecord}]
  BY DEF IInv, TypeOK
<1>3. CASE pc[w] = "idle"
  <2>1. held[w] = NoJob /\ held'[w] = NoJob
    BY <1>2, <1>3 DEF IInv, WorkerInv, Die, LetGo
  <2>2. \A v \in Workers : v # w =>
           pc'[v] = pc[v] /\ held'[v] = held[v] /\ copy'[v] = copy[v]
    BY <1>2 DEF Die, LetGo
  <2>3. \A k \in Jobs : StageOf(k)' = StageOf(k) /\ RecordOf(k)' = RecordOf(k)
    BY <1>1, <2>1, <2>2, NoJobAssumption, OthersUnmoved DEF Die
  <2>4. QED
    BY <2>3, Stutter
<1>4. CASE pc[w] # "idle"
  <2>1. PICK j \in submitted :
            /\ j \in Jobs /\ held[w] = j /\ j # NoJob /\ ~InList(j)
            /\ \A v \in Workers : v # w => held[v] # j
    BY <1>4, Hand DEF Die
  <2>2. \A k \in Jobs : k # j =>
          StageOf(k)' = StageOf(k) /\ RecordOf(k)' = RecordOf(k)
    BY <1>2, <2>1, OnlyItsJobMoves DEF Die, LetGo
  <2>3. RecordOf(j)' = RecordOf(j)
    BY DEF RecordOf, Die
  <2>4. \A v \in Workers : held'[v] # j
    BY <1>2, <2>1 DEF Die, LetGo
  <2>5. StageOf(j)' = "over"
    BY <1>1, <2>1, <2>4 DEF StagesKnown, Waiting, Holds, Die
  <2>6. StageOf(j) \in {"over", "queued", "taken", "running", "succeeded", "failed"}
    <3>1. CASE pc[w] = "fetch"
      BY <1>1, <2>1, <3>1 DEF StagesKnown, Waiting
    <3>2. CASE pc[w] = "drain"
      BY <1>1, <2>1, <3>2 DEF StagesKnown, Waiting, Holds
    <3>3. CASE pc[w] \notin {"fetch", "drain"}
      <4>1. pc[w] \in {"ready", "exec", "saved", "final"}
        BY <1>2, <1>4, <3>3 DEF Pcs, Die
      <4>2. pc[w] # "ready" => copy[w] \in {Started, Succeeded, Failed}
        BY <4>1 DEF IInv, WorkerInv
      <4>3. QED
        BY <1>1, <2>1, <3>3, <4>2, RecordFacts DEF StagesKnown
    <3>4. QED
      BY <3>1, <3>2, <3>3
  <2>7. CASE StageOf(j) = "over"
    BY <2>2, <2>3, <2>5, <2>7, Stutter
  <2>8. CASE StageOf(j) # "over"
    <3>1. /\ stageNow[j] \in {"taken"} \cup Lifecycle!Status
          /\ stageNow' = [stageNow EXCEPT ![j] = "over"]
          /\ recordNow' = recordNow
      BY <2>1, <2>2, <2>3, <2>5, <2>6, <2>8, OneMoves, RecordsSame DEF Lifecycle!Status
    <3>2. Lifecycle!Lose(j)
      BY <3>1 DEF Lifecycle!Lose, stageNow, recordNow
    <3>3. QED
      BY <2>1, <3>2 DEF Lifecycle!LifecycleNext
  <2>9. QED
    BY <2>7, <2>8
<1>5. QED
  BY <1>3, <1>4

LEMMA RestartKeeps ==
    ASSUME IInv, IInv', NEW w \in Workers, Restart(w)
    PROVE  [Lifecycle!LifecycleNext]_Lifecycle!lifecycleVars
<1>1. \A k : InList(k)' <=> InList(k)
  BY ListSame DEF Restart
<1>2. pc \in [Workers -> Pcs] /\ held[w] = NoJob
  BY DEF IInv, TypeOK, WorkerInv, Restart
<1>3. \A k \in Jobs : StageOf(k)' = StageOf(k) /\ RecordOf(k)' = RecordOf(k)
  BY <1>1, <1>2, NoJobAssumption, OthersUnmoved DEF Restart
<1>4. QED
  BY <1>3, Stutter

-----------------------------------------------------------------------------
(* The client's steps and the passing of time, in the lifecycle *)

\* A step that leaves the workers alone is nothing to the jobs whose record and
\* place it leaves alone.
LEMMA WorkersUnmoved ==
    ASSUME IInv, IInv', NEW k \in Jobs, UNCHANGED workerVars,
           k \in submitted <=> k \in submitted', InList(k)' <=> InList(k)
    PROVE  /\ Waiting(k)' <=> Waiting(k)
           /\ store'[k] = store[k] \/ ~Waiting(k) => StageOf(k)' = StageOf(k)
<1>1. StagesKnown /\ StagesKnown'
  BY StageFacts, StageFactsNext
<1>2. /\ Waiting(k)' <=> Waiting(k)
      /\ \A v \in Workers : Holds(v, k)' <=> Holds(v, k)
  BY DEF Waiting, Holds, workerVars
<1>3. CASE k \in submitted /\ ~Waiting(k) /\ \E v \in Workers : Holds(v, k)
  <2>1. PICK v \in Workers : Holds(v, k)
    BY <1>3
  <2>2. held[v] = k /\ pc[v] \notin {"fetch", "drain"}
    BY <1>3, <2>1 DEF Holds, Waiting
  <2>3. QED
    BY <1>1, <1>2, <2>2 DEF StagesKnown, workerVars
<1>4. CASE ~(k \in submitted /\ ~Waiting(k) /\ \E v \in Workers : Holds(v, k))
  BY <1>1, <1>2, <1>4 DEF StagesKnown
<1>5. QED
  BY <1>2, <1>3, <1>4

LEMMA SubmitKeeps ==
    ASSUME IInv, IInv', NEW j \in Jobs, Submit(j)
    PROVE  [Lifecycle!LifecycleNext]_Lifecycle!lifecycleVars
<1>1. /\ StagesKnown /\ StagesKnown'
      /\ store \in [Jobs -> JobRecord \cup {NoRecord}] /\ submitted \subseteq Jobs
  BY StageFacts, StageFactsNext DEF IInv, TypeOK, RedisTypeOK
<1>2. \A k : InList(k)' <=> InList(k) \/ k = j
  BY ListAppend DEF Submit, Enqueue, IInv, TypeOK, RedisTypeOK
<1>3. ASSUME NEW k \in Jobs, k # j
      PROVE  StageOf(k)' = StageOf(k) /\ RecordOf(k)' = RecordOf(k)
  <2>1. store'[k] = store[k]
    BY <1>1, <1>3 DEF Submit, Enqueue
  <2>2. StageOf(k)' = StageOf(k)
    BY <1>2, <1>3, <2>1, WorkersUnmoved DEF Submit
  <2>3. QED
    BY <2>1, <2>2 DEF RecordOf
<1>4. StageOf(j) = "new"
  BY <1>1 DEF StagesKnown, Submit
<1>5. store'[j] = NewJob /\ j \in submitted' /\ Waiting(j)'
  BY <1>1, <1>2 DEF Submit, Enqueue, Waiting
<1>6. StageOf(j)' = "queued" /\ RecordOf(j)' = "queued"
  BY <1>1, <1>5, RecordFacts DEF StagesKnown, RecordOf
<1>7. Lifecycle!Accept(j, {})
  BY <1>3, <1>4, <1>6 DEF Lifecycle!Accept
<1>8. QED
  BY <1>7 DEF Lifecycle!LifecycleNext

LEMMA RemovalKeeps ==
    ASSUME IInv, IInv', NEW j \in Jobs,
           store' = [store EXCEPT ![j] = NoRecord], store[j] # NoRecord,
           UNCHANGED <<list, submitted, workerVars>>
    PROVE  [Lifecycle!LifecycleNext]_Lifecycle!lifecycleVars
<1>1. /\ StagesKnown /\ StagesKnown' /\ j \in submitted
      /\ store \in [Jobs -> JobRecord \cup {NoRecord}]
  BY StageFacts, StageFactsNext DEF IInv, TypeOK, RedisTypeOK, JobInv
<1>2. \A k : InList(k)' <=> InList(k)
  BY ListSame
<1>3. ASSUME NEW k \in Jobs, k # j
      PROVE  StageOf(k)' = StageOf(k) /\ RecordOf(k)' = RecordOf(k)
  BY <1>1, <1>2, <1>3, WorkersUnmoved DEF RecordOf
<1>4. RecordOf(j)' = "none"
  BY <1>1 DEF RecordOf
<1>5. StageOf(j)' = IF StageOf(j) = "queued" THEN "over" ELSE StageOf(j)
  <2>1. CASE Waiting(j)
    <3>1. Waiting(j)' /\ store'[j] = NoRecord
      BY <1>1, <1>2, <2>1, WorkersUnmoved
    <3>2. QED
      BY <1>1, <2>1, <3>1 DEF StagesKnown
  <2>2. CASE ~Waiting(j)
    <3>1. StageOf(j)' = StageOf(j)
      BY <1>1, <1>2, <2>2, WorkersUnmoved
    <3>2. CASE \E w \in Workers : Holds(w, j)
      <4>1. PICK w \in Workers : Holds(w, j)
        BY <3>2
      <4>2. held[w] = j /\ pc[w] \notin {"fetch", "drain"}
        BY <2>2, <4>1 DEF Holds, Waiting
      <4>3. pc[w] \in {"ready", "exec", "saved", "final"}
        BY <4>2, NoJobAssumption DEF IInv, TypeOK, WorkerInv, Pcs
      <4>4. pc[w] # "ready" => copy[w] \in {Started, Succeeded, Failed}
        BY <4>3 DEF IInv, WorkerInv
      <4>5. QED
        BY <1>1, <3>1, <4>2, <4>4, RecordFacts DEF StagesKnown
    <3>3. CASE \A w \in Workers : ~Holds(w, j)
      BY <1>1, <2>2, <3>1, <3>3 DEF StagesKnown
    <3>4. QED
      BY <3>2, <3>3
  <2>3. QED
    BY <2>1, <2>2
<1>6. Lifecycle!Remove({j})
  BY <1>3, <1>4, <1>5 DEF Lifecycle!Remove, Lifecycle!Without
<1>7. QED
  BY <1>6 DEF Lifecycle!LifecycleNext

-----------------------------------------------------------------------------
LEMMA LifecycleStarts == Init => Lifecycle!LifecycleInit
<1> SUFFICES ASSUME Init
             PROVE  Lifecycle!LifecycleInit
  OBVIOUS
<1>1. ASSUME NEW j \in Jobs
      PROVE  StageOf(j) = "new" /\ RecordOf(j) = "none"
  BY DEF Init, RedisInit, StageOf, RecordOf
<1>2. QED
  BY <1>1 DEF Lifecycle!LifecycleInit

LEMMA LifecycleSteps ==
    IInv /\ IInv' /\ [Next]_vars => [Lifecycle!LifecycleNext]_Lifecycle!lifecycleVars
<1> SUFFICES ASSUME IInv, IInv', [Next]_vars
             PROVE  [Lifecycle!LifecycleNext]_Lifecycle!lifecycleVars
  OBVIOUS
<1>1. CASE UNCHANGED vars
  <2>1. \A k : InList(k)' <=> InList(k)
    BY <1>1, ListSame DEF vars
  <2>2. \A k \in Jobs : StageOf(k)' = StageOf(k) /\ RecordOf(k)' = RecordOf(k)
    BY <1>1, <2>1, WorkersUnmoved DEF vars, workerVars, RecordOf
  <2>3. QED
    BY <2>2, Stutter
<1>2. ASSUME NEW j \in Jobs, Submit(j) \/ DeleteJob(j) \/ ExpireJob(j)
      PROVE  [Lifecycle!LifecycleNext]_Lifecycle!lifecycleVars
  <2>1. CASE Submit(j)
    BY <2>1, SubmitKeeps
  <2>2. CASE DeleteJob(j)
    BY <2>2, RemovalKeeps DEF DeleteJob, Delete
  <2>3. CASE ExpireJob(j)
    BY <2>3, RemovalKeeps DEF ExpireJob, Expire
  <2>4. QED
    BY <1>2, <2>1, <2>2, <2>3
<1>3. ASSUME NEW w \in Workers, Loop(w)
      PROVE  [Lifecycle!LifecycleNext]_Lifecycle!lifecycleVars
  BY <1>3, PopKeeps, FetchKeeps, BeginKeeps, SaveArtifactKeeps, SucceedKeeps,
     FailKeeps, FinishKeeps, DrainKeeps DEF Loop
<1>4. ASSUME NEW w \in Workers, Interrupt(w) \/ Die(w) \/ Restart(w)
      PROVE  [Lifecycle!LifecycleNext]_Lifecycle!lifecycleVars
  BY <1>4, InterruptKeeps, DieKeeps, RestartKeeps
<1>5. QED
  BY <1>1, <1>2, <1>3, <1>4 DEF Next

\* The Redis backend implements the lifecycle, for any jobs, workers, removals
\* and failures: whatever dies and whenever a record is removed, a client that
\* polls sees what the protocol promises.
THEOREM RedisKeepsPromise == Spec => KeepsPromise
BY LifecycleStarts, LifecycleSteps, IInvAlways, PTL
   DEF Spec, KeepsPromise, Lifecycle!LifecycleSpec

-----------------------------------------------------------------------------
(* What the promise gives the clients of this backend                      *)

\* Where a step of the lifecycle may take a job and its record.
Moves(j) ==
    LET was == StageOf(j)  is == StageOf(j)'  old == RecordOf(j)  now == RecordOf(j)'
    IN  \/ is = was /\ now = old
        \/ now = "none" /\ (is = was \/ (was = "queued" /\ is = "over"))
        \/ was = "new" /\ is = "queued" /\ now = "queued"
        \/ was = "queued" /\ is = "taken" /\ now = old
        \/ was = "taken" /\ is = "running" /\ now \in {old, is}
        \/ was = "running" /\ is \in Terminal /\ now \in {old, is}
        \/ was = "running" /\ is = was /\ now = was
        \/ was \in {"running"} \cup Terminal /\ is = "over" /\ now = was
        \/ was \in {"taken"} \cup Status /\ is = "over" /\ now = old

LEMMA StepMoves ==
    ASSUME [Lifecycle!LifecycleNext]_Lifecycle!lifecycleVars
    PROVE  \A j \in Jobs : Moves(j)
<1> DEFINE st == [k \in Jobs |-> StageOf(k)]
           rc == [k \in Jobs |-> RecordOf(k)]
           st2 == [k \in Jobs |-> StageOf(k)']
           rc2 == [k \in Jobs |-> RecordOf(k)']
<1>1. /\ st = [k \in Jobs |-> st[k]] /\ rc = [k \in Jobs |-> rc[k]]
      /\ \A k \in Jobs : /\ st[k] = StageOf(k) /\ rc[k] = RecordOf(k)
                        /\ st2[k] = StageOf(k)' /\ rc2[k] = RecordOf(k)'
  OBVIOUS
<1> SUFFICES ASSUME NEW j \in Jobs
             PROVE  Moves(j)
  OBVIOUS
<1>2. CASE UNCHANGED Lifecycle!lifecycleVars
  <2>1. st2 = st /\ rc2 = rc
    BY <1>2 DEF Lifecycle!lifecycleVars
  <2> HIDE DEF st, rc, st2, rc2
  <2>2. QED
    BY <1>1, <2>1 DEF Moves
<1>3. ASSUME NEW gone \in SUBSET Jobs, Lifecycle!Remove(gone)
      PROVE  Moves(j)
  BY <1>3 DEF Lifecycle!Remove, Lifecycle!Without, Moves
<1>4. ASSUME NEW k \in Jobs, NEW gone \in SUBSET Jobs, Lifecycle!Accept(k, gone)
      PROVE  Moves(j)
  BY <1>4 DEF Lifecycle!Accept, Moves
<1>5. ASSUME NEW k \in Jobs, NEW s \in Lifecycle!Status, Lifecycle!Advance(k, s)
      PROVE  Moves(j)
  <2>1. /\ st2 = [st EXCEPT ![k] = s]
        /\ \E r \in {rc[k], s} : rc2 = [rc EXCEPT ![k] = r]
        /\ \/ st[k] = "taken" /\ s = "running"
           \/ st[k] = "running" /\ s \in Terminal
    BY <1>5 DEF Lifecycle!Advance, Terminal, Lifecycle!Terminal
  <2> HIDE DEF st, rc, st2, rc2
  <2>2. QED
    BY <1>1, <2>1 DEF Moves
<1>6. ASSUME NEW k \in Jobs, Lifecycle!Take(k)
      PROVE  Moves(j)
  <2>1. st[k] = "queued" /\ st2 = [st EXCEPT ![k] = "taken"] /\ rc2 = rc
    BY <1>6 DEF Lifecycle!Take
  <2> HIDE DEF st, rc, st2, rc2
  <2>2. QED
    BY <1>1, <2>1 DEF Moves
<1>7. ASSUME NEW k \in Jobs, Lifecycle!PublishStart(k)
      PROVE  Moves(j)
  <2>1. st[k] = "running" /\ rc2 = [rc EXCEPT ![k] = "running"] /\ st2 = st
    BY <1>7 DEF Lifecycle!PublishStart
  <2> HIDE DEF st, rc, st2, rc2
  <2>2. QED
    BY <1>1, <2>1 DEF Moves
<1>8. ASSUME NEW k \in Jobs, Lifecycle!Settle(k)
      PROVE  Moves(j)
  <2>1. /\ st[k] \in {"running"} \cup Terminal
        /\ rc2 = [rc EXCEPT ![k] = st[k]] /\ st2 = [st EXCEPT ![k] = "over"]
    BY <1>8 DEF Lifecycle!Settle, Terminal, Lifecycle!Terminal
  <2> HIDE DEF st, rc, st2, rc2
  <2>2. QED
    BY <1>1, <2>1 DEF Moves
<1>9. ASSUME NEW k \in Jobs, Lifecycle!Lose(k)
      PROVE  Moves(j)
  <2>1. st[k] \in {"taken"} \cup Status /\ st2 = [st EXCEPT ![k] = "over"] /\ rc2 = rc
    BY <1>9 DEF Lifecycle!Lose, Status, Lifecycle!Status, Terminal, Lifecycle!Terminal
  <2> HIDE DEF st, rc, st2, rc2
  <2>2. QED
    BY <1>1, <2>1 DEF Moves
<1>10. QED
  BY <1>2, <1>3, <1>4, <1>5, <1>6, <1>7, <1>8, <1>9 DEF Lifecycle!LifecycleNext

\* The jobs are where the lifecycle says they can be, and polls lag behind them.
Promised ==
    \A j \in Jobs :
        /\ StageOf(j) \in Lifecycle!Stages /\ RecordOf(j) \in Lifecycle!Records
        /\ StageOf(j) # "over" =>
             /\ Lifecycle!Rank(RecordOf(j)) <= Lifecycle!Rank(StageOf(j))
             /\ RecordOf(j) \in Terminal => RecordOf(j) = StageOf(j)

LEMMA PromisedAlways == Spec => []Promised
<1> USE DEF Lifecycle!Stages, Lifecycle!Records, Lifecycle!Status, Lifecycle!Terminal,
            Status, Terminal, Lifecycle!Rank
<1>1. Lifecycle!LifecycleInit => Promised
  <2> SUFFICES ASSUME Lifecycle!LifecycleInit, NEW j \in Jobs
               PROVE  StageOf(j) = "new" /\ RecordOf(j) = "none"
    BY DEF Promised
  <2>1. QED
    BY DEF Lifecycle!LifecycleInit
<1>2. Promised /\ [Lifecycle!LifecycleNext]_Lifecycle!lifecycleVars => Promised'
  <2> SUFFICES ASSUME Promised, \A j \in Jobs : Moves(j), NEW j \in Jobs
               PROVE  /\ StageOf(j)' \in Lifecycle!Stages /\ RecordOf(j)' \in Lifecycle!Records
                      /\ StageOf(j)' # "over" =>
                           /\ Lifecycle!Rank(RecordOf(j)') <= Lifecycle!Rank(StageOf(j)')
                           /\ RecordOf(j)' \in Terminal => RecordOf(j)' = StageOf(j)'
    BY StepMoves DEF Promised
  <2>1. QED
    BY DEF Promised, Moves
<1>3. QED
  BY <1>1, <1>2, RedisKeepsPromise, PTL DEF KeepsPromise, Lifecycle!LifecycleSpec

\* What a poll of this backend tells is never ahead of the worker, and an
\* outcome it tells is the job's (queue.update writes what run_job has set).
THEOREM RedisPollsLagBehind == Spec => []Lifecycle!RecordBehindStage
<1>1. Promised => Lifecycle!RecordBehindStage
  BY DEF Promised, Lifecycle!RecordBehindStage, Lifecycle!Terminal, Terminal
<1>2. QED
  BY <1>1, PromisedAlways, PTL

\* Nobody who polls this backend sees a job go backwards or change its outcome.
THEOREM RedisPollsNeverRegress == Spec => Lifecycle!RecordNeverRegresses
<1> DEFINE rc == [j \in Jobs |-> RecordOf(j)]
<1>1. Promised /\ [Lifecycle!LifecycleNext]_Lifecycle!lifecycleVars
        => [\A j \in Jobs : \/ rc'[j] = rc[j]
                            \/ rc'[j] = "none"
                            \/ Lifecycle!Rank(rc[j]) < Lifecycle!Rank(rc'[j])]_Lifecycle!lifecycleVars
  <2> SUFFICES ASSUME Promised, \A j \in Jobs : Moves(j), NEW j \in Jobs
               PROVE  \/ RecordOf(j)' = RecordOf(j)
                      \/ RecordOf(j)' = "none"
                      \/ Lifecycle!Rank(RecordOf(j)) < Lifecycle!Rank(RecordOf(j)')
    BY StepMoves
  <2>1. QED
    BY DEF Promised, Moves, Lifecycle!Rank, Lifecycle!Stages, Lifecycle!Records,
           Lifecycle!Status, Lifecycle!Terminal, Status, Terminal
<1>2. QED
  BY <1>1, PromisedAlways, RedisKeepsPromise, PTL
     DEF KeepsPromise, Lifecycle!LifecycleSpec, Lifecycle!RecordNeverRegresses

\* Once no worker has or will get a job, its record in Redis can only go.
THEOREM RedisOverStaysOver == Spec => Lifecycle!OverIsFinal
<1> DEFINE st == [j \in Jobs |-> StageOf(j)]
           rc == [j \in Jobs |-> RecordOf(j)]
<1>1. [Lifecycle!LifecycleNext]_Lifecycle!lifecycleVars
        => [\A j \in Jobs : st[j] = "over" =>
              st'[j] = "over" /\ rc'[j] \in {rc[j], "none"}]_Lifecycle!lifecycleVars
  <2> SUFFICES ASSUME \A j \in Jobs : Moves(j), NEW j \in Jobs, StageOf(j) = "over"
               PROVE  StageOf(j)' = "over" /\ RecordOf(j)' \in {RecordOf(j), "none"}
    BY StepMoves
  <2>1. QED
    BY DEF Moves, Status, Terminal
<1>2. QED
  BY <1>1, RedisKeepsPromise, PTL DEF KeepsPromise, Lifecycle!LifecycleSpec, Lifecycle!OverIsFinal

-----------------------------------------------------------------------------
(* What failures leave behind *)

\* The stranded jobs, and those of interrupted workers that are about to be:
\* the update still to come puts "running" on record, even if a DELETE came
\* in between.
Doomed ==
    {j \in Jobs : \/ j \in Stranded
                  \/ \E w \in stopping : held[w] = j /\ pc[w] = "final"}

\* A last update says "running" just when the worker was interrupted.
EndInv ==
    \A w \in Workers :
        /\ w \in stopping => pc[w] \in {"final", "drain"}
        /\ pc[w] = "final" => (copy[w] = Started <=> w \in stopping)

DoomInv == EndInv /\ IsFiniteSet(Doomed) /\ Cardinality(Doomed) <= failures

LEMMA InitDoom == Init => DoomInv
<1> SUFFICES ASSUME Init
             PROVE  DoomInv
  OBVIOUS
<1>1. EndInv /\ Doomed = {} /\ failures = 0
  BY DEF Init, EndInv, Doomed, Stranded
<1>2. QED
  BY <1>1, FS_EmptySet DEF DoomInv

LEMMA NextEnd == IInv /\ EndInv /\ [Next]_vars => EndInv'
<1> SUFFICES ASSUME IInv, EndInv, [Next]_vars
             PROVE  EndInv'
  OBVIOUS
<1>1. /\ pc \in [Workers -> Pcs] /\ copy \in [Workers -> JobRecord \cup {NoRecord}]
      /\ stopping \subseteq Workers
      /\ \A w \in Workers : pc[w] \in {"exec", "saved"} => copy[w] = Started
  BY DEF IInv, TypeOK, WorkerInv
<1>2. CASE UNCHANGED vars
  BY <1>2 DEF vars, EndInv
<1>3. ASSUME NEW j \in Jobs, Submit(j) \/ DeleteJob(j) \/ ExpireJob(j)
      PROVE  EndInv'
  BY <1>3 DEF Submit, DeleteJob, ExpireJob, workerVars, EndInv
<1>4. ASSUME NEW w \in Workers, Pop(w) \/ Fetch(w) \/ Begin(w) \/ SaveArtifact(w)
      PROVE  EndInv'
  BY <1>1, <1>4 DEF Pop, Fetch, Begin, SaveArtifact, LetGo, EndInv
<1>5. ASSUME NEW w \in Workers, Succeed(w) \/ Fail(w)
      PROVE  EndInv'
  <2>1. copy[w] = Started /\ w \notin stopping
    BY <1>1, <1>5 DEF EndInv, Succeed, Fail
  <2>2. copy'[w] \in {Succeeded, Failed}
    BY <1>1, <1>5, <2>1 DEF Succeed, Fail, Succeeded, Failed
  <2>3. QED
    BY <1>1, <1>5, <2>1, <2>2, RecordFacts DEF Succeed, Fail, EndInv
<1>6. ASSUME NEW w \in Workers, Interrupt(w) \/ Finish(w)
      PROVE  EndInv'
  BY <1>1, <1>6 DEF Interrupt, Finish, EndInv
<1>7. ASSUME NEW w \in Workers, Drain(w) \/ Die(w) \/ Restart(w)
      PROVE  EndInv'
  BY <1>1, <1>7 DEF Drain, Die, Restart, LetGo, EndInv
<1>8. QED
  BY <1>2, <1>3, <1>4, <1>5, <1>6, <1>7 DEF Next, Loop

LEMMA NextDoom == IInv /\ IInv' /\ DoomInv /\ [Next]_vars => DoomInv'
<1> SUFFICES ASSUME IInv, IInv', DoomInv, [Next]_vars
             PROVE  DoomInv'
  OBVIOUS
<1>1. EndInv'
  BY NextEnd DEF DoomInv
<1>2. /\ pc \in [Workers -> Pcs] /\ copy \in [Workers -> JobRecord \cup {NoRecord}]
      /\ held \in [Workers -> Jobs \cup {NoJob}]
      /\ store \in [Jobs -> JobRecord \cup {NoRecord}]
      /\ stopping \subseteq Workers /\ submitted \subseteq Jobs
  BY DEF IInv, TypeOK, RedisTypeOK
<1>3. failures \in Nat /\ failures' \in Nat /\ EndInv
      /\ IsFiniteSet(Doomed) /\ Cardinality(Doomed) <= failures
      /\ Cardinality(Doomed) \in Nat
  BY FailuresAssumption, FS_CardinalityType DEF IInv, TypeOK, DoomInv
<1>4. ASSUME Doomed' \subseteq Doomed, failures' = failures
      PROVE  DoomInv'
  BY <1>1, <1>3, <1>4, FS_Subset, FS_CardinalityType DEF DoomInv
<1>5. ASSUME NEW x, Doomed' \subseteq Doomed \cup {x}, failures' = failures + 1
      PROVE  DoomInv'
  <2>1. /\ IsFiniteSet(Doomed \cup {x})
        /\ Cardinality(Doomed \cup {x}) \in Nat
        /\ \/ Cardinality(Doomed \cup {x}) = Cardinality(Doomed)
           \/ Cardinality(Doomed \cup {x}) = Cardinality(Doomed) + 1
    <3>1. /\ IsFiniteSet(Doomed \cup {x})
          /\ Cardinality(Doomed \cup {x}) =
               IF x \in Doomed THEN Cardinality(Doomed) ELSE Cardinality(Doomed) + 1
      BY <1>3, FS_AddElement, Zenon
    <3>2. QED
      BY <3>1, FS_CardinalityType
  <2>2. IsFiniteSet(Doomed)' /\ Cardinality(Doomed)' <= Cardinality(Doomed \cup {x})
        /\ Cardinality(Doomed)' \in Nat
    BY <1>5, <2>1, FS_Subset, FS_CardinalityType
  <2>3. QED
    BY <1>1, <1>3, <1>5, <2>1, <2>2 DEF DoomInv
<1> USE DEF Doomed, Stranded, Holds
<1>6. CASE UNCHANGED vars
  BY <1>4, <1>6 DEF vars, InList
<1>7. ASSUME NEW j \in Jobs, Submit(j)
      PROVE  DoomInv'
  <2>1. \A k : InList(k)' <=> InList(k) \/ k = j
    BY <1>7, ListAppend DEF Submit, Enqueue, IInv, TypeOK, RedisTypeOK
  <2>2. Doomed' \subseteq Doomed
    BY <1>2, <1>7, <2>1 DEF Submit, Enqueue, workerVars
  <2>3. QED
    BY <1>4, <1>7, <2>2 DEF Submit
<1>8. ASSUME NEW j \in Jobs, DeleteJob(j) \/ ExpireJob(j)
      PROVE  DoomInv'
  <2>1. \A k : InList(k)' <=> InList(k)
    BY <1>8, ListSame DEF DeleteJob, ExpireJob, Delete, Expire
  <2>2. Doomed' \subseteq Doomed
    BY <1>2, <1>8, <2>1 DEF DeleteJob, ExpireJob, Delete, Expire, workerVars
  <2>3. QED
    BY <1>4, <1>8, <2>2 DEF DeleteJob, ExpireJob
<1>9. ASSUME NEW w \in Workers, Pop(w)
      PROVE  DoomInv'
  <2>1. PICK j \in Jobs : Blpop(j) /\ held' = [held EXCEPT ![w] = j]
    BY <1>9 DEF Pop
  <2>2. InList(j) /\ \A k : InList(k)' <=> InList(k) /\ k # j
    BY <2>1, ListTail DEF Blpop, IInv, TypeOK, RedisTypeOK
  <2>3. held[w] = NoJob /\ pc'[w] = "fetch" /\ held'[w] = j
    BY <1>2, <1>9, <2>1 DEF IInv, WorkerInv, Pop
  <2>4. Doomed' \subseteq Doomed
    BY <1>2, <1>9, <2>1, <2>2, <2>3, NoJobAssumption DEF Pop, Blpop
  <2>5. QED
    BY <1>4, <1>9, <2>4 DEF Pop
<1>10. ASSUME NEW w \in Workers, Loop(w) \/ Interrupt(w) \/ Die(w) \/ Restart(w), ~Pop(w)
      PROVE  \A k : InList(k)' <=> InList(k)
  BY <1>10, ListSame DEF Loop, Fetch, Begin, Update, SaveArtifact, Succeed, Fail,
     Interrupt, Finish, Drain, Die, Restart
<1>11. ASSUME NEW w \in Workers, Fetch(w)
      PROVE  DoomInv'
  <2>1. \A k : InList(k)' <=> InList(k)
    BY <1>11, ListSame DEF Fetch
  <2>2. /\ w \notin stopping /\ held[w] # NoJob
        /\ \A v \in Workers : v # w => held[v] # held[w]
    BY <1>2, <1>3, <1>11, NoJobAssumption
       DEF EndInv, IInv, WorkerInv, UniqueHolder, Fetch
  <2>3. \A k \in Jobs : k # held[w] /\ k \in Doomed' => k \in Doomed
    BY <1>2, <1>11, <2>1, <2>2 DEF Fetch, LetGo
  <2>4. held[w] \notin Doomed'
    BY <1>2, <1>11, <2>1, <2>2 DEF Fetch, LetGo
  <2>5. Doomed' \subseteq Doomed
    BY <2>3, <2>4
  <2>6. QED
    BY <1>4, <1>11, <2>5 DEF Fetch
<1>12. ASSUME NEW w \in Workers, Begin(w) \/ SaveArtifact(w) \/ Succeed(w) \/ Fail(w)
      PROVE  DoomInv'
  <2>1. \A k : InList(k)' <=> InList(k)
    BY <1>10, <1>12 DEF Loop, Begin, SaveArtifact, Succeed, Fail, Pop
  <2>2. w \notin stopping
    BY <1>3, <1>12 DEF EndInv, Begin, SaveArtifact, Succeed, Fail
  <2>3. /\ held' = held /\ held[w] # NoJob /\ pc'[w] # "drain"
        /\ \A k \in Jobs : k # held[w] => store'[k] = store[k]
    BY <1>2, <1>12, NoJobAssumption
       DEF IInv, WorkerInv, Begin, Update, SaveArtifact, Succeed, Fail
  <2>4. Doomed' \subseteq Doomed
    BY <1>2, <1>12, <2>1, <2>2, <2>3 DEF Begin, SaveArtifact, Succeed, Fail
  <2>5. QED
    BY <1>4, <1>12, <2>4 DEF Begin, SaveArtifact, Succeed, Fail
<1>13. ASSUME NEW w \in Workers, Interrupt(w)
      PROVE  DoomInv'
  <2>1. Doomed' \subseteq Doomed \cup {held[w]}
    BY <1>2, <1>10, <1>13 DEF Interrupt, Pop
  <2>2. QED
    BY <1>5, <1>13, <2>1 DEF Interrupt
<1>14. ASSUME NEW w \in Workers, Finish(w)
      PROVE  DoomInv'
  <2>1. \A k : InList(k)' <=> InList(k)
    BY <1>10, <1>14 DEF Loop, Finish, Pop
  <2>2. /\ copy[w] \in {Started, Succeeded, Failed}
        /\ copy[w] = Started <=> w \in stopping
        /\ held[w] \in Jobs
    BY <1>2, <1>3, <1>14 DEF IInv, WorkerInv, EndInv, Finish
  <2>3. store' = [store EXCEPT ![held[w]] = copy[w]]
    BY <1>14 DEF Finish, Update
  <2>4. w \notin stopping => store'[held[w]].status \in Terminal
    BY <1>2, <2>2, <2>3, RecordFacts DEF Terminal
  <2>5. Doomed' \subseteq Doomed
    BY <1>2, <1>14, <2>1, <2>2, <2>3, <2>4 DEF Finish
  <2>6. QED
    BY <1>4, <1>14, <2>5 DEF Finish
<1>15. ASSUME NEW w \in Workers, Drain(w) \/ Restart(w)
      PROVE  DoomInv'
  <2>1. \A k : InList(k)' <=> InList(k)
    BY <1>10, <1>15 DEF Loop, Drain, Restart, Pop
  <2>2. Restart(w) => held[w] = NoJob
    BY DEF Restart, IInv, WorkerInv
  <2>3. Doomed' \subseteq Doomed
    BY <1>2, <1>15, <2>1, <2>2, NoJobAssumption DEF Drain, Restart, LetGo
  <2>4. QED
    BY <1>4, <1>15, <2>3 DEF Drain, Restart
<1>16. ASSUME NEW w \in Workers, Die(w)
      PROVE  DoomInv'
  <2>1. \A k : InList(k)' <=> InList(k)
    BY <1>16, ListSame DEF Die
  <2>2. Doomed' \subseteq Doomed \cup {held[w]}
    BY <1>2, <1>16, <2>1 DEF Die, LetGo
  <2>3. QED
    BY <1>5, <1>16, <2>2 DEF Die
<1>17. QED
  BY <1>6, <1>7, <1>8, <1>9, <1>11, <1>12, <1>13, <1>14, <1>15, <1>16 DEF Next, Loop

\* However many jobs there are, failures strand no more of them than there were
\* failures: a worker takes down the job it holds and no other.
THEOREM OneStrandedPerFailure == Spec => []FailureStrandsOneJob
<1>1. IInv /\ DoomInv => FailureStrandsOneJob
  <2> SUFFICES ASSUME IInv, DoomInv
               PROVE  FailureStrandsOneJob
    OBVIOUS
  <2>1. Stranded \subseteq Doomed
    BY DEF IInv, TypeOK, Doomed, Stranded
  <2>2. /\ IsFiniteSet(Stranded) /\ Cardinality(Stranded) <= Cardinality(Doomed)
        /\ Cardinality(Stranded) \in Nat /\ Cardinality(Doomed) \in Nat
    BY <2>1, FS_Subset, FS_CardinalityType DEF DoomInv
  <2>3. failures \in Nat
    BY FailuresAssumption DEF IInv, TypeOK
  <2>4. QED
    BY <2>2, <2>3 DEF DoomInv, FailureStrandsOneJob
<1>2. Spec => []DoomInv
  BY InitDoom, NextDoom, IInvAlways, PTL DEF Spec
<1>3. QED
  BY <1>1, <1>2, IInvAlways, PTL
=============================================================================

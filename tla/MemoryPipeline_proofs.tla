------------------------ MODULE MemoryPipeline_proofs ------------------------
(***************************************************************************)
(* The in-memory backend for any finite set of jobs and of worker threads. *)
(* IInv says where a job can be (PlaceInv), in which order jobs came       *)
(* (OrderInv), and what is left of the mark_* call that a worker is in the *)
(* middle of (WorkerInv).  From it follow what a poll can see of a job     *)
(* that is being marked, by how much the dictionary misses its cap, what a *)
(* submission evicts, and that this backend implements JobLifecycle; what  *)
(* its clients are promised is then that module's theorems.                *)
(***************************************************************************)
EXTENDS MemoryPipeline, FiniteSetTheorems, TLAPS

-----------------------------------------------------------------------------
(* The inductive invariant *)

\* Every element of s is one of S.
Only(s, S) == \A i \in 1..Len(s) : s[i] \in S

UniquePending == \A i, k \in 1..Len(pending) : pending[i] = pending[k] => i = k

\* Jobs are numbered in the order in which they came, without a gap.
OrderInv ==
    /\ \A j \in Jobs : created[j] <= Cardinality(Submitted)
    /\ \A j, k \in Jobs : created[j] = created[k] /\ created[j] > 0 => j = k
    /\ horizon <= Cardinality(Submitted)

\* A job is nowhere, in the deque, or with one worker.
PlaceInv ==
    /\ jobs \subseteq Submitted
    /\ UniquePending
    /\ \A j \in Jobs : IsPending(j) => j \in Submitted
    /\ \A v, w \in Workers : v # w /\ held[v] # NoJob => held[v] # held[w]
    /\ \A w \in Workers :
         /\ pc[w] = "idle" <=> held[w] = NoJob
         /\ held[w] # NoJob => held[w] \in Submitted /\ ~IsPending(held[w])

\* Who has not been taken has not been touched.
FreshInv == \A j \in Jobs : created[j] = 0 \/ IsPending(j) => object[j] = NewJob

\* Neither a result nor an error has been assigned.
Unanswered(job) == ~job.result /\ ~job.error

StartInv(w) ==
    /\ goal[w].status = "running" /\ Unanswered(goal[w])
    /\ Unanswered(object[held[w]])
    /\ \/ todo[w] = StartWrites /\ object[held[w]].status = "queued"
       \/ /\ Only(todo[w], {"started", "attempts"})
          /\ object[held[w]].status = "running"

EndInv(w, outcome, writes, rest) ==
    /\ goal[w].status = outcome
    /\ \/ /\ todo[w] = writes
          /\ object[held[w]].status = "running" /\ Unanswered(object[held[w]])
       \/ Only(todo[w], rest) /\ object[held[w]].status = outcome

WorkerInv(w) ==
    /\ pc[w] \in {"idle", "exec"} => todo[w] = <<>>
    /\ pc[w] = "start" => StartInv(w)
    /\ pc[w] = "exec" =>
         object[held[w]].status = "running" /\ Unanswered(object[held[w]])
    /\ pc[w] = "end" =>
         \/ EndInv(w, "succeeded", SuccessWrites, {"result", "finished"})
              /\ ~goal[w].error
         \/ EndInv(w, "failed", FailureWrites, {"error", "finished"})
              /\ ~goal[w].result

\* A result or an error goes with its status.
ObjectInv ==
    \A j \in Jobs : /\ object[j].result => object[j].status = "succeeded"
                    /\ object[j].error => object[j].status = "failed"

ResponseInv ==
    reading # NoJob =>
        /\ response.status \in Terminal => object[reading].status = response.status
        /\ response.result => object[reading].status = "succeeded"
        /\ response.error => object[reading].status = "failed"

\* Workers whose job was removed: each can put one back.
Evicted == {w \in Workers : held[w] # NoJob /\ held[w] \notin jobs}

OvershootInv == Cardinality(jobs) + Cardinality(Evicted) <= MaxResults + Cardinality(Workers)

IInv ==
    /\ TypeOK
    /\ OrderInv
    /\ PlaceInv
    /\ FreshInv
    /\ \A w \in Workers : WorkerInv(w)
    /\ ObjectInv

USE NoJobAssumption, MaxResultsAssumption, JobsAssumption, WorkersAssumption

-----------------------------------------------------------------------------
(* Records, attribute by attribute *)

LEMMA FieldsAre ==
    Fields = {"status", "started", "finished", "result", "error", "attempts"}
BY DEF Fields, NewJob

LEMMA NewJobFacts ==
    /\ NewJob \in JobRecord
    /\ NewJob.status = "queued" /\ Unanswered(NewJob)
BY DEF NewJob, JobRecord, Status, Unanswered

\* A mark_* call, as it leaves the job.
LEMMA MarkedFacts ==
    ASSUME NEW r \in JobRecord
    PROVE  /\ MarkStarted(r) \in JobRecord
           /\ MarkStarted(r).status = "running"
           /\ MarkStarted(r).result = r.result /\ MarkStarted(r).error = r.error
           /\ MarkSucceeded(r) \in JobRecord
           /\ MarkSucceeded(r).status = "succeeded"
           /\ MarkSucceeded(r).error = r.error
           /\ MarkFailed(r) \in JobRecord
           /\ MarkFailed(r).status = "failed"
           /\ MarkFailed(r).result = r.result
<1>1. r.attempts + 1 \in Nat
  BY SMT DEF JobRecord
<1>2. MarkStarted(r) \in JobRecord
  BY <1>1, Zenon DEF JobRecord, Status, MarkStarted
<1>3. MarkSucceeded(r) \in JobRecord
  BY Zenon DEF JobRecord, Status, MarkSucceeded
<1>4. MarkFailed(r) \in JobRecord
  BY Zenon DEF JobRecord, Status, MarkFailed
<1>5. /\ MarkStarted(r).status = "running"
      /\ MarkStarted(r).result = r.result /\ MarkStarted(r).error = r.error
  BY SMT DEF JobRecord, MarkStarted
<1>6. MarkSucceeded(r).status = "succeeded" /\ MarkSucceeded(r).error = r.error
  BY SMT DEF JobRecord, MarkSucceeded
<1>7. MarkFailed(r).status = "failed" /\ MarkFailed(r).result = r.result
  BY SMT DEF JobRecord, MarkFailed
<1>8. QED
  BY <1>2, <1>3, <1>4, <1>5, <1>6, <1>7

\* Copying one attribute of g to r.
LEMMA AttributeCopied ==
    ASSUME NEW r \in JobRecord, NEW g \in JobRecord, NEW f \in Fields
    PROVE  LET n == [r EXCEPT ![f] = g[f]]
           IN  /\ n \in JobRecord
               /\ n.status = IF f = "status" THEN g.status ELSE r.status
               /\ n.result = IF f = "result" THEN g.result ELSE r.result
               /\ n.error = IF f = "error" THEN g.error ELSE r.error
<1> DEFINE n == [r EXCEPT ![f] = g[f]]
<1>1. CASE f = "status"
  BY <1>1 DEF JobRecord
<1>2. CASE f = "started"
  BY <1>2 DEF JobRecord
<1>3. CASE f = "finished"
  BY <1>3 DEF JobRecord
<1>4. CASE f = "result"
  BY <1>4 DEF JobRecord
<1>5. CASE f = "error"
  BY <1>5 DEF JobRecord
<1>6. CASE f = "attempts"
  BY <1>6 DEF JobRecord
<1>7. QED
  BY <1>1, <1>2, <1>3, <1>4, <1>5, <1>6, FieldsAre

\* The assignments of a call: the status is the first, and what is left after
\* an assignment is what was left before but for its head.
LEMMA Writes ==
    /\ StartWrites \in Seq(Fields) /\ Len(StartWrites) = 3
    /\ Head(StartWrites) = "status" /\ Only(Tail(StartWrites), {"started", "attempts"})
    /\ SuccessWrites \in Seq(Fields) /\ Len(SuccessWrites) = 3
    /\ Head(SuccessWrites) = "status" /\ Only(Tail(SuccessWrites), {"result", "finished"})
    /\ FailureWrites \in Seq(Fields) /\ Len(FailureWrites) = 3
    /\ Head(FailureWrites) = "status" /\ Only(Tail(FailureWrites), {"error", "finished"})
    /\ ReadOrder \in Seq(Fields)
BY FieldsAre DEF StartWrites, SuccessWrites, FailureWrites, ReadOrder, Only

LEMMA OnlyTail ==
    ASSUME NEW T, NEW s \in Seq(T), s # <<>>, NEW S
    PROVE  /\ Head(s) \in T /\ Tail(s) \in Seq(T)
           /\ Only(s, S) => Head(s) \in S /\ Only(Tail(s), S)
<1>1. /\ Len(s) \in Nat /\ Len(s) > 0
      /\ Head(s) = s[1] /\ s[1] \in T
      /\ Tail(s) \in Seq(T) /\ Len(Tail(s)) = Len(s) - 1
      /\ \A i \in 1..Len(Tail(s)) : Tail(s)[i] = s[i + 1]
  OBVIOUS
<1>2. QED
  BY <1>1 DEF Only

LEMMA OnlyEmpty == \A S : Only(<<>>, S)
BY DEF Only

-----------------------------------------------------------------------------
(* The deque *)

LEMMA AppendPending ==
    ASSUME pending \in Seq(Jobs), NEW j \in Jobs, pending' = Append(pending, j)
    PROVE  /\ pending' \in Seq(Jobs)
           /\ \A k : IsPending(k)' <=> IsPending(k) \/ k = j
           /\ UniquePending /\ ~IsPending(j) => UniquePending'
<1>1. /\ pending' \in Seq(Jobs)
      /\ Len(pending') = Len(pending) + 1 /\ Len(pending) \in Nat
      /\ \A i \in 1..Len(pending) : pending'[i] = pending[i]
      /\ pending'[Len(pending) + 1] = j
  OBVIOUS
<1>2. \A k : IsPending(k)' <=> IsPending(k) \/ k = j
  BY <1>1 DEF IsPending
<1>3. UniquePending /\ ~IsPending(j) => UniquePending'
  BY <1>1 DEF IsPending, UniquePending
<1>4. QED
  BY <1>1, <1>2, <1>3

LEMMA SamePending ==
    ASSUME pending' = pending
    PROVE  (\A k : IsPending(k)' <=> IsPending(k)) /\ (UniquePending' <=> UniquePending)
BY DEF IsPending, UniquePending

\* dequeue drops the ids before the one it returns, which are of removed jobs.
LEMMA DequeueFacts ==
    ASSUME pending \in Seq(Jobs), UniquePending, NEW j \in Jobs, Dequeue(j)
    PROVE  /\ pending' \in Seq(Jobs) /\ UniquePending'
           /\ IsPending(j) /\ j \in jobs /\ ~IsPending(j)'
           /\ \A k : IsPending(k)' => IsPending(k)
           /\ \A k \in jobs : IsPending(k) /\ k # j => IsPending(k)'
           /\ UNCHANGED <<jobs, object, created, horizon>>
<1>1. PICK n \in 1..Len(pending) :
        /\ \A i \in 1..(n - 1) : pending[i] \notin jobs
        /\ pending[n] = j /\ j \in jobs
        /\ pending' = SubSeq(pending, n + 1, Len(pending))
        /\ UNCHANGED <<jobs, object, created, horizon>>
  BY DEF Dequeue
<1>2. /\ Len(pending) \in Nat
      /\ pending' \in Seq(Jobs) /\ Len(pending') = Len(pending) - n
      /\ \A i \in 1..Len(pending') : pending'[i] = pending[n + i]
  BY <1>1
<1>3. UniquePending'
  BY <1>2 DEF UniquePending
<1>4. IsPending(j) /\ ~IsPending(j)'
  BY <1>1, <1>2 DEF IsPending, UniquePending
<1>5. \A k : IsPending(k)' => IsPending(k)
  BY <1>2 DEF IsPending
<1>6. ASSUME NEW k \in jobs, IsPending(k), k # j
      PROVE  IsPending(k)'
  <2>1. PICK i \in 1..Len(pending) : pending[i] = k
    BY <1>6 DEF IsPending
  <2>2. i > n
    BY <1>1, <1>6, <2>1
  <2>3. i - n \in 1..Len(pending') /\ pending'[i - n] = k
    BY <1>2, <2>1, <2>2
  <2>4. QED
    BY <2>3 DEF IsPending
<1>7. QED
  BY <1>1, <1>2, <1>3, <1>4, <1>5, <1>6

-----------------------------------------------------------------------------
(* Pruning *)

\* In a set of jobs no two of which were created at the same place, those with
\* fewer than m newer ones are at most m: the number of newer ones tells them
\* apart.
LEMMA NewestCounted ==
    ASSUME NEW S, IsFiniteSet(S), NEW m \in Nat, NEW f,
           \A j \in S : f[j] \in Nat,
           \A j, k \in S : f[j] = f[k] => j = k
    PROVE  Cardinality({j \in S : Cardinality({k \in S : f[k] > f[j]}) < m}) <= m
<1> DEFINE newer(j) == {k \in S : f[k] > f[j]}
           kept == {j \in S : Cardinality(newer(j)) < m}
           rank == [j \in kept |-> Cardinality(newer(j))]
<1>1. \A j \in S : IsFiniteSet(newer(j)) /\ Cardinality(newer(j)) \in Nat
  BY FS_Subset, FS_CardinalityType
<1>2. ASSUME NEW j \in S, NEW k \in S, f[j] < f[k]
      PROVE  Cardinality(newer(k)) < Cardinality(newer(j))
  <2>1. newer(k) \subseteq newer(j) /\ k \in newer(j) /\ k \notin newer(k)
    BY <1>2
  <2>2. /\ Cardinality(newer(k)) <= Cardinality(newer(j))
        /\ Cardinality(newer(k)) # Cardinality(newer(j))
    BY <1>1, <2>1, FS_Subset
  <2>3. Cardinality(newer(j)) \in Nat /\ Cardinality(newer(k)) \in Nat
    BY <1>1
  <2> HIDE DEF newer
  <2>4. QED
    BY <2>2, <2>3
<1>3. \A j \in kept : rank[j] \in 0..(m - 1)
  BY <1>1
<1>4. ASSUME NEW j \in kept, NEW k \in kept, rank[j] = rank[k]
      PROVE  j = k
  <2>1. Cardinality(newer(j)) = Cardinality(newer(k))
    BY <1>4
  <2>2. Cardinality(newer(j)) \in Nat /\ j \in S /\ k \in S
    BY <1>1
  <2> HIDE DEF newer, kept, rank
  <2>3. ~(f[j] < f[k]) /\ ~(f[k] < f[j])
    BY <1>2, <2>1, <2>2
  <2>4. QED
    BY <2>2, <2>3
<1>5. rank \in Injection(kept, 0..(m - 1))
  BY <1>3, <1>4 DEF Injection, IsInjective
<1>6. IsFiniteSet(0..(m - 1)) /\ Cardinality(0..(m - 1)) = m
  BY FS_Interval
<1>7. QED
  BY <1>5, <1>6, FS_Injection

LEMMA SubmittedCounted ==
    /\ IsFiniteSet(Submitted) /\ Cardinality(Submitted) \in Nat
    /\ Cardinality(Submitted) <= Cardinality(Jobs) /\ Cardinality(Jobs) \in Nat
    /\ \A j \in Jobs \ Submitted : Cardinality(Submitted) + 1 <= Cardinality(Jobs)
<1>1. Submitted \subseteq Jobs
  BY DEF Submitted
<1>2. /\ IsFiniteSet(Submitted) /\ Cardinality(Submitted) \in Nat
      /\ Cardinality(Submitted) <= Cardinality(Jobs) /\ Cardinality(Jobs) \in Nat
      /\ Cardinality(Submitted) = Cardinality(Jobs) => Submitted = Jobs
  BY <1>1, FS_Subset, FS_CardinalityType
<1>3. QED
  BY <1>2

\* What enqueue does to the order of the jobs and to the dictionary.
LEMMA EnqueueFacts ==
    ASSUME TypeOK, OrderInv, jobs \subseteq Submitted,
           NEW j \in Jobs, created[j] = 0, Enqueue(j)
    PROVE  /\ created' \in [Jobs -> 0..Cardinality(Jobs)] /\ OrderInv'
           /\ Submitted' = Submitted \cup {j} /\ j \notin Submitted
           /\ jobs' \subseteq jobs \cup {j} /\ j \in jobs'
           /\ IsFiniteSet(jobs') /\ Cardinality(jobs') <= MaxResults
<1> DEFINE c == Cardinality(Submitted)
<1>1. /\ created \in [Jobs -> 0..Cardinality(Jobs)] /\ jobs \subseteq Jobs
      /\ horizon \in Nat
  BY SubmittedCounted DEF TypeOK, QueueTypeOK
<1>2. /\ created' = [created EXCEPT ![j] = c + 1] /\ horizon' = horizon
      /\ jobs' = Pruned(jobs \cup {j})
  BY DEF Enqueue
<1>3. c \in Nat /\ j \notin Submitted /\ c + 1 <= Cardinality(Jobs)
      /\ Cardinality(Jobs) \in Nat
  BY SubmittedCounted DEF Submitted
<1>4. created' \in [Jobs -> 0..Cardinality(Jobs)]
  BY <1>1, <1>2, <1>3
<1>5. Submitted' = Submitted \cup {j}
  BY <1>1, <1>2, <1>3 DEF Submitted
<1>6. Cardinality(Submitted)' = c + 1
  <2>1. Cardinality(Submitted \cup {j}) = c + 1
    BY <1>3, SubmittedCounted, FS_AddElement, Zenon
  <2>2. QED
    BY <1>5, <2>1
<1> HIDE DEF c
<1>7. /\ \A k \in Jobs : created[k] \in Nat /\ created[k] <= c
      /\ \A k, l \in Jobs : created[k] = created[l] /\ created[k] > 0 => k = l
      /\ horizon <= c
  BY <1>1, <1>3 DEF OrderInv, c
<1>8. OrderInv'
  BY <1>1, <1>2, <1>3, <1>6, <1>7 DEF OrderInv
<1> DEFINE fresh == {k \in jobs \cup {j} : created'[k] > horizon}
<1>9. jobs' = {i \in fresh : Cardinality({k \in fresh : created'[k] > created'[i]})
                               < MaxResults}
  BY <1>2 DEF Pruned
<1>10. /\ fresh \subseteq Jobs /\ IsFiniteSet(fresh)
       /\ \A k \in fresh : created'[k] \in Nat
       /\ \A k, l \in fresh : created'[k] = created'[l] => k = l
  <2>1. fresh \subseteq Jobs
    BY <1>1
  <2>2. IsFiniteSet(fresh)
    BY <2>1, FS_Subset
  <2>3. \A k \in fresh : created'[k] \in Nat /\ created'[k] > 0
    BY <1>1, <1>2, <1>3, <1>7
  <2>4. \A k, l \in fresh : created'[k] = created'[l] => k = l
    BY <1>1, <1>2, <1>3, <1>7, <2>1, <2>3
  <2>5. QED
    BY <2>1, <2>2, <2>3, <2>4
<1>11. IsFiniteSet(jobs') /\ Cardinality(jobs') <= MaxResults
  <2>1. IsFiniteSet(jobs')
    BY <1>9, <1>10, FS_Subset
  <2>2. Cardinality({i \in fresh : Cardinality({k \in fresh : created'[k] > created'[i]})
                                     < MaxResults}) <= MaxResults
    BY <1>10, NewestCounted
  <2>3. QED
    BY <1>9, <2>1, <2>2
<1>12. jobs' \subseteq jobs \cup {j}
  BY <1>9
<1>13. j \in jobs'
  <2>1. created'[j] = c + 1
    BY <1>1, <1>2
  <2>2. j \in fresh
    BY <1>1, <1>3, <1>7, <2>1
  <2>3. {k \in fresh : created'[k] > created'[j]} = {}
    BY <1>1, <1>2, <1>3, <1>7, <1>10, <2>1
  <2>4. Cardinality({k \in fresh : created'[k] > created'[j]}) = 0
    BY <2>3, FS_EmptySet
  <2>5. QED
    BY <1>9, <2>2, <2>4
<1>14. QED
  BY <1>3, <1>4, <1>5, <1>8, <1>11, <1>12, <1>13

-----------------------------------------------------------------------------
(* Each action preserves the invariant *)

LEMMA InitIInv == Init => IInv
<1> SUFFICES ASSUME Init PROVE IInv
  OBVIOUS
<1>1. pending = <<>> /\ Len(pending) = 0
  BY DEF Init, QueueInit
<1>2. \A k : ~IsPending(k)
  BY <1>1 DEF IsPending
<1>3. Submitted = {} /\ Cardinality(Submitted) = 0
  <2>1. Submitted = {}
    BY DEF Init, QueueInit, Submitted
  <2>2. QED
    BY <2>1, FS_EmptySet
<1>4. TypeOK
  <2>1. QueueTypeOK
    BY SubmittedCounted, NewJobFacts DEF Init, QueueInit, QueueTypeOK
  <2>2. QED
    BY <2>1, NewJobFacts DEF Init, TypeOK, Pcs
<1>5. OrderInv
  BY <1>3 DEF Init, QueueInit, OrderInv
<1>6. PlaceInv
  BY <1>1, <1>2 DEF Init, QueueInit, PlaceInv, UniquePending
<1>7. FreshInv /\ ObjectInv
  BY NewJobFacts DEF Init, QueueInit, FreshInv, ObjectInv, Unanswered
<1>8. \A w \in Workers : WorkerInv(w)
  BY DEF Init, WorkerInv
<1>9. QED
  BY <1>4, <1>5, <1>6, <1>7, <1>8 DEF IInv

\* Steps that leave the objects and the workers alone.
LEMMA WorkersSame ==
    ASSUME IInv, UNCHANGED <<object, workerVars>>
    PROVE  (\A w \in Workers : WorkerInv(w)') /\ ObjectInv'
BY DEF IInv, workerVars, WorkerInv, StartInv, EndInv, ObjectInv, Only, Unanswered

LEMMA SubmitIInv ==
    ASSUME IInv, NEW j \in Jobs, Submit(j)
    PROVE  IInv'
<1> USE DEF IInv
<1>1. Enqueue(j) /\ created[j] = 0 /\ UNCHANGED <<workerVars, apiVars, open>>
      /\ UNCHANGED <<object, horizon>> /\ pending' = Append(pending, j)
  BY DEF Submit, Enqueue
<1>2. /\ created' \in [Jobs -> 0..Cardinality(Jobs)] /\ OrderInv'
      /\ Submitted' = Submitted \cup {j} /\ j \notin Submitted
      /\ jobs' \subseteq jobs \cup {j}
  BY <1>1, EnqueueFacts DEF PlaceInv
<1>3. /\ pending' \in Seq(Jobs) /\ UniquePending'
      /\ \A k : IsPending(k)' <=> IsPending(k) \/ k = j
  BY <1>1, <1>2, AppendPending DEF PlaceInv, TypeOK, QueueTypeOK
<1>4. TypeOK'
  BY <1>1, <1>2, <1>3 DEF TypeOK, QueueTypeOK, workerVars, apiVars
<1>5. PlaceInv'
  BY <1>1, <1>2, <1>3 DEF PlaceInv, workerVars
<1>6. FreshInv'
  <2>1. object[j] = NewJob
    BY <1>1 DEF FreshInv
  <2>2. \A k \in Jobs : created'[k] = 0 => created[k] = 0
    BY <1>2 DEF Submitted, TypeOK, QueueTypeOK
  <2>3. QED
    BY <1>1, <1>3, <2>1, <2>2 DEF FreshInv
<1>7. QED
  BY <1>1, <1>2, <1>4, <1>5, <1>6, WorkersSame

\* What may go from the dictionary without any other change.
LEMMA RemovalIInv ==
    ASSUME IInv, jobs' \subseteq jobs, horizon' \in {horizon, horizon + 1},
           horizon' <= Cardinality(Submitted),
           UNCHANGED <<pending, object, created, workerVars, apiVars>>, open' \in BOOLEAN
    PROVE  IInv'
<1> USE DEF IInv
<1>1. Submitted' = Submitted /\ (\A k : IsPending(k)' <=> IsPending(k))
      /\ (UniquePending' <=> UniquePending)
  BY SamePending DEF Submitted
<1>2. horizon' \in 0..Cardinality(Jobs)
  BY SubmittedCounted DEF TypeOK, QueueTypeOK
<1>3. TypeOK'
  BY <1>2 DEF TypeOK, QueueTypeOK, workerVars, apiVars
<1>4. OrderInv'
  BY <1>1 DEF OrderInv
<1>5. PlaceInv'
  BY <1>1 DEF PlaceInv, workerVars
<1>6. FreshInv'
  BY <1>1 DEF FreshInv
<1>7. QED
  BY <1>3, <1>4, <1>5, <1>6, WorkersSame

LEMMA ClientIInv ==
    ASSUME IInv, (\E j \in Jobs : DeleteJob(j)) \/ Close \/ TimePasses
    PROVE  IInv'
<1>1. horizon <= Cardinality(Submitted) /\ horizon \in Nat
      /\ Cardinality(Submitted) \in Nat
  BY SubmittedCounted DEF IInv, OrderInv, TypeOK, QueueTypeOK
<1>2. /\ jobs' \subseteq jobs
      /\ UNCHANGED <<pending, object, created, workerVars, apiVars>>
  BY DEF DeleteJob, Delete, Close, Clear, TimePasses, Age
<1>3. horizon' \in {horizon, horizon + 1} /\ horizon' <= Cardinality(Submitted)
  BY <1>1 DEF DeleteJob, Delete, Close, Clear, TimePasses, Age
<1>4. open' \in BOOLEAN
  BY DEF DeleteJob, Close, TimePasses, IInv, TypeOK
<1>5. QED
  BY <1>2, <1>3, <1>4, RemovalIInv

LEMMA PollIInv ==
    ASSUME IInv, (\E j \in Jobs : GetJob(j)) \/ ReadField \/ Respond
    PROVE  IInv'
<1> USE DEF IInv
<1>1. UNCHANGED <<queueVars, workerVars, open>>
  BY DEF GetJob, ReadField, Respond
<1>2. /\ reading' \in Jobs \cup {NoJob} /\ toRead' \in Seq(Fields)
      /\ response' \in JobRecord
  <2>1. CASE \E j \in Jobs : GetJob(j)
    BY <2>1, NewJobFacts, Writes DEF GetJob
  <2>2. CASE ReadField
    <3>1. /\ toRead \in Seq(Fields) /\ toRead # <<>> /\ reading \in Jobs
          /\ object[reading] \in JobRecord /\ response \in JobRecord
      BY <2>2 DEF ReadField, TypeOK, QueueTypeOK
    <3>2. Head(toRead) \in Fields /\ Tail(toRead) \in Seq(Fields)
      BY <3>1, OnlyTail
    <3>3. QED
      BY <2>2, <3>1, <3>2, AttributeCopied DEF ReadField
  <2>3. CASE Respond
    BY <2>3, NewJobFacts DEF Respond, TypeOK
  <2>4. QED
    BY <2>1, <2>2, <2>3
<1>3. Submitted' = Submitted /\ (\A k : IsPending(k)' <=> IsPending(k))
      /\ (UniquePending' <=> UniquePending)
  BY <1>1, SamePending DEF Submitted, queueVars
<1>4. TypeOK'
  BY <1>1, <1>2 DEF TypeOK, QueueTypeOK, queueVars, workerVars
<1>5. OrderInv' /\ PlaceInv' /\ FreshInv'
  BY <1>1, <1>3 DEF OrderInv, PlaceInv, FreshInv, queueVars, workerVars
<1>6. QED
  BY <1>1, <1>4, <1>5, WorkersSame DEF queueVars

LEMMA TakeIInv ==
    ASSUME IInv, NEW w \in Workers, Take(w)
    PROVE  IInv'
<1> USE DEF IInv
<1>1. PICK j \in Jobs :
        /\ Dequeue(j) /\ held' = [held EXCEPT ![w] = j]
        /\ goal' = [goal EXCEPT ![w] = MarkStarted(object[j])]
        /\ todo' = [todo EXCEPT ![w] = StartWrites]
  BY DEF Take, Marking
<1>2. /\ pc[w] = "idle" /\ pc' = [pc EXCEPT ![w] = "start"]
      /\ UNCHANGED <<apiVars, open>>
  BY DEF Take
<1>3. /\ pending' \in Seq(Jobs) /\ UniquePending'
      /\ IsPending(j) /\ j \in jobs /\ ~IsPending(j)'
      /\ \A k : IsPending(k)' => IsPending(k)
      /\ UNCHANGED <<jobs, object, created, horizon>>
  BY <1>1, DequeueFacts DEF PlaceInv, TypeOK, QueueTypeOK
<1>4. /\ pc \in [Workers -> Pcs] /\ held \in [Workers -> Jobs \cup {NoJob}]
      /\ goal \in [Workers -> JobRecord] /\ todo \in [Workers -> Seq(Fields)]
      /\ object[j] \in JobRecord
  BY DEF TypeOK, QueueTypeOK
<1>5. object[j] = NewJob /\ j \in Submitted /\ \A v \in Workers : held[v] # j
  BY <1>3 DEF FreshInv, PlaceInv
<1>6. /\ MarkStarted(NewJob) \in JobRecord /\ MarkStarted(NewJob).status = "running"
      /\ Unanswered(MarkStarted(NewJob)) /\ Unanswered(NewJob)
      /\ NewJob.status = "queued"
  BY NewJobFacts, MarkedFacts DEF Unanswered
<1>7. TypeOK'
  BY <1>1, <1>2, <1>3, <1>4, <1>5, <1>6, Writes DEF TypeOK, QueueTypeOK, apiVars, Pcs
<1>8. Submitted' = Submitted
  BY <1>3 DEF Submitted
<1>9. OrderInv'
  BY <1>3, <1>8 DEF OrderInv
<1>10. PlaceInv'
  BY <1>1, <1>2, <1>3, <1>4, <1>5, <1>8 DEF PlaceInv
<1>11. FreshInv' /\ ObjectInv'
  BY <1>3 DEF FreshInv, ObjectInv
<1>12. ASSUME NEW v \in Workers PROVE WorkerInv(v)'
  <2>1. CASE v = w
    BY <1>1, <1>2, <1>3, <1>4, <1>5, <1>6, <2>1 DEF WorkerInv, StartInv, Unanswered
  <2>2. CASE v # w
    <3>1. /\ pc'[v] = pc[v] /\ todo'[v] = todo[v] /\ goal'[v] = goal[v]
          /\ held'[v] = held[v] /\ object' = object
      BY <1>1, <1>2, <1>3, <1>4, <2>2
    <3>2. QED
      BY <3>1 DEF WorkerInv, StartInv, EndInv, Only, Unanswered
  <2>3. QED
    BY <2>1, <2>2
<1>13. QED
  BY <1>7, <1>9, <1>10, <1>11, <1>12

LEMMA TakeNothingIInv ==
    ASSUME IInv, NEW w \in Workers, TakeNothing(w)
    PROVE  IInv'
<1> USE DEF IInv
<1>1. /\ pending' = <<>> /\ Len(pending') = 0
      /\ UNCHANGED <<jobs, object, created, horizon, workerVars, apiVars, open>>
  BY DEF TakeNothing, DequeueNothing
<1>2. Submitted' = Submitted /\ (\A k : ~IsPending(k)') /\ UniquePending'
  BY <1>1 DEF Submitted, IsPending, UniquePending
<1>3. TypeOK'
  BY <1>1 DEF TypeOK, QueueTypeOK, workerVars, apiVars
<1>4. OrderInv' /\ PlaceInv' /\ FreshInv'
  BY <1>1, <1>2 DEF OrderInv, PlaceInv, FreshInv, workerVars
<1>5. QED
  BY <1>1, <1>3, <1>4, WorkersSame

\* One assignment of a mark_* call: only the job in hand changes, and its status
\* goes from queued to running, or from running to the outcome, or stays.
LEMMA AssignFacts ==
    ASSUME IInv, NEW w \in Workers, Assign(w)
    PROVE  \E j \in Submitted :
             /\ j \in Jobs /\ held[w] = j /\ pc[w] \in {"start", "end"}
             /\ object' \in [Jobs -> JobRecord]
             /\ \A k \in Jobs : k # j => object'[k] = object[k]
             /\ \/ object'[j].status = object[j].status
                \/ object[j].status = "queued" /\ object'[j].status = "running"
                \/ object[j].status = "running" /\ object'[j].status \in Terminal
             /\ object'[j].result => object'[j].status = "succeeded"
             /\ object'[j].error => object'[j].status = "failed"
             /\ todo' \in [Workers -> Seq(Fields)]
             /\ WorkerInv(w)'
<1>1. /\ pc \in [Workers -> Pcs] /\ held \in [Workers -> Jobs \cup {NoJob}]
      /\ goal \in [Workers -> JobRecord] /\ todo \in [Workers -> Seq(Fields)]
      /\ object \in [Jobs -> JobRecord] /\ WorkerInv(w) /\ ObjectInv
  BY DEF IInv, TypeOK, QueueTypeOK
<1>2. todo[w] # <<>> /\ todo' = [todo EXCEPT ![w] = Tail(@)]
      /\ UNCHANGED <<pc, held, goal>>
  BY DEF Assign
<1>3. pc[w] \in {"start", "end"}
  BY <1>1, <1>2 DEF WorkerInv, Pcs
<1>4. PICK j \in Submitted : j \in Jobs /\ held[w] = j
  BY <1>1, <1>3 DEF IInv, PlaceInv
<1>5. PICK f \in Fields : f = Head(todo[w])
  BY <1>1, <1>2, OnlyTail
<1> DEFINE r == object[j]
           g == goal[w]
           n == [r EXCEPT ![f] = g[f]]
           rest == Tail(todo[w])
<1>6. object' = [object EXCEPT ![j] = n]
  BY <1>1, <1>4, <1>5 DEF Assign
<1>7. r \in JobRecord /\ g \in JobRecord
  BY <1>1, <1>4
<1>8. /\ n \in JobRecord
      /\ n.status = IF f = "status" THEN g.status ELSE r.status
      /\ n.result = IF f = "result" THEN g.result ELSE r.result
      /\ n.error = IF f = "error" THEN g.error ELSE r.error
  BY <1>7, AttributeCopied
<1>9. /\ todo'[w] = rest /\ goal'[w] = g /\ pc'[w] = pc[w] /\ held'[w] = j
      /\ object'[j] = n /\ rest \in Seq(Fields)
  BY <1>1, <1>2, <1>4, <1>6, OnlyTail
<1>10. \A S : Only(todo[w], S) => f \in S /\ Only(rest, S)
  BY <1>1, <1>2, <1>5, OnlyTail
<1>11. /\ r.result => r.status = "succeeded"
       /\ r.error => r.status = "failed"
  BY <1>1, <1>4 DEF ObjectInv
<1> HIDE DEF n, r, g, rest
<1>12. CASE pc[w] = "start"
  <2>1. /\ g.status = "running" /\ Unanswered(g) /\ Unanswered(r)
        /\ \/ todo[w] = StartWrites /\ r.status = "queued"
           \/ Only(todo[w], {"started", "attempts"}) /\ r.status = "running"
    BY <1>1, <1>4, <1>12 DEF WorkerInv, StartInv, r, g
  <2>2. Unanswered(n)
    BY <1>8, <2>1 DEF Unanswered
  <2>3. /\ Only(rest, {"started", "attempts"}) /\ n.status = "running"
        /\ n.status = r.status \/ r.status = "queued"
    <3>1. CASE todo[w] = StartWrites /\ r.status = "queued"
      BY <1>5, <1>8, <2>1, <3>1, Writes DEF rest
    <3>2. CASE Only(todo[w], {"started", "attempts"}) /\ r.status = "running"
      BY <1>8, <1>10, <3>2
    <3>3. QED
      BY <2>1, <3>1, <3>2
  <2>4. WorkerInv(w)'
    BY <1>9, <1>12, <2>1, <2>2, <2>3 DEF WorkerInv, StartInv
  <2>5. (n.result => n.status = "succeeded") /\ (n.error => n.status = "failed")
    BY <2>2 DEF Unanswered
  <2>6. QED
    BY <1>1, <1>2, <1>3, <1>4, <1>6, <1>8, <1>9, <2>3, <2>4, <2>5 DEF r
<1>13. CASE pc[w] = "end"
  <2>1. ASSUME NEW outcome \in Terminal, NEW writes, NEW others,
               EndInv(w, outcome, writes, others),
               Head(writes) = "status", Only(Tail(writes), others),
               others \in {{"result", "finished"}, {"error", "finished"}}
        PROVE  /\ EndInv(w, outcome, writes, others)'
               /\ n.status = outcome
               /\ n.status = r.status \/ r.status = "running"
    <3>1. /\ g.status = outcome
          /\ \/ todo[w] = writes /\ r.status = "running" /\ Unanswered(r)
             \/ Only(todo[w], others) /\ r.status = outcome
      BY <1>4, <2>1 DEF EndInv, r, g
    <3>2. /\ Only(rest, others) /\ n.status = outcome
          /\ n.status = r.status \/ r.status = "running"
      <4>1. CASE todo[w] = writes /\ r.status = "running"
        BY <1>5, <1>8, <2>1, <3>1, <4>1 DEF rest
      <4>2. CASE Only(todo[w], others) /\ r.status = outcome
        BY <1>8, <1>10, <2>1, <4>2
      <4>3. QED
        BY <3>1, <4>1, <4>2
    <3>3. QED
      BY <1>9, <3>1, <3>2 DEF EndInv
  <2>2. CASE EndInv(w, "succeeded", SuccessWrites, {"result", "finished"}) /\ ~g.error
    <3>1. /\ EndInv(w, "succeeded", SuccessWrites, {"result", "finished"})'
          /\ n.status = "succeeded"
          /\ n.status = r.status \/ r.status = "running"
      BY <2>1, <2>2, Writes DEF Terminal
    <3>2. ~n.error
      BY <1>8, <1>11, <2>2, <3>1
    <3>3. WorkerInv(w)'
      BY <1>9, <1>13, <2>2, <3>1 DEF WorkerInv
    <3>4. /\ n.result => n.status = "succeeded"
          /\ n.error => n.status = "failed"
      BY <3>1, <3>2
    <3>5. n.status = r.status \/ (r.status = "running" /\ n.status \in Terminal)
      BY <3>1 DEF Terminal
    <3>6. QED
      BY <1>1, <1>2, <1>3, <1>4, <1>6, <1>8, <1>9, <3>3, <3>4, <3>5 DEF r
  <2>3. CASE EndInv(w, "failed", FailureWrites, {"error", "finished"}) /\ ~g.result
    <3>1. /\ EndInv(w, "failed", FailureWrites, {"error", "finished"})'
          /\ n.status = "failed"
          /\ n.status = r.status \/ r.status = "running"
      BY <2>1, <2>3, Writes DEF Terminal
    <3>2. ~n.result
      BY <1>8, <1>11, <2>3, <3>1
    <3>3. WorkerInv(w)'
      BY <1>9, <1>13, <2>3, <3>1 DEF WorkerInv
    <3>4. /\ n.result => n.status = "succeeded"
          /\ n.error => n.status = "failed"
      BY <3>1, <3>2
    <3>5. n.status = r.status \/ (r.status = "running" /\ n.status \in Terminal)
      BY <3>1 DEF Terminal
    <3>6. QED
      BY <1>1, <1>2, <1>3, <1>4, <1>6, <1>8, <1>9, <3>3, <3>4, <3>5 DEF r
  <2>4. QED
    BY <1>1, <1>13, <2>2, <2>3 DEF WorkerInv, g
<1>14. QED
  BY <1>3, <1>12, <1>13

\* A worker whose own state stays keeps its invariant while another one changes
\* the object of another job.
LEMMA OtherWorkers ==
    ASSUME NEW v \in Workers, WorkerInv(v),
           pc'[v] = pc[v], todo'[v] = todo[v], goal'[v] = goal[v], held'[v] = held[v],
           pc[v] # "idle" => object'[held[v]] = object[held[v]]
    PROVE  WorkerInv(v)'
BY DEF WorkerInv, StartInv, EndInv, Only, Unanswered

LEMMA AssignIInv ==
    ASSUME IInv, NEW w \in Workers, Assign(w)
    PROVE  IInv'
<1> USE DEF IInv
<1>1. PICK j \in Submitted :
         /\ j \in Jobs /\ held[w] = j /\ pc[w] \in {"start", "end"}
         /\ object' \in [Jobs -> JobRecord]
         /\ \A k \in Jobs : k # j => object'[k] = object[k]
         /\ object'[j].result => object'[j].status = "succeeded"
         /\ object'[j].error => object'[j].status = "failed"
         /\ todo' \in [Workers -> Seq(Fields)]
         /\ WorkerInv(w)'
  BY AssignFacts
<1>2. /\ UNCHANGED <<jobs, pending, created, horizon, pc, held, goal, apiVars, open>>
      /\ todo' = [todo EXCEPT ![w] = Tail(@)]
  BY DEF Assign
<1>3. Submitted' = Submitted /\ (\A k : IsPending(k)' <=> IsPending(k))
      /\ (UniquePending' <=> UniquePending)
  BY <1>2, SamePending DEF Submitted
<1>4. TypeOK'
  BY <1>1, <1>2 DEF TypeOK, QueueTypeOK, apiVars
<1>5. OrderInv' /\ PlaceInv'
  BY <1>2, <1>3 DEF OrderInv, PlaceInv
<1>6. held[w] # NoJob /\ ~IsPending(j) /\ created[j] # 0
  BY <1>1 DEF PlaceInv, Submitted
<1>7. FreshInv'
  BY <1>1, <1>2, <1>3, <1>6 DEF FreshInv
<1>8. ObjectInv'
  BY <1>1 DEF ObjectInv
<1>9. ASSUME NEW v \in Workers PROVE WorkerInv(v)'
  <2>1. CASE v = w
    BY <1>1, <2>1
  <2>2. CASE v # w
    <3>1. held[v] # j
      BY <1>1, <1>6, <2>2 DEF PlaceInv
    <3>2. pc[v] # "idle" => held[v] \in Jobs
      BY DEF PlaceInv, TypeOK
    <3>3. QED
      BY <1>1, <1>2, <2>2, <3>1, <3>2, OtherWorkers DEF TypeOK
  <2>3. QED
    BY <2>1, <2>2
<1>10. QED
  BY <1>4, <1>5, <1>7, <1>8, <1>9

\* A worker at the end of a call, and one whose engine runs, has a job that
\* stands at "running" or at its outcome.
LEMMA HandFacts ==
    ASSUME IInv, NEW w \in Workers, pc[w] # "idle"
    PROVE  /\ held[w] \in Jobs /\ held[w] \in Submitted /\ held[w] # NoJob
           /\ ~IsPending(held[w])
           /\ \A v \in Workers : v # w => held[v] # held[w]
           /\ pc[w] = "start" /\ todo[w] = <<>> =>
                object[held[w]].status = "running" /\ Unanswered(object[held[w]])
           /\ pc[w] = "end" /\ todo[w] = <<>> => object[held[w]].status \in Terminal
           /\ pc[w] = "exec" => /\ object[held[w]].status = "running"
                                /\ Unanswered(object[held[w]]) /\ todo[w] = <<>>
<1>1. /\ held[w] \in Jobs /\ held[w] \in Submitted /\ held[w] # NoJob
      /\ ~IsPending(held[w]) /\ \A v \in Workers : v # w => held[v] # held[w]
  BY DEF IInv, PlaceInv, TypeOK
<1>2. <<>> # StartWrites /\ <<>> # SuccessWrites /\ <<>> # FailureWrites
  BY DEF StartWrites, SuccessWrites, FailureWrites
<1>3. QED
  BY <1>1, <1>2 DEF IInv, WorkerInv, StartInv, EndInv, Terminal

\* Steps of a worker that leave the objects alone, and in which it keeps its
\* job or lets it go.
LEMMA WorkerStepIInv ==
    ASSUME IInv, NEW w \in Workers, TypeOK',
           UNCHANGED <<pending, object, created, horizon>>,
           jobs' \in {jobs, jobs \cup {held[w]}}, pc[w] # "idle",
           held' \in {held, [held EXCEPT ![w] = NoJob]},
           pc'[w] = "idle" <=> held'[w] = NoJob,
           \A v \in Workers : v # w =>
               pc'[v] = pc[v] /\ todo'[v] = todo[v] /\ goal'[v] = goal[v],
           WorkerInv(w)'
    PROVE  IInv'
<1> USE DEF IInv
<1>1. Submitted' = Submitted /\ (\A k : IsPending(k)' <=> IsPending(k))
      /\ (UniquePending' <=> UniquePending)
  BY SamePending DEF Submitted
<1>2. held[w] \in Submitted /\ held \in [Workers -> Jobs \cup {NoJob}]
  BY HandFacts DEF TypeOK
<1>3. \A v \in Workers : v # w => held'[v] = held[v]
  BY <1>2
<1>4. PlaceInv'
  BY <1>1, <1>2, <1>3 DEF PlaceInv
<1>5. OrderInv' /\ FreshInv' /\ ObjectInv'
  BY <1>1 DEF OrderInv, FreshInv, ObjectInv
<1>6. \A v \in Workers : WorkerInv(v)'
  BY <1>3, OtherWorkers
<1>7. QED
  BY <1>4, <1>5, <1>6

LEMMA PublishStartIInv ==
    ASSUME IInv, NEW w \in Workers, PublishStart(w)
    PROVE  IInv'
<1>1. /\ pc[w] = "start" /\ todo[w] = <<>> /\ pc' = [pc EXCEPT ![w] = "exec"]
      /\ jobs' = jobs \cup {held[w]}
      /\ UNCHANGED <<pending, object, created, horizon, held, goal, todo, apiVars, open>>
  BY DEF PublishStart, Update
<1>2. /\ held[w] \in Jobs /\ held[w] # NoJob
      /\ object[held[w]].status = "running" /\ Unanswered(object[held[w]])
  BY <1>1, HandFacts
<1>3. pc \in [Workers -> Pcs]
  BY DEF IInv, TypeOK
<1>4. TypeOK'
  BY <1>1, <1>2 DEF IInv, TypeOK, QueueTypeOK, apiVars, Pcs
<1>5. WorkerInv(w)'
  BY <1>1, <1>2, <1>3 DEF WorkerInv, Unanswered
<1>6. pc'[w] = "exec" /\ \A v \in Workers : v # w => pc'[v] = pc[v]
  BY <1>1, <1>3
<1>7. QED
  BY <1>1, <1>2, <1>4, <1>5, <1>6, WorkerStepIInv

LEMMA AnswerIInv ==
    ASSUME IInv, NEW w \in Workers, Succeed(w) \/ Fail(w)
    PROVE  IInv'
<1>1. /\ pc[w] = "exec" /\ pc' = [pc EXCEPT ![w] = "end"]
      /\ UNCHANGED <<jobs, pending, object, created, horizon, held, apiVars, open>>
  BY DEF Succeed, Fail, queueVars
<1>2. /\ held[w] \in Jobs /\ held[w] # NoJob
      /\ object[held[w]].status = "running" /\ Unanswered(object[held[w]])
      /\ object[held[w]] \in JobRecord
  BY <1>1, HandFacts DEF IInv, TypeOK, QueueTypeOK
<1>3. /\ pc \in [Workers -> Pcs]
      /\ goal \in [Workers -> JobRecord] /\ todo \in [Workers -> Seq(Fields)]
  BY DEF IInv, TypeOK
<1>4. /\ MarkSucceeded(object[held[w]]) \in JobRecord
      /\ MarkSucceeded(object[held[w]]).status = "succeeded"
      /\ ~MarkSucceeded(object[held[w]]).error
      /\ MarkFailed(object[held[w]]) \in JobRecord
      /\ MarkFailed(object[held[w]]).status = "failed"
      /\ ~MarkFailed(object[held[w]]).result
  BY <1>2, MarkedFacts DEF Unanswered
<1>5. TypeOK'
  <2>1. goal' \in [Workers -> JobRecord] /\ todo' \in [Workers -> Seq(Fields)]
    BY <1>3, <1>4, Writes DEF Succeed, Fail, Marking
  <2>2. QED
    BY <1>1, <2>1 DEF IInv, TypeOK, QueueTypeOK, apiVars, Pcs
<1>6. WorkerInv(w)'
  <2>1. pc'[w] = "end" /\ held'[w] = held[w] /\ object' = object
    BY <1>1, <1>3
  <2>2. CASE Succeed(w)
    <3>1. todo'[w] = SuccessWrites /\ goal'[w] = MarkSucceeded(object[held[w]])
      BY <1>3, <2>2 DEF Succeed, Marking
    <3>2. EndInv(w, "succeeded", SuccessWrites, {"result", "finished"})'
      BY <1>2, <1>4, <2>1, <3>1 DEF EndInv, Unanswered
    <3>3. QED
      BY <1>4, <2>1, <3>1, <3>2 DEF WorkerInv
  <2>3. CASE Fail(w)
    <3>1. todo'[w] = FailureWrites /\ goal'[w] = MarkFailed(object[held[w]])
      BY <1>3, <2>3 DEF Fail, Marking
    <3>2. EndInv(w, "failed", FailureWrites, {"error", "finished"})'
      BY <1>2, <1>4, <2>1, <3>1 DEF EndInv, Unanswered
    <3>3. QED
      BY <1>4, <2>1, <3>1, <3>2 DEF WorkerInv
  <2>4. QED
    BY <2>2, <2>3
<1>7. pc'[w] = "end" /\ \A v \in Workers : v # w =>
        pc'[v] = pc[v] /\ todo'[v] = todo[v] /\ goal'[v] = goal[v]
  BY <1>1, <1>3 DEF Succeed, Fail, Marking
<1>8. QED
  BY <1>1, <1>2, <1>5, <1>6, <1>7, WorkerStepIInv

LEMMA FinishIInv ==
    ASSUME IInv, NEW w \in Workers, Finish(w)
    PROVE  IInv'
<1>1. /\ pc[w] = "end" /\ todo[w] = <<>> /\ pc' = [pc EXCEPT ![w] = "idle"]
      /\ jobs' = jobs \cup {held[w]}
      /\ held' = [held EXCEPT ![w] = NoJob] /\ goal' = [goal EXCEPT ![w] = NewJob]
      /\ UNCHANGED <<pending, object, created, horizon, todo, apiVars, open>>
  BY DEF Finish, Update
<1>2. held[w] \in Jobs
  BY <1>1, HandFacts
<1>3. /\ pc \in [Workers -> Pcs] /\ held \in [Workers -> Jobs \cup {NoJob}]
      /\ goal \in [Workers -> JobRecord]
  BY DEF IInv, TypeOK
<1>4. TypeOK'
  BY <1>1, <1>2, NewJobFacts DEF IInv, TypeOK, QueueTypeOK, apiVars, Pcs
<1>5. /\ pc'[w] = "idle" /\ held'[w] = NoJob
      /\ \A v \in Workers : v # w => pc'[v] = pc[v] /\ goal'[v] = goal[v]
  BY <1>1, <1>3
<1>6. WorkerInv(w)'
  BY <1>1, <1>5 DEF WorkerInv
<1>7. QED
  BY <1>1, <1>4, <1>5, <1>6, WorkerStepIInv

LEMMA NextIInv == IInv /\ [Next]_vars => IInv'
<1> SUFFICES ASSUME IInv, [Next]_vars
             PROVE  IInv'
  OBVIOUS
<1>1. CASE UNCHANGED vars
  BY <1>1 DEF vars, queueVars, workerVars, apiVars, IInv, TypeOK, QueueTypeOK, OrderInv,
     PlaceInv, FreshInv, ObjectInv, WorkerInv, StartInv, EndInv, Only, Unanswered,
     Submitted, UniquePending, IsPending
<1>2. ASSUME NEW j \in Jobs, Submit(j) \/ DeleteJob(j) \/ GetJob(j)
      PROVE  IInv'
  BY <1>2, SubmitIInv, ClientIInv, PollIInv
<1>3. ASSUME ReadField \/ Respond \/ Close \/ TimePasses
      PROVE  IInv'
  BY <1>3, ClientIInv, PollIInv
<1>4. ASSUME NEW w \in Workers, Loop(w)
      PROVE  IInv'
  BY <1>4, TakeIInv, TakeNothingIInv, AssignIInv, PublishStartIInv, AnswerIInv,
     FinishIInv DEF Loop
<1>5. QED
  BY <1>1, <1>2, <1>3, <1>4 DEF Next

LEMMA IInvAlways == Spec => []IInv
BY InitIInv, NextIInv, PTL DEF Spec

\* The queue, the objects and what is being marked and read keep their type.
THEOREM TypeCorrect == Spec => []TypeOK
<1>1. IInv => TypeOK
  BY DEF IInv
<1>2. QED
  BY <1>1, IInvAlways, PTL

-----------------------------------------------------------------------------
(* What a response tells *)

\* The job's object at the end of a step: an outcome stays.
LEMMA OutcomeStays ==
    ASSUME IInv, Next
    PROVE  \A k \in Jobs : object[k].status \in Terminal =>
               object'[k].status = object[k].status
<1>1. CASE \E w \in Workers : Assign(w)
  <2>1. PICK w \in Workers : Assign(w)
    BY <1>1
  <2>2. \E j \in Jobs :
          /\ \A k \in Jobs : k # j => object'[k] = object[k]
          /\ \/ object'[j].status = object[j].status
             \/ object[j].status \in {"queued", "running"}
    BY <2>1, AssignFacts
  <2>3. QED
    BY <2>2 DEF Terminal
<1>2. CASE \E j \in Jobs : Submit(j) \/ DeleteJob(j) \/ GetJob(j)
  BY <1>2 DEF Submit, Enqueue, DeleteJob, Delete, GetJob, queueVars
<1>3. CASE ReadField \/ Respond \/ Close \/ TimePasses
  BY <1>3 DEF ReadField, Respond, Close, Clear, TimePasses, Age, queueVars
<1>4. CASE \E w \in Workers : Take(w) \/ TakeNothing(w) \/ PublishStart(w)
                              \/ Succeed(w) \/ Fail(w) \/ Finish(w)
  BY <1>4 DEF Take, Dequeue, TakeNothing, DequeueNothing, PublishStart, Succeed, Fail,
     Finish, Update, queueVars
<1>5. QED
  BY <1>1, <1>2, <1>3, <1>4 DEF Next, Loop

LEMMA NextResponse == IInv /\ ResponseInv /\ [Next]_vars => ResponseInv'
<1> SUFFICES ASSUME IInv, ResponseInv, [Next]_vars
             PROVE  ResponseInv'
  OBVIOUS
<1>1. CASE UNCHANGED vars
  BY <1>1 DEF vars, queueVars, apiVars, ResponseInv
<1>2. CASE Next /\ UNCHANGED <<reading, response>>
  <2>1. reading # NoJob => reading \in Jobs
    BY DEF IInv, TypeOK
  <2>2. "succeeded" \in Terminal /\ "failed" \in Terminal
    BY DEF Terminal
  <2>3. QED
    BY <1>2, <2>1, <2>2, OutcomeStays DEF ResponseInv
<1>3. CASE (\E j \in Jobs : GetJob(j)) \/ Respond
  <2>1. response' = NewJob
    BY <1>3 DEF GetJob, Respond
  <2>2. QED
    BY <2>1, NewJobFacts DEF ResponseInv, Unanswered, Terminal
<1>4. CASE ReadField
  <2>1. /\ toRead # <<>> /\ UNCHANGED <<object, reading>>
        /\ response' = [response EXCEPT ![Head(toRead)] = object[reading][Head(toRead)]]
    BY <1>4 DEF ReadField, queueVars
  <2>2. /\ toRead \in Seq(Fields) /\ reading \in Jobs
        /\ object[reading] \in JobRecord /\ response \in JobRecord
    BY <1>4 DEF ReadField, IInv, TypeOK, QueueTypeOK
  <2>3. PICK f \in Fields : f = Head(toRead)
    BY <2>1, <2>2, OnlyTail
  <2> DEFINE r == object[reading]
  <2>4. /\ response'.status = IF f = "status" THEN r.status ELSE response.status
        /\ response'.result = IF f = "result" THEN r.result ELSE response.result
        /\ response'.error = IF f = "error" THEN r.error ELSE response.error
    <3>1. response' = [response EXCEPT ![f] = r[f]]
      BY <2>1, <2>3
    <3> HIDE DEF r
    <3>2. r \in JobRecord
      BY <2>2 DEF r
    <3>3. QED
      BY <2>2, <3>1, <3>2, AttributeCopied
  <2>5. /\ r.result => r.status = "succeeded"
        /\ r.error => r.status = "failed"
    BY <2>2 DEF IInv, ObjectInv
  <2>6. object'[reading'] = r /\ reading # NoJob
    BY <1>4, <2>1 DEF ReadField
  <2> HIDE DEF r
  <2>7. /\ response.status \in Terminal => r.status = response.status
        /\ response.result => r.status = "succeeded"
        /\ response.error => r.status = "failed"
    BY <2>6 DEF ResponseInv, r
  <2>8. QED
    BY <2>4, <2>5, <2>6, <2>7 DEF ResponseInv
<1>5. QED
  <2>1. ASSUME NEW j \in Jobs, Submit(j) \/ DeleteJob(j)
        PROVE  UNCHANGED <<reading, response>>
    BY <2>1 DEF Submit, DeleteJob, apiVars
  <2>2. ASSUME Close \/ TimePasses
        PROVE  UNCHANGED <<reading, response>>
    BY <2>2 DEF Close, TimePasses, apiVars
  <2>3. ASSUME NEW w \in Workers, Loop(w)
        PROVE  UNCHANGED <<reading, response>>
    BY <2>3 DEF Loop, Take, TakeNothing, Assign, PublishStart, Succeed, Fail, Finish,
       apiVars
  <2>4. QED
    BY <1>1, <1>2, <1>3, <1>4, <2>1, <2>2, <2>3 DEF Next

\* A GET that reads a job while a worker is marking it never reports an outcome
\* other than the job's own, nor a result together with an error.
THEOREM AnswersNeverMixed == Spec => []ResponseNeverMixesOutcomes
<1>1. Init => ResponseInv
  BY DEF Init, ResponseInv
<1>2. ResponseInv => ResponseNeverMixesOutcomes
  BY DEF ResponseInv, ResponseNeverMixesOutcomes
<1>3. QED
  BY <1>1, <1>2, NextResponse, IInvAlways, PTL DEF Spec

-----------------------------------------------------------------------------
(* The cap *)

\* An eviction leaves room for the update that undoes it: the jobs in the
\* dictionary and those that a worker can put back are together within the
\* bound.
CountsKnown ==
    /\ IsFiniteSet(jobs) /\ Cardinality(jobs) \in Nat
    /\ IsFiniteSet(Evicted) /\ Cardinality(Evicted) \in Nat
    /\ Cardinality(Evicted) <= Cardinality(Workers)
    /\ Cardinality(Workers) \in Nat

LEMMA EvictedFacts == IInv => CountsKnown
<1>1. IInv => jobs \subseteq Jobs
  BY DEF IInv, TypeOK, QueueTypeOK
<1>2. Evicted \subseteq Workers
  BY DEF Evicted
<1>3. QED
  BY <1>1, <1>2, FS_Subset, FS_CardinalityType DEF CountsKnown

LEMMA EvictedFactsNext == IInv' => CountsKnown'
BY EvictedFacts, PTL

\* When nobody is added on either side the sum does not grow.
LEMMA NothingAdded ==
    ASSUME IInv, IInv', OvershootInv, jobs' \subseteq jobs, Evicted' \subseteq Evicted
    PROVE  OvershootInv'
<1>1. /\ Cardinality(jobs') <= Cardinality(jobs)
      /\ Cardinality(Evicted') <= Cardinality(Evicted)
  BY EvictedFacts, FS_Subset DEF CountsKnown
<1>2. QED
  BY <1>1, EvictedFacts, EvictedFactsNext DEF CountsKnown, OvershootInv

\* A submission prunes to the cap, whatever workers had put back before.
LEMMA SubmitKeepsCap ==
    ASSUME IInv, IInv', NEW j \in Jobs, Submit(j)
    PROVE  OvershootInv'
<1>1. Cardinality(jobs') <= MaxResults
  BY EnqueueFacts DEF Submit, IInv, PlaceInv
<1>2. QED
  BY <1>1, EvictedFacts, EvictedFactsNext DEF CountsKnown, OvershootInv

\* A DELETE takes one job away, and at most one worker has that job.
LEMMA DeleteKeepsCap ==
    ASSUME IInv, IInv', OvershootInv, NEW j \in Jobs, DeleteJob(j)
    PROVE  OvershootInv'
<1>1. j \in jobs /\ jobs' = jobs \ {j} /\ held' = held
  BY DEF DeleteJob, Delete, workerVars
<1>2. Cardinality(jobs') = Cardinality(jobs) - 1
  BY <1>1, EvictedFacts, FS_RemoveElement DEF CountsKnown
<1>3. CASE \E w \in Workers : held[w] = j
  <2>1. PICK w \in Workers : held[w] = j
    BY <1>3
  <2>2. held[w] # NoJob
    BY <2>1
  <2>3. \A v \in Workers : held[v] = j => v = w
    BY <2>1, <2>2 DEF IInv, PlaceInv
  <2>4. Evicted' \subseteq Evicted \cup {w}
    BY <1>1, <2>3 DEF Evicted
  <2>5. w \notin Evicted
    BY <1>1, <2>1 DEF Evicted
  <2>6. /\ IsFiniteSet(Evicted \cup {w})
        /\ Cardinality(Evicted \cup {w}) = Cardinality(Evicted) + 1
    BY <2>5, EvictedFacts, FS_AddElement, Zenon DEF CountsKnown
  <2>7. Cardinality(Evicted') <= Cardinality(Evicted) + 1
    BY <2>4, <2>6, FS_Subset
  <2>8. QED
    BY <1>2, <2>7, EvictedFacts, EvictedFactsNext DEF CountsKnown, OvershootInv
<1>4. CASE ~ \E w \in Workers : held[w] = j
  <2>1. Evicted' \subseteq Evicted
    BY <1>1, <1>4 DEF Evicted
  <2>2. QED
    BY <1>1, <2>1, NothingAdded
<1>5. QED
  BY <1>3, <1>4

LEMMA CloseKeepsCap ==
    ASSUME IInv, IInv', Close
    PROVE  OvershootInv'
<1>1. jobs' = {} /\ Cardinality(jobs') = 0
  BY FS_EmptySet DEF Close, Clear
<1>2. QED
  BY <1>1, EvictedFacts, EvictedFactsNext DEF CountsKnown, OvershootInv

\* A job that an update puts back was one that its worker could put back.
LEMMA UpdateKeepsCap ==
    ASSUME IInv, IInv', OvershootInv, NEW w \in Workers, pc[w] # "idle",
           Update(held[w]), held' \in {held, [held EXCEPT ![w] = NoJob]}
    PROVE  OvershootInv'
<1>1. jobs' = jobs \cup {held[w]}
  BY DEF Update
<1>2. /\ held[w] \in Jobs /\ held[w] # NoJob /\ held \in [Workers -> Jobs \cup {NoJob}]
      /\ \A v \in Workers : v # w => held'[v] = held[v]
      /\ held'[w] \in {held[w], NoJob}
  BY HandFacts DEF IInv, TypeOK
<1>3. CASE held[w] \in jobs
  <2>1. jobs' = jobs
    BY <1>1, <1>3
  <2>2. Evicted' \subseteq Evicted
    BY <1>2, <2>1 DEF Evicted
  <2>3. QED
    BY <2>1, <2>2, NothingAdded
<1>4. CASE held[w] \notin jobs
  <2>1. Cardinality(jobs') = Cardinality(jobs) + 1
    BY <1>1, <1>4, EvictedFacts, FS_AddElement, Zenon DEF CountsKnown
  <2>2. w \in Evicted
    BY <1>2, <1>4 DEF Evicted
  <2>3. Evicted' \subseteq Evicted \ {w}
    BY <1>1, <1>2 DEF Evicted
  <2>4. /\ IsFiniteSet(Evicted \ {w})
        /\ Cardinality(Evicted \ {w}) = Cardinality(Evicted) - 1
    BY <2>2, EvictedFacts, FS_RemoveElement DEF CountsKnown
  <2>5. Cardinality(Evicted') <= Cardinality(Evicted) - 1
    BY <2>3, <2>4, FS_Subset
  <2>6. QED
    BY <2>1, <2>5, EvictedFacts, EvictedFactsNext DEF CountsKnown, OvershootInv
<1>5. QED
  BY <1>3, <1>4

\* The job that a worker takes is in the dictionary.
LEMMA TakeKeepsCap ==
    ASSUME IInv, IInv', OvershootInv, NEW w \in Workers, Take(w)
    PROVE  OvershootInv'
<1>1. PICK j \in Jobs : Dequeue(j) /\ held' = [held EXCEPT ![w] = j]
  BY DEF Take
<1>2. j \in jobs /\ jobs' = jobs
  BY <1>1, DequeueFacts DEF IInv, TypeOK, QueueTypeOK, PlaceInv
<1>3. Evicted' \subseteq Evicted
  BY <1>1, <1>2 DEF Evicted, IInv, TypeOK
<1>4. QED
  BY <1>2, <1>3, NothingAdded

LEMMA NextOvershoot == IInv /\ IInv' /\ OvershootInv /\ [Next]_vars => OvershootInv'
<1> SUFFICES ASSUME IInv, IInv', OvershootInv, [Next]_vars
             PROVE  OvershootInv'
  OBVIOUS
<1>1. CASE UNCHANGED <<jobs, held>>
  BY <1>1, NothingAdded DEF Evicted
<1>2. CASE UNCHANGED vars
  BY <1>1, <1>2 DEF vars, queueVars, workerVars
<1>3. ASSUME NEW j \in Jobs, Submit(j) \/ DeleteJob(j) \/ GetJob(j)
      PROVE  OvershootInv'
  <2>1. GetJob(j) => UNCHANGED <<jobs, held>>
    BY DEF GetJob, queueVars, workerVars
  <2>2. QED
    BY <1>1, <1>3, <2>1, SubmitKeepsCap, DeleteKeepsCap
<1>4. ASSUME ReadField \/ Respond \/ Close \/ TimePasses
      PROVE  OvershootInv'
  <2>1. ReadField \/ Respond \/ TimePasses => UNCHANGED <<jobs, held>>
    BY DEF ReadField, Respond, TimePasses, Age, queueVars, workerVars
  <2>2. QED
    BY <1>1, <1>4, <2>1, CloseKeepsCap
<1>5. ASSUME NEW w \in Workers, Loop(w)
      PROVE  OvershootInv'
  <2>1. TakeNothing(w) \/ Assign(w) \/ Succeed(w) \/ Fail(w) => UNCHANGED <<jobs, held>>
    BY DEF TakeNothing, DequeueNothing, Assign, Succeed, Fail, queueVars, workerVars
  <2>2. PublishStart(w) \/ Finish(w) =>
          /\ pc[w] # "idle" /\ Update(held[w])
          /\ held' \in {held, [held EXCEPT ![w] = NoJob]}
    BY DEF PublishStart, Finish
  <2>3. QED
    BY <1>1, <1>5, <2>1, <2>2, TakeKeepsCap, UpdateKeepsCap DEF Loop
<1>6. QED
  BY <1>2, <1>3, <1>4, <1>5 DEF Next

\* Jobs that workers put back after they were pruned take the dictionary over
\* max_results by one for each worker at most, however many jobs come.
THEOREM CapMissedByWorkers == Spec => []OvershootBounded
<1>1. Init => OvershootInv
  <2>1. ASSUME Init
        PROVE  OvershootInv
    <3>1. jobs = {} /\ Evicted = {}
      BY <2>1 DEF Init, QueueInit, Evicted
    <3>2. QED
      BY <3>1, FS_EmptySet, FS_CardinalityType DEF OvershootInv
  <2>2. QED
    BY <2>1
<1>2. IInv /\ OvershootInv => OvershootBounded
  BY EvictedFacts DEF CountsKnown, OvershootInv, OvershootBounded
<1>3. QED
  BY <1>1, <1>2, NextOvershoot, IInvAlways, PTL DEF Spec

-----------------------------------------------------------------------------
(* What a submission evicts *)

\* What enqueue prunes is over the TTL, or MaxResults jobs are newer.
LEMMA EvictedAreOld ==
    ASSUME IInv, NEW k \in Jobs, Submit(k), NEW j \in Jobs,
           j \in jobs \/ created[j] # created'[j], j \notin jobs'
    PROVE  \/ created'[j] <= horizon
           \/ Cardinality({i \in Jobs : created'[i] > created'[j]}) >= MaxResults
<1>1. /\ created \in [Jobs -> 0..Cardinality(Jobs)] /\ jobs \subseteq Jobs
      /\ horizon \in Nat
  BY SubmittedCounted DEF IInv, TypeOK, QueueTypeOK
<1>2. /\ jobs' = Pruned(jobs \cup {k}) /\ horizon' = horizon
      /\ created' = [created EXCEPT ![k] = Cardinality(Submitted) + 1]
  BY DEF Submit, Enqueue
<1>3. created' \in [Jobs -> 0..Cardinality(Jobs)]
  BY EnqueueFacts DEF Submit, IInv, PlaceInv
<1>4. j \in jobs \cup {k}
  BY <1>1, <1>2
<1> DEFINE fresh == {i \in jobs \cup {k} : created'[i] > horizon}
           newer(S) == {i \in S : created'[i] > created'[j]}
<1>5. CASE j \notin fresh
  <2>1. ~(created'[j] > horizon)
    BY <1>4, <1>5
  <2>2. created'[j] \in Nat
    BY <1>3
  <2>3. QED
    BY <1>1, <2>1, <2>2
<1>6. CASE j \in fresh
  <2>1. ~(Cardinality(newer(fresh)) < MaxResults)
    BY <1>2, <1>6 DEF Pruned
  <2>2. newer(fresh) \subseteq newer(Jobs) /\ newer(Jobs) \subseteq Jobs
    BY <1>1
  <2>3. /\ Cardinality(newer(fresh)) <= Cardinality(newer(Jobs))
        /\ Cardinality(newer(fresh)) \in Nat /\ Cardinality(newer(Jobs)) \in Nat
    BY <2>2, FS_Subset, FS_CardinalityType
  <2> HIDE DEF newer, fresh
  <2>4. Cardinality(newer(Jobs)) >= MaxResults
    BY <2>1, <2>3
  <2>5. QED
    BY <2>4 DEF newer
<1>7. QED
  BY <1>5, <1>6

\* A submission never evicts one of the newest max_results jobs, though workers
\* may have put pruned jobs back before it.
THEOREM SubmissionsEvictOldest == Spec => NewestKept
<1>1. IInv /\ [Next]_vars =>
        [created' # created =>
           \A j \in Jobs : (j \in jobs \/ created[j] # created'[j]) /\ j \notin jobs' =>
             \/ created'[j] <= horizon
             \/ Cardinality({k \in Jobs : created'[k] > created'[j]}) >= MaxResults]_vars
  <2> SUFFICES ASSUME IInv, Next, created' # created,
                      NEW j \in Jobs, j \in jobs \/ created[j] # created'[j], j \notin jobs'
               PROVE  \/ created'[j] <= horizon
                      \/ Cardinality({k \in Jobs : created'[k] > created'[j]}) >= MaxResults
    OBVIOUS
  <2>1. CASE \E k \in Jobs : Submit(k)
    BY <2>1, EvictedAreOld
  <2>2. CASE \E k \in Jobs : DeleteJob(k) \/ GetJob(k)
    BY <2>2 DEF DeleteJob, Delete, GetJob, queueVars
  <2>3. CASE ReadField \/ Respond \/ Close \/ TimePasses
    BY <2>3 DEF ReadField, Respond, Close, Clear, TimePasses, Age, queueVars
  <2>4. CASE \E w \in Workers : Loop(w)
    BY <2>4 DEF Loop, Take, Dequeue, TakeNothing, DequeueNothing, Assign, PublishStart,
       Succeed, Fail, Finish, Update, queueVars
  <2>5. QED
    BY <2>1, <2>2, <2>3, <2>4 DEF Next
<1>2. QED
  BY <1>1, IInvAlways, PTL DEF Spec, NewestKept

-----------------------------------------------------------------------------
(* The refinement of the queue's promise.  The records are the objects     *)
(* themselves, so a client sees a job advance as its worker assigns the    *)
(* status; what a submission prunes goes in the step that accepts it.      *)

stageNow == [j \in Jobs |-> StageOf(j)]
recordNow == [j \in Jobs |-> RecordOf(j)]

\* A step under which every job keeps stage and record.
LEMMA Stutter ==
    ASSUME \A k \in Jobs : StageOf(k)' = StageOf(k) /\ RecordOf(k)' = RecordOf(k)
    PROVE  UNCHANGED Lifecycle!lifecycleVars
<1>1. stageNow' = stageNow /\ recordNow' = recordNow
  BY DEF stageNow, recordNow
<1>2. QED
  BY <1>1 DEF Lifecycle!lifecycleVars, stageNow, recordNow

\* A step under which one job moves, seen from the abstract variables.
LEMMA OneMoves ==
    ASSUME NEW j \in Jobs,
           \A k \in Jobs : k # j =>
               StageOf(k)' = StageOf(k) /\ RecordOf(k)' = RecordOf(k)
    PROVE  /\ stageNow' = [stageNow EXCEPT ![j] = StageOf(j)']
           /\ recordNow' = [recordNow EXCEPT ![j] = RecordOf(j)']
           /\ stageNow[j] = StageOf(j) /\ recordNow[j] = RecordOf(j)
BY DEF stageNow, recordNow

\* A job that is where it was may still lose its record; one that waits is
\* cancelled with it.
LEMMA JobStays ==
    ASSUME NEW k \in Jobs, (created[k] = 0) <=> (created'[k] = 0),
           IsPending(k)' <=> IsPending(k), UNCHANGED <<object, held>>,
           k \in jobs' => k \in jobs
    PROVE  /\ StageOf(k)' = IF k \in jobs \ jobs' /\ StageOf(k) = "queued"
                            THEN "over" ELSE StageOf(k)
           /\ RecordOf(k)' = IF k \in jobs \ jobs' THEN "none" ELSE RecordOf(k)
<1>1. RecordOf(k)' = IF k \in jobs \ jobs' THEN "none" ELSE RecordOf(k)
  BY DEF RecordOf
<1>2. CASE created[k] = 0
  BY <1>1, <1>2 DEF StageOf
<1>3. CASE created[k] # 0 /\ IsPending(k)
  BY <1>1, <1>3 DEF StageOf
<1>4. CASE created[k] # 0 /\ ~IsPending(k) /\ \E w \in Workers : held[w] = k
  BY <1>1, <1>4 DEF StageOf
<1>5. CASE created[k] # 0 /\ ~IsPending(k) /\ ~ \E w \in Workers : held[w] = k
  BY <1>1, <1>5 DEF StageOf
<1>6. QED
  BY <1>1, <1>2, <1>3, <1>4, <1>5

\* A job that its worker has, and one that nobody has or will have.
LEMMA InHand ==
    ASSUME IInv, NEW w \in Workers, pc[w] # "idle"
    PROVE  StageOf(held[w]) = IF object[held[w]].status = "queued" THEN "taken"
                              ELSE object[held[w]].status
<1>1. held[w] \in Submitted /\ ~IsPending(held[w])
  BY HandFacts
<1>2. QED
  BY <1>1 DEF StageOf, Submitted

LEMMA InHandNext ==
    ASSUME IInv', NEW w \in Workers, pc'[w] # "idle", NEW j, held'[w] = j
    PROVE  StageOf(j)' = IF object'[j].status = "queued" THEN "taken"
                         ELSE object'[j].status
<1>1. j \in Submitted' /\ ~IsPending(j)'
  BY DEF IInv, PlaceInv
<1>2. QED
  BY <1>1 DEF StageOf, Submitted

\* Jobs that a step of worker w does not touch.
LEMMA JobsUntouched ==
    ASSUME IInv, NEW w \in Workers, NEW j \in Jobs,
           held' \in {held, [held EXCEPT ![w] = NoJob], [held EXCEPT ![w] = j]},
           held[w] \in {j, NoJob}, UNCHANGED created,
           NEW k \in Jobs, k # j, object'[k] = object[k], k \in jobs' <=> k \in jobs,
           IsPending(k)' <=> IsPending(k)
    PROVE  StageOf(k)' = StageOf(k) /\ RecordOf(k)' = RecordOf(k)
<1>1. held \in [Workers -> Jobs \cup {NoJob}]
  BY DEF IInv, TypeOK
<1>2. (\E v \in Workers : held'[v] = k) <=> (\E v \in Workers : held[v] = k)
  BY <1>1
<1>3. RecordOf(k)' = RecordOf(k)
  BY DEF RecordOf
<1>4. QED
  BY <1>2, <1>3 DEF StageOf

-----------------------------------------------------------------------------
(* Each action is a step of the lifecycle or a stutter *)

LEMMA SubmitKeeps ==
    ASSUME IInv, IInv', NEW j \in Jobs, Submit(j)
    PROVE  [Lifecycle!LifecycleNext]_Lifecycle!lifecycleVars
<1>1. Enqueue(j) /\ created[j] = 0 /\ held' = held /\ object' = object
      /\ pending' = Append(pending, j)
      /\ created' = [created EXCEPT ![j] = Cardinality(Submitted) + 1]
  BY DEF Submit, Enqueue, workerVars
<1>2. /\ j \notin Submitted /\ j \in Submitted' /\ jobs \subseteq Jobs
      /\ jobs' \subseteq jobs \cup {j} /\ j \in jobs'
  BY <1>1, EnqueueFacts DEF IInv, PlaceInv, TypeOK, QueueTypeOK
<1>3. \A k : IsPending(k)' <=> IsPending(k) \/ k = j
  BY <1>1, AppendPending DEF IInv, TypeOK, QueueTypeOK
<1> DEFINE gone == jobs \ jobs'
<1>4. ASSUME NEW k \in Jobs, k # j
      PROVE  /\ StageOf(k)' = IF k \in gone /\ StageOf(k) = "queued"
                              THEN "over" ELSE StageOf(k)
             /\ RecordOf(k)' = IF k \in gone THEN "none" ELSE RecordOf(k)
  <2>1. created'[k] = created[k] /\ (k \in jobs' => k \in jobs)
    BY <1>1, <1>2, <1>4 DEF IInv, TypeOK, QueueTypeOK
  <2>2. QED
    BY <1>1, <1>3, <1>4, <2>1, JobStays
<1>5. StageOf(j) = "new"
  BY <1>1 DEF StageOf
<1>6. StageOf(j)' = "queued"
  BY <1>2, <1>3 DEF StageOf, Submitted
<1>7. RecordOf(j)' = "queued"
  BY <1>1, <1>2, NewJobFacts DEF RecordOf, IInv, FreshInv
<1>8. PICK removed \in SUBSET Jobs : removed = gone
  BY <1>2
<1> HIDE DEF gone
<1>9. Lifecycle!Accept(j, removed)
  BY <1>4, <1>5, <1>6, <1>7, <1>8 DEF Lifecycle!Accept
<1>10. QED
  BY <1>9 DEF Lifecycle!LifecycleNext

\* DELETE and the shutdown take records away.
LEMMA RemovalKeeps ==
    ASSUME IInv, jobs' \subseteq jobs, UNCHANGED <<pending, object, created, held>>
    PROVE  [Lifecycle!LifecycleNext]_Lifecycle!lifecycleVars
<1>1. PICK removed \in SUBSET Jobs : removed = jobs \ jobs'
  BY DEF IInv, TypeOK, QueueTypeOK
<1>2. ASSUME NEW k \in Jobs
      PROVE  /\ StageOf(k)' = IF k \in removed /\ StageOf(k) = "queued"
                              THEN "over" ELSE StageOf(k)
             /\ RecordOf(k)' = IF k \in removed THEN "none" ELSE RecordOf(k)
  <2>1. IsPending(k)' <=> IsPending(k)
    BY SamePending
  <2>2. QED
    BY <1>1, <2>1, JobStays
<1>3. Lifecycle!Remove(removed)
  BY <1>2 DEF Lifecycle!Remove, Lifecycle!Without
<1>4. QED
  BY <1>3 DEF Lifecycle!LifecycleNext

LEMMA TakeKeeps ==
    ASSUME IInv, IInv', NEW w \in Workers, Take(w)
    PROVE  [Lifecycle!LifecycleNext]_Lifecycle!lifecycleVars
<1>1. PICK j \in Jobs : Dequeue(j) /\ held' = [held EXCEPT ![w] = j]
  BY DEF Take
<1>2. /\ pc[w] = "idle" /\ held[w] = NoJob /\ pc'[w] # "idle" /\ held'[w] = j
  BY <1>1 DEF Take, IInv, PlaceInv, TypeOK
<1>3. /\ IsPending(j) /\ j \in jobs /\ j \in Submitted
      /\ \A k : IsPending(k)' => IsPending(k)
      /\ \A k \in jobs : IsPending(k) /\ k # j => IsPending(k)'
      /\ UNCHANGED <<jobs, object, created>>
  BY <1>1, DequeueFacts DEF IInv, TypeOK, QueueTypeOK, PlaceInv
<1>4. ASSUME NEW k \in Jobs, k # j
      PROVE  StageOf(k)' = StageOf(k) /\ RecordOf(k)' = RecordOf(k)
  <2>1. CASE IsPending(k)' <=> IsPending(k)
    BY <1>1, <1>2, <1>3, <1>4, <2>1, JobsUntouched
  <2>2. CASE IsPending(k) /\ ~IsPending(k)'
    <3>1. k \notin jobs /\ k \in Submitted
      BY <1>3, <1>4, <2>2 DEF IInv, PlaceInv
    <3>2. \A v \in Workers : held'[v] # k
      BY <1>1, <1>4, <2>2 DEF IInv, PlaceInv, TypeOK
    <3>3. StageOf(k) = "over"
      BY <2>2, <3>1 DEF StageOf, Submitted
    <3>4. StageOf(k)' = "over"
      BY <1>3, <2>2, <3>1, <3>2 DEF StageOf, Submitted
    <3>5. RecordOf(k)' = RecordOf(k)
      BY <1>3 DEF RecordOf
    <3>6. QED
      BY <3>3, <3>4, <3>5
  <2>3. QED
    BY <1>3, <2>1, <2>2
<1>5. StageOf(j) = "queued" /\ RecordOf(j)' = RecordOf(j)
  BY <1>3 DEF StageOf, RecordOf, Submitted
<1>6. StageOf(j)' = "taken"
  <2>1. object[j].status = "queued"
    BY <1>3, NewJobFacts DEF IInv, FreshInv
  <2>2. QED
    BY <1>2, <1>3, <2>1, InHandNext
<1>7. Lifecycle!Take(j)
  <2>1. /\ stageNow' = [stageNow EXCEPT ![j] = "taken"] /\ stageNow[j] = "queued"
        /\ recordNow' = [recordNow EXCEPT ![j] = recordNow[j]]
    BY <1>4, <1>5, <1>6, OneMoves
  <2>2. QED
    BY <2>1 DEF Lifecycle!Take, stageNow, recordNow
<1>8. QED
  BY <1>7 DEF Lifecycle!LifecycleNext

\* The ids left in the deque are of removed jobs.
LEMMA TakeNothingKeeps ==
    ASSUME IInv, NEW w \in Workers, TakeNothing(w)
    PROVE  [Lifecycle!LifecycleNext]_Lifecycle!lifecycleVars
<1>1. /\ pending' = <<>> /\ Len(pending') = 0 /\ \A i \in 1..Len(pending) : pending[i] \notin jobs
      /\ UNCHANGED <<jobs, object, created, held>>
  BY DEF TakeNothing, DequeueNothing, workerVars
<1>2. ASSUME NEW k \in Jobs
      PROVE  StageOf(k)' = StageOf(k) /\ RecordOf(k)' = RecordOf(k)
  <2>1. ~IsPending(k)'
    BY <1>1 DEF IsPending
  <2>2. IsPending(k) =>
          k \notin jobs /\ k \in Submitted /\ \A v \in Workers : held[v] # k
    BY <1>1 DEF IsPending, IInv, PlaceInv
  <2>3. RecordOf(k)' = RecordOf(k)
    BY <1>1 DEF RecordOf
  <2>4. StageOf(k)' = StageOf(k)
    BY <1>1, <2>1, <2>2 DEF StageOf, Submitted
  <2>5. QED
    BY <2>3, <2>4
<1>3. QED
  BY <1>2, Stutter

LEMMA AssignKeeps ==
    ASSUME IInv, IInv', NEW w \in Workers, Assign(w)
    PROVE  [Lifecycle!LifecycleNext]_Lifecycle!lifecycleVars
<1>1. PICK j \in Submitted :
        /\ j \in Jobs /\ held[w] = j /\ pc[w] \in {"start", "end"}
        /\ object' \in [Jobs -> JobRecord]
        /\ \A k \in Jobs : k # j => object'[k] = object[k]
        /\ \/ object'[j].status = object[j].status
           \/ object[j].status = "queued" /\ object'[j].status = "running"
           \/ object[j].status = "running" /\ object'[j].status \in Terminal
  BY AssignFacts
<1>2. UNCHANGED <<jobs, pending, created, pc, held>>
  BY DEF Assign
<1>3. ASSUME NEW k \in Jobs, k # j
      PROVE  StageOf(k)' = StageOf(k) /\ RecordOf(k)' = RecordOf(k)
  <2>1. IsPending(k)' <=> IsPending(k)
    BY <1>2, SamePending
  <2>2. QED
    BY <1>1, <1>2, <1>3, <2>1, JobsUntouched
<1>4. /\ StageOf(j) = IF object[j].status = "queued" THEN "taken" ELSE object[j].status
      /\ StageOf(j)' = IF object'[j].status = "queued" THEN "taken" ELSE object'[j].status
  BY <1>1, <1>2, InHand, InHandNext
<1>5. PICK s : s = object'[j].status
  OBVIOUS
<1>6. RecordOf(j)' \in {RecordOf(j), s}
  BY <1>2, <1>5 DEF RecordOf
<1>7. CASE s = object[j].status
  <2>1. StageOf(j)' = StageOf(j) /\ RecordOf(j)' = RecordOf(j)
    BY <1>2, <1>4, <1>5, <1>7 DEF RecordOf
  <2>2. QED
    BY <1>3, <2>1, Stutter
<1>8. CASE s # object[j].status
  <2>1. /\ \/ StageOf(j) = "taken" /\ s = "running"
           \/ StageOf(j) = "running" /\ s \in Terminal
        /\ StageOf(j)' = s
    <3>1. CASE object[j].status = "queued" /\ object'[j].status = "running"
      BY <1>4, <1>5, <3>1
    <3>2. CASE object[j].status = "running" /\ object'[j].status \in Terminal
      BY <1>4, <1>5, <3>2 DEF Terminal
    <3>3. QED
      BY <1>1, <1>5, <1>8, <3>1, <3>2
  <2>2. /\ stageNow' = [stageNow EXCEPT ![j] = s] /\ stageNow[j] = StageOf(j)
        /\ \E r \in {recordNow[j], s} : recordNow' = [recordNow EXCEPT ![j] = r]
    <3>1. /\ stageNow' = [stageNow EXCEPT ![j] = StageOf(j)']
          /\ recordNow' = [recordNow EXCEPT ![j] = RecordOf(j)']
          /\ stageNow[j] = StageOf(j) /\ recordNow[j] = RecordOf(j)
      BY <1>1, <1>3, OneMoves
    <3>2. QED
      BY <1>6, <2>1, <3>1
  <2>3. Lifecycle!Advance(j, s) /\ s \in Lifecycle!Status
    BY <2>1, <2>2 DEF Lifecycle!Advance, stageNow, recordNow, Terminal,
       Lifecycle!Terminal, Lifecycle!Status
  <2>4. QED
    BY <1>1, <2>3 DEF Lifecycle!LifecycleNext
<1>9. QED
  BY <1>7, <1>8

LEMMA PublishStartKeeps ==
    ASSUME IInv, IInv', NEW w \in Workers, PublishStart(w)
    PROVE  [Lifecycle!LifecycleNext]_Lifecycle!lifecycleVars
<1>1. /\ pc[w] = "start" /\ todo[w] = <<>> /\ pc'[w] # "idle"
      /\ jobs' = jobs \cup {held[w]}
      /\ UNCHANGED <<pending, object, created, held>>
  BY DEF PublishStart, Update, IInv, TypeOK
<1>2. PICK j \in Jobs : held[w] = j /\ object[j].status = "running"
  BY <1>1, HandFacts
<1>3. ASSUME NEW k \in Jobs, k # j
      PROVE  StageOf(k)' = StageOf(k) /\ RecordOf(k)' = RecordOf(k)
  <2>1. IsPending(k)' <=> IsPending(k)
    BY <1>1, SamePending
  <2>2. QED
    BY <1>1, <1>2, <1>3, <2>1, JobsUntouched
<1>4. StageOf(j) = "running" /\ StageOf(j)' = "running" /\ RecordOf(j)' = "running"
  BY <1>1, <1>2, InHand, InHandNext DEF RecordOf
<1>5. Lifecycle!PublishStart(j)
  <2>1. /\ stageNow' = [stageNow EXCEPT ![j] = stageNow[j]] /\ stageNow[j] = "running"
        /\ recordNow' = [recordNow EXCEPT ![j] = "running"]
    BY <1>3, <1>4, OneMoves
  <2>2. QED
    BY <2>1 DEF Lifecycle!PublishStart, stageNow, recordNow
<1>6. QED
  BY <1>5 DEF Lifecycle!LifecycleNext

LEMMA FinishKeeps ==
    ASSUME IInv, IInv', NEW w \in Workers, Finish(w)
    PROVE  [Lifecycle!LifecycleNext]_Lifecycle!lifecycleVars
<1>1. /\ pc[w] = "end" /\ todo[w] = <<>> /\ jobs' = jobs \cup {held[w]}
      /\ held' = [held EXCEPT ![w] = NoJob]
      /\ UNCHANGED <<pending, object, created>>
  BY DEF Finish, Update
<1>2. PICK j \in Jobs :
        /\ held[w] = j /\ object[j].status \in Terminal /\ j \in Submitted
        /\ ~IsPending(j) /\ \A v \in Workers : v # w => held[v] # j
  BY <1>1, HandFacts
<1>3. ASSUME NEW k \in Jobs, k # j
      PROVE  StageOf(k)' = StageOf(k) /\ RecordOf(k)' = RecordOf(k)
  <2>1. IsPending(k)' <=> IsPending(k)
    BY <1>1, SamePending
  <2>2. QED
    BY <1>1, <1>2, <1>3, <2>1, JobsUntouched
<1>4. StageOf(j) = object[j].status
  BY <1>1, <1>2, InHand DEF Terminal
<1>5. RecordOf(j)' = object[j].status
  BY <1>1, <1>2 DEF RecordOf
<1>6. StageOf(j)' = "over"
  <2>1. ~IsPending(j)' /\ created'[j] # 0
    BY <1>1, <1>2, SamePending DEF Submitted
  <2>2. \A v \in Workers : held'[v] # j
    BY <1>1, <1>2 DEF IInv, TypeOK
  <2>3. QED
    BY <2>1, <2>2 DEF StageOf
<1>7. Lifecycle!Settle(j)
  <2>1. /\ stageNow' = [stageNow EXCEPT ![j] = "over"] /\ stageNow[j] \in Terminal
        /\ recordNow' = [recordNow EXCEPT ![j] = stageNow[j]]
    BY <1>2, <1>3, <1>4, <1>5, <1>6, OneMoves
  <2>2. QED
    BY <2>1 DEF Lifecycle!Settle, stageNow, recordNow, Terminal, Lifecycle!Terminal
<1>8. QED
  BY <1>7 DEF Lifecycle!LifecycleNext

LEMMA LifecycleStarts == Init => Lifecycle!LifecycleInit
<1> SUFFICES ASSUME Init
             PROVE  Lifecycle!LifecycleInit
  OBVIOUS
<1>1. ASSUME NEW j \in Jobs
      PROVE  StageOf(j) = "new" /\ RecordOf(j) = "none"
  BY DEF Init, QueueInit, StageOf, RecordOf
<1>2. QED
  BY <1>1 DEF Lifecycle!LifecycleInit

\* Steps that touch neither the queue nor who holds what.
LEMMA NothingMoves ==
    ASSUME UNCHANGED <<jobs, pending, object, created, held>>
    PROVE  UNCHANGED Lifecycle!lifecycleVars
<1>1. ASSUME NEW k \in Jobs
      PROVE  StageOf(k)' = StageOf(k) /\ RecordOf(k)' = RecordOf(k)
  <2>1. IsPending(k)' <=> IsPending(k)
    BY SamePending
  <2>2. QED
    BY <2>1, JobStays
<1>2. QED
  BY <1>1, Stutter

LEMMA LifecycleSteps ==
    IInv /\ IInv' /\ [Next]_vars => [Lifecycle!LifecycleNext]_Lifecycle!lifecycleVars
<1> SUFFICES ASSUME IInv, IInv', [Next]_vars
             PROVE  [Lifecycle!LifecycleNext]_Lifecycle!lifecycleVars
  OBVIOUS
<1>1. CASE UNCHANGED vars
  BY <1>1, NothingMoves DEF vars, queueVars, workerVars
<1>2. ASSUME NEW j \in Jobs, Submit(j) \/ DeleteJob(j) \/ GetJob(j)
      PROVE  [Lifecycle!LifecycleNext]_Lifecycle!lifecycleVars
  <2>1. CASE Submit(j)
    BY <2>1, SubmitKeeps
  <2>2. CASE DeleteJob(j)
    BY <2>2, RemovalKeeps DEF DeleteJob, Delete, workerVars
  <2>3. CASE GetJob(j)
    BY <2>3, NothingMoves DEF GetJob, queueVars, workerVars
  <2>4. QED
    BY <1>2, <2>1, <2>2, <2>3
<1>3. CASE ReadField \/ Respond \/ TimePasses
  BY <1>3, NothingMoves DEF ReadField, Respond, TimePasses, Age, queueVars, workerVars
<1>4. CASE Close
  BY <1>4, RemovalKeeps DEF Close, Clear, workerVars
<1>5. ASSUME NEW w \in Workers, Loop(w)
      PROVE  [Lifecycle!LifecycleNext]_Lifecycle!lifecycleVars
  <2>1. CASE Succeed(w) \/ Fail(w)
    BY <2>1, NothingMoves DEF Succeed, Fail, queueVars
  <2>2. QED
    BY <1>5, <2>1, TakeKeeps, TakeNothingKeeps, AssignKeeps, PublishStartKeeps,
       FinishKeeps DEF Loop
<1>6. QED
  BY <1>1, <1>2, <1>3, <1>4, <1>5 DEF Next

\* The in-memory backend implements the lifecycle, for any jobs and workers and
\* any cap: whatever is pruned, deleted or put back, a client that polls sees
\* what the protocol promises.
THEOREM MemoryKeepsPromise == Spec => KeepsPromise
BY LifecycleStarts, LifecycleSteps, IInvAlways, PTL
   DEF Spec, KeepsPromise, Lifecycle!LifecycleSpec

-----------------------------------------------------------------------------
(* What the promise gives this backend's clients                          *)

\* Where a step of the lifecycle may take a job and its record.
Moves(j) ==
    LET was == StageOf(j)  is == StageOf(j)'  old == RecordOf(j)  now == RecordOf(j)'
    IN  \/ is = was /\ now = old
        \/ now = "none" /\ (is = was \/ (was = "queued" /\ is = "over"))
        \/ was = "new" /\ is = "queued" /\ now = "queued"
        \/ was = "queued" /\ is = "taken" /\ now = old
        \/ was = "taken" /\ is = "running" /\ now \in {old, is}
        \/ was = "running" /\ is \in Terminal /\ now \in {old, is}
        \/ was = "running" /\ is = was /\ now = was
        \/ was \in {"running"} \cup Terminal /\ is = "over" /\ now = was
        \/ was \in {"taken"} \cup Status /\ is = "over" /\ now = old

LEMMA StepMoves ==
    ASSUME [Lifecycle!LifecycleNext]_Lifecycle!lifecycleVars
    PROVE  \A j \in Jobs : Moves(j)
<1> DEFINE st == [k \in Jobs |-> StageOf(k)]
           rc == [k \in Jobs |-> RecordOf(k)]
           st2 == [k \in Jobs |-> StageOf(k)']
           rc2 == [k \in Jobs |-> RecordOf(k)']
<1>1. /\ st = [k \in Jobs |-> st[k]] /\ rc = [k \in Jobs |-> rc[k]]
      /\ \A k \in Jobs : /\ st[k] = StageOf(k) /\ rc[k] = RecordOf(k)
                        /\ st2[k] = StageOf(k)' /\ rc2[k] = RecordOf(k)'
  OBVIOUS
<1> SUFFICES ASSUME NEW j \in Jobs
             PROVE  Moves(j)
  OBVIOUS
<1>2. CASE UNCHANGED Lifecycle!lifecycleVars
  <2>1. st2 = st /\ rc2 = rc
    BY <1>2 DEF Lifecycle!lifecycleVars
  <2> HIDE DEF st, rc, st2, rc2
  <2>2. QED
    BY <1>1, <2>1 DEF Moves
<1>3. ASSUME NEW gone \in SUBSET Jobs, Lifecycle!Remove(gone)
      PROVE  Moves(j)
  BY <1>3 DEF Lifecycle!Remove, Lifecycle!Without, Moves
<1>4. ASSUME NEW k \in Jobs, NEW gone \in SUBSET Jobs, Lifecycle!Accept(k, gone)
      PROVE  Moves(j)
  BY <1>4 DEF Lifecycle!Accept, Moves
<1>5. ASSUME NEW k \in Jobs, NEW s \in Lifecycle!Status, Lifecycle!Advance(k, s)
      PROVE  Moves(j)
  <2>1. /\ st2 = [st EXCEPT ![k] = s]
        /\ \E r \in {rc[k], s} : rc2 = [rc EXCEPT ![k] = r]
        /\ \/ st[k] = "taken" /\ s = "running"
           \/ st[k] = "running" /\ s \in Terminal
    BY <1>5 DEF Lifecycle!Advance, Terminal, Lifecycle!Terminal
  <2> HIDE DEF st, rc, st2, rc2
  <2>2. QED
    BY <1>1, <2>1 DEF Moves
<1>6. ASSUME NEW k \in Jobs, Lifecycle!Take(k)
      PROVE  Moves(j)
  <2>1. st[k] = "queued" /\ st2 = [st EXCEPT ![k] = "taken"] /\ rc2 = rc
    BY <1>6 DEF Lifecycle!Take
  <2> HIDE DEF st, rc, st2, rc2
  <2>2. QED
    BY <1>1, <2>1 DEF Moves
<1>7. ASSUME NEW k \in Jobs, Lifecycle!PublishStart(k)
      PROVE  Moves(j)
  <2>1. st[k] = "running" /\ rc2 = [rc EXCEPT ![k] = "running"] /\ st2 = st
    BY <1>7 DEF Lifecycle!PublishStart
  <2> HIDE DEF st, rc, st2, rc2
  <2>2. QED
    BY <1>1, <2>1 DEF Moves
<1>8. ASSUME NEW k \in Jobs, Lifecycle!Settle(k)
      PROVE  Moves(j)
  <2>1. /\ st[k] \in {"running"} \cup Terminal
        /\ rc2 = [rc EXCEPT ![k] = st[k]] /\ st2 = [st EXCEPT ![k] = "over"]
    BY <1>8 DEF Lifecycle!Settle, Terminal, Lifecycle!Terminal
  <2> HIDE DEF st, rc, st2, rc2
  <2>2. QED
    BY <1>1, <2>1 DEF Moves
<1>9. ASSUME NEW k \in Jobs, Lifecycle!Lose(k)
      PROVE  Moves(j)
  <2>1. st[k] \in {"taken"} \cup Status /\ st2 = [st EXCEPT ![k] = "over"] /\ rc2 = rc
    BY <1>9 DEF Lifecycle!Lose, Status, Lifecycle!Status, Terminal, Lifecycle!Terminal
  <2> HIDE DEF st, rc, st2, rc2
  <2>2. QED
    BY <1>1, <2>1 DEF Moves
<1>10. QED
  BY <1>2, <1>3, <1>4, <1>5, <1>6, <1>7, <1>8, <1>9 DEF Lifecycle!LifecycleNext

\* The jobs are where the lifecycle says they can be, and polls lag behind them.
Promised ==
    \A j \in Jobs :
        /\ StageOf(j) \in Lifecycle!Stages /\ RecordOf(j) \in Lifecycle!Records
        /\ StageOf(j) # "over" =>
             /\ Lifecycle!Rank(RecordOf(j)) <= Lifecycle!Rank(StageOf(j))
             /\ RecordOf(j) \in Terminal => RecordOf(j) = StageOf(j)

LEMMA PromisedAlways == Spec => []Promised
<1> USE DEF Lifecycle!Stages, Lifecycle!Records, Lifecycle!Status, Lifecycle!Terminal,
            Status, Terminal, Lifecycle!Rank
<1>1. Lifecycle!LifecycleInit => Promised
  <2> SUFFICES ASSUME Lifecycle!LifecycleInit, NEW j \in Jobs
               PROVE  StageOf(j) = "new" /\ RecordOf(j) = "none"
    BY DEF Promised
  <2>1. QED
    BY DEF Lifecycle!LifecycleInit
<1>2. Promised /\ [Lifecycle!LifecycleNext]_Lifecycle!lifecycleVars => Promised'
  <2> SUFFICES ASSUME Promised, \A j \in Jobs : Moves(j), NEW j \in Jobs
               PROVE  /\ StageOf(j)' \in Lifecycle!Stages /\ RecordOf(j)' \in Lifecycle!Records
                      /\ StageOf(j)' # "over" =>
                           /\ Lifecycle!Rank(RecordOf(j)') <= Lifecycle!Rank(StageOf(j)')
                           /\ RecordOf(j)' \in Terminal => RecordOf(j)' = StageOf(j)'
    BY StepMoves DEF Promised
  <2>1. QED
    BY DEF Promised, Moves
<1>3. QED
  BY <1>1, <1>2, MemoryKeepsPromise, PTL DEF KeepsPromise, Lifecycle!LifecycleSpec

\* Though a response reads the object that a worker is assigning, a poll is never
\* ahead of the worker, and an outcome it tells is the job's.
THEOREM MemoryPollsLagBehind == Spec => []Lifecycle!RecordBehindStage
<1>1. Promised => Lifecycle!RecordBehindStage
  BY DEF Promised, Lifecycle!RecordBehindStage, Lifecycle!Terminal, Terminal
<1>2. QED
  BY <1>1, PromisedAlways, PTL

\* Nobody who polls this backend sees a job go backwards or change its outcome,
\* although an update may put a record back that was pruned or deleted.
THEOREM MemoryPollsNeverRegress == Spec => Lifecycle!RecordNeverRegresses
<1> DEFINE rc == [j \in Jobs |-> RecordOf(j)]
<1>1. Promised /\ [Lifecycle!LifecycleNext]_Lifecycle!lifecycleVars
        => [\A j \in Jobs : \/ rc'[j] = rc[j]
                            \/ rc'[j] = "none"
                            \/ Lifecycle!Rank(rc[j]) < Lifecycle!Rank(rc'[j])]_Lifecycle!lifecycleVars
  <2> SUFFICES ASSUME Promised, \A j \in Jobs : Moves(j), NEW j \in Jobs
               PROVE  \/ RecordOf(j)' = RecordOf(j)
                      \/ RecordOf(j)' = "none"
                      \/ Lifecycle!Rank(RecordOf(j)) < Lifecycle!Rank(RecordOf(j)')
    BY StepMoves
  <2>1. QED
    BY DEF Promised, Moves, Lifecycle!Rank, Lifecycle!Stages, Lifecycle!Records,
           Lifecycle!Status, Lifecycle!Terminal, Status, Terminal
<1>2. QED
  BY <1>1, PromisedAlways, MemoryKeepsPromise, PTL
     DEF KeepsPromise, Lifecycle!LifecycleSpec, Lifecycle!RecordNeverRegresses

\* Once no worker has or will get a job, its record can only go: no later update
\* of a worker brings it back.
THEOREM MemoryOverStaysOver == Spec => Lifecycle!OverIsFinal
<1> DEFINE st == [j \in Jobs |-> StageOf(j)]
           rc == [j \in Jobs |-> RecordOf(j)]
<1>1. [Lifecycle!LifecycleNext]_Lifecycle!lifecycleVars
        => [\A j \in Jobs : st[j] = "over" =>
              st'[j] = "over" /\ rc'[j] \in {rc[j], "none"}]_Lifecycle!lifecycleVars
  <2> SUFFICES ASSUME \A j \in Jobs : Moves(j), NEW j \in Jobs, StageOf(j) = "over"
               PROVE  StageOf(j)' = "over" /\ RecordOf(j)' \in {RecordOf(j), "none"}
    BY StepMoves
  <2>1. QED
    BY DEF Moves, Status, Terminal
<1>2. QED
  BY <1>1, MemoryKeepsPromise, PTL DEF KeepsPromise, Lifecycle!LifecycleSpec, Lifecycle!OverIsFinal

=============================================================================

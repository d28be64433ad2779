--------------------------- MODULE RedisPipeline ---------------------------
(***************************************************************************)
(* The batch pipeline over Redis: an API process that submits and deletes  *)
(* jobs, and worker processes that run the loop of workers/batch_worker.py *)
(* around BatchPipeline.run_job.  A worker may die at any await, may have  *)
(* Redis fail under it (nothing catches that, so the process exits), or    *)
(* may be interrupted while the engine runs in its thread.                 *)
(*                                                                         *)
(* pc[w] is where worker w stands in dequeue / run_job:                    *)
(*   "idle"   waiting in BLPOP          "exec"  engine running in a thread *)
(*   "fetch"  id popped, GET to come    "saved" WAV artifact written       *)
(*   "ready"  has the job, not begun    "final" last update to come        *)
(*   "drain"  interrupted, waiting for its thread    "down" process exited *)
(***************************************************************************)
EXTENDS RedisJobQueue, FiniteSets

CONSTANTS Workers,      \* worker processes sharing the Redis list
          SynthJobs,    \* the jobs of type synthesize; the others transcribe
          NoJob,
          MaxFailures   \* bound: deaths and interrupts of workers

ASSUME NoRecordAssumption == NoRecord \notin JobRecord
ASSUME NoJobAssumption == NoJob \notin Jobs
ASSUME FailuresAssumption == MaxFailures \in Nat
ASSUME SynthAssumption == SynthJobs \subseteq Jobs

VARIABLES
    submitted,   \* ids that new_job_id has handed out
    pc, held,    \* held[w]: the id worker w popped
    copy,        \* copy[w]: the worker's own Job object
    stopping,    \* workers whose main task has been cancelled
    artifacts,   \* jobs whose data/results/<id>.wav exists
    failures,
    removal      \* history: how the client or time last removed the record

workerVars == <<pc, held, copy, stopping>>
vars == <<store, list, submitted, pc, held, copy, stopping, artifacts,
          failures, removal>>

Pcs == {"idle", "fetch", "ready", "exec", "saved", "final", "drain", "down"}
Removals == {"none", "cancelled", "deleted", "expired"}

TypeOK ==
    /\ RedisTypeOK
    /\ submitted \subseteq Jobs
    /\ pc \in [Workers -> Pcs]
    /\ held \in [Workers -> Jobs \cup {NoJob}]
    /\ copy \in [Workers -> JobRecord \cup {NoRecord}]
    /\ stopping \subseteq Workers
    /\ artifacts \subseteq Jobs
    /\ failures \in 0..MaxFailures
    /\ removal \in [Jobs -> Removals]

Init ==
    /\ RedisInit
    /\ submitted = {}
    /\ pc = [w \in Workers |-> "idle"]
    /\ held = [w \in Workers |-> NoJob]
    /\ copy = [w \in Workers |-> NoRecord]
    /\ stopping = {}
    /\ artifacts = {}
    /\ failures = 0
    /\ removal = [j \in Jobs |-> "none"]

-----------------------------------------------------------------------------
(* The API process *)

\* The id is on its way to a worker, but no worker has read the record yet.
Waiting(j) == InList(j) \/ \E w \in Workers : held[w] = j /\ pc[w] = "fetch"

Submit(j) ==
    /\ j \notin submitted
    /\ submitted' = submitted \cup {j}
    /\ Enqueue(j, NewJob)
    /\ UNCHANGED <<workerVars, artifacts, failures, removal>>

DeleteJob(j) ==
    /\ Delete(j)
    /\ removal' = [removal EXCEPT
                     ![j] = IF Waiting(j) THEN "cancelled" ELSE "deleted"]
    /\ UNCHANGED <<submitted, workerVars, artifacts, failures>>

ExpireJob(j) ==
    /\ Expire(j)
    /\ removal' = [removal EXCEPT ![j] = "expired"]
    /\ UNCHANGED <<submitted, workerVars, artifacts, failures>>

-----------------------------------------------------------------------------
(* A worker process *)

LetGo(w) ==
    /\ held' = [held EXCEPT ![w] = NoJob]
    /\ copy' = [copy EXCEPT ![w] = NoRecord]

Pop(w) ==
    /\ pc[w] = "idle"
    /\ \E j \in Jobs : Blpop(j) /\ held' = [held EXCEPT ![w] = j]
    /\ pc' = [pc EXCEPT ![w] = "fetch"]
    /\ UNCHANGED <<submitted, copy, stopping, artifacts, failures, removal>>

\* Mutant: a missing record is made anew from the id.
FetchAnyway(w) ==
    /\ pc[w] = "fetch"
    /\ pc' = [pc EXCEPT ![w] = "ready"]
    /\ copy' = [copy EXCEPT ![w] = IF store[held[w]] = NoRecord THEN NewJob
                                   ELSE store[held[w]]]
    /\ UNCHANGED <<store, list, submitted, held, stopping, artifacts, failures,
                   removal>>

\* Mutant: dequeue waits for a missing record to appear.
FetchWaits(w) ==
    /\ pc[w] = "fetch"
    /\ store[held[w]] # NoRecord
    /\ pc' = [pc EXCEPT ![w] = "ready"]
    /\ copy' = [copy EXCEPT ![w] = store[held[w]]]
    /\ UNCHANGED <<store, list, submitted, held, stopping, artifacts, failures,
                   removal>>

\* GET.  The record of a job removed meanwhile is gone, dequeue returns None
\* and the loop goes round.
Fetch(w) ==
    /\ pc[w] = "fetch"
    /\ IF store[held[w]] = NoRecord
       THEN pc' = [pc EXCEPT ![w] = "idle"] /\ LetGo(w)
       ELSE /\ pc' = [pc EXCEPT ![w] = "ready"]
            /\ copy' = [copy EXCEPT ![w] = store[held[w]]]
            /\ UNCHANGED held
    /\ UNCHANGED <<store, list, submitted, stopping, artifacts, failures, removal>>

\* Mutant: the update comes before mark_started.
BeginStale(w) ==
    /\ pc[w] = "ready"
    /\ copy' = [copy EXCEPT ![w] = MarkStarted(@)]
    /\ Update(held[w], copy[w])
    /\ pc' = [pc EXCEPT ![w] = "exec"]
    /\ UNCHANGED <<submitted, held, stopping, artifacts, failures, removal>>

Begin(w) ==
    /\ pc[w] = "ready"
    /\ copy' = [copy EXCEPT ![w] = MarkStarted(@)]
    /\ Update(held[w], copy'[w])
    /\ pc' = [pc EXCEPT ![w] = "exec"]
    /\ UNCHANGED <<submitted, held, stopping, artifacts, failures, removal>>

\* _execute_synthesize writes the WAV before it returns its result.
SaveArtifact(w) ==
    /\ pc[w] = "exec"
    /\ held[w] \in SynthJobs
    /\ artifacts' = artifacts \cup {held[w]}
    /\ pc' = [pc EXCEPT ![w] = "saved"]
    /\ UNCHANGED <<store, list, submitted, held, copy, stopping, failures, removal>>

\* Mutant: success is recorded before the WAV is written.
SucceedUnsaved(w) ==
    /\ pc[w] \in {"exec", "saved"}
    /\ copy' = [copy EXCEPT ![w] = MarkSucceeded(@)]
    /\ pc' = [pc EXCEPT ![w] = "final"]
    /\ UNCHANGED <<store, list, submitted, held, stopping, artifacts, failures, removal>>

Succeed(w) ==
    /\ pc[w] = IF held[w] \in SynthJobs THEN "saved" ELSE "exec"
    /\ copy' = [copy EXCEPT ![w] = MarkSucceeded(@)]
    /\ pc' = [pc EXCEPT ![w] = "final"]
    /\ UNCHANGED <<store, list, submitted, held, stopping, artifacts, failures, removal>>

Fail(w) ==
    /\ pc[w] = "exec"
    /\ copy' = [copy EXCEPT ![w] = MarkFailed(@)]
    /\ pc' = [pc EXCEPT ![w] = "final"]
    /\ UNCHANGED <<store, list, submitted, held, stopping, artifacts, failures, removal>>

\* The main task is cancelled (Ctrl-C) while it awaits the thread.  No except
\* clause of run_job catches CancelledError, but its finally clause runs.
Interrupt(w) ==
    /\ pc[w] \in {"exec", "saved"}
    /\ failures < MaxFailures
    /\ failures' = failures + 1
    /\ stopping' = stopping \cup {w}
    /\ pc' = [pc EXCEPT ![w] = "final"]
    /\ UNCHANGED <<store, list, submitted, held, copy, artifacts, removal>>

\* Mutant: no update in the finally clause.
FinishUnsaved(w) ==
    /\ pc[w] = "final"
    /\ copy' = [copy EXCEPT ![w] = NoRecord]
    /\ IF w \in stopping
       THEN pc' = [pc EXCEPT ![w] = "drain"] /\ UNCHANGED held
       ELSE /\ pc' = [pc EXCEPT ![w] = "idle"]
            /\ held' = [held EXCEPT ![w] = NoJob]
    /\ UNCHANGED <<store, list, submitted, stopping, artifacts, failures, removal>>

\* The update in the finally clause, with the job as it then stands.  The
\* gauge and the counter that follow it are the worker's own.
Finish(w) ==
    /\ pc[w] = "final"
    /\ Update(held[w], copy[w])
    /\ copy' = [copy EXCEPT ![w] = NoRecord]
    /\ IF w \in stopping
       THEN pc' = [pc EXCEPT ![w] = "drain"] /\ UNCHANGED held
       ELSE /\ pc' = [pc EXCEPT ![w] = "idle"]
            /\ held' = [held EXCEPT ![w] = NoJob]
    /\ UNCHANGED <<submitted, stopping, artifacts, failures, removal>>

\* Mutant: an interrupted job goes back to the list.
DrainRequeues(w) ==
    /\ pc[w] = "drain"
    /\ pc' = [pc EXCEPT ![w] = "down"]
    /\ LetGo(w)
    /\ stopping' = stopping \ {w}
    /\ list' = Append(list, held[w])
    /\ UNCHANGED <<store, submitted, artifacts, failures, removal>>

\* asyncio.run joins the executor before it returns: the thread of an
\* interrupted job runs to its end, and may write the artifact.
Drain(w) ==
    /\ pc[w] = "drain"
    /\ pc' = [pc EXCEPT ![w] = "down"]
    /\ LetGo(w)
    /\ stopping' = stopping \ {w}
    /\ \/ UNCHANGED artifacts
       \/ held[w] \in SynthJobs /\ artifacts' = artifacts \cup {held[w]}
    /\ UNCHANGED <<store, list, submitted, failures, removal>>

\* The process is killed, or a Redis command raises.
Die(w) ==
    /\ pc[w] # "down"
    /\ failures < MaxFailures
    /\ failures' = failures + 1
    /\ pc' = [pc EXCEPT ![w] = "down"]
    /\ LetGo(w)
    /\ stopping' = stopping \ {w}
    /\ UNCHANGED <<store, list, submitted, artifacts, removal>>

\* docker-compose's "restart: unless-stopped".
Restart(w) ==
    /\ pc[w] = "down"
    /\ pc' = [pc EXCEPT ![w] = "idle"]
    /\ UNCHANGED <<store, list, submitted, held, copy, stopping, artifacts,
                   failures, removal>>

-----------------------------------------------------------------------------
Loop(w) ==
    \/ Pop(w) \/ Fetch(w) \/ Begin(w) \/ SaveArtifact(w) \/ Succeed(w)
    \/ Fail(w) \/ Finish(w) \/ Drain(w)

Next ==
    \/ \E j \in Jobs : Submit(j) \/ DeleteJob(j) \/ ExpireJob(j)
    \/ \E w \in Workers : Loop(w) \/ Interrupt(w) \/ Die(w) \/ Restart(w)

Spec == Init /\ [][Next]_vars

\* A worker's loop goes on by itself, an engine call returns, and Docker
\* restarts a worker that exited.  Nothing is assumed of clients or of time.
Fairness == \A w \in Workers : WF_vars(Loop(w)) /\ WF_vars(Restart(w))

FairSpec == Spec /\ Fairness

-----------------------------------------------------------------------------
(* Safety *)

Holds(w, j) == held[w] = j /\ pc[w] # "drain"

\* Each job is in one place: it is in the list once, or one worker holds it,
\* or neither.
OneHolder ==
    /\ \A i, k \in 1..Len(list) : list[i] = list[k] => i = k
    /\ \A v, w \in Workers : v # w /\ held[v] # NoJob => held[v] # held[w]
    /\ \A w \in Workers : ~InList(held[w])

\* N replicas never run a job twice: BLPOP hands an id to one of them, nothing
\* puts it back, and what a worker begins is the record as it was submitted.
RunOnce ==
    /\ OneHolder
    /\ \A w \in Workers : pc[w] = "ready" => copy[w] = NewJob

\* DELETE on a job that no worker has read yet cancels it for good: it never
\* runs, and its record does not come back.
CancelledNeverRuns ==
    \A j \in Jobs : removal[j] = "cancelled" =>
        /\ store[j] = NoRecord
        /\ \A w \in Workers : held[w] = j => pc[w] = "fetch"

\* A synthesis job on record as succeeded has its WAV on disk, wherever the
\* worker was killed: GET /v1/jobs/{id}/audio finds it.
SucceededHasArtifact ==
    \A j \in SynthJobs :
        store[j] # NoRecord /\ store[j].status = "succeeded" => j \in artifacts

\* Jobs whose record will say "queued" or "running" for ever: nobody holds
\* them and no outcome is on record.
Stranded ==
    {j \in submitted : /\ store[j] # NoRecord
                       /\ store[j].status \notin Terminal
                       /\ ~InList(j)
                       /\ \A w \in Workers : ~Holds(w, j)}

\* A failure strands at most the one job its worker held.
FailureStrandsOneJob == Cardinality(Stranded) <= failures

\* Every record a poll returns is whole: its result, error and timestamps are
\* those of its status.
RecordsCoherent == \A j \in Jobs : store[j] # NoRecord => Coherent(store[j])

-----------------------------------------------------------------------------
(* Liveness *)

\* Every job accepted with 202 leaves the list and is let go of by its worker
\* in the end, whichever workers die on the way.
EveryJobSettles ==
    \A j \in Jobs :
        j \in submitted ~> (~InList(j) /\ \A w \in Workers : held[w] # j)

\* While no worker fails, every accepted job gets an outcome on record, unless
\* somebody removed it.
EveryJobAnswered ==
    \A j \in Jobs :
        j \in submitted ~> \/ failures > 0
                           \/ removal[j] # "none"
                           \/ store[j] # NoRecord /\ store[j].status \in Terminal

-----------------------------------------------------------------------------
(* The promise of the queue protocol *)

HolderOf(j) == CHOOSE w \in Workers : Holds(w, j)

StageOf(j) ==
    IF j \notin submitted THEN "new"
    ELSE IF Waiting(j)
    THEN IF store[j] = NoRecord THEN "over" ELSE "queued"
    ELSE IF \E w \in Workers : Holds(w, j)
    THEN IF pc[HolderOf(j)] = "ready" THEN "taken" ELSE copy[HolderOf(j)].status
    ELSE "over"

RecordOf(j) == IF store[j] = NoRecord THEN "none" ELSE store[j].status

Lifecycle == INSTANCE JobLifecycle
                 WITH stage <- [j \in Jobs |-> StageOf(j)],
                      record <- [j \in Jobs |-> RecordOf(j)]

\* The Redis backend keeps the promise of the protocol, step by step.
KeepsPromise == Lifecycle!LifecycleSpec

\* What README.md:121 and END-TO-END-FLOW.md:667 say of DELETE: it removes the
\* job.  The worker's next update puts the record of a running job back.
DeletedStaysDeleted ==
    \A j \in Jobs : removal[j] \in {"cancelled", "deleted"} => store[j] = NoRecord
=============================================================================

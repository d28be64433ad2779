--------------------------- MODULE MemoryPipeline ---------------------------
(***************************************************************************)
(* The batch pipeline over the in-process queue: the API's event loop and  *)
(* worker threads in one process (tests/test_api.py:232 runs it that way). *)
(* They share the Job objects themselves, and the queue's lock covers only *)
(* the dictionary and the deque.  So mark_started, mark_succeeded and      *)
(* mark_failed are seen by _job_to_response one assignment at a time, and  *)
(* it reads one attribute at a time.                                       *)
(*                                                                         *)
(* pc[w]: "idle" in dequeue; "start" in mark_started and then the update;  *)
(* "exec" engine running; "end" in mark_succeeded or mark_failed and then  *)
(* the last update.                                                        *)
(***************************************************************************)
EXTENDS MemoryJobQueue

CONSTANTS Workers, NoJob

ASSUME NoJobAssumption == NoJob \notin Jobs
ASSUME WorkersAssumption == IsFiniteSet(Workers)

VARIABLES
    pc, held,
    goal,      \* goal[w]: the job as the mark_* call in progress leaves it
    todo,      \* todo[w]: the attributes that call has yet to assign
    reading,   \* the job the API is building a response for
    toRead,    \* the attributes it has yet to read
    response,  \* what it has read
    open       \* FALSE once the application has shut its queue

workerVars == <<pc, held, goal, todo>>
apiVars == <<reading, toRead, response>>
vars == <<queueVars, workerVars, apiVars, open>>

Pcs == {"idle", "start", "exec", "end"}
Fields == DOMAIN NewJob

StartWrites == <<"status", "started", "attempts">>
SuccessWrites == <<"status", "result", "finished">>
\* Mutant: mark_failed assigns the error before the status.
FailureWritesErrorFirst == <<"error", "status", "finished">>

FailureWrites == <<"status", "error", "finished">>
ReadOrder == <<"status", "started", "finished", "error", "result">>

TypeOK ==
    /\ QueueTypeOK
    /\ pc \in [Workers -> Pcs]
    /\ held \in [Workers -> Jobs \cup {NoJob}]
    /\ goal \in [Workers -> JobRecord]
    /\ todo \in [Workers -> Seq(Fields)]
    /\ reading \in Jobs \cup {NoJob}
    /\ toRead \in Seq(Fields)
    /\ response \in JobRecord
    /\ open \in BOOLEAN

Init ==
    /\ QueueInit
    /\ pc = [w \in Workers |-> "idle"]
    /\ held = [w \in Workers |-> NoJob]
    /\ goal = [w \in Workers |-> NewJob]
    /\ todo = [w \in Workers |-> <<>>]
    /\ reading = NoJob
    /\ toRead = <<>>
    /\ response = NewJob
    /\ open = TRUE

-----------------------------------------------------------------------------
(* The API: one event loop.  No handler awaits anything that suspends it   *)
(* between the queue call and the end of its response, so it serves one    *)
(* request at a time.                                                      *)

Serving == open /\ reading = NoJob

Submit(j) ==
    /\ Serving
    /\ created[j] = 0
    /\ Enqueue(j)
    /\ UNCHANGED <<workerVars, apiVars, open>>

DeleteJob(j) ==
    /\ Serving
    /\ Delete(j)
    /\ UNCHANGED <<workerVars, apiVars, open>>

\* get_job finds the live object; _job_to_response then reads it.
GetJob(j) ==
    /\ Serving
    /\ j \in jobs
    /\ reading' = j
    /\ toRead' = ReadOrder
    /\ response' = NewJob
    /\ UNCHANGED <<queueVars, workerVars, open>>

ReadField ==
    /\ reading # NoJob /\ toRead # <<>>
    /\ response' = [response EXCEPT ![Head(toRead)] = object[reading][Head(toRead)]]
    /\ toRead' = Tail(toRead)
    /\ UNCHANGED <<queueVars, workerVars, reading, open>>

Respond ==
    /\ reading # NoJob /\ toRead = <<>>
    /\ reading' = NoJob
    /\ response' = NewJob
    /\ UNCHANGED <<queueVars, workerVars, toRead, open>>

\* The application's lifespan ends: queue.close().  The threads go on until
\* the process exits.
Close ==
    /\ Serving
    /\ open' = FALSE
    /\ Clear
    /\ UNCHANGED <<workerVars, apiVars>>

TimePasses == Age /\ UNCHANGED <<workerVars, apiVars, open>>

-----------------------------------------------------------------------------
(* A worker thread *)

Marking(w, writes, job) ==
    /\ goal' = [goal EXCEPT ![w] = job]
    /\ todo' = [todo EXCEPT ![w] = writes]

Take(w) ==
    /\ pc[w] = "idle"
    /\ \E j \in Jobs :
         /\ Dequeue(j)
         /\ held' = [held EXCEPT ![w] = j]
         /\ Marking(w, StartWrites, MarkStarted(object[j]))
    /\ pc' = [pc EXCEPT ![w] = "start"]
    /\ UNCHANGED <<apiVars, open>>

TakeNothing(w) ==
    /\ pc[w] = "idle"
    /\ DequeueNothing
    /\ UNCHANGED <<workerVars, apiVars, open>>

Assign(w) ==
    /\ todo[w] # <<>>
    /\ LET f == Head(todo[w])
       IN  object' = [object EXCEPT ![held[w]][f] = goal[w][f]]
    /\ todo' = [todo EXCEPT ![w] = Tail(@)]
    /\ UNCHANGED <<jobs, pending, created, horizon, pc, held, goal, apiVars, open>>

PublishStart(w) ==
    /\ pc[w] = "start" /\ todo[w] = <<>>
    /\ Update(held[w])
    /\ pc' = [pc EXCEPT ![w] = "exec"]
    /\ UNCHANGED <<held, goal, todo, apiVars, open>>

Succeed(w) ==
    /\ pc[w] = "exec"
    /\ Marking(w, SuccessWrites, MarkSucceeded(object[held[w]]))
    /\ pc' = [pc EXCEPT ![w] = "end"]
    /\ UNCHANGED <<queueVars, held, apiVars, open>>

Fail(w) ==
    /\ pc[w] = "exec"
    /\ Marking(w, FailureWrites, MarkFailed(object[held[w]]))
    /\ pc' = [pc EXCEPT ![w] = "end"]
    /\ UNCHANGED <<queueVars, held, apiVars, open>>

Finish(w) ==
    /\ pc[w] = "end" /\ todo[w] = <<>>
    /\ Update(held[w])
    /\ pc' = [pc EXCEPT ![w] = "idle"]
    /\ held' = [held EXCEPT ![w] = NoJob]
    /\ goal' = [goal EXCEPT ![w] = NewJob]
    /\ UNCHANGED <<todo, apiVars, open>>

-----------------------------------------------------------------------------
Loop(w) ==
    \/ Take(w) \/ TakeNothing(w) \/ Assign(w) \/ PublishStart(w)
    \/ Succeed(w) \/ Fail(w) \/ Finish(w)

Next ==
    \/ \E j \in Jobs : Submit(j) \/ DeleteJob(j) \/ GetJob(j)
    \/ ReadField \/ Respond \/ Close \/ TimePasses
    \/ \E w \in Workers : Loop(w)

Spec == Init /\ [][Next]_vars

\* A worker thread keeps running and an engine call returns.
FairSpec == Spec /\ \A w \in Workers : WF_vars(Loop(w))

-----------------------------------------------------------------------------
\* The updates of running jobs that were pruned meanwhile can take the queue
\* over max_results, by one job for each worker and no more.
OvershootBounded == Cardinality(jobs) <= MaxResults + Cardinality(Workers)

\* A submission never evicts one of the newest max_results jobs, its own least
\* of all: what it prunes is over the TTL, or at least max_results jobs are
\* newer.  That holds although updates have put pruned jobs back meanwhile.
NewestKept ==
    [][created' # created =>
         \A j \in Jobs : (j \in jobs \/ created[j] # created'[j]) /\ j \notin jobs' =>
             \/ created'[j] <= horizon
             \/ Cardinality({k \in Jobs : created'[k] > created'[j]}) >= MaxResults]_vars

\* A response caught in the middle of a mark_* call may mix old and new
\* attributes, but never two outcomes: an outcome it reports, by status,
\* result or error, is the one the job has.
ResponseNeverMixesOutcomes ==
    reading # NoJob =>
        /\ ~(response.result /\ response.error)
        /\ response.status \in Terminal => object[reading].status = response.status
        /\ response.result => object[reading].status = "succeeded"
        /\ response.error => object[reading].status = "failed"

\* Every accepted job is taken from the deque and let go of in the end.
EveryJobSettles ==
    \A j \in Jobs :
        j \in Submitted ~> (~IsPending(j) /\ \A w \in Workers : held[w] # j)

-----------------------------------------------------------------------------
(* The promise of the queue protocol *)

StageOf(j) ==
    IF created[j] = 0 THEN "new"
    ELSE IF IsPending(j) THEN IF j \in jobs THEN "queued" ELSE "over"
    ELSE IF \E w \in Workers : held[w] = j
    THEN IF object[j].status = "queued" THEN "taken" ELSE object[j].status
    ELSE "over"

RecordOf(j) == IF j \in jobs THEN object[j].status ELSE "none"

Lifecycle == INSTANCE JobLifecycle
                 WITH stage <- [j \in Jobs |-> StageOf(j)],
                      record <- [j \in Jobs |-> RecordOf(j)]

\* The in-memory backend keeps the same promise as the Redis one.
KeepsPromise == Lifecycle!LifecycleSpec

=============================================================================

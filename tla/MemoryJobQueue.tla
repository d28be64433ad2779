--------------------------- MODULE MemoryJobQueue ---------------------------
(***************************************************************************)
(* MemoryJobQueue (pipeline/queue.py).  Every operation runs under one     *)
(* lock, so each is one atomic step.  jobs is the key set of _jobs and     *)
(* pending the deque; the values of _jobs are the live Job objects that    *)
(* the API and the workers share, kept here in object so that they outlive *)
(* their removal from _jobs, as they do for whoever holds a reference.     *)
(* created[j] is the place of j in the order of created_at (0: not yet);   *)
(* jobs created at or before horizon are older than the TTL.               *)
(***************************************************************************)
EXTENDS Job, Sequences, FiniteSets

CONSTANTS Jobs, MaxResults

ASSUME MaxResultsAssumption == MaxResults \in Nat \ {0}
\* An id is 16 hexadecimal digits.
ASSUME JobsAssumption == IsFiniteSet(Jobs)

VARIABLES jobs, pending, object, created, horizon

queueVars == <<jobs, pending, object, created, horizon>>

QueueTypeOK ==
    /\ jobs \subseteq Jobs
    /\ pending \in Seq(Jobs)
    /\ object \in [Jobs -> JobRecord]
    /\ created \in [Jobs -> 0..Cardinality(Jobs)]
    /\ horizon \in 0..Cardinality(Jobs)

QueueInit ==
    /\ jobs = {}
    /\ pending = <<>>
    /\ object = [j \in Jobs |-> NewJob]
    /\ created = [j \in Jobs |-> 0]
    /\ horizon = 0

IsPending(j) == \E i \in 1..Len(pending) : pending[i] = j

Submitted == {j \in Jobs : created[j] > 0}

\* Mutant: one job too many is kept.
PrunedOneShort(S) ==
    LET fresh == {j \in S : created'[j] > horizon}
    IN  {j \in fresh :
           Cardinality({k \in fresh : created'[k] > created'[j]}) <= MaxResults}

\* Mutant: the newest go first.
PrunedNewest(S) ==
    LET fresh == {j \in S : created'[j] > horizon}
    IN  {j \in fresh :
           Cardinality({k \in fresh : created'[k] < created'[j]}) < MaxResults}

\* _prune_locked: first what is over the TTL, whatever its status, then the
\* oldest beyond max_results.
Pruned(S) ==
    LET fresh == {j \in S : created'[j] > horizon}
    IN  {j \in fresh :
           Cardinality({k \in fresh : created'[k] > created'[j]}) < MaxResults}

Enqueue(j) ==
    /\ created' = [created EXCEPT ![j] = Cardinality(Submitted) + 1]
    /\ jobs' = Pruned(jobs \cup {j})
    /\ pending' = Append(pending, j)
    /\ UNCHANGED <<object, horizon>>

\* Mutant: an id is handed out although its job was removed.
DequeueRemoved(j) ==
    /\ pending # <<>>
    /\ j = Head(pending)
    /\ pending' = Tail(pending)
    /\ UNCHANGED <<jobs, object, created, horizon>>

\* popleft until an id is found that is still a key.  With no such id dequeue
\* has emptied the deque, and polls on.
Dequeue(j) ==
    \E n \in 1..Len(pending) :
        /\ \A i \in 1..(n - 1) : pending[i] \notin jobs
        /\ pending[n] = j /\ j \in jobs
        /\ pending' = SubSeq(pending, n + 1, Len(pending))
        /\ UNCHANGED <<jobs, object, created, horizon>>

\* Mutant: ids of removed jobs are put back.
DequeuePutsBack ==
    /\ pending # <<>>
    /\ \A i \in 1..Len(pending) : pending[i] \notin jobs
    /\ UNCHANGED queueVars

DequeueNothing ==
    /\ pending # <<>>
    /\ \A i \in 1..Len(pending) : pending[i] \notin jobs
    /\ pending' = <<>>
    /\ UNCHANGED <<jobs, object, created, horizon>>

\* Stores the object whether or not it is still a key; never prunes.
Update(j) ==
    /\ jobs' = jobs \cup {j}
    /\ UNCHANGED <<pending, object, created, horizon>>

\* The id stays in the deque.
Delete(j) ==
    /\ j \in jobs
    /\ jobs' = jobs \ {j}
    /\ UNCHANGED <<pending, object, created, horizon>>

Clear ==
    /\ jobs' = {}
    /\ UNCHANGED <<pending, object, created, horizon>>

\* time.time() passes created_at + ttl_seconds of the next oldest job.
Age ==
    /\ horizon < Cardinality(Submitted)
    /\ horizon' = horizon + 1
    /\ UNCHANGED <<jobs, pending, object, created>>
=============================================================================

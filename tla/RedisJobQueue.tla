--------------------------- MODULE RedisJobQueue ---------------------------
(***************************************************************************)
(* RedisJobQueue (pipeline/queue.py) as its Redis commands: store is the   *)
(* speech:job:{id} keys, list is the speech:queue list.  Each operator is  *)
(* one command, or one MULTI/EXEC transaction, so it is one atomic step;   *)
(* dequeue is two commands (Blpop, then Fetched), with room between them.  *)
(* Job.to_dict and from_dict carry every field modelled, so a key holds    *)
(* the job record as the writer had it.                                    *)
(***************************************************************************)
EXTENDS Job, Sequences

CONSTANTS Jobs, NoRecord

VARIABLES store, list

RedisTypeOK ==
    /\ store \in [Jobs -> JobRecord \cup {NoRecord}]
    /\ list \in Seq(Jobs)

RedisInit ==
    /\ store = [j \in Jobs |-> NoRecord]
    /\ list = <<>>

InList(j) == \E i \in 1..Len(list) : list[i] = j

Enqueue(j, job) ==
    /\ store' = [store EXCEPT ![j] = job]
    /\ list' = Append(list, j)

\* BLPOP: takes the id off the list.  The key stays as it is.
Blpop(j) ==
    /\ list # <<>>
    /\ j = Head(list)
    /\ list' = Tail(list)
    /\ UNCHANGED store

\* SET: creates the key anew if it was deleted or had expired.
Update(j, job) ==
    /\ store' = [store EXCEPT ![j] = job]
    /\ UNCHANGED list

\* DEL: the id stays in the list.  0 keys deleted is the 404 of the API.
Delete(j) ==
    /\ store[j] # NoRecord
    /\ store' = [store EXCEPT ![j] = NoRecord]
    /\ UNCHANGED list

\* The ex=ttl_seconds of the last SET runs out.
Expire(j) ==
    /\ store[j] # NoRecord
    /\ store' = [store EXCEPT ![j] = NoRecord]
    /\ UNCHANGED list
=============================================================================

---------------------------- MODULE JobLifecycle ----------------------------
(***************************************************************************)
(* What the JobQueue protocol promises of every batch job, whichever       *)
(* backend serves it.                                                      *)
(*                                                                         *)
(* stage[j] is how far the job itself has come; it is "over" once no       *)
(* worker will touch it again.  record[j] is what GET /v1/jobs/{j} finds:  *)
(* nothing, or a status the job has already had.  A removal (DELETE,       *)
(* expiry, pruning) takes the record away.  It also cancels a job that no  *)
(* worker has taken, but does not stop one that a worker has.              *)
(***************************************************************************)
EXTENDS Job

CONSTANT Jobs

VARIABLES stage, record

lifecycleVars == <<stage, record>>

Stages == {"new", "taken", "over"} \cup Status
Records == {"none"} \cup Status

LifecycleInit ==
    /\ stage = [j \in Jobs |-> "new"]
    /\ record = [j \in Jobs |-> "none"]

\* The jobs in gone lose their records; the ones still waiting are cancelled.
Without(gone) ==
    /\ stage' = [j \in Jobs |-> IF j \in gone /\ stage[j] = "queued"
                                THEN "over" ELSE stage[j]]
    /\ record' = [j \in Jobs |-> IF j \in gone THEN "none" ELSE record[j]]

Remove(gone) == Without(gone)

\* Accepting a job may prune older records in the same step.
Accept(j, gone) ==
    /\ stage[j] = "new"
    /\ stage' = [k \in Jobs |-> IF k = j THEN "queued"
                                ELSE IF k \in gone /\ stage[k] = "queued"
                                THEN "over" ELSE stage[k]]
    /\ record' = [k \in Jobs |-> IF k = j THEN "queued"
                                 ELSE IF k \in gone THEN "none" ELSE record[k]]

Take(j) ==
    /\ stage[j] = "queued"
    /\ stage' = [stage EXCEPT ![j] = "taken"]
    /\ UNCHANGED record

\* The worker that holds the job moves it on.  The change is visible at once
\* (the record is the worker's own object, or is written in the same step) or
\* when the worker next publishes it.
Advance(j, s) ==
    /\ \/ stage[j] = "taken" /\ s = "running"
       \/ stage[j] = "running" /\ s \in Terminal
    /\ stage' = [stage EXCEPT ![j] = s]
    /\ \E r \in {record[j], s} : record' = [record EXCEPT ![j] = r]

PublishStart(j) ==
    /\ stage[j] = "running"
    /\ record' = [record EXCEPT ![j] = "running"]
    /\ UNCHANGED stage

\* The worker's last word on the job.
Settle(j) ==
    /\ stage[j] \in {"running"} \cup Terminal
    /\ record' = [record EXCEPT ![j] = stage[j]]
    /\ stage' = [stage EXCEPT ![j] = "over"]

\* The worker that had the job, or was about to have it, died.
Lose(j) ==
    /\ stage[j] \in {"taken"} \cup Status
    /\ stage' = [stage EXCEPT ![j] = "over"]
    /\ UNCHANGED record

LifecycleNext ==
    \/ \E gone \in SUBSET Jobs : Remove(gone)
    \/ \E j \in Jobs, gone \in SUBSET Jobs : Accept(j, gone)
    \/ \E j \in Jobs, s \in Status : Advance(j, s)
    \/ \E j \in Jobs : Take(j) \/ PublishStart(j) \/ Settle(j) \/ Lose(j)

LifecycleSpec == LifecycleInit /\ [][LifecycleNext]_lifecycleVars

-----------------------------------------------------------------------------
LifecycleTypeOK ==
    /\ stage \in [Jobs -> Stages]
    /\ record \in [Jobs -> Records]

\* Position in new < queued < taken < running < an outcome.
Rank(s) ==
    CASE s \in {"none", "new"} -> 0
      [] s = "queued" -> 1
      [] s = "taken" -> 2
      [] s = "running" -> 3
      [] OTHER -> 4

\* A poll never tells of something that has not happened yet: the record is
\* never ahead of the job, and an outcome on record is the job's outcome
\* (queue.update writes the status that run_job has already set).
RecordBehindStage ==
    \A j \in Jobs : stage[j] # "over" =>
        /\ Rank(record[j]) <= Rank(stage[j])
        /\ record[j] \in Terminal => record[j] = stage[j]

\* A client that polls never sees a job go backwards or change its outcome;
\* the only other thing it can see is the record disappear.
RecordNeverRegresses ==
    [][\A j \in Jobs : \/ record'[j] = record[j]
                       \/ record'[j] = "none"
                       \/ Rank(record[j]) < Rank(record'[j])]_lifecycleVars

\* Once nobody will touch the job again its record can only disappear: no
\* second run, and no record that comes back.
OverIsFinal ==
    [][\A j \in Jobs : stage[j] = "over" =>
            stage'[j] = "over" /\ record'[j] \in {record[j], "none"}]_lifecycleVars
=============================================================================

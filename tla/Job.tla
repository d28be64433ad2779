-------------------------------- MODULE Job --------------------------------
(***************************************************************************)
(* The batch job and its three in-place transitions (pipeline/jobs.py).    *)
(* A timestamp, a result and an error message are abstracted to whether    *)
(* they are set; id, type, input and metrics never change what the queue   *)
(* or a worker does with the job.  The enum member "canceled" is assigned  *)
(* nowhere in the program and has no transition here.                      *)
(***************************************************************************)
EXTENDS Naturals

Status == {"queued", "running", "succeeded", "failed"}
Terminal == {"succeeded", "failed"}

JobRecord == [status   : Status,
              started  : BOOLEAN,
              finished : BOOLEAN,
              result   : BOOLEAN,
              error    : BOOLEAN,
              attempts : Nat]

NewJob == [status |-> "queued", started |-> FALSE, finished |-> FALSE,
           result |-> FALSE, error |-> FALSE, attempts |-> 0]

MarkStarted(job) ==
    [job EXCEPT !.status = "running", !.started = TRUE, !.attempts = @ + 1]

\* Mutant: finished_at is not set.
MarkSucceededUnfinished(job) ==
    [job EXCEPT !.status = "succeeded", !.result = TRUE]

MarkSucceeded(job) ==
    [job EXCEPT !.status = "succeeded", !.result = TRUE, !.finished = TRUE]

MarkFailed(job) ==
    [job EXCEPT !.status = "failed", !.error = TRUE, !.finished = TRUE]

\* A whole job record, as opposed to one caught halfway through a transition:
\* the timestamps, the result and the error are those of its status.
Coherent(job) ==
    /\ job.started = (job.status # "queued")
    /\ job.finished = (job.status \in Terminal)
    /\ job.result = (job.status = "succeeded")
    /\ job.error = (job.status = "failed")
=============================================================================

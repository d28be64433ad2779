------------------------- MODULE ExperimentTracker -------------------------
(***************************************************************************)
(* core/tracking.py: the optional MLflow client of the fine-tuning, of     *)
(* `speechai evaluate` and of verify_ct2_model.  A tracker is whether it   *)
(* is enabled, what has become of the run on the server, what was logged   *)
(* in it, and whether a call failed (history).  Each operation is the set  *)
(* of trackers it may leave: any call to the server may fail, and a        *)
(* failure is swallowed.                                                   *)
(***************************************************************************)

Ends == {"FINISHED", "FAILED"}

Tracker == [enabled : BOOLEAN, run : {"none", "running"} \cup Ends,
            logged : BOOLEAN, faulty : BOOLEAN]

Off == [enabled |-> FALSE, run |-> "none", logged |-> FALSE, faulty |-> FALSE]

\* The constructor: enabled if the caller asks for it, there is a URI, the
\* package imports and the experiment can be set.
Trackers(wanted) ==
    {Off} \cup IF wanted THEN {[Off EXCEPT !.enabled = TRUE]} ELSE {}

Faulty(t) == [t EXCEPT !.faulty = TRUE]

\* start_run, then set_tags.  A failure of either disables the tracker, and
\* one of set_tags leaves a run behind.
Start(t) ==
    IF ~t.enabled THEN {t}
    ELSE {[t EXCEPT !.run = "running"],
          [Faulty(t) EXCEPT !.enabled = FALSE],
          [Faulty(t) EXCEPT !.enabled = FALSE, !.run = "running"]}

\* log_params, log_metrics, log_artifact.
Log(t) == IF ~t.enabled THEN {t} ELSE {[t EXCEPT !.logged = TRUE], Faulty(t)}

\* Mutant: the status is left out.
EndFinished(t, status, legacy) ==
    IF ~t.enabled THEN {t} ELSE {[t EXCEPT !.run = "FINISHED"], Faulty(t)}

\* An old MLflow takes no status, so that every run it ends is FINISHED.
End(t, status, legacy) ==
    IF ~t.enabled THEN {t}
    ELSE {[t EXCEPT !.run = IF legacy THEN "FINISHED" ELSE status], Faulty(t)}
=============================================================================

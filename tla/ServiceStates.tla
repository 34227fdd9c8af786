--------------------------- MODULE ServiceStates ---------------------------
(***************************************************************************)
(* services/internal/lifecycle/state.go: the states a service is reported  *)
(* in and the table of valid transitions.  transition() runs under the     *)
(* status mutex; every caller drops its error, so an invalid transition is *)
(* a step that changes nothing.  The transition log and the timestamps are *)
(* only reported and are left out.                                         *)
(***************************************************************************)

States == {"inactive", "starting", "ready", "running", "stopping", "failed"}

\* validTransition's table
Allowed(from) ==
    CASE from = "inactive" -> {"starting"}
      [] from = "starting" -> {"ready", "failed", "stopping"}
      [] from = "ready"    -> {"running", "stopping", "failed"}
      [] from = "running"  -> {"stopping", "failed", "starting"}
      [] from = "stopping" -> {"inactive", "failed"}
      [] from = "failed"   -> {"starting"}

\* The state after transition(to), whose error is ignored.
Moved(from, to) == IF to \in Allowed(from) THEN to ELSE from
=============================================================================

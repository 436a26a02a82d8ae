------------------------------ MODULE JobStatus ------------------------------
(***************************************************************************)
(* The status vocabulary of impostarr's `jobs` table and the transition    *)
(* table that src/impostarr/jobs.py consults before every status change.   *)
(***************************************************************************)

JobStatuses ==
    {"hold", "pending", "active", "matched", "quarantine", "inconclusive",
     "error", "remediated"}

TERMINAL_STATUSES ==
    {"matched", "quarantine", "inconclusive", "error", "remediated"}

\* The statuses a human may act on: quarantined and inconclusive jobs.
VERDICT_ALLOWED_STATUSES == {"quarantine", "inconclusive"}

VALID_TRANSITIONS ==
    [s \in JobStatuses |->
        CASE s = "hold"    -> {"pending"}
          [] s = "pending" -> {"hold", "active"}
          [] s = "active"  -> {"pending"} \cup TERMINAL_STATUSES
          [] s \in VERDICT_ALLOWED_STATUSES ->
                {"pending", "active", "matched", "quarantine", "inconclusive"}
          [] s \in {"matched", "error"} -> {"pending"}
          [] s = "remediated" -> {}]

\* _check_transition: does the table allow from -> to?
CanMove(from, to) == to \in VALID_TRANSITIONS[from]
=============================================================================

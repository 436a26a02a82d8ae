---------------------------- MODULE JobLifecycle ----------------------------
(***************************************************************************)
(* What the job queue promises about one job's status, with no workers,    *)
(* leases or sessions in sight.  A status moves only along                 *)
(* VALID_TRANSITIONS, with one exception that is part of the promise       *)
(* because the code makes it: a job that was active when the reaper        *)
(* condemned it may be put back to pending, or to error, from whatever     *)
(* status it has reached meanwhile.                                        *)
(***************************************************************************)
EXTENDS JobStatus

CONSTANT Jobs   \* every job the table may ever hold

VARIABLES
    status,     \* status[j], or "absent" before the row exists
    condemned   \* the jobs the reaper is about to overwrite

vars == <<status, condemned>>

Init ==
    /\ status = [j \in Jobs |-> "absent"]
    /\ condemned = {}

Create(j) ==
    /\ status[j] = "absent"
    /\ \E s \in {"pending", "hold"} : status' = [status EXCEPT ![j] = s]
    /\ UNCHANGED condemned

Move(j) ==
    /\ status[j] # "absent"
    /\ \E s \in VALID_TRANSITIONS[status[j]] :
          status' = [status EXCEPT ![j] = s]
    /\ UNCHANGED condemned

Condemn ==
    /\ condemned = {}
    /\ \E S \in SUBSET {j \in Jobs : status[j] = "active"} : condemned' = S
    /\ UNCHANGED status

Overwrite ==
    /\ condemned # {}
    /\ status' \in [Jobs -> JobStatuses \cup {"absent"}]
    /\ \A j \in Jobs : IF j \in condemned
                         THEN status'[j] \in {"pending", "error"}
                         ELSE status'[j] = status[j]
    /\ condemned' = {}

\* The reaper's process dies between its read and its write.
Forget == condemned' = {} /\ UNCHANGED status

Next ==
    \/ \E j \in Jobs : Create(j) \/ Move(j)
    \/ Condemn \/ Overwrite \/ Forget

Spec == Init /\ [][Next]_vars
=============================================================================

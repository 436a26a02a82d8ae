------------------------------- MODULE Trash -------------------------------
(***************************************************************************)
(* The trash that replace remediations fill (src/impostarr/trash.py): one  *)
(* copy and one TrashItem row per job.  The hourly sweeper and the delete  *)
(* and restore endpoints first touch the disk and only then commit the     *)
(* row, so a crash can fall between the two, and two of them can overlap.  *)
(***************************************************************************)

CONSTANT Jobs

VARIABLES
    on_disk,   \* the jobs whose media file is at its original_path
    trash,     \* the jobs whose copy is at its trash_path
    rows,      \* TrashItem: "none", "active" (deleted_at NULL), or its outcome
    marking,   \* outcomes whose disk work is done and whose commit is not
    disposed   \* history: copies unlinked on purpose

trash_vars == <<on_disk, trash, rows, marking, disposed>>

Disposals == {"expired", "deleted"}
TRASH_OUTCOMES == Disposals \cup {"restored"}

TrashTypeOK ==
    /\ on_disk \in SUBSET Jobs
    /\ trash \in SUBSET Jobs
    /\ rows \in [Jobs -> TRASH_OUTCOMES \cup {"none", "active"}]
    /\ marking \in [Jobs -> SUBSET TRASH_OUTCOMES]
    /\ disposed \in SUBSET Jobs

TrashInit ==
    /\ on_disk = Jobs
    /\ trash = {}
    /\ rows = [j \in Jobs |-> "none"]
    /\ marking = [j \in Jobs |-> {}]
    /\ disposed = {}

\* sweep_expired and delete_now: a file already gone is tolerated.
Unlink(j, why) ==
    /\ rows[j] = "active"
    /\ trash' = trash \ {j}
    /\ marking' = [marking EXCEPT ![j] = @ \cup {why}]
    /\ disposed' = disposed \cup {j}
    /\ UNCHANGED <<on_disk, rows>>

\* restore refuses an occupied path and fails on a missing copy; it leaves the
\* copy in the trash.
Restore(j) ==
    /\ rows[j] = "active"
    /\ j \notin on_disk
    /\ j \in trash
    /\ on_disk' = on_disk \cup {j}
    /\ marking' = [marking EXCEPT ![j] = @ \cup {"restored"}]
    /\ UNCHANGED <<trash, rows, disposed>>

Mark(j, why) ==
    /\ why \in marking[j]
    /\ rows' = [rows EXCEPT ![j] = why]
    /\ marking' = [marking EXCEPT ![j] = @ \ {why}]
    /\ UNCHANGED <<on_disk, trash, disposed>>

TrashNext ==
    \E j \in Jobs :
        \/ \E why \in Disposals : Unlink(j, why)
        \/ Restore(j)
        \/ \E why \in TRASH_OUTCOMES : Mark(j, why)
=============================================================================

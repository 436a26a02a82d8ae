---------------------------- MODULE MCWorkerPool ----------------------------
(***************************************************************************)
(* Small instances of WorkerPool for TLC: of a day of two hours one is     *)
(* active, so the gates close and open again.                              *)
(***************************************************************************)
EXTENDS WorkerPool

CONSTANT NumJobs   \* rows of the table (bound)

MCJobs == 1 .. NumJobs

\* The instances take turns in the queue.
MCInstanceOf == [j \in MCJobs |-> ((j - 1) % NumInstances) + 1]
=============================================================================

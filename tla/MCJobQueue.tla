----------------------------- MODULE MCJobQueue -----------------------------
(***************************************************************************)
(* Small instances of JobQueue for TLC.  Worker ids are distinct, as       *)
(* worker._mint_worker_id makes them; every API request presents the same  *)
(* id, "api-" plus the identity the auth layer gives it.                   *)
(***************************************************************************)
EXTENDS JobQueue

CONSTANT ApiAnon   \* the id all requests share

MCIdOf == [a \in Actors |-> IF a \in Requests THEN ApiAnon ELSE a]
=============================================================================

---------------------------- MODULE MCDiscovery ----------------------------
(***************************************************************************)
(* Small instances of Discovery for TLC.  Files are numbered across the    *)
(* two series so that walking by series is not walking by id.              *)
(***************************************************************************)
EXTENDS Discovery

MCSeriesOf == [f \in Files |-> IF f \in {1, 3} THEN 12 ELSE 11]
=============================================================================

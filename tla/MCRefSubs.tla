----------------------------- MODULE MCRefSubs -----------------------------
(***************************************************************************)
(* Two concurrent calls for TLC.                                           *)
(***************************************************************************)
EXTENDS RefSubs
=============================================================================

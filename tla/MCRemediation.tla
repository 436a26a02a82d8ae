--------------------------- MODULE MCRemediation ---------------------------
(***************************************************************************)
(* Files for TLC: file i sits in slot i and its remap aims at slot i + 10; *)
(* all remaps stage under the same name (two series have the same SxxEyy). *)
(***************************************************************************)
EXTENDS Remediation

CONSTANT ApiAnon   \* the id all requests share

MCIdOf   == [r \in Runners |-> IF r \in Requests THEN ApiAnon ELSE r]
MCHome   == [j \in Jobs |-> j]
Apart    == [j \in Jobs |-> j + 10]
OneName  == [j \in Jobs |-> "S01E05.mkv"]
=============================================================================

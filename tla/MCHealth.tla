------------------------------- MODULE MCHealth -------------------------------
(***************************************************************************)
(* Health for TLC: two components, the first with the tighter deadline.    *)
(***************************************************************************)
EXTENDS Health

MCDeadline == <<0, 1>>
===============================================================================

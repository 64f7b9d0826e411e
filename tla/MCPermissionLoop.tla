-------------------------- MODULE MCPermissionLoop --------------------------
(***************************************************************************)
(* PermissionLoop for TLC: a call in each of two sessions.                  *)
(***************************************************************************)
EXTENDS PermissionLoop, TLC

CONSTANTS h1, h2, s1, s2

MCTwoSessions == (h1 :> s1) @@ (h2 :> s2)
=============================================================================

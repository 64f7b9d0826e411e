------------------------------ MODULE MCDaemon ------------------------------
(***************************************************************************)
(* Daemon for TLC: two sessions, three tool calls, two of one session.     *)
(***************************************************************************)
EXTENDS Daemon, TLC

CONSTANTS h1, h2, h3, s1, s2

MCSessionOf == (h1 :> s1) @@ (h2 :> s1) @@ (h3 :> s2)
=============================================================================

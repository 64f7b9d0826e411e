--------------------------- MODULE PermissionSpec ---------------------------
(***************************************************************************)
(* What the permission loop promises a tool call, with no daemon, radio or *)
(* stick in sight: the owner may speak about a call that was asked, and    *)
(* the hook's verdict is the owner's own word or silence, which hands the  *)
(* call to the terminal prompt.  Silence is always allowed; nothing else   *)
(* is allowed without the owner having said it about this very call.       *)
(***************************************************************************)
CONSTANT Calls

VARIABLES
  asked,     \* the calls whose hook has gone to the daemon
  said,      \* what the owner has decided: pairs <<call, decision>>
  outcome    \* what each hook told Claude Code, "none" until it exits

vars == <<asked, said, outcome>>

Authorised(call, verdict) ==
  \/ verdict = "silent"
  \/ verdict = "allow" /\ <<call, "once">> \in said
  \/ verdict = "deny"  /\ <<call, "deny">> \in said

Init ==
  /\ asked = {}
  /\ said = {}
  /\ outcome = [call \in Calls |-> "none"]

Ask(call) ==
  /\ call \notin asked
  /\ asked' = asked \cup {call}
  /\ UNCHANGED <<said, outcome>>

Say(call, decision) ==
  /\ call \in asked
  /\ said' = said \cup {<<call, decision>>}
  /\ UNCHANGED <<asked, outcome>>

Settle(call, verdict) ==
  /\ call \in asked
  /\ outcome[call] = "none"
  /\ Authorised(call, verdict)
  /\ outcome' = [outcome EXCEPT ![call] = verdict]
  /\ UNCHANGED <<asked, said>>

Next == \E call \in Calls :
  \/ Ask(call)
  \/ \E decision \in {"once", "deny"} : Say(call, decision)
  \/ \E verdict \in {"silent", "allow", "deny"} : Settle(call, verdict)

Spec == Init /\ [][Next]_vars
=============================================================================

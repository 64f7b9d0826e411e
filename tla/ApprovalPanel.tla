---------------------------- MODULE ApprovalPanel ----------------------------
(***************************************************************************)
(* What the stick promises of a permission prompt, with no menus, screens, *)
(* pairing or battery in sight: a prompt comes and goes as the host says,  *)
(* each showing of it is decided at most once, the decision names the      *)
(* prompt that was there when it was made, and nothing else touches it.    *)
(***************************************************************************)
CONSTANTS PromptIds, None

VARIABLES
  prompt,    \* the prompt the host has pending, or None
  decided,   \* whether the owner has decided this showing of it
  answer     \* the decision on its way to the radio, or None

vars == <<prompt, decided, answer>>

Init == prompt = None /\ decided = FALSE /\ answer = None

\* The host says which prompt is pending; the same one again changes nothing.
Tell(id) ==
  /\ prompt' = id
  /\ decided' = (decided /\ id = prompt)
  /\ UNCHANGED answer

Decide(decision) ==
  /\ prompt # None /\ ~decided /\ answer = None
  /\ decided' = TRUE
  /\ answer' = [id |-> prompt, decision |-> decision]
  /\ UNCHANGED prompt

HandOver == answer # None /\ answer' = None /\ UNCHANGED <<prompt, decided>>

Restart == prompt' = None /\ decided' = FALSE /\ answer' = None

Next ==
  \/ \E id \in PromptIds \cup {None} : Tell(id)
  \/ \E decision \in {"once", "deny"} : Decide(decision)
  \/ HandOver
  \/ Restart

Spec == Init /\ [][Next]_vars
=============================================================================

---------------------------- MODULE LedgerMachine ----------------------------
(***************************************************************************)
(* A ledger on its own, under every call its API offers: any event for any *)
(* session, token totals from a source that counts up and may restart at   *)
(* any total, and synthesis.  The daemon makes some of these calls; the     *)
(* rest of the API is exercised here.                                      *)
(***************************************************************************)
EXTENDS Ledger

CONSTANTS
  MaxRaises,   \* bound: prompts raised
  MaxSpent,    \* bound: tokens the source spends
  MaxLeapt     \* bound: what its restarts raise the total by, in all

ASSUME BoundAssumption == {MaxRaises, MaxSpent, MaxLeapt} \subseteq Nat

VARIABLES
  ledger,   \* the Ledger
  packet,   \* the last packet synthesized, None before the first
  total,    \* what the token source would report now
  spent,    \* history: tokens spent since the ledger was made
  leapt     \* history: what restarts have raised the total by, unspent

vars == <<ledger, packet, total, spent, leapt>>

Init ==
  /\ ledger = NewLedger
  /\ packet = None
  /\ total \in 0 .. TokenMax
  /\ spent = 0 /\ leapt = 0

\* Prompts are told apart by their raise order alone.
Prompt == AwaitingApproval([id |-> ledger.raiseSeq, call |-> None])

Records(s, event) ==
  /\ event.kind = "AwaitingApproval" => ledger.raiseSeq < MaxRaises
  /\ ledger' = Record(ledger, s, event)
  /\ UNCHANGED <<packet, total, spent, leapt>>

ObservesTokens ==
  /\ ledger' = ObserveTokens(ledger, total)
  /\ UNCHANGED <<packet, total, spent, leapt>>

Synthesizes ==
  /\ packet' = Synthesize(ledger)
  /\ ledger' = AfterSynthesis(ledger)
  /\ UNCHANGED <<total, spent, leapt>>

SourceSpends ==
  /\ spent < MaxSpent
  /\ total' = total + 1 /\ spent' = spent + 1
  /\ UNCHANGED <<ledger, packet, leapt>>

\* Another transcript is read from here on: its total may be any, below the one
\* before or ahead of it.
SourceRestarts ==
  /\ total' \in 0 .. TokenMax
  /\ leapt' = IF total' > total THEN leapt + (total' - total) ELSE leapt
  /\ leapt' =< MaxLeapt
  /\ UNCHANGED <<ledger, packet, spent>>

Next ==
  \/ \E s \in Sessions, event \in LifecycleEvents \cup {Resolved, Prompt} : Records(s, event)
  \/ ObservesTokens
  \/ Synthesizes
  \/ SourceSpends
  \/ SourceRestarts

Spec == Init /\ [][Next]_vars

-----------------------------------------------------------------------------

\* No token is credited that was not spent, wherever the source restarts between two
\* observations: a lower total re-baselines the latch, and one that leapt ahead,
\* which looks like spending, is credited by no more than the leap.
NeverOverCredits == ledger.credited =< spent + leapt

\* Nothing shown is counted twice or out of a smaller whole: in a packet the
\* running and the waiting sessions are among the total, also where u8 saturates.
CountsNest ==
  packet # None => packet.running =< packet.total /\ packet.waiting =< packet.total
=============================================================================

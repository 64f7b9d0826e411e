------------------------------- MODULE Ledger -------------------------------
(***************************************************************************)
(* The session -> snapshot fold of buddy-permission (ledger.rs) and the    *)
(* emission gate every snapshot passes (gating.rs), as operators on a      *)
(* ledger value.  The daemon's coordinator owns one ledger; `Daemon` and   *)
(* `LedgerMachine` make it part of a state.                                *)
(*                                                                         *)
(* A prompt is a record [id, call]: the id the device echoes back, and the *)
(* tool call it is about (the tool name and the hint the glass shows).     *)
(***************************************************************************)
EXTENDS Integers, FiniteSets

CONSTANTS
  Sessions,   \* Claude Code session ids, the keys of the ledger
  None,       \* Rust's None
  CountMax,   \* u8::MAX, where the session counts saturate
  TokenMax    \* u32::MAX, where the credited total saturates

ASSUME SessionsAssumption == IsFiniteSet(Sessions)
ASSUME WidthAssumption    == CountMax \in Nat \ {0} /\ TokenMax \in Nat \ {0}

(***************************************************************************)
(* The ledger.  A session that was never seen has no map entry.            *)
(***************************************************************************)
Unseen == [seen |-> FALSE, started |-> FALSE, stopped |-> FALSE, pending |-> None]

NewLedger ==
  [ sessions       |-> [s \in Sessions |-> Unseen],
    raiseSeq       |-> 0,
    completedPulse |-> FALSE,
    latch          |-> None,
    credited       |-> 0 ]

SessionStatesOver(prompts) ==
  [ seen : BOOLEAN, started : BOOLEAN, stopped : BOOLEAN,
    pending : [seq : Nat, prompt : prompts] \cup {None} ]

LedgersOver(prompts) ==
  [ sessions : [Sessions -> SessionStatesOver(prompts)], raiseSeq : Nat,
    completedPulse : BOOLEAN, latch : Nat \cup {None}, credited : Nat ]

(***************************************************************************)
(* The session events that `record` folds, one operator per kind.          *)
(***************************************************************************)
Started          == [kind |-> "Started"]
ToolStarted      == [kind |-> "ToolStarted"]
Completed        == [kind |-> "Completed"]
Stopped          == [kind |-> "Stopped"]
Resolved         == [kind |-> "Resolved"]
AwaitingApproval(prompt) == [kind |-> "AwaitingApproval", prompt |-> prompt]

LifecycleEvents == {Started, ToolStarted, Completed, Stopped}

\* sessions.entry(session).or_default(), then one field assigned
SetEntry(ledger, s, entry) ==
  [ledger EXCEPT !.sessions = [@ EXCEPT ![s] = [entry EXCEPT !.seen = TRUE]]]

\* Mutant: every session's prompt is cleared.
ResolveAll(ledger, s) ==
  [ledger EXCEPT !.sessions = [t \in Sessions |-> [@[t] EXCEPT !.pending = None]]]

\* Only this session's prompt is cleared.
ResolveSession(ledger, s) ==
  SetEntry(ledger, s, [ledger.sessions[s] EXCEPT !.pending = None])

\* The newest raise order is stamped on the prompt; an older prompt of the
\* same session is overwritten.
RaisePrompt(ledger, s, prompt) ==
  [SetEntry(ledger, s, [ledger.sessions[s] EXCEPT
                          !.pending = [seq |-> ledger.raiseSeq + 1, prompt |-> prompt]])
     EXCEPT !.raiseSeq = @ + 1]

Record(ledger, s, event) ==
  CASE event.kind = "Completed"        -> [ledger EXCEPT !.completedPulse = TRUE]
    [] event.kind = "AwaitingApproval" -> RaisePrompt(ledger, s, event.prompt)
    [] event.kind = "Started"  -> SetEntry(ledger, s, [ledger.sessions[s] EXCEPT !.started = TRUE])
    [] event.kind = "ToolStarted" -> SetEntry(ledger, s, ledger.sessions[s])
    [] event.kind = "Resolved" -> ResolveSession(ledger, s)
    [] event.kind = "Stopped"  -> SetEntry(ledger, s, [ledger.sessions[s] EXCEPT !.stopped = TRUE])

(***************************************************************************)
(* Token credit: buddy-core's three-case latch (first total adopted, a     *)
(* smaller total re-baselines, otherwise the delta) and a saturating sum.  *)
(***************************************************************************)
\* Mutant: the first total is credited instead of adopted.
LatchDeltaFromZero(latch, total) ==
  IF latch = None THEN total ELSE IF total < latch THEN 0 ELSE total - latch

LatchDelta(latch, total) == IF latch = None \/ total < latch THEN 0 ELSE total - latch

SaturatingAdd(a, b) == IF a + b > TokenMax THEN TokenMax ELSE a + b

ObserveTokens(ledger, total) ==
  [ledger EXCEPT !.credited = SaturatingAdd(@, LatchDelta(ledger.latch, total)),
                 !.latch = total]

(***************************************************************************)
(* Synthesis.  The prompt on the glass is derived: the most recently       *)
(* raised among the sessions that still pend.                              *)
(***************************************************************************)
Waiting(ledger) == {s \in Sessions : ledger.sessions[s].pending # None}
Seen(ledger)    == {s \in Sessions : ledger.sessions[s].seen}
Running(ledger) == {s \in Sessions : ledger.sessions[s].started /\ ~ledger.sessions[s].stopped}

\* Mutant: the oldest prompt instead of the newest.
OldestFirst(ledger) ==
  CHOOSE s \in Waiting(ledger) :
    \A t \in Waiting(ledger) : ledger.sessions[s].pending.seq =< ledger.sessions[t].pending.seq

Newest(ledger) ==
  CHOOSE s \in Waiting(ledger) :
    \A t \in Waiting(ledger) : ledger.sessions[t].pending.seq =< ledger.sessions[s].pending.seq

OutstandingPrompt(ledger) ==
  IF Waiting(ledger) = {} THEN None ELSE ledger.sessions[Newest(ledger)].pending.prompt

\* Mutant: the cast wraps instead of saturating.
CapU8Wraps(count) == count % (CountMax + 1)

CapU8(count) == IF count > CountMax THEN CountMax ELSE count

\* The packet `synthesize` builds; `completed` is absent (FALSE) unless pulsed.
Synthesize(ledger) ==
  [ total     |-> CapU8(Cardinality(Seen(ledger))),
    running   |-> CapU8(Cardinality(Running(ledger))),
    waiting   |-> CapU8(Cardinality(Waiting(ledger))),
    completed |-> ledger.completedPulse,
    tokens    |-> ledger.credited,
    prompt    |-> OutstandingPrompt(ledger) ]

\* What `synthesize` leaves behind: the pulse is emitted once, then cleared.
AfterSynthesis(ledger) == [ledger EXCEPT !.completedPulse = FALSE]

\* gating.rs: a live prompt overwrites whatever the packet carried.
Gate(packet, outstanding) ==
  IF outstanding = None THEN packet ELSE [packet EXCEPT !.prompt = outstanding]

\* The one way a snapshot leaves the daemon.
GatedSnapshot(ledger) == Gate(Synthesize(ledger), OutstandingPrompt(AfterSynthesis(ledger)))
=============================================================================

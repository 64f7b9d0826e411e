---------------------------- MODULE LedgerProofs ----------------------------
(***************************************************************************)
(* Theorems about the ledger on its own, for any sessions, widths and       *)
(* bounds: what it credits was spent, and the counts it shows nest.         *)
(***************************************************************************)
EXTENDS LedgerMachine, FiniteSetTheorems, TLAPS

Prompts == [id : Nat, call : {None}]

Typed == ledger \in LedgersOver(Prompts) /\ total \in Nat /\ spent \in Nat /\ leapt \in Nat

\* What the latch has yet to credit was spent, or leapt, too: while the total is not
\* below the baseline, the sum and what it would grow by are covered.
Covered ==
  /\ ledger.credited =< spent + leapt
  /\ ledger.latch # None /\ ledger.latch =< total =>
       ledger.credited + (total - ledger.latch) =< spent + leapt

\* A session that has done anything has an entry.
EntriesExist(l) ==
  \A s \in Sessions :
    (l.sessions[s].started \/ l.sessions[s].pending # None) => l.sessions[s].seen

Inv == Typed /\ Covered /\ EntriesExist(ledger) /\ CountsNest

Events == LifecycleEvents \cup {Resolved, Prompt}

-----------------------------------------------------------------------------
(* The operators.                                                          *)

\* An entry changed and stored keeps the ledger's types, and leaves an entry.
LEMMA SetEntryEffect ==
  ASSUME NEW l \in LedgersOver(Prompts), EntriesExist(l),
         NEW s \in Sessions, NEW entry \in SessionStatesOver(Prompts)
  PROVE  /\ SetEntry(l, s, entry) \in LedgersOver(Prompts)
         /\ SetEntry(l, s, entry).latch = l.latch
         /\ SetEntry(l, s, entry).credited = l.credited
         /\ SetEntry(l, s, entry).raiseSeq = l.raiseSeq
         /\ EntriesExist(SetEntry(l, s, entry))
<1> DEFINE stored == [entry EXCEPT !.seen = TRUE]
<1>1. stored \in SessionStatesOver(Prompts) /\ stored.seen
  BY DEF SessionStatesOver
<1>2. SetEntry(l, s, entry) = [l EXCEPT !.sessions = [l.sessions EXCEPT ![s] = stored]]
  BY DEF SetEntry
<1> HIDE DEF stored
<1>3. QED BY <1>1, <1>2 DEF LedgersOver, EntriesExist

\* No event of a session touches the latch or the sum.
LEMMA RecordEffect ==
  ASSUME Typed, EntriesExist(ledger), NEW s \in Sessions, NEW event \in Events
  PROVE  /\ Record(ledger, s, event) \in LedgersOver(Prompts)
         /\ Record(ledger, s, event).latch = ledger.latch
         /\ Record(ledger, s, event).credited = ledger.credited
         /\ EntriesExist(Record(ledger, s, event))
<1> DEFINE state == ledger.sessions[s]
<1>1. ledger \in LedgersOver(Prompts) /\ state \in SessionStatesOver(Prompts)
  BY DEF Typed, LedgersOver
<1>2. CASE event = Completed
  <2>1. Record(ledger, s, event) = [ledger EXCEPT !.completedPulse = TRUE]
    BY <1>2 DEF Record, Completed
  <2>2. QED BY <1>1, <2>1 DEF LedgersOver, EntriesExist
<1>3. CASE event = Started
  <2>1. [state EXCEPT !.started = TRUE] \in SessionStatesOver(Prompts)
    BY <1>1 DEF SessionStatesOver
  <2>2. Record(ledger, s, event) = SetEntry(ledger, s, [state EXCEPT !.started = TRUE])
    BY <1>3 DEF Record, Started
  <2>3. QED BY <1>1, <2>1, <2>2, SetEntryEffect
<1>4. CASE event = Stopped
  <2>1. [state EXCEPT !.stopped = TRUE] \in SessionStatesOver(Prompts)
    BY <1>1 DEF SessionStatesOver
  <2>2. Record(ledger, s, event) = SetEntry(ledger, s, [state EXCEPT !.stopped = TRUE])
    BY <1>4 DEF Record, Stopped
  <2>3. QED BY <1>1, <2>1, <2>2, SetEntryEffect
<1>5. CASE event = ToolStarted
  <2>1. Record(ledger, s, event) = SetEntry(ledger, s, state)
    BY <1>5 DEF Record, ToolStarted
  <2>2. QED BY <1>1, <2>1, SetEntryEffect
<1>6. CASE event = Resolved
  <2>1. [state EXCEPT !.pending = None] \in SessionStatesOver(Prompts)
    BY <1>1 DEF SessionStatesOver
  <2>2. Record(ledger, s, event) = SetEntry(ledger, s, [state EXCEPT !.pending = None])
    BY <1>6 DEF Record, Resolved, ResolveSession
  <2>3. QED BY <1>1, <2>1, <2>2, SetEntryEffect
<1>7. CASE event = Prompt
  <2> DEFINE prompt == [id |-> ledger.raiseSeq, call |-> None]
             raised == [seq |-> ledger.raiseSeq + 1, prompt |-> prompt]
             stored == SetEntry(ledger, s, [state EXCEPT !.pending = raised])
  <2>1. ledger.raiseSeq \in Nat
    BY <1>1 DEF LedgersOver
  <2>2. raised \in [seq : Nat, prompt : Prompts]
    BY <2>1 DEF Prompts
  <2>3. Record(ledger, s, event) = [stored EXCEPT !.raiseSeq = @ + 1]
    BY <1>7 DEF Record, Prompt, AwaitingApproval, RaisePrompt
  <2> HIDE DEF raised
  <2>4. [state EXCEPT !.pending = raised] \in SessionStatesOver(Prompts)
    BY <1>1, <2>2 DEF SessionStatesOver
  <2>5. /\ stored \in LedgersOver(Prompts) /\ EntriesExist(stored)
        /\ stored.latch = ledger.latch /\ stored.credited = ledger.credited
    BY <1>1, <2>4, SetEntryEffect
  <2> HIDE DEF stored
  <2>6. QED BY <2>3, <2>5 DEF LedgersOver, EntriesExist
<1>8. QED BY <1>2, <1>3, <1>4, <1>5, <1>6, <1>7 DEF Events, LifecycleEvents

\* A count of a smaller set is no larger, saturated or not.
LEMMA CapIsMonotone ==
  ASSUME NEW S, NEW T, S \subseteq T, T \subseteq Sessions
  PROVE  CapU8(Cardinality(S)) =< CapU8(Cardinality(T))
<1>1. IsFiniteSet(T) /\ IsFiniteSet(S)
  BY SessionsAssumption, FS_Subset
<1>2. Cardinality(S) \in Nat /\ Cardinality(T) \in Nat /\ Cardinality(S) =< Cardinality(T)
  BY <1>1, FS_Subset, FS_CardinalityType
<1>3. QED BY <1>2, WidthAssumption DEF CapU8

LEMMA SynthesisNests ==
  ASSUME EntriesExist(ledger)
  PROVE  LET p == Synthesize(ledger)
         IN p.running =< p.total /\ p.waiting =< p.total
<1>1. /\ Running(ledger) \subseteq Seen(ledger)
      /\ Waiting(ledger) \subseteq Seen(ledger)
      /\ Seen(ledger) \subseteq Sessions
  BY DEF EntriesExist, Running, Waiting, Seen
<1>2. QED BY <1>1, CapIsMonotone DEF Synthesize

-----------------------------------------------------------------------------
(* The invariant.                                                          *)

LEMMA Starts == Init => Inv
  BY WidthAssumption DEF Init, Inv, Typed, Covered, EntriesExist, CountsNest, NewLedger, Unseen,
     LedgersOver, SessionStatesOver

LEMMA RecordsKeepInv ==
  ASSUME Inv, NEW s \in Sessions, NEW event \in Events, Records(s, event)
  PROVE  Inv'
<1>1. ledger' = Record(ledger, s, event) /\ UNCHANGED <<packet, total, spent, leapt>>
  BY DEF Records
<1>2. QED BY <1>1, RecordEffect DEF Inv, Typed, Covered, CountsNest, EntriesExist

LEMMA ObservesKeepInv ==
  ASSUME Inv, ObservesTokens
  PROVE  Inv'
<1> DEFINE delta == LatchDelta(ledger.latch, total)
           sum   == SaturatingAdd(ledger.credited, delta)
<1>1. /\ ledger \in LedgersOver(Prompts) /\ total \in Nat /\ spent \in Nat /\ leapt \in Nat
      /\ ledger.credited \in Nat /\ ledger.latch \in Nat \cup {None}
  BY DEF Inv, Typed, LedgersOver
<1>2. delta \in Nat /\ ledger.credited + delta =< spent + leapt
  BY <1>1 DEF Inv, Covered, LatchDelta
<1>3. sum \in Nat /\ sum =< ledger.credited + delta
  <2> HIDE DEF delta
  <2> QED BY <1>1, <1>2, WidthAssumption DEF SaturatingAdd
<1>4. ledger' = [ledger EXCEPT !.credited = sum, !.latch = total] /\ UNCHANGED <<packet, total, spent, leapt>>
  BY DEF ObservesTokens, ObserveTokens
<1> HIDE DEF delta, sum
<1>5. /\ ledger' \in LedgersOver(Prompts) /\ ledger'.sessions = ledger.sessions
      /\ ledger'.credited = sum /\ ledger'.latch = total
  BY <1>1, <1>3, <1>4 DEF LedgersOver
<1>6. Covered'
  BY <1>1, <1>2, <1>3, <1>4, <1>5 DEF Covered
<1>7. QED BY <1>4, <1>5, <1>6 DEF Inv, Typed, EntriesExist, CountsNest

LEMMA SynthesizesKeepInv ==
  ASSUME Inv, Synthesizes
  PROVE  Inv'
<1>1. /\ ledger' \in LedgersOver(Prompts) /\ ledger'.sessions = ledger.sessions
      /\ ledger'.credited = ledger.credited /\ ledger'.latch = ledger.latch
      /\ UNCHANGED <<total, spent, leapt>>
  BY DEF Synthesizes, AfterSynthesis, Inv, Typed, LedgersOver
<1>2. CountsNest'
  BY SynthesisNests DEF Synthesizes, Inv, CountsNest
<1>3. QED BY <1>1, <1>2 DEF Inv, Typed, Covered, EntriesExist

LEMMA SourceKeepsInv ==
  ASSUME Inv, SourceSpends \/ SourceRestarts
  PROVE  Inv'
<1>1. /\ ledger.credited \in Nat /\ ledger.latch \in Nat \cup {None}
      /\ total \in Nat /\ spent \in Nat /\ leapt \in Nat
  BY DEF Inv, Typed, LedgersOver
<1>2. CASE SourceSpends
  BY <1>1, <1>2 DEF SourceSpends, Inv, Typed, Covered, EntriesExist, CountsNest
<1>3. CASE SourceRestarts
  <2>1. /\ total' \in Nat
        /\ UNCHANGED <<ledger, packet, spent>>
    BY <1>3, WidthAssumption DEF SourceRestarts
  <2>2. /\ leapt' \in Nat
        /\ leapt =< leapt'
        /\ total' > total => leapt' = leapt + (total' - total)
    <3>1. ASSUME NEW l \in Nat, NEW t \in Nat, NEW u \in Nat, NEW m,
                 m = IF u > t THEN l + (u - t) ELSE l
          PROVE  m \in Nat /\ l =< m /\ (u > t => m = l + (u - t))
      BY <3>1
    <3>2. leapt' = IF total' > total THEN leapt + (total' - total) ELSE leapt
      BY <1>3 DEF SourceRestarts
    <3> QED BY <1>1, <2>1, <3>1, <3>2
  <2>3. Covered'
    <3>1. ASSUME NEW c \in Nat, NEW p \in Nat, NEW l \in Nat, NEW m \in Nat,
                 NEW t \in Nat, NEW u \in Nat, NEW b \in Nat,
                 c =< p + l, b =< t => c + (t - b) =< p + l,
                 l =< m, u > t => m = l + (u - t), b =< u
          PROVE  c + (u - b) =< p + m
      BY <3>1
    <3>2. ledger.credited =< spent + leapt'
      BY <1>1, <2>2 DEF Inv, Covered
    <3>3. ASSUME ledger.latch # None, ledger.latch =< total'
          PROVE  ledger.credited + (total' - ledger.latch) =< spent + leapt'
      <4>1. /\ ledger.credited =< spent + leapt
            /\ ledger.latch =< total => ledger.credited + (total - ledger.latch) =< spent + leapt
        BY <3>3 DEF Inv, Covered
      <4> QED BY <1>1, <2>1, <2>2, <3>1, <3>3, <4>1
    <3> QED BY <1>1, <2>1, <3>2, <3>3 DEF Covered
  <2> QED BY <1>1, <2>1, <2>2, <2>3 DEF Inv, Typed, EntriesExist, CountsNest
<1>4. QED BY <1>2, <1>3

LEMMA StepsKeepInv ==
  ASSUME Inv, [Next]_vars
  PROVE  Inv'
<1>1. CASE UNCHANGED vars
  BY <1>1 DEF vars, Inv, Typed, Covered, EntriesExist, CountsNest
<1>2. CASE Next
  BY <1>2, RecordsKeepInv, ObservesKeepInv, SynthesizesKeepInv, SourceKeepsInv DEF Next, Events
<1>3. QED BY <1>1, <1>2

-----------------------------------------------------------------------------

\* No token is credited that was neither spent nor leapt over by a restart, for any
\* width of the sum, any total the source starts with and any number of restarts at
\* any totals (ledger.rs observe_tokens, stats.rs TokenLatch).
THEOREM CreditsAreSpent == Spec => []NeverOverCredits
<1>1. Inv => NeverOverCredits
  BY DEF Inv, Covered, NeverOverCredits
<1>2. QED BY Starts, StepsKeepInv, <1>1, PTL DEF Spec

\* The counts of a packet nest, for any number of sessions and any width.
THEOREM CountsAlwaysNest == Spec => []CountsNest
<1>1. QED BY Starts, StepsKeepInv, PTL DEF Spec, Inv
=============================================================================

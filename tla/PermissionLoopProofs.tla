------------------------ MODULE PermissionLoopProofs ------------------------
(***************************************************************************)
(* Theorems about the permission path, for any hooks, sessions, counts and *)
(* faults.  Part 1 is about the daemon (module Daemon) by itself, in any   *)
(* environment; part 2 about the loop around it: the daemon is driven as   *)
(* part 1 allows, nobody is left hanging, no verdict is anybody's word but *)
(* the owner's, and while no session asks twice at once he is asked once.  *)
(***************************************************************************)
EXTENDS PermissionLoop, FiniteSetTheorems, WellFoundedInduction, SequenceTheorems, TLAPS

-----------------------------------------------------------------------------
(* Part 1: the daemon.                                                     *)

-----------------------------------------------------------------------------
(* The ledger's fold: what raising and resolving a prompt do to every      *)
(* session, and that the derived prompt is absent exactly when no session  *)
(* pends.                                                                  *)

\* None is not a pending prompt; Rust's Option keeps the two apart.
LEMMA PendingIsNotNone ==
  ASSUME NEW P, NEW led \in LedgersOver(P), NEW s \in Sessions,
         led.sessions[s].pending # None
  PROVE  /\ led.sessions[s].pending \in [seq : Nat, prompt : P]
         /\ led.sessions[s].pending.prompt \in P
         /\ led.sessions[s].pending.seq \in Nat
<1>1. led.sessions[s].pending \in [seq : Nat, prompt : P]
  BY DEF LedgersOver, SessionStatesOver
<1>2. QED BY <1>1

\* A raised prompt replaces the session's own and touches no other session.
LEMMA RaiseEffect ==
  ASSUME NEW P, NEW led \in LedgersOver(P), NEW s \in Sessions, NEW p \in P,
         NEW l, l = Record(led, s, AwaitingApproval(p))
  PROVE  /\ l \in LedgersOver(P)
         /\ l.sessions[s].pending = [seq |-> led.raiseSeq + 1, prompt |-> p]
         /\ \A t \in Sessions \ {s} : l.sessions[t] = led.sessions[t]
         /\ l.raiseSeq = led.raiseSeq + 1
         /\ l.completedPulse = led.completedPulse
<1> DEFINE raised == [seq |-> led.raiseSeq + 1, prompt |-> p]
           entry == [[led.sessions[s] EXCEPT !.pending = raised] EXCEPT !.seen = TRUE]
<1>1. l = RaisePrompt(led, s, p)
  BY DEF Record, AwaitingApproval
<1>2. raised \in [seq : Nat, prompt : P]
  BY DEF LedgersOver
<1>3. led.sessions[s] \in SessionStatesOver(P)
  BY DEF LedgersOver
<1>4. entry \in SessionStatesOver(P) /\ entry.pending = raised
  <2> HIDE DEF raised
  <2> QED BY <1>2, <1>3 DEF SessionStatesOver
<1> DEFINE base == [led EXCEPT !.sessions = [@ EXCEPT ![s] = entry]]
<1>5. l = [base EXCEPT !.raiseSeq = @ + 1]
  BY <1>1 DEF RaisePrompt, SetEntry
<1>6. /\ base \in LedgersOver(P)
      /\ base.sessions[s] = entry
      /\ \A t \in Sessions \ {s} : base.sessions[t] = led.sessions[t]
      /\ base.raiseSeq = led.raiseSeq
      /\ base.completedPulse = led.completedPulse
  <2> HIDE DEF entry
  <2> QED BY <1>4 DEF LedgersOver
<1>7. /\ l \in LedgersOver(P)
      /\ l.sessions = base.sessions
      /\ l.raiseSeq = base.raiseSeq + 1
      /\ l.completedPulse = base.completedPulse
  <2> HIDE DEF base
  <2> QED BY <1>5, <1>6 DEF LedgersOver
<1>8. QED
  <2> HIDE DEF entry, base
  <2> QED BY <1>4, <1>6, <1>7

\* A resolve clears that session's prompt and touches no other session.
LEMMA ResolveEffect ==
  ASSUME NEW P, NEW led \in LedgersOver(P), NEW s \in Sessions,
         NEW l, l = Record(led, s, Resolved)
  PROVE  /\ l \in LedgersOver(P)
         /\ l.sessions[s].pending = None
         /\ \A t \in Sessions \ {s} : l.sessions[t] = led.sessions[t]
         /\ l.raiseSeq = led.raiseSeq
         /\ l.completedPulse = led.completedPulse
<1> DEFINE entry == [[led.sessions[s] EXCEPT !.pending = None] EXCEPT !.seen = TRUE]
<1>1. led.sessions[s] \in SessionStatesOver(P)
  BY DEF LedgersOver
<1>2. entry \in SessionStatesOver(P) /\ entry.pending = None
  BY <1>1 DEF SessionStatesOver
<1>3. l = [led EXCEPT !.sessions = [@ EXCEPT ![s] = entry]]
  BY DEF Record, Resolved, ResolveSession, SetEntry
<1>4. QED
  <2> HIDE DEF entry
  <2> QED BY <1>2, <1>3 DEF LedgersOver

\* A lifecycle event moves the counts and the pulse and no session's prompt.
LEMMA LifecycleEffect ==
  ASSUME NEW P, NEW led \in LedgersOver(P), NEW s \in Sessions,
         NEW event \in LifecycleEvents,
         NEW l, l = Record(led, s, event)
  PROVE  /\ l \in LedgersOver(P)
         /\ \A t \in Sessions : l.sessions[t].pending = led.sessions[t].pending
         /\ l.raiseSeq = led.raiseSeq
<1> DEFINE Touched(entry) == [entry EXCEPT !.seen = TRUE]
<1>1. led.sessions[s] \in SessionStatesOver(P)
  BY DEF LedgersOver
<1>2. ASSUME NEW entry \in SessionStatesOver(P), entry.pending = led.sessions[s].pending,
             l = SetEntry(led, s, entry)
      PROVE  /\ l \in LedgersOver(P)
             /\ \A t \in Sessions : l.sessions[t].pending = led.sessions[t].pending
             /\ l.raiseSeq = led.raiseSeq
  <2>1. Touched(entry) \in SessionStatesOver(P)
        /\ Touched(entry).pending = led.sessions[s].pending
    BY <1>2 DEF SessionStatesOver
  <2>2. l = [led EXCEPT !.sessions = [@ EXCEPT ![s] = Touched(entry)]]
    BY <1>2 DEF SetEntry
  <2> HIDE DEF Touched
  <2> QED BY <2>1, <2>2 DEF LedgersOver
<1>3. CASE event = Started
  <2> DEFINE entry == [led.sessions[s] EXCEPT !.started = TRUE]
  <2>1. entry \in SessionStatesOver(P) /\ entry.pending = led.sessions[s].pending
    BY <1>1 DEF SessionStatesOver
  <2>2. l = SetEntry(led, s, entry)
    BY <1>3 DEF Record, Started
  <2> HIDE DEF entry
  <2> QED BY <1>2, <2>1, <2>2
<1>4. CASE event = ToolStarted
  <2>1. l = SetEntry(led, s, led.sessions[s])
    BY <1>4 DEF Record, ToolStarted
  <2> QED BY <1>1, <1>2, <2>1
<1>5. CASE event = Completed
  BY <1>5 DEF Record, Completed, LedgersOver
<1>6. CASE event = Stopped
  <2> DEFINE entry == [led.sessions[s] EXCEPT !.stopped = TRUE]
  <2>1. entry \in SessionStatesOver(P) /\ entry.pending = led.sessions[s].pending
    BY <1>1 DEF SessionStatesOver
  <2>2. l = SetEntry(led, s, entry)
    BY <1>6 DEF Record, Stopped
  <2> HIDE DEF entry
  <2> QED BY <1>2, <2>1, <2>2
<1>7. QED BY <1>3, <1>4, <1>5, <1>6 DEF LifecycleEvents

-----------------------------------------------------------------------------
(* The derived prompt.                                                     *)

\* A finite nonempty set has an element whose number none exceeds.
LEMMA FiniteSetHasMax ==
  ASSUME NEW S, IsFiniteSet(S), S # {}, NEW f \in [S -> Nat]
  PROVE  \E s \in S : \A t \in S : f[t] =< f[s]
<1> DEFINE HasMax(U) == \E s \in U : \A t \in U : f[t] =< f[s]
           T == {U \in SUBSET S : U # {} /\ ~HasMax(U)}
<1> SUFFICES ASSUME S \in T PROVE FALSE
  OBVIOUS
<1>1. IsWellFoundedOn(StrictSubsetOrdering(S), SUBSET S)
  BY FS_StrictSubsetOrderingWellFounded, FS_FiniteSubsetsOfFinite
<1>2. PICK U \in T : \A V \in T : ~ (<<V, U>> \in StrictSubsetOrdering(S))
  <2>1. T \subseteq SUBSET S /\ T # {}
    OBVIOUS
  <2> HIDE DEF T
  <2>2. QED BY <1>1, <2>1, WFMin
<1>3. PICK x \in U : TRUE
  OBVIOUS
<1> DEFINE V == U \ {x}
<1>4. V \notin T
  BY <1>2, <1>3 DEF StrictSubsetOrdering
<1>5. CASE V = {}
  BY <1>3, <1>5
<1>6. CASE HasMax(V)
  <2>1. PICK m \in V : \A t \in V : f[t] =< f[m]
    BY <1>6
  <2>2. f[x] \in Nat /\ f[m] \in Nat /\ \A t \in U : f[t] \in Nat
    OBVIOUS
  <2>3. CASE f[x] =< f[m]
    <3>1. \A t \in U : f[t] =< f[m]
      BY <2>1, <2>3
    <3>2. QED BY <3>1
  <2>4. CASE f[m] =< f[x]
    <3>1. \A t \in U : f[t] =< f[x]
      BY <2>1, <2>2, <2>4
    <3>2. QED BY <3>1
  <2>5. QED BY <2>2, <2>3, <2>4
<1>7. QED BY <1>4, <1>5, <1>6

\* While a session pends, the newest is one that pends.
LEMMA NewestExists ==
  ASSUME NEW P, NEW led \in LedgersOver(P), Waiting(led) # {}
  PROVE  /\ Newest(led) \in Waiting(led)
         /\ \A t \in Waiting(led) :
              led.sessions[t].pending.seq =< led.sessions[Newest(led)].pending.seq
<1> DEFINE W == Waiting(led)
           f == [s \in W |-> led.sessions[s].pending.seq]
<1>1. IsFiniteSet(W)
  BY SessionsAssumption, FS_Subset DEF Waiting
<1>2. f \in [W -> Nat]
  BY PendingIsNotNone DEF Waiting
<1>3. \E s \in W : \A t \in W : f[t] =< f[s]
  <2> HIDE DEF f, W
  <2> QED BY <1>1, <1>2, FiniteSetHasMax DEF W
<1>4. \E s \in W : \A t \in W : led.sessions[t].pending.seq =< led.sessions[s].pending.seq
  BY <1>3
<1>5. QED
  BY <1>4 DEF Newest

\* ledger.rs: a prompt is outstanding if and only if a session pends.
LEMMA OutstandingIff ==
  ASSUME NEW P, None \notin P, NEW led \in LedgersOver(P)
  PROVE  OutstandingPrompt(led) = None <=> Waiting(led) = {}
<1>1. CASE Waiting(led) = {}
  BY <1>1 DEF OutstandingPrompt
<1>2. CASE Waiting(led) # {}
  <2>1. Newest(led) \in Sessions /\ led.sessions[Newest(led)].pending # None
    BY <1>2, NewestExists DEF Waiting
  <2>2. led.sessions[Newest(led)].pending.prompt \in P
    BY <2>1, PendingIsNotNone
  <2>3. QED BY <1>2, <2>2 DEF OutstandingPrompt
<1>3. QED BY <1>1, <1>2

\* The count in the packet is zero if and only if no session pends.
LEMMA WaitingCountIff ==
  ASSUME NEW led
  PROVE  CapU8(Cardinality(Waiting(led))) = 0 <=> Waiting(led) = {}
<1>1. IsFiniteSet(Waiting(led))
  BY SessionsAssumption, FS_Subset DEF Waiting
<1>2. Cardinality(Waiting(led)) \in Nat
  BY <1>1, FS_CardinalityType
<1>3. Cardinality(Waiting(led)) = 0 <=> Waiting(led) = {}
  BY <1>1, FS_EmptySet
<1>4. QED
  BY <1>2, <1>3, WidthAssumption DEF CapU8

\* What a gated snapshot says of prompts.
LEMMA GatedSnapshotPrompt ==
  ASSUME NEW P, None \notin P, NEW led \in LedgersOver(P)
  PROVE  /\ GatedSnapshot(led).prompt = None <=> Waiting(led) = {}
         /\ GatedSnapshot(led).waiting = 0 <=> Waiting(led) = {}
<1> DEFINE packet == Synthesize(led)
           l == AfterSynthesis(led)
<1>1. l \in LedgersOver(P) /\ l.sessions = led.sessions
  BY DEF AfterSynthesis, LedgersOver
<1>2. Waiting(l) = Waiting(led)
  BY <1>1 DEF Waiting
<1>3. packet.prompt = OutstandingPrompt(led) /\ packet.waiting = CapU8(Cardinality(Waiting(led)))
  BY DEF Synthesize
<1>4. /\ [packet EXCEPT !.prompt = OutstandingPrompt(l)].prompt = OutstandingPrompt(l)
      /\ [packet EXCEPT !.prompt = OutstandingPrompt(l)].waiting = packet.waiting
  BY DEF Synthesize
<1> HIDE DEF packet, l
<1>5. OutstandingPrompt(l) = None <=> Waiting(led) = {}
  BY <1>1, <1>2, OutstandingIff
<1>6. packet.prompt = None <=> Waiting(led) = {}
  BY <1>3, OutstandingIff
<1>7. packet.waiting = 0 <=> Waiting(led) = {}
  BY <1>3, WaitingCountIff
<1>8. GatedSnapshot(led) = IF OutstandingPrompt(l) = None
                              THEN packet ELSE [packet EXCEPT !.prompt = OutstandingPrompt(l)]
  BY DEF GatedSnapshot, Gate, packet, l
<1>9. QED BY <1>4, <1>5, <1>6, <1>7, <1>8

-----------------------------------------------------------------------------
(* Emissions.                                                              *)

\* Clearing the pulse leaves every session alone.
LEMMA AfterSynthesisEffect ==
  ASSUME NEW P, NEW l \in LedgersOver(P)
  PROVE  /\ AfterSynthesis(l) \in LedgersOver(P)
         /\ AfterSynthesis(l).sessions = l.sessions
         /\ AfterSynthesis(l).raiseSeq = l.raiseSeq
  BY DEF AfterSynthesis, LedgersOver

\* What an emission leaves behind.
LEMMA EmissionEffect ==
  ASSUME NEW l \in LedgerType, NEW before, NEW replies, EmitFrom(l, before, replies)
  PROVE  /\ ledger' \in LedgerType
         /\ ledger'.sessions = l.sessions
         /\ DOMAIN effects' = {"lines", "replies"}
         /\ effects'.replies = replies
  BY AfterSynthesisEffect DEF EmitFrom, Effects, LedgerType

\* A fold that resolves nothing and emits at most a snapshot.
LEMMA QuietEmissionEffect ==
  ASSUME NEW l \in LedgerType, EmitIfBonded(l)
  PROVE  /\ ledger' \in LedgerType
         /\ ledger'.sessions = l.sessions
         /\ DOMAIN effects' = {"lines", "replies"}
         /\ effects'.replies = NoReplies
<1>1. CASE bonded
  BY <1>1, EmissionEffect DEF EmitIfBonded
<1>2. CASE ~bonded
  BY <1>2 DEF EmitIfBonded, NoEffects, Effects
<1>3. QED BY <1>1, <1>2

-----------------------------------------------------------------------------
(* Type correctness.                                                       *)

\* A fold that answers nobody and asks for nothing.
LEMMA NothingType ==
  /\ DOMAIN NoReplies = {}
  /\ NoReplies \in [DOMAIN NoReplies -> Replies]
  /\ DOMAIN NoEffects = {"lines", "replies"}
  /\ NoEffects.replies = NoReplies
  /\ DOMAIN NoPending = {}
  /\ NoPending \in [DOMAIN NoPending -> [hook : Hooks, session : Sessions]]
<1>1. DOMAIN NoEffects = {"lines", "replies"} /\ NoEffects.replies = NoReplies
  BY DEF NoEffects, Effects
<1>2. QED
  BY <1>1 DEF NoReplies, NoPending

\* The initial state has its types.
LEMMA TypeInit == ActorInit => TypeOK
<1>1. NewLedger \in LedgerType
  BY DEF NewLedger, LedgerType, LedgersOver, Unseen, SessionStatesOver
<1> SUFFICES ASSUME ActorInit PROVE TypeOK
  OBVIOUS
<1>2. /\ bonded \in BOOLEAN /\ promptSeq \in Nat /\ linkOut \in BOOLEAN
      /\ waiters \subseteq Hooks /\ asked \subseteq Hooks
      /\ pending = NoPending /\ ledger = NewLedger /\ effects = NoEffects
  BY DEF ActorInit, CoordinatorInit
<1>3. DOMAIN pending \subseteq Nat /\ pending \in [DOMAIN pending -> [hook : Hooks, session : Sessions]]
  BY <1>2, NothingType
<1>4. /\ DOMAIN effects = {"lines", "replies"}
      /\ DOMAIN effects.replies \subseteq Hooks
      /\ effects.replies \in [DOMAIN effects.replies -> Replies]
  BY <1>2, NothingType
<1>5. QED
  BY <1>1, <1>2, <1>3, <1>4 DEF TypeOK

\* Every step, whatever input it takes, keeps every variable in its type.
LEMMA TypeStep == TypeOK /\ [Next]_daemonVars => TypeOK'
<1> SUFFICES ASSUME TypeOK, [Next]_daemonVars PROVE TypeOK'
  OBVIOUS
<1> USE NothingType
<1>1. CASE LinkComesUp
  <2>1. /\ ledger' \in LedgerType
        /\ DOMAIN effects' = {"lines", "replies"}
        /\ effects'.replies = NoReplies
    BY <1>1, EmissionEffect DEF LinkComesUp, StepLinkUp, OnLinkUp, TypeOK
  <2>2. QED
    BY <1>1, <2>1 DEF LinkComesUp, StepLinkUp, OnLinkUp, TypeOK
<1>2. CASE LinkGoesDown
  <2>1. ledger' \in LedgerType
    <3> DEFINE drained == {d.session : d \in Range(pending)}
               after == [s \in Sessions |-> IF s \in drained
                           THEN [ledger.sessions[s] EXCEPT !.seen = TRUE, !.pending = None]
                           ELSE ledger.sessions[s]]
    <3>1. ledger' = [ledger EXCEPT !.sessions = after]
      BY <1>2 DEF LinkGoesDown, StepLinkDown, OnLinkDown
    <3>2. after \in [Sessions -> SessionStatesOver(Prompts)]
      <4> HIDE DEF drained
      <4>1. ASSUME NEW s \in Sessions PROVE after[s] \in SessionStatesOver(Prompts)
        <5>1. ledger.sessions[s] \in SessionStatesOver(Prompts)
          BY DEF TypeOK, LedgerType, LedgersOver
        <5>2. QED BY <5>1 DEF SessionStatesOver
      <4> QED BY <4>1
    <3> HIDE DEF after
    <3> QED BY <3>1, <3>2 DEF TypeOK, LedgerType, LedgersOver
  <2>2. /\ DOMAIN effects' = {"lines", "replies"}
        /\ DOMAIN effects'.replies = {d.hook : d \in Range(pending)}
        /\ effects'.replies \in [DOMAIN effects'.replies -> Replies]
    BY <1>2 DEF LinkGoesDown, StepLinkDown, OnLinkDown, Effects, Replies
  <2>3. {d.hook : d \in Range(pending)} \subseteq Hooks
    BY DEF TypeOK, Range
  <2>4. DOMAIN pending' = {}
    BY <1>2 DEF LinkGoesDown, StepLinkDown, OnLinkDown, NoPending
  <2>5. pending' \in [DOMAIN pending' -> [hook : Hooks, session : Sessions]]
    BY <1>2, <2>4 DEF LinkGoesDown, StepLinkDown, OnLinkDown, NoPending
  <2>6. QED
    BY <1>2, <2>1, <2>2, <2>3, <2>4, <2>5 DEF LinkGoesDown, StepLinkDown, OnLinkDown, TypeOK
<1>3. CASE DeviceSpeaks
  <2> PICK response : StepDeviceLine(response)
    BY <1>3 DEF DeviceSpeaks
  <2>1. CASE response = None \/ response.id \notin DOMAIN pending
    BY <2>1 DEF StepDeviceLine, OnDeviceLine, TypeOK
  <2>2. CASE ~(response = None \/ response.id \notin DOMAIN pending)
    <3> DEFINE decided == pending[response.id]
               l == Record(ledger, decided.session, Resolved)
               replies == [h \in {decided.hook} |-> ReplyFor(response.decision)]
    <3>1. decided \in [hook : Hooks, session : Sessions]
      BY <2>2 DEF TypeOK
    <3>2. l \in LedgerType
      BY <3>1, ResolveEffect DEF TypeOK, LedgerType
    <3>3. EmitFrom(l, << >>, replies)
      BY <2>2 DEF StepDeviceLine, OnDeviceLine
    <3>4. replies \in [{decided.hook} -> Replies]
      BY DEF Replies, ReplyFor
    <3>5. pending' = Restrict(pending, DOMAIN pending \ {response.id})
      BY <2>2 DEF StepDeviceLine, OnDeviceLine
    <3>6. /\ DOMAIN pending' \subseteq DOMAIN pending
          /\ pending' \in [DOMAIN pending' -> [hook : Hooks, session : Sessions]]
      BY <3>5 DEF Restrict, TypeOK
    <3>7. UNCHANGED <<bonded, promptSeq, linkOut, asked>> /\ waiters' \subseteq waiters
      BY <2>2 DEF StepDeviceLine, OnDeviceLine
    <3> HIDE DEF l, replies
    <3>8. /\ ledger' \in LedgerType
          /\ DOMAIN effects' = {"lines", "replies"}
          /\ effects'.replies = replies
      BY <3>2, <3>3, EmissionEffect
    <3>9. QED BY <3>1, <3>4, <3>6, <3>7, <3>8 DEF TypeOK
  <2>3. QED BY <2>1, <2>2
<1>4. CASE StepKeepalive
  BY <1>4, QuietEmissionEffect DEF StepKeepalive, OnKeepalive, TypeOK
<1>5. CASE SessionSpeaks
  <2> PICK s \in Sessions, event \in SessionEvents : StepSessionEvent(s, event)
    BY <1>5 DEF SessionSpeaks
  <2> DEFINE l == IF event \in LifecycleEvents THEN Record(ledger, s, event) ELSE ledger
  <2>1. l \in LedgerType
    BY LifecycleEffect DEF TypeOK, LedgerType
  <2>2. EmitIfBonded(l) /\ UNCHANGED <<bonded, promptSeq, pending, waiters, linkOut, asked>>
    BY DEF StepSessionEvent, OnSessionEvent
  <2> HIDE DEF l
  <2>3. QED BY <2>1, <2>2, QuietEmissionEffect DEF TypeOK
<1>6. ASSUME NEW h \in Hooks, HookArrives(h)
      PROVE  TypeOK'
  <2> DEFINE prompt == [id |-> promptSeq, call |-> h]
             l == Record(ledger, SessionOf[h], AwaitingApproval(prompt))
             entry == [hook |-> h, session |-> SessionOf[h]]
  <2>1. CASE ~bonded
    BY <1>6, <2>1 DEF HookArrives, StepHook, OnHook, Effects, TypeOK, Replies
  <2>2. CASE bonded
    <3>1. SessionOf[h] \in Sessions /\ prompt \in Prompts /\ entry \in [hook : Hooks, session : Sessions]
      BY SessionOfAssumption DEF TypeOK, Prompts
    <3>2. l \in LedgerType
      BY <3>1, RaiseEffect DEF TypeOK, LedgerType
    <3>3. /\ EmitFrom(l, << >>, NoReplies)
          /\ pending' = Insert(pending, promptSeq, entry)
          /\ promptSeq' = promptSeq + 1
          /\ UNCHANGED <<bonded, linkOut>>
          /\ waiters' \subseteq waiters \cup {h}
          /\ asked' = asked \cup {h}
      BY <1>6, <2>2 DEF HookArrives, StepHook, OnHook
    <3> HIDE DEF l, entry
    <3>4. /\ DOMAIN pending' = DOMAIN pending \cup {promptSeq}
          /\ pending' \in [DOMAIN pending' -> [hook : Hooks, session : Sessions]]
      BY <3>1, <3>3 DEF TypeOK, Insert
    <3>5. /\ ledger' \in LedgerType
          /\ DOMAIN effects' = {"lines", "replies"}
          /\ effects'.replies = NoReplies
      BY <3>2, <3>3, EmissionEffect
    <3>6. QED BY <3>3, <3>4, <3>5 DEF TypeOK
  <2>3. QED BY <2>1, <2>2
<1>7. CASE UNCHANGED daemonVars
  BY <1>7 DEF TypeOK, daemonVars
<1>8. QED
  BY <1>1, <1>2, <1>3, <1>4, <1>5, <1>6, <1>7 DEF Next, EnvironmentNext

\* The daemon's state always has the type the code gives it.
THEOREM TypeCorrect == Spec => []TypeOK
<1>1. QED BY TypeInit, TypeStep, PTL DEF Spec

-----------------------------------------------------------------------------
(* The bookkeeping: pending map, oneshots and ledger agree.                *)

\* A daemon that has just started pends nothing and knows no id.
LEMMA BookkeepingInit == ActorInit => Bookkeeping
<1> SUFFICES ASSUME ActorInit PROVE Bookkeeping
  OBVIOUS
<1>1. waiters = {} /\ asked = {} /\ DOMAIN pending = {} /\ ~linkOut
  BY NothingType DEF ActorInit, CoordinatorInit
<1>2. Waiting(ledger) = {}
  BY DEF ActorInit, CoordinatorInit, NewLedger, Unseen, Waiting
<1>3. QED
  BY <1>1, <1>2 DEF Bookkeeping, IdsWereMinted, WaitersHaveAsked, ShownPromptIsAnswerable,
                    EveryWaiterHasOnePrompt, NothingPendsUnbonded

\* A step that leaves every prompt, every oneshot and the link alone, and may
\* move anything else.
LEMMA Undisturbed ==
  ASSUME Bookkeeping,
         UNCHANGED <<promptSeq, pending, waiters, linkOut, asked>>,
         bonded => bonded',
         \A s \in Sessions : ledger'.sessions[s].pending = ledger.sessions[s].pending
  PROVE  Bookkeeping'
<1>1. Waiting(ledger') = Waiting(ledger)
  BY DEF Waiting
<1>2. ShownPromptIsAnswerable'
  BY <1>1 DEF Bookkeeping, ShownPromptIsAnswerable, Waiting
<1>3. NothingPendsUnbonded'
  BY <1>1 DEF Bookkeeping, NothingPendsUnbonded
<1>4. QED
  BY <1>2, <1>3 DEF Bookkeeping, IdsWereMinted, WaitersHaveAsked, EveryWaiterHasOnePrompt

\* Hooks, answers, link events, ticks and session events keep the coordinator's
\* map, the ledger and the oneshots in agreement.
LEMMA BookkeepingStep ==
  TypeOK /\ Bookkeeping /\ [Next]_daemonVars => Bookkeeping'
<1> SUFFICES ASSUME TypeOK, Bookkeeping, [Next]_daemonVars PROVE Bookkeeping'
  OBVIOUS
<1> USE NothingType
<1>1. CASE LinkComesUp
  <2>1. ledger'.sessions = ledger.sessions /\ effects'.replies = NoReplies
    BY <1>1, EmissionEffect DEF LinkComesUp, StepLinkUp, OnLinkUp, TypeOK
  <2>2. /\ bonded' = TRUE
        /\ UNCHANGED <<promptSeq, pending, waiters, asked>>
    BY <1>1, <2>1 DEF LinkComesUp, StepLinkUp, OnLinkUp, Answered
  <2>3. Waiting(ledger') = Waiting(ledger)
    BY <2>1 DEF Waiting
  <2>4. ShownPromptIsAnswerable'
    BY <2>1, <2>2, <2>3 DEF Bookkeeping, ShownPromptIsAnswerable
  <2>5. QED
    BY <2>2, <2>4 DEF Bookkeeping, IdsWereMinted, WaitersHaveAsked, EveryWaiterHasOnePrompt,
                      NothingPendsUnbonded
<1>2. CASE LinkGoesDown
  <2>1. /\ pending' = NoPending /\ linkOut' = FALSE /\ asked' = asked
        /\ DOMAIN effects'.replies = {d.hook : d \in Range(pending)}
        /\ waiters' = waiters \ DOMAIN effects'.replies
    BY <1>2 DEF LinkGoesDown, StepLinkDown, OnLinkDown, Effects, Answered
  <2>2. waiters' = {}
    BY <2>1 DEF Bookkeeping, EveryWaiterHasOnePrompt, Range
  <2>3. Waiting(ledger') = {}
    <3> SUFFICES ASSUME NEW s \in Sessions PROVE ledger'.sessions[s].pending = None
      BY DEF Waiting
    <3> DEFINE drained == {d.session : d \in Range(pending)}
    <3>1. ledger'.sessions[s] = IF s \in drained
                                THEN [ledger.sessions[s] EXCEPT !.seen = TRUE, !.pending = None]
                                ELSE ledger.sessions[s]
      BY <1>2 DEF LinkGoesDown, StepLinkDown, OnLinkDown, TypeOK, LedgerType, LedgersOver
    <3>2. CASE s \in drained
      <4>1. ledger.sessions[s] \in SessionStatesOver(Prompts)
        BY DEF TypeOK, LedgerType, LedgersOver
      <4>2. QED
        BY <3>1, <3>2, <4>1 DEF SessionStatesOver
    <3>3. CASE s \notin drained
      <4>1. ledger.sessions[s].pending = None
        <5> SUFFICES ASSUME s \in Waiting(ledger) PROVE FALSE
          BY DEF Waiting
        <5> DEFINE id == ledger.sessions[s].pending.prompt.id
        <5>0. /\ id \in DOMAIN pending
              /\ pending[id] = [hook |-> ledger.sessions[s].pending.prompt.call, session |-> s]
          BY DEF Bookkeeping, ShownPromptIsAnswerable
        <5>1. id \in DOMAIN pending /\ pending[id].session = s
          BY <5>0
        <5>2. pending[id] \in Range(pending)
          BY <5>1 DEF Range
        <5> HIDE DEF id
        <5> QED BY <3>3, <5>1, <5>2
      <4>2. QED BY <3>1, <3>3, <4>1
    <3>4. QED BY <3>2, <3>3
  <2>4. IdsWereMinted' /\ WaitersHaveAsked' /\ ShownPromptIsAnswerable'
    BY <2>1, <2>2, <2>3 DEF IdsWereMinted, WaitersHaveAsked, ShownPromptIsAnswerable
  <2>5. EveryWaiterHasOnePrompt'
    BY <2>1, <2>2 DEF EveryWaiterHasOnePrompt
  <2>6. QED
    BY <2>1, <2>2, <2>3, <2>4, <2>5 DEF Bookkeeping, NothingPendsUnbonded
<1>3. CASE DeviceSpeaks
  <2> PICK response : StepDeviceLine(response)
    BY <1>3 DEF DeviceSpeaks
  <2>1. CASE response = None \/ response.id \notin DOMAIN pending
    <3>1. UNCHANGED <<bonded, promptSeq, pending, ledger, linkOut, asked>>
          /\ effects' = NoEffects
      BY <2>1 DEF StepDeviceLine, OnDeviceLine
    <3>2. waiters' = waiters
      BY <2>1, <3>1 DEF StepDeviceLine, Answered
    <3>3. QED BY <3>1, <3>2, Undisturbed
  <2>2. CASE ~(response = None \/ response.id \notin DOMAIN pending)
    <3> DEFINE decided == pending[response.id]
               l == Record(ledger, decided.session, Resolved)
               replies == [h \in {decided.hook} |-> ReplyFor(response.decision)]
    <3>1. decided \in [hook : Hooks, session : Sessions]
      BY <2>2 DEF TypeOK
    <3>2. /\ l \in LedgerType
          /\ l.sessions[decided.session].pending = None
          /\ \A t \in Sessions \ {decided.session} : l.sessions[t] = ledger.sessions[t]
      BY <3>1, ResolveEffect DEF TypeOK, LedgerType
    <3>3. /\ EmitFrom(l, << >>, replies)
          /\ pending' = Restrict(pending, DOMAIN pending \ {response.id})
          /\ UNCHANGED <<bonded, promptSeq, linkOut, asked>>
          /\ waiters' = waiters \ DOMAIN effects'.replies
      BY <2>2 DEF StepDeviceLine, OnDeviceLine, Answered
    <3>4. DOMAIN replies = {decided.hook}
      OBVIOUS
    <3> HIDE DEF l, replies
    <3>5. ledger'.sessions = l.sessions /\ effects'.replies = replies
      BY <3>2, <3>3, EmissionEffect
    <3>6. /\ DOMAIN pending' = DOMAIN pending \ {response.id}
          /\ \A id \in DOMAIN pending' : pending'[id] = pending[id]
      BY <3>3 DEF Restrict
    <3>7. waiters' = waiters \ {decided.hook}
      BY <3>3, <3>4, <3>5
    <3>8. EveryWaiterHasOnePrompt'
      BY <2>2, <3>6, <3>7 DEF Bookkeeping, EveryWaiterHasOnePrompt
    <3>9. Waiting(ledger') = Waiting(ledger) \ {decided.session}
      BY <3>1, <3>2, <3>5 DEF Waiting
    <3>10. ShownPromptIsAnswerable'
      <4> SUFFICES ASSUME NEW s \in Waiting(ledger) \ {decided.session}
                   PROVE  LET prompt == ledger'.sessions[s].pending.prompt
                          IN /\ prompt.id \in DOMAIN pending'
                             /\ pending'[prompt.id] = [hook |-> prompt.call, session |-> s]
        BY <3>9 DEF ShownPromptIsAnswerable
      <4>1. ledger'.sessions[s] = ledger.sessions[s]
        BY <3>2, <3>5 DEF Waiting
      <4> DEFINE prompt == ledger.sessions[s].pending.prompt
      <4>2. prompt.id \in DOMAIN pending /\ pending[prompt.id] = [hook |-> prompt.call, session |-> s]
        BY DEF Bookkeeping, ShownPromptIsAnswerable
      <4>3. prompt.id # response.id
        BY <4>2
      <4>4. QED
        BY <3>6, <4>1, <4>2, <4>3
    <3>11. NothingPendsUnbonded'
      BY <3>3, <3>7, <3>9 DEF Bookkeeping, NothingPendsUnbonded
    <3>12. QED
      BY <3>3, <3>6, <3>7, <3>8, <3>10, <3>11
      DEF Bookkeeping, IdsWereMinted, WaitersHaveAsked
  <2>3. QED BY <2>1, <2>2
<1>4. CASE StepKeepalive
  <2>1. ledger'.sessions = ledger.sessions /\ effects'.replies = NoReplies
    BY <1>4, QuietEmissionEffect DEF StepKeepalive, OnKeepalive, TypeOK
  <2>2. UNCHANGED <<bonded, promptSeq, pending, waiters, linkOut, asked>>
    BY <1>4, <2>1 DEF StepKeepalive, OnKeepalive, Answered
  <2>3. QED BY <2>1, <2>2, Undisturbed
<1>5. CASE SessionSpeaks
  <2> PICK s \in Sessions, event \in SessionEvents : StepSessionEvent(s, event)
    BY <1>5 DEF SessionSpeaks
  <2> DEFINE l == IF event \in LifecycleEvents THEN Record(ledger, s, event) ELSE ledger
  <2>1. l \in LedgerType /\ \A t \in Sessions : l.sessions[t].pending = ledger.sessions[t].pending
    BY LifecycleEffect DEF TypeOK, LedgerType
  <2>2. EmitIfBonded(l) /\ UNCHANGED <<bonded, promptSeq, pending, waiters, linkOut, asked>>
    BY DEF StepSessionEvent, OnSessionEvent
  <2> HIDE DEF l
  <2>3. ledger'.sessions = l.sessions
    BY <2>1, <2>2, QuietEmissionEffect
  <2>4. QED BY <2>1, <2>2, <2>3, Undisturbed
<1>6. ASSUME NEW h \in Hooks, HookArrives(h)
      PROVE  Bookkeeping'
  <2> DEFINE session == SessionOf[h]
             prompt == [id |-> promptSeq, call |-> h]
             l == Record(ledger, session, AwaitingApproval(prompt))
             entry == [hook |-> h, session |-> session]
  <2>1. CASE ~bonded
    <3>1. /\ UNCHANGED <<bonded, promptSeq, pending, ledger, linkOut>>
          /\ DOMAIN effects'.replies = {h}
          /\ waiters' = (waiters \cup {h}) \ DOMAIN effects'.replies
          /\ asked' = asked \cup {h}
      BY <1>6, <2>1 DEF HookArrives, StepHook, OnHook, Effects, Answered
    <3>2. waiters' = waiters
      BY <1>6, <3>1 DEF Bookkeeping, WaitersHaveAsked, HookArrives
    <3>3. IdsWereMinted' /\ WaitersHaveAsked' /\ EveryWaiterHasOnePrompt'
      <4>1. IdsWereMinted'
        BY <3>1 DEF Bookkeeping, IdsWereMinted
      <4>2. WaitersHaveAsked'
        BY <3>1, <3>2 DEF Bookkeeping, WaitersHaveAsked
      <4>3. EveryWaiterHasOnePrompt'
        <5>1. pending' = pending
          BY <3>1
        <5>2. QED BY <3>2, <5>1 DEF Bookkeeping, EveryWaiterHasOnePrompt
      <4>4. QED BY <4>1, <4>2, <4>3
    <3>4. Waiting(ledger') = Waiting(ledger)
      BY <3>1
    <3>5. ShownPromptIsAnswerable'
      BY <3>1, <3>4 DEF Bookkeeping, ShownPromptIsAnswerable
    <3>6. NothingPendsUnbonded'
      BY <3>1, <3>2, <3>4 DEF Bookkeeping, NothingPendsUnbonded
    <3>7. QED
      BY <3>3, <3>5, <3>6 DEF Bookkeeping
  <2>2. CASE bonded
    <3>1. session \in Sessions /\ prompt \in Prompts
      BY SessionOfAssumption DEF TypeOK, Prompts
    <3>2. /\ l \in LedgerType
          /\ l.sessions[session].pending = [seq |-> ledger.raiseSeq + 1, prompt |-> prompt]
          /\ \A t \in Sessions \ {session} : l.sessions[t] = ledger.sessions[t]
      BY <3>1, RaiseEffect DEF TypeOK, LedgerType
    <3>3. /\ EmitFrom(l, << >>, NoReplies)
          /\ pending' = Insert(pending, promptSeq, entry)
          /\ promptSeq' = promptSeq + 1
          /\ UNCHANGED <<bonded, linkOut>>
          /\ waiters' = (waiters \cup {h}) \ DOMAIN effects'.replies
          /\ asked' = asked \cup {h}
          /\ h \notin asked
      BY <1>6, <2>2 DEF HookArrives, StepHook, OnHook, Answered
    <3> HIDE DEF l
    <3>4. ledger'.sessions = l.sessions /\ waiters' = waiters \cup {h}
      BY <3>2, <3>3, EmissionEffect
    <3>5. promptSeq \notin DOMAIN pending /\ promptSeq \in Nat
      BY DEF Bookkeeping, IdsWereMinted, TypeOK
    <3>6. /\ DOMAIN pending' = DOMAIN pending \cup {promptSeq}
          /\ pending'[promptSeq] = entry
          /\ \A id \in DOMAIN pending : pending'[id] = pending[id]
      BY <3>3, <3>5 DEF Insert
    <3>7. \A id \in DOMAIN pending : pending[id].hook # h
      BY <3>3 DEF Bookkeeping, WaitersHaveAsked, EveryWaiterHasOnePrompt
    <3>8. EveryWaiterHasOnePrompt'
      <4>1. waiters' = {pending'[id].hook : id \in DOMAIN pending'}
        BY <3>4, <3>6 DEF Bookkeeping, EveryWaiterHasOnePrompt
      <4>2. ASSUME NEW i \in DOMAIN pending', NEW j \in DOMAIN pending',
                   pending'[i].hook = pending'[j].hook
            PROVE  i = j
        BY <3>6, <3>7, <4>2 DEF Bookkeeping, EveryWaiterHasOnePrompt
      <4>3. QED BY <4>1, <4>2 DEF EveryWaiterHasOnePrompt
    <3>9. ShownPromptIsAnswerable'
      <4> SUFFICES ASSUME NEW s \in Waiting(ledger')
                   PROVE  LET p == ledger'.sessions[s].pending.prompt
                          IN /\ p.id \in DOMAIN pending'
                             /\ pending'[p.id] = [hook |-> p.call, session |-> s]
        BY DEF ShownPromptIsAnswerable
      <4>1. CASE s = session
        BY <3>2, <3>4, <3>6, <4>1
      <4>2. CASE s # session
        <5>1. s \in Waiting(ledger) /\ ledger'.sessions[s] = ledger.sessions[s]
          BY <3>2, <3>4, <4>2 DEF Waiting
        <5>2. QED
          BY <3>6, <5>1 DEF Bookkeeping, ShownPromptIsAnswerable
      <4>3. QED BY <4>1, <4>2
    <3>10. IdsWereMinted'
      BY <3>3, <3>5, <3>6 DEF Bookkeeping, IdsWereMinted, TypeOK
    <3>11. WaitersHaveAsked' /\ NothingPendsUnbonded'
      BY <2>2, <3>3, <3>4 DEF Bookkeeping, WaitersHaveAsked, NothingPendsUnbonded
    <3>12. QED
      BY <3>8, <3>9, <3>10, <3>11 DEF Bookkeeping
  <2>3. QED BY <2>1, <2>2
<1>7. CASE UNCHANGED daemonVars
  BY <1>7, Undisturbed DEF daemonVars
<1>8. QED
  BY <1>1, <1>2, <1>3, <1>4, <1>5, <1>6, <1>7 DEF Next, EnvironmentNext

\* The bookkeeping holds throughout.
LEMMA BookkeepingAlways == Spec => []Bookkeeping
<1>1. QED
  BY TypeInit, TypeStep, BookkeepingInit, BookkeepingStep, PTL DEF Spec

\* Every prompt the ledger can put on the glass is one the coordinator will
\* route: no press on a shown prompt is lost to an unknown id.
THEOREM ShownPromptsAreAnswerable == Spec => []ShownPromptIsAnswerable
<1>1. Bookkeeping => ShownPromptIsAnswerable
  BY DEF Bookkeeping
<1>2. QED BY <1>1, BookkeepingAlways, PTL

\* The actor's oneshots are exactly the hooks the coordinator still pends, each
\* under one id, whatever the interleaving of hooks, presses and link drops.
THEOREM WaitersArePending == Spec => []EveryWaiterHasOnePrompt
<1>1. Bookkeeping => EveryWaiterHasOnePrompt
  BY DEF Bookkeeping
<1>2. QED BY <1>1, BookkeepingAlways, PTL

\* A dead link leaves nobody waiting and no prompt behind.
THEOREM LinkDownLeavesNothing == Spec => []NothingPendsUnbonded
<1>1. Bookkeeping => NothingPendsUnbonded
  BY DEF Bookkeeping
<1>2. QED BY <1>1, BookkeepingAlways, PTL

-----------------------------------------------------------------------------
(* What the emitted snapshots say, against the ledger they came from.      *)

\* What a snapshot says of prompts, it says of the ledger the step leaves: the
\* prompt and the count are there exactly when some session still pends, and the
\* prompt is that ledger's outstanding one.
SnapshotsMatchLedger ==
  \A i \in DOMAIN effects.lines :
    effects.lines[i].kind = "snapshot" =>
      /\ effects.lines[i].packet.prompt = None <=> Waiting(ledger) = {}
      /\ effects.lines[i].packet.waiting = 0 <=> Waiting(ledger) = {}
      /\ effects.lines[i].packet.prompt = OutstandingPrompt(ledger)

\* The handshake puts its snapshot third, after the time and owner lines.
LEMMA AppendToPair ==
  ASSUME NEW a, NEW b, NEW c
  PROVE  /\ DOMAIN Append(<<a, b>>, c) = 1 .. 3
         /\ Append(<<a, b>>, c)[1] = a
         /\ Append(<<a, b>>, c)[2] = b
         /\ Append(<<a, b>>, c)[3] = c
<1> DEFINE S == {a, b, c}
           pair == <<a, b>>
<1>1. pair \in Seq(S) /\ Len(pair) = 2 /\ pair[1] = a /\ pair[2] = b
  OBVIOUS
<1> HIDE DEF pair
<1>2. c \in S
  OBVIOUS
<1> HIDE DEF S
<1>3. QED BY <1>1, <1>2, AppendProperties DEF pair

\* A snapshot emitted after any other lines matches the ledger it came from.
LEMMA EmissionMatches ==
  ASSUME NEW l \in LedgerType, NEW before \in {<< >>, <<TimeLine, OwnerLine>>},
         NEW replies, EmitFrom(l, before, replies)
  PROVE  SnapshotsMatchLedger'
<1> DEFINE snapshot == SnapshotLine(GatedSnapshot(l))
           lines == effects'.lines
<1>1. lines = Append(before, snapshot)
  BY DEF EmitFrom, Effects
<1>2. Waiting(ledger') = Waiting(l)
  BY EmissionEffect DEF Waiting
<1>3. snapshot.packet = GatedSnapshot(l) /\ TimeLine.kind # "snapshot" /\ OwnerLine.kind # "snapshot"
  BY DEF SnapshotLine, TimeLine, OwnerLine
<1>4. /\ GatedSnapshot(l).prompt = None <=> Waiting(l) = {}
      /\ GatedSnapshot(l).waiting = 0 <=> Waiting(l) = {}
  BY GatedSnapshotPrompt, NoneAssumption DEF LedgerType, Prompts
<1>7. /\ ledger'.sessions = l.sessions /\ AfterSynthesis(l).sessions = l.sessions
  BY EmissionEffect, AfterSynthesisEffect DEF LedgerType
<1>8. /\ OutstandingPrompt(ledger') = OutstandingPrompt(l)
      /\ OutstandingPrompt(AfterSynthesis(l)) = OutstandingPrompt(l)
  BY <1>7 DEF OutstandingPrompt, Newest, Waiting
<1>9. GatedSnapshot(l).prompt = OutstandingPrompt(ledger')
  BY <1>8 DEF GatedSnapshot, Gate, Synthesize
<1> HIDE DEF snapshot
<1>5. ASSUME NEW i \in DOMAIN lines, lines[i].kind = "snapshot"
      PROVE  lines[i] = snapshot
  <2>1. CASE before = << >>
    <3>1. lines = <<snapshot>>
      BY <1>1, <2>1
    <3> HIDE DEF lines
    <3>2. QED BY <1>5, <3>1
  <2>2. CASE before = <<TimeLine, OwnerLine>>
    <3> HIDE DEF lines
    <3>1. /\ DOMAIN lines = 1 .. 3 /\ lines[1] = TimeLine /\ lines[2] = OwnerLine
          /\ lines[3] = snapshot
      BY <1>1, <2>2, AppendToPair
    <3>2. QED BY <1>3, <1>5, <3>1
  <2>3. QED BY <2>1, <2>2
<1>6. QED
  BY <1>2, <1>3, <1>4, <1>5, <1>9 DEF SnapshotsMatchLedger

\* A fold that asks for no line says nothing that could be wrong.
LEMMA SilenceMatches ==
  ASSUME NEW replies, effects' = Effects(<< >>, replies)
  PROVE  SnapshotsMatchLedger'
<1>1. effects'.lines = << >>
  BY DEF Effects
<1>2. QED BY <1>1 DEF SnapshotsMatchLedger

\* A fold that emits at most a snapshot says what its ledger says.
LEMMA QuietEmissionMatches ==
  ASSUME NEW l \in LedgerType, EmitIfBonded(l)
  PROVE  SnapshotsMatchLedger'
  BY EmissionMatches, SilenceMatches DEF EmitIfBonded, NoEffects

\* Every step leaves only snapshots that match its ledger.
LEMMA SnapshotsStep ==
  TypeOK /\ SnapshotsMatchLedger /\ [Next]_daemonVars => SnapshotsMatchLedger'
<1> SUFFICES ASSUME TypeOK, SnapshotsMatchLedger, [Next]_daemonVars PROVE SnapshotsMatchLedger'
  OBVIOUS
<1>1. CASE LinkComesUp
  BY <1>1, EmissionMatches DEF LinkComesUp, StepLinkUp, OnLinkUp, TypeOK
<1>2. CASE LinkGoesDown
  BY <1>2, SilenceMatches DEF LinkGoesDown, StepLinkDown, OnLinkDown
<1>3. CASE DeviceSpeaks
  <2> PICK response : StepDeviceLine(response)
    BY <1>3 DEF DeviceSpeaks
  <2>1. CASE response = None \/ response.id \notin DOMAIN pending
    BY <2>1, SilenceMatches DEF StepDeviceLine, OnDeviceLine, NoEffects
  <2>2. CASE ~(response = None \/ response.id \notin DOMAIN pending)
    <3>1. Record(ledger, pending[response.id].session, Resolved) \in LedgerType
      BY <2>2, ResolveEffect DEF TypeOK, LedgerType
    <3>2. QED
      BY <2>2, <3>1, EmissionMatches DEF StepDeviceLine, OnDeviceLine
  <2>3. QED BY <2>1, <2>2
<1>4. CASE StepKeepalive
  BY <1>4, QuietEmissionMatches DEF StepKeepalive, OnKeepalive, TypeOK
<1>5. CASE SessionSpeaks
  <2> PICK s \in Sessions, event \in SessionEvents : StepSessionEvent(s, event)
    BY <1>5 DEF SessionSpeaks
  <2> DEFINE l == IF event \in LifecycleEvents THEN Record(ledger, s, event) ELSE ledger
  <2>1. l \in LedgerType
    BY LifecycleEffect DEF TypeOK, LedgerType
  <2>2. EmitIfBonded(l)
    BY DEF StepSessionEvent, OnSessionEvent
  <2>3. QED BY <2>1, <2>2, QuietEmissionMatches
<1>6. ASSUME NEW h \in Hooks, HookArrives(h)
      PROVE  SnapshotsMatchLedger'
  <2>1. CASE ~bonded
    BY <1>6, <2>1, SilenceMatches DEF HookArrives, StepHook, OnHook
  <2>2. CASE bonded
    <3>1. Record(ledger, SessionOf[h], AwaitingApproval([id |-> promptSeq, call |-> h])) \in LedgerType
      BY RaiseEffect, SessionOfAssumption DEF TypeOK, LedgerType, Prompts
    <3>2. QED
      BY <1>6, <2>2, <3>1, EmissionMatches DEF HookArrives, StepHook, OnHook
  <2>3. QED BY <2>1, <2>2
<1>7. CASE UNCHANGED daemonVars
  BY <1>7 DEF daemonVars, SnapshotsMatchLedger
<1>8. QED
  BY <1>1, <1>2, <1>3, <1>4, <1>5, <1>6, <1>7 DEF Next, EnvironmentNext

\* Initially no snapshot has been asked for.
LEMMA SnapshotsInit == ActorInit => SnapshotsMatchLedger
<1> SUFFICES ASSUME ActorInit PROVE SnapshotsMatchLedger
  OBVIOUS
<1>1. effects.lines = << >>
  BY DEF ActorInit, CoordinatorInit, NoEffects, Effects
<1>2. QED BY <1>1 DEF SnapshotsMatchLedger

\* In every snapshot that leaves the daemon the waiting count is zero exactly
\* when no prompt rides along, whatever widths the counts saturate at.
THEOREM CountAndPromptAgree == Spec => []CountAgreesWithPrompt
<1>1. SnapshotsMatchLedger => CountAgreesWithPrompt
  BY DEF SnapshotsMatchLedger, CountAgreesWithPrompt
<1>2. QED
  BY <1>1, TypeInit, TypeStep, SnapshotsInit, SnapshotsStep, PTL DEF Spec

-----------------------------------------------------------------------------
(* With one call in flight per session.                                    *)

\* The strengthening that makes EveryWaiterIsShown inductive: an approval is filed
\* under the session its request carried.
Shown == EveryWaiterIsShown /\ FiledUnderItsSession

\* Initially nobody waits to be shown.
LEMMA ShownInit == ActorInit => Shown
  BY NothingType DEF ActorInit, CoordinatorInit, Shown, EveryWaiterIsShown, FiledUnderItsSession

\* A step that moves neither the pending map nor any session's prompt keeps it.
LEMMA ShownUndisturbed ==
  ASSUME TypeOK, Shown, UNCHANGED pending,
         \A s \in Sessions : ledger'.sessions[s].pending = ledger.sessions[s].pending
  PROVE  Shown'
<1>1. \A id \in DOMAIN pending : pending[id].session \in Sessions
  BY DEF TypeOK
<1>2. QED
  BY <1>1 DEF Shown, EveryWaiterIsShown, FiledUnderItsSession

\* A step into a state with one call per session keeps every waiter live: a new
\* call has not landed on a session that pends, and an answer resolves the session
\* of that call alone.
LEMMA ShownStep ==
  TypeOK /\ Bookkeeping /\ Shown /\ [Next]_daemonVars /\ OneCallPerSession' => Shown'
<1> SUFFICES ASSUME TypeOK, Bookkeeping, Shown, [Next]_daemonVars, OneCallPerSession'
             PROVE  Shown'
  OBVIOUS
<1>1. CASE LinkComesUp
  <2>1. ledger'.sessions = ledger.sessions /\ UNCHANGED pending
    BY <1>1, EmissionEffect DEF LinkComesUp, StepLinkUp, OnLinkUp, TypeOK
  <2>2. QED BY <2>1, ShownUndisturbed
<1>2. CASE LinkGoesDown
  <2>1. DOMAIN pending' = {}
    BY <1>2, NothingType DEF LinkGoesDown, StepLinkDown, OnLinkDown
  <2>2. QED BY <2>1 DEF Shown, EveryWaiterIsShown, FiledUnderItsSession
<1>3. CASE DeviceSpeaks
  <2> PICK response : StepDeviceLine(response)
    BY <1>3 DEF DeviceSpeaks
  <2>1. CASE response = None \/ response.id \notin DOMAIN pending
    <3>1. UNCHANGED <<pending, ledger>>
      BY <2>1 DEF StepDeviceLine, OnDeviceLine
    <3>2. QED BY <3>1, ShownUndisturbed
  <2>2. CASE ~(response = None \/ response.id \notin DOMAIN pending)
    <3> DEFINE decided == pending[response.id]
               l == Record(ledger, decided.session, Resolved)
               replies == [h \in {decided.hook} |-> ReplyFor(response.decision)]
    <3>1. decided \in [hook : Hooks, session : Sessions]
      BY <2>2 DEF TypeOK
    <3>2. /\ l \in LedgerType
          /\ \A t \in Sessions \ {decided.session} : l.sessions[t] = ledger.sessions[t]
      BY <3>1, ResolveEffect DEF TypeOK, LedgerType
    <3>3. /\ EmitFrom(l, << >>, replies)
          /\ pending' = Restrict(pending, DOMAIN pending \ {response.id})
      BY <2>2 DEF StepDeviceLine, OnDeviceLine
    <3> HIDE DEF l, replies
    <3>4. ledger'.sessions = l.sessions
      BY <3>2, <3>3, EmissionEffect
    <3>5. /\ DOMAIN pending' = DOMAIN pending \ {response.id}
          /\ \A id \in DOMAIN pending' : pending'[id] = pending[id]
      BY <3>3 DEF Restrict
    <3>6. ASSUME NEW id \in DOMAIN pending'
          PROVE  ledger'.sessions[pending'[id].session] = ledger.sessions[pending[id].session]
      <4>1. /\ ledger.sessions[pending[id].session].pending.prompt.id = id
            /\ ledger.sessions[decided.session].pending.prompt.id = response.id
        BY <2>2, <3>5 DEF Shown, EveryWaiterIsShown
      <4>2. pending[id].session \in Sessions \ {decided.session}
        BY <3>5, <4>1 DEF TypeOK
      <4>3. QED BY <3>2, <3>4, <3>5, <4>2
    <3>7. QED
      BY <3>5, <3>6 DEF Shown, EveryWaiterIsShown, FiledUnderItsSession
  <2>3. QED BY <2>1, <2>2
<1>4. CASE StepKeepalive
  <2>1. ledger'.sessions = ledger.sessions /\ UNCHANGED pending
    BY <1>4, QuietEmissionEffect DEF StepKeepalive, OnKeepalive, TypeOK
  <2>2. QED BY <2>1, ShownUndisturbed
<1>5. CASE SessionSpeaks
  <2> PICK s \in Sessions, event \in SessionEvents : StepSessionEvent(s, event)
    BY <1>5 DEF SessionSpeaks
  <2> DEFINE l == IF event \in LifecycleEvents THEN Record(ledger, s, event) ELSE ledger
  <2>1. l \in LedgerType /\ \A t \in Sessions : l.sessions[t].pending = ledger.sessions[t].pending
    BY LifecycleEffect DEF TypeOK, LedgerType
  <2>2. EmitIfBonded(l) /\ UNCHANGED pending
    BY DEF StepSessionEvent, OnSessionEvent
  <2> HIDE DEF l
  <2>3. ledger'.sessions = l.sessions
    BY <2>1, <2>2, QuietEmissionEffect
  <2>4. QED BY <2>1, <2>2, <2>3, ShownUndisturbed
<1>6. ASSUME NEW h \in Hooks, HookArrives(h)
      PROVE  Shown'
  <2> DEFINE session == SessionOf[h]
             prompt == [id |-> promptSeq, call |-> h]
             raised == [seq |-> ledger.raiseSeq + 1, prompt |-> prompt]
             l == Record(ledger, session, AwaitingApproval(prompt))
             entry == [hook |-> h, session |-> session]
  <2>1. CASE ~bonded
    <3>1. UNCHANGED <<pending, ledger>>
      BY <1>6, <2>1 DEF HookArrives, StepHook, OnHook
    <3>2. QED BY <3>1, ShownUndisturbed
  <2>2. CASE bonded
    <3>1. session \in Sessions /\ prompt \in Prompts
      BY SessionOfAssumption DEF TypeOK, Prompts
    <3>2. /\ l \in LedgerType
          /\ l.sessions[session].pending = raised
          /\ \A t \in Sessions \ {session} : l.sessions[t] = ledger.sessions[t]
      BY <3>1, RaiseEffect DEF TypeOK, LedgerType
    <3>3. raised # None /\ raised.prompt.id = promptSeq
      <4>1. raised \in [seq : Nat, prompt : [id : Nat, call : Hooks]]
        BY <3>1 DEF TypeOK, LedgerType, LedgersOver, Prompts
      <4>2. QED BY <4>1, NoneAssumption
    <3>4. /\ EmitFrom(l, << >>, NoReplies)
          /\ pending' = Insert(pending, promptSeq, entry)
      BY <1>6, <2>2 DEF HookArrives, StepHook, OnHook
    <3>a. \A w \in waiters : SessionOf[w] # session
      <4>1. h \notin asked /\ waiters' = (waiters \cup {h}) \ Answered
        BY <1>6 DEF HookArrives, StepHook
      <4>2. Answered = {}
        BY <3>4 DEF Answered, EmitFrom, Effects, NoReplies
      <4>3. h \notin waiters
        BY <4>1 DEF Bookkeeping, WaitersHaveAsked
      <4>4. QED
        BY <4>1, <4>2, <4>3 DEF OneCallPerSession
    <3> HIDE DEF l, raised
    <3>5. ledger'.sessions = l.sessions
      BY <3>2, <3>4, EmissionEffect
    <3>6. promptSeq \notin DOMAIN pending
      BY DEF Bookkeeping, IdsWereMinted, TypeOK
    <3>7. /\ DOMAIN pending' = DOMAIN pending \cup {promptSeq}
          /\ pending'[promptSeq] = entry
          /\ \A id \in DOMAIN pending : pending'[id] = pending[id]
      BY <3>4, <3>6 DEF Insert
    <3>8. \A id \in DOMAIN pending : pending[id].session \in Sessions \ {session}
      BY <3>a DEF Bookkeeping, EveryWaiterHasOnePrompt, TypeOK, Shown, FiledUnderItsSession
    <3>9. EveryWaiterIsShown'
      <4> SUFFICES ASSUME NEW id \in DOMAIN pending'
                   PROVE  LET shown == ledger'.sessions[pending'[id].session].pending
                          IN shown # None /\ shown.prompt.id = id
        BY DEF EveryWaiterIsShown
      <4>1. CASE id = promptSeq
        BY <3>2, <3>3, <3>5, <3>7, <4>1
      <4>2. CASE id # promptSeq
        <5>1. id \in DOMAIN pending /\ pending'[id] = pending[id]
          BY <3>7, <4>2
        <5>2. ledger'.sessions[pending[id].session] = ledger.sessions[pending[id].session]
          BY <3>2, <3>5, <3>8, <5>1
        <5>3. QED BY <5>1, <5>2 DEF Shown, EveryWaiterIsShown
      <4>3. QED BY <4>1, <4>2
    <3>10. FiledUnderItsSession'
      BY <3>7 DEF Shown, FiledUnderItsSession
    <3>11. QED BY <3>9, <3>10 DEF Shown
  <2>3. QED BY <2>1, <2>2
<1>7. CASE UNCHANGED daemonVars
  BY <1>7, ShownUndisturbed DEF daemonVars
<1>8. QED
  BY <1>1, <1>2, <1>3, <1>4, <1>5, <1>6, <1>7 DEF Next, EnvironmentNext

\* All the invariants together hold while no session has two calls in flight.
LEMMA SerialInvariant ==
  Spec /\ []OneCallPerSession
    => [](TypeOK /\ Bookkeeping /\ SnapshotsMatchLedger /\ Shown)
<1>1. QED
  BY TypeInit, TypeStep, BookkeepingInit, BookkeepingStep, SnapshotsInit, SnapshotsStep,
     ShownInit, ShownStep, PTL DEF Spec

\* Without two calls in flight in one session, every waiting hook's own prompt
\* is live in the ledger, and a snapshot without a prompt is only ever sent when
\* nobody waits: no approval is taken off the glass while its hook still blocks.
THEOREM ApprovalsStayUp == Spec => SerialApprovalsStayUp
<1>0. Shown => EveryWaiterIsShown
  BY DEF Shown
<1>1. Bookkeeping /\ SnapshotsMatchLedger /\ Shown /\ TypeOK => NoBareSnapshot
  <2> SUFFICES ASSUME Bookkeeping, SnapshotsMatchLedger, Shown, TypeOK,
                      NEW i \in DOMAIN effects.lines, effects.lines[i].kind = "snapshot",
                      effects.lines[i].packet.prompt = None
               PROVE  waiters = {}
    BY DEF NoBareSnapshot
  <2>1. Waiting(ledger) = {}
    BY DEF SnapshotsMatchLedger
  <2>2. DOMAIN pending = {}
    BY <2>1 DEF Shown, EveryWaiterIsShown, Waiting, TypeOK
  <2>3. QED BY <2>2 DEF Bookkeeping, EveryWaiterHasOnePrompt
<1>2. QED BY <1>0, <1>1, SerialInvariant, PTL DEF SerialApprovalsStayUp

-----------------------------------------------------------------------------
(* The order of prompts.                                                   *)

\* The ledger's raise order and the coordinator's ids are counted by two pieces of
\* code and agree on which of two pending prompts is the newer.
RaisedInOrder ==
  /\ \A s \in Waiting(ledger) : ledger.sessions[s].pending.seq =< ledger.raiseSeq
  /\ \A s, t \in Waiting(ledger) :
       ledger.sessions[s].pending.seq =< ledger.sessions[t].pending.seq
         => ledger.sessions[s].pending.prompt.id =< ledger.sessions[t].pending.prompt.id

\* Emitting a snapshot raises nothing.
LEMMA EmissionKeepsRaiseSeq ==
  ASSUME NEW l \in LedgerType, NEW before, NEW replies,
         EmitFrom(l, before, replies) \/ EmitIfBonded(l)
  PROVE  ledger'.raiseSeq = l.raiseSeq /\ ledger'.sessions = l.sessions
  BY AfterSynthesisEffect DEF EmitFrom, EmitIfBonded, LedgerType

\* Prompts that only go leave the others in order.
LEMMA RaisedUndisturbed ==
  ASSUME RaisedInOrder, ledger'.raiseSeq = ledger.raiseSeq,
         \A s \in Sessions : ledger'.sessions[s].pending \in {None, ledger.sessions[s].pending}
  PROVE  RaisedInOrder'
<1>1. \A s \in Waiting(ledger)' : s \in Waiting(ledger) /\ ledger'.sessions[s].pending = ledger.sessions[s].pending
  BY DEF Waiting
<1>2. QED BY <1>1 DEF RaisedInOrder

\* A hook's prompt is the last in both orders.
LEMMA RaiseKeepsOrder ==
  ASSUME TypeOK, Bookkeeping, RaisedInOrder, NEW h \in Hooks, HookArrives(h)
  PROVE  RaisedInOrder'
<1>1. CASE ~bonded
  BY <1>1, RaisedUndisturbed DEF HookArrives, StepHook, OnHook
<1>2. CASE bonded
  <2> DEFINE session == SessionOf[h]
             prompt == [id |-> promptSeq, call |-> h]
             l == Record(ledger, session, AwaitingApproval(prompt))
             raised == [seq |-> ledger.raiseSeq + 1, prompt |-> prompt]
  <2>1. session \in Sessions /\ prompt \in Prompts /\ ledger \in LedgersOver(Prompts)
    BY SessionOfAssumption DEF TypeOK, Prompts, LedgerType
  <2>2. /\ l \in LedgerType
        /\ l.sessions[session].pending = raised
        /\ \A t \in Sessions \ {session} : l.sessions[t] = ledger.sessions[t]
        /\ l.raiseSeq = ledger.raiseSeq + 1
    BY <2>1, RaiseEffect DEF LedgerType
  <2>3. EmitFrom(l, << >>, NoReplies)
    BY <1>2 DEF HookArrives, StepHook, OnHook
  <2>4. raised.seq = ledger.raiseSeq + 1 /\ raised.prompt.id = promptSeq
    OBVIOUS
  <2> HIDE DEF l, raised
  <2>5. ledger'.sessions = l.sessions /\ ledger'.raiseSeq = l.raiseSeq
    BY <2>2, <2>3, EmissionKeepsRaiseSeq
  <2>6. ledger.raiseSeq \in Nat /\ promptSeq \in Nat
    BY <2>1 DEF LedgersOver, TypeOK
  <2>7. ASSUME NEW s \in Waiting(ledger)
        PROVE  /\ ledger.sessions[s].pending.seq \in Nat
               /\ ledger.sessions[s].pending.prompt.id \in Nat
               /\ ledger.sessions[s].pending.prompt.id < promptSeq
    <3>1. s \in Sessions /\ ledger.sessions[s].pending # None
      BY DEF Waiting
    <3>2. ledger.sessions[s].pending.seq \in Nat /\ ledger.sessions[s].pending.prompt \in Prompts
      BY <2>1, <3>1, PendingIsNotNone
    <3>3. ledger.sessions[s].pending.prompt.id < promptSeq
      BY DEF Bookkeeping, ShownPromptIsAnswerable, IdsWereMinted
    <3>4. QED BY <3>2, <3>3 DEF Prompts
  <2>8. ASSUME NEW s \in Waiting(ledger)'
        PROVE  \/ s = session /\ ledger'.sessions[s].pending = raised
               \/ s \in Waiting(ledger) /\ ledger'.sessions[s].pending = ledger.sessions[s].pending
    BY <2>2, <2>5 DEF Waiting
  <2>9. \A s \in Waiting(ledger)' : ledger'.sessions[s].pending.seq =< ledger'.raiseSeq
    BY <2>2, <2>4, <2>5, <2>6, <2>7, <2>8 DEF RaisedInOrder
  <2>10. ASSUME NEW s \in Waiting(ledger)', NEW t \in Waiting(ledger)',
                ledger'.sessions[s].pending.seq =< ledger'.sessions[t].pending.seq
         PROVE  ledger'.sessions[s].pending.prompt.id =< ledger'.sessions[t].pending.prompt.id
    <3>1. CASE ledger'.sessions[t].pending = raised
      BY <2>4, <2>6, <2>7, <2>8, <3>1
    <3>2. CASE t \in Waiting(ledger) /\ ledger'.sessions[t].pending = ledger.sessions[t].pending
      <4>1. ledger'.sessions[t].pending.seq =< ledger.raiseSeq
        BY <3>2 DEF RaisedInOrder
      <4>2. ledger'.sessions[s].pending # raised
        BY <2>4, <2>6, <2>7, <2>10, <3>2, <4>1
      <4>3. QED BY <2>8, <2>10, <3>2, <4>2 DEF RaisedInOrder
    <3>3. QED BY <2>8, <3>1, <3>2
  <2>11. QED BY <2>9, <2>10 DEF RaisedInOrder
<1>3. QED BY <1>1, <1>2 DEF TypeOK

\* The order of raising survives every step of a serial daemon.
LEMMA RaisedStep ==
  TypeOK /\ Bookkeeping /\ RaisedInOrder /\ [Next]_daemonVars => RaisedInOrder'
<1> SUFFICES ASSUME TypeOK, Bookkeeping, RaisedInOrder, [Next]_daemonVars PROVE RaisedInOrder'
  OBVIOUS
<1>t. ledger \in LedgerType
  BY DEF TypeOK
<1>1. CASE LinkComesUp
  BY <1>t, <1>1, EmissionKeepsRaiseSeq, RaisedUndisturbed DEF LinkComesUp, StepLinkUp, OnLinkUp
<1>2. CASE LinkGoesDown
  <2> DEFINE sessions == {d.session : d \in Range(pending)}
  <2>1. ledger' = [ledger EXCEPT !.sessions =
                     [s \in Sessions |-> IF s \in sessions
                                         THEN [@[s] EXCEPT !.seen = TRUE, !.pending = None]
                                         ELSE @[s]]]
    BY <1>2 DEF LinkGoesDown, StepLinkDown, OnLinkDown
  <2> HIDE DEF sessions
  <2>2. ledger'.raiseSeq = ledger.raiseSeq
        /\ \A s \in Sessions : ledger'.sessions[s].pending \in {None, ledger.sessions[s].pending}
    BY <1>t, <2>1 DEF LedgerType, LedgersOver, SessionStatesOver
  <2>3. QED BY <2>2, RaisedUndisturbed
<1>3. CASE DeviceSpeaks
  <2> PICK response : StepDeviceLine(response)
    BY <1>3 DEF DeviceSpeaks
  <2>1. CASE response = None \/ response.id \notin DOMAIN pending
    BY <2>1, RaisedUndisturbed DEF StepDeviceLine, OnDeviceLine
  <2>2. CASE ~(response = None \/ response.id \notin DOMAIN pending)
    <3> DEFINE s == pending[response.id].session
               l == Record(ledger, s, Resolved)
    <3>1. s \in Sessions
      BY <2>2 DEF TypeOK
    <3>2. /\ l \in LedgerType /\ l.raiseSeq = ledger.raiseSeq
          /\ \A t \in Sessions : l.sessions[t].pending \in {None, ledger.sessions[t].pending}
      BY <1>t, <3>1, ResolveEffect DEF LedgerType
    <3>3. \E replies : EmitFrom(l, << >>, replies)
      BY <2>2 DEF StepDeviceLine, OnDeviceLine
    <3> HIDE DEF l
    <3>4. QED BY <3>2, <3>3, EmissionKeepsRaiseSeq, RaisedUndisturbed
  <2>3. QED BY <2>1, <2>2
<1>4. CASE StepKeepalive
  BY <1>t, <1>4, EmissionKeepsRaiseSeq, RaisedUndisturbed DEF StepKeepalive, OnKeepalive
<1>5. CASE SessionSpeaks
  <2> PICK s \in Sessions, event \in SessionEvents : StepSessionEvent(s, event)
    BY <1>5 DEF SessionSpeaks
  <2> DEFINE l == IF event \in LifecycleEvents THEN Record(ledger, s, event) ELSE ledger
  <2>1. /\ l \in LedgerType /\ l.raiseSeq = ledger.raiseSeq
        /\ \A t \in Sessions : l.sessions[t].pending = ledger.sessions[t].pending
    BY <1>t, LifecycleEffect DEF LedgerType
  <2>2. EmitIfBonded(l)
    BY DEF StepSessionEvent, OnSessionEvent
  <2> HIDE DEF l
  <2>3. QED BY <2>1, <2>2, EmissionKeepsRaiseSeq, RaisedUndisturbed
<1>6. CASE \E h \in Hooks : HookArrives(h)
  BY <1>6, RaiseKeepsOrder
<1>7. CASE UNCHANGED daemonVars
  BY <1>7, RaisedUndisturbed DEF daemonVars
<1>8. QED
  BY <1>1, <1>2, <1>3, <1>4, <1>5, <1>6, <1>7 DEF Next, EnvironmentNext

\* At rest nothing is raised.
LEMMA RaisedInit == ActorInit => RaisedInOrder
  BY DEF ActorInit, CoordinatorInit, NewLedger, Unseen, Waiting, RaisedInOrder

\* Without two calls in flight in one session, the prompt on a snapshot is the
\* newest of those whose hooks wait, in whatever order they came and were answered
\* (ledger.rs, the derived prompt; coordinator.rs, the ids).
THEOREM GlassIsShownTheNewest == Spec => SerialGlassShowsTheNewest
<1>1. TypeOK /\ Bookkeeping /\ SnapshotsMatchLedger /\ Shown /\ RaisedInOrder => GlassShowsTheNewest
  <2> SUFFICES ASSUME TypeOK, Bookkeeping, SnapshotsMatchLedger, Shown, RaisedInOrder,
                      NEW i \in DOMAIN effects.lines, effects.lines[i].kind = "snapshot",
                      effects.lines[i].packet.prompt # None, NEW id \in DOMAIN pending
               PROVE  id =< effects.lines[i].packet.prompt.id
    BY DEF GlassShowsTheNewest
  <2> DEFINE s == pending[id].session
             newest == Newest(ledger)
  <2>1. s \in Waiting(ledger) /\ ledger.sessions[s].pending.prompt.id = id
    BY DEF Shown, EveryWaiterIsShown, Waiting, TypeOK
  <2>2. /\ newest \in Waiting(ledger)
        /\ ledger.sessions[s].pending.seq =< ledger.sessions[newest].pending.seq
    BY <2>1, NewestExists DEF TypeOK, LedgerType
  <2>3. effects.lines[i].packet.prompt = ledger.sessions[newest].pending.prompt
    BY <2>1 DEF SnapshotsMatchLedger, OutstandingPrompt
  <2> HIDE DEF s, newest
  <2>4. QED BY <2>1, <2>2, <2>3 DEF RaisedInOrder
<1>2. Spec /\ []OneCallPerSession => []RaisedInOrder
  BY TypeInit, TypeStep, BookkeepingInit, BookkeepingStep, RaisedInit, RaisedStep, PTL DEF Spec
<1>3. QED BY <1>1, <1>2, SerialInvariant, PTL DEF SerialGlassShowsTheNewest

-----------------------------------------------------------------------------
(* The completion pulse.                                                   *)

\* What the last line of an emission says of the pulse.
LEMMA EmissionCarriesThePulse ==
  ASSUME NEW l \in LedgerType, l.completedPulse, NEW before \in {<< >>, <<TimeLine, OwnerLine>>},
         NEW replies, EmitFrom(l, before, replies)
  PROVE  Pulsed(effects'.lines)
<1> DEFINE line == SnapshotLine(GatedSnapshot(l))
           n == Len(before) + 1
<1>1. effects'.lines = Append(before, line)
  BY DEF EmitFrom, Effects
<1>2. line.kind = "snapshot" /\ line.packet.completed
  BY DEF SnapshotLine, GatedSnapshot, Gate, Synthesize
<1> HIDE DEF line
<1>3. n \in DOMAIN effects'.lines /\ effects'.lines[n] = line
  BY <1>1
<1>4. QED BY <1>2, <1>3 DEF Pulsed

\* A change nobody is answered for emits, if bonded, a snapshot with its pulse.
LEMMA QuietEmissionCarriesThePulse ==
  ASSUME NEW l \in LedgerType, l.completedPulse, EmitIfBonded(l)
  PROVE  ledger'.completedPulse \/ Pulsed(effects'.lines)
  BY EmissionCarriesThePulse DEF EmitIfBonded

\* No event that is recorded clears the pulse, and a completion sets it.
LEMMA RecordKeepsThePulse ==
  ASSUME NEW l \in LedgerType, NEW s \in Sessions,
         NEW event, event \in LifecycleEvents \cup {Resolved} \/ \E p \in Prompts : event = AwaitingApproval(p)
  PROVE  /\ l.completedPulse => Record(l, s, event).completedPulse
         /\ event = Completed => Record(l, s, event).completedPulse
<1>1. l = [sessions |-> l.sessions, raiseSeq |-> l.raiseSeq, completedPulse |-> l.completedPulse,
           latch |-> l.latch, credited |-> l.credited]
  BY DEF LedgerType, LedgersOver
<1>2. event.kind \in {"Completed", "AwaitingApproval", "Started", "ToolStarted", "Resolved", "Stopped"}
      /\ (event = Completed => event.kind = "Completed")
  BY DEF LifecycleEvents, Started, ToolStarted, Completed, Stopped, Resolved, AwaitingApproval
<1>3. CASE event.kind = "Completed"
  BY <1>1, <1>3 DEF Record
<1>4. CASE event.kind # "Completed"
  BY <1>1, <1>2, <1>4 DEF Record, RaisePrompt, SetEntry, ResolveSession
<1>5. QED BY <1>3, <1>4

\* A completion is never lost inside the daemon: it is held, with the link up or
\* down, until a step puts it on a line (ledger.rs, the pulse).
THEOREM CompletionsAreEmitted == Spec => CompletionIsEmitted
<1> DEFINE due == ledger.completedPulse \/ \E s \in Sessions : StepSessionEvent(s, Completed)
           met == ledger'.completedPulse \/ Pulsed(effects'.lines)
<1>1. TypeOK /\ [Next]_daemonVars => [due => met]_daemonVars
  <2> SUFFICES ASSUME TypeOK, [Next]_daemonVars, due
               PROVE  met \/ UNCHANGED daemonVars
    OBVIOUS
  <2> HIDE DEF due
  <2>t. ledger \in LedgerType
    BY DEF TypeOK
  <2>0. ASSUME NEW s \in Sessions, NEW event \in SessionEvents, StepSessionEvent(s, event),
               ledger.completedPulse \/ event = Completed
        PROVE  met
    <3> DEFINE l == IF event \in LifecycleEvents THEN Record(ledger, s, event) ELSE ledger
    <3>1. l \in LedgerType
      BY <2>t, LifecycleEffect DEF LedgerType
    <3>2. l.completedPulse
      BY <2>0, <2>t, RecordKeepsThePulse DEF LifecycleEvents
    <3>3. EmitIfBonded(l)
      BY <2>0 DEF StepSessionEvent, OnSessionEvent
    <3> HIDE DEF l
    <3>4. QED BY <3>1, <3>2, <3>3, QuietEmissionCarriesThePulse
  <2>1. CASE \E s \in Sessions : StepSessionEvent(s, Completed)
    BY <2>0, <2>1 DEF SessionEvents, LifecycleEvents
  <2>2. CASE ledger.completedPulse
    <3>1. CASE LinkComesUp
      BY <2>t, <2>2, <3>1, EmissionCarriesThePulse DEF LinkComesUp, StepLinkUp, OnLinkUp
    <3>2. CASE LinkGoesDown
      BY <2>t, <2>2, <3>2 DEF LinkGoesDown, StepLinkDown, OnLinkDown, LedgerType, LedgersOver
    <3>3. CASE DeviceSpeaks
      <4>1. PICK response \in [id : 0 .. promptSeq, decision : Decisions] \cup {None} :
              StepDeviceLine(response)
        BY <3>3 DEF DeviceSpeaks
      <4>2. CASE response = None \/ response.id \notin DOMAIN pending
        BY <2>2, <4>1, <4>2 DEF StepDeviceLine, OnDeviceLine
      <4>3. CASE ~(response = None \/ response.id \notin DOMAIN pending)
        <5> DEFINE s == pending[response.id].session
                   l == Record(ledger, s, Resolved)
        <5>1. s \in Sessions
          BY <4>3 DEF TypeOK
        <5>2. l \in LedgerType /\ l.completedPulse
          BY <2>t, <2>2, <5>1, ResolveEffect, RecordKeepsThePulse DEF LedgerType
        <5>3. \E replies : EmitFrom(l, << >>, replies)
          BY <4>1, <4>3 DEF StepDeviceLine, OnDeviceLine
        <5> HIDE DEF l
        <5>4. QED BY <5>2, <5>3, EmissionCarriesThePulse
      <4>4. QED BY <4>2, <4>3
    <3>4. CASE StepKeepalive
      BY <2>t, <2>2, <3>4, QuietEmissionCarriesThePulse DEF StepKeepalive, OnKeepalive
    <3>5. CASE SessionSpeaks
      BY <2>0, <2>2, <3>5 DEF SessionSpeaks
    <3>6. ASSUME NEW h \in Hooks, HookArrives(h)
          PROVE  met
      <4> DEFINE prompt == [id |-> promptSeq, call |-> h]
                 l == Record(ledger, SessionOf[h], AwaitingApproval(prompt))
      <4>1. CASE ~bonded
        BY <2>2, <3>6, <4>1 DEF HookArrives, StepHook, OnHook
      <4>2. CASE bonded
        <5>1. prompt \in Prompts /\ SessionOf[h] \in Sessions
          BY SessionOfAssumption DEF TypeOK, Prompts
        <5> HIDE DEF prompt
        <5>2. l \in LedgerType
          BY <2>t, <5>1, RaiseEffect DEF LedgerType
        <5>4. l.completedPulse
          BY <2>t, <2>2, <5>1, RecordKeepsThePulse
        <5>3. EmitFrom(l, << >>, NoReplies)
          BY <3>6, <4>2 DEF HookArrives, StepHook, OnHook, prompt
        <5> HIDE DEF l
        <5>5. QED BY <5>2, <5>3, <5>4, EmissionCarriesThePulse
      <4>3. QED BY <4>1, <4>2
    <3>7. QED
      BY <3>1, <3>2, <3>3, <3>4, <3>5, <3>6 DEF Next, EnvironmentNext
  <2>3. QED BY <2>1, <2>2 DEF due
<1>2. QED BY <1>1, TypeCorrect, PTL DEF Spec, CompletionIsEmitted

-----------------------------------------------------------------------------
(* Part 2: the loop.  The mailbox and the link.                            *)

\* What the mailbox may hold.
LinkEvents == {LinkUpInput, LinkDownInput}
Inputs ==
  [kind : {"hook"}, hook : Hooks] \cup LinkEvents \cup {KeepaliveInput}
    \cup [kind : {"deviceLine"}, response : Responses]

\* Along the mailbox, link-ups and link-downs alternate: they take a link that is
\* `first` (as the actor last heard) to one that is `last` (as it is).
Alternates(q, first, last) ==
  /\ (\A i \in DOMAIN q : q[i] \notin LinkEvents) => first = last
  /\ \A i \in DOMAIN q :
       q[i] \in LinkEvents /\ (\A k \in DOMAIN q : k < i => q[k] \notin LinkEvents)
         => (q[i] = LinkUpInput <=> ~first)
  /\ \A i \in DOMAIN q :
       q[i] \in LinkEvents /\ (\A k \in DOMAIN q : k > i => q[k] \notin LinkEvents)
         => (q[i] = LinkUpInput <=> last)
  /\ \A i, j \in DOMAIN q :
       /\ i < j /\ q[i] \in LinkEvents /\ q[j] \in LinkEvents
       /\ \A k \in DOMAIN q : i < k /\ k < j => q[k] \notin LinkEvents
       => q[i] # q[j]

\* An up is no down.
LEMMA EventsDiffer == LinkUpInput # LinkDownInput
  BY DEF LinkUpInput, LinkDownInput

\* With nothing queued, the actor knows the link as it is.
LEMMA AlternatesAtRest ==
  ASSUME NEW b
  PROVE  Alternates(<< >>, b, b)
  BY DEF Alternates

\* Queueing anything but a link event keeps the alternation.
LEMMA AlternatesAppendOther ==
  ASSUME NEW S, NEW q \in Seq(S), NEW x \in S, x \notin LinkEvents,
         NEW first, NEW last, Alternates(q, first, last)
  PROVE  Alternates(Append(q, x), first, last)
<1> DEFINE r == Append(q, x)
           n == Len(q)
<1>1. /\ n \in Nat /\ DOMAIN q = 1 .. n /\ DOMAIN r = 1 .. n + 1
      /\ \A i \in 1 .. n : r[i] = q[i]
      /\ r[n + 1] = x
  OBVIOUS
<1> HIDE DEF r, n
<1>2. /\ \A i \in DOMAIN r : r[i] \in LinkEvents => i \in DOMAIN q
      /\ \A i \in DOMAIN q : i \in DOMAIN r /\ r[i] = q[i]
  BY <1>1
<1>3. QED BY <1>1, <1>2 DEF Alternates, r

\* Queueing the link's turn keeps it, and turns the link.
LEMMA AlternatesAppendEvent ==
  ASSUME NEW S, NEW q \in Seq(S), NEW first \in BOOLEAN, NEW last \in BOOLEAN,
         NEW x \in S, x = (IF last THEN LinkDownInput ELSE LinkUpInput),
         Alternates(q, first, last)
  PROVE  Alternates(Append(q, x), first, ~last)
<1> DEFINE r == Append(q, x)
           n == Len(q)
<1>1. /\ n \in Nat /\ DOMAIN q = 1 .. n /\ DOMAIN r = 1 .. n + 1
      /\ \A i \in 1 .. n : r[i] = q[i]
      /\ r[n + 1] = x
  OBVIOUS
<1> HIDE DEF r, n
<1>2. /\ x \in LinkEvents /\ (x = LinkUpInput <=> ~last)
      /\ n + 1 \in DOMAIN r /\ r[n + 1] = x
      /\ \A i \in DOMAIN r : (i \in DOMAIN q /\ i < n + 1) \/ i = n + 1
      /\ \A i \in DOMAIN q : i \in DOMAIN r /\ r[i] = q[i] /\ i < n + 1
  BY <1>1, EventsDiffer DEF LinkEvents
<1>3. ASSUME NEW i \in DOMAIN r, r[i] \in LinkEvents,
             \A k \in DOMAIN r : k < i => r[k] \notin LinkEvents
      PROVE  r[i] = LinkUpInput <=> ~first
  <2>1. CASE i \in DOMAIN q
    BY <1>2, <1>3, <2>1 DEF Alternates
  <2>2. CASE i = n + 1
    <3>1. \A k \in DOMAIN q : q[k] \notin LinkEvents
      BY <1>2, <1>3, <2>2
    <3>2. QED BY <1>2, <2>2, <3>1 DEF Alternates
  <2>3. QED BY <1>2, <2>1, <2>2
<1>4. ASSUME NEW i \in DOMAIN r, r[i] \in LinkEvents,
             \A k \in DOMAIN r : k > i => r[k] \notin LinkEvents
      PROVE  r[i] = LinkUpInput <=> ~last
  <2>1. i = n + 1
    BY <1>1, <1>2, <1>4
  <2>2. QED BY <1>2, <2>1
<1>5. ASSUME NEW i \in DOMAIN r, NEW j \in DOMAIN r, i < j,
             r[i] \in LinkEvents, r[j] \in LinkEvents,
             \A k \in DOMAIN r : i < k /\ k < j => r[k] \notin LinkEvents
      PROVE  r[i] # r[j]
  <2>1. i \in DOMAIN q
    BY <1>1, <1>5
  <2>2. CASE j \in DOMAIN q
    BY <1>2, <1>5, <2>1, <2>2 DEF Alternates
  <2>3. CASE j = n + 1
    <3>1. \A k \in DOMAIN q : k > i => q[k] \notin LinkEvents
      BY <1>1, <1>2, <1>5, <2>3
    <3>2. q[i] = LinkUpInput <=> last
      BY <1>2, <1>5, <2>1, <3>1 DEF Alternates
    <3>3. QED BY <1>2, <2>1, <2>3, <3>2
  <2>4. QED BY <1>2, <2>2, <2>3
<1>6. ~ \A i \in DOMAIN r : r[i] \notin LinkEvents
  BY <1>2
<1>7. QED BY <1>3, <1>4, <1>5, <1>6 DEF Alternates, r

\* What taking the head of a queue leaves.
LEMMA TailShifts ==
  ASSUME NEW S, NEW q \in Seq(S), q # << >>
  PROVE  /\ Tail(q) \in Seq(S) /\ Head(q) \in S /\ Head(q) = q[1] /\ 1 \in DOMAIN q
         /\ \A i \in DOMAIN Tail(q) : i \in Nat /\ i + 1 \in DOMAIN q /\ Tail(q)[i] = q[i + 1]
         /\ \A i \in DOMAIN q : i \in Nat /\ i >= 1 /\ (i # 1 => i - 1 \in DOMAIN Tail(q) /\ Tail(q)[i - 1] = q[i])
  OBVIOUS

\* Taking anything but a link event keeps the alternation.
LEMMA AlternatesTakeOther ==
  ASSUME NEW S, NEW q \in Seq(S), q # << >>, Head(q) \notin LinkEvents,
         NEW first, NEW last, Alternates(q, first, last)
  PROVE  Alternates(Tail(q), first, last)
<1> DEFINE r == Tail(q)
<1>1. /\ q[1] \notin LinkEvents /\ 1 \in DOMAIN q
      /\ \A i \in DOMAIN r : i \in Nat /\ i + 1 \in DOMAIN q /\ r[i] = q[i + 1]
      /\ \A i \in DOMAIN q : i \in Nat /\ i >= 1 /\ (i # 1 => i - 1 \in DOMAIN r /\ r[i - 1] = q[i])
  BY TailShifts
<1> HIDE DEF r
<1>2. ASSUME NEW i \in DOMAIN r, r[i] \in LinkEvents,
             \A k \in DOMAIN r : k < i => r[k] \notin LinkEvents
      PROVE  r[i] = LinkUpInput <=> ~first
  <2>1. \A k \in DOMAIN q : k < i + 1 => q[k] \notin LinkEvents
    <3> SUFFICES ASSUME NEW k \in DOMAIN q, k < i + 1, k # 1 PROVE q[k] \notin LinkEvents
      BY <1>1
    <3>1. k - 1 \in DOMAIN r /\ k - 1 < i /\ r[k - 1] = q[k]
      BY <1>1
    <3>2. QED BY <1>2, <3>1
  <2>2. QED BY <1>1, <1>2, <2>1 DEF Alternates
<1>3. ASSUME NEW i \in DOMAIN r, r[i] \in LinkEvents,
             \A k \in DOMAIN r : k > i => r[k] \notin LinkEvents
      PROVE  r[i] = LinkUpInput <=> last
  <2>1. \A k \in DOMAIN q : k > i + 1 => q[k] \notin LinkEvents
    <3> SUFFICES ASSUME NEW k \in DOMAIN q, k > i + 1 PROVE q[k] \notin LinkEvents
      OBVIOUS
    <3>1. k - 1 \in DOMAIN r /\ k - 1 > i /\ r[k - 1] = q[k]
      BY <1>1
    <3>2. QED BY <1>3, <3>1
  <2>2. QED BY <1>1, <1>3, <2>1 DEF Alternates
<1>4. ASSUME NEW i \in DOMAIN r, NEW j \in DOMAIN r, i < j,
             r[i] \in LinkEvents, r[j] \in LinkEvents,
             \A k \in DOMAIN r : i < k /\ k < j => r[k] \notin LinkEvents
      PROVE  r[i] # r[j]
  <2>1. \A k \in DOMAIN q : i + 1 < k /\ k < j + 1 => q[k] \notin LinkEvents
    <3> SUFFICES ASSUME NEW k \in DOMAIN q, i + 1 < k, k < j + 1 PROVE q[k] \notin LinkEvents
      OBVIOUS
    <3>1. k - 1 \in DOMAIN r /\ i < k - 1 /\ k - 1 < j /\ r[k - 1] = q[k]
      BY <1>1
    <3>2. QED BY <1>4, <3>1
  <2>2. i + 1 < j + 1
    BY <1>1, <1>4
  <2>3. QED BY <1>1, <1>4, <2>1, <2>2 DEF Alternates
<1>5. (\A i \in DOMAIN r : r[i] \notin LinkEvents) => first = last
  <2> SUFFICES ASSUME \A i \in DOMAIN r : r[i] \notin LinkEvents, NEW k \in DOMAIN q
               PROVE  q[k] \notin LinkEvents
    BY DEF Alternates
  <2>1. k # 1 => k - 1 \in DOMAIN r /\ r[k - 1] = q[k]
    BY <1>1
  <2>2. QED BY <1>1, <2>1
<1>6. QED BY <1>2, <1>3, <1>4, <1>5 DEF Alternates, r

\* Taking a link event keeps it, and the actor has heard the turn.
LEMMA AlternatesTakeEvent ==
  ASSUME NEW S, NEW q \in Seq(S), q # << >>, Head(q) \in LinkEvents,
         NEW first \in BOOLEAN, NEW last \in BOOLEAN, Alternates(q, first, last)
  PROVE  /\ Head(q) = LinkUpInput <=> ~first
         /\ Alternates(Tail(q), ~first, last)
<1> DEFINE r == Tail(q)
<1>1. /\ Head(q) = q[1] /\ q[1] \in LinkEvents /\ 1 \in DOMAIN q
      /\ \A i \in DOMAIN r : i \in Nat /\ i + 1 \in DOMAIN q /\ r[i] = q[i + 1]
      /\ \A i \in DOMAIN q : i \in Nat /\ i >= 1 /\ (i # 1 => i - 1 \in DOMAIN r /\ r[i - 1] = q[i])
  BY TailShifts
<1> HIDE DEF r
<1>0. q[1] = LinkUpInput <=> ~first
  BY <1>1 DEF Alternates
<1>2. ASSUME NEW i \in DOMAIN r, r[i] \in LinkEvents,
             \A k \in DOMAIN r : k < i => r[k] \notin LinkEvents
      PROVE  r[i] = LinkUpInput <=> first
  <2>1. \A k \in DOMAIN q : 1 < k /\ k < i + 1 => q[k] \notin LinkEvents
    <3> SUFFICES ASSUME NEW k \in DOMAIN q, 1 < k, k < i + 1 PROVE q[k] \notin LinkEvents
      OBVIOUS
    <3>1. k - 1 \in DOMAIN r /\ k - 1 < i /\ r[k - 1] = q[k]
      BY <1>1
    <3>2. QED BY <1>2, <3>1
  <2>2. 1 < i + 1 /\ i + 1 \in DOMAIN q /\ q[i + 1] = r[i]
    <3>1. i \in DOMAIN r /\ i + 1 \in DOMAIN q /\ i \in Nat /\ i + 1 # 1
      <4>1. i # 0
        BY DEF r
      <4>2. QED BY <1>1, <4>1
    <3>2. QED BY <1>1, <3>1
  <2>3. q[1] # q[i + 1]
    BY <1>1, <1>2, <2>1, <2>2 DEF Alternates
  <2>4. QED BY <1>0, <1>1, <1>2, <2>2, <2>3 DEF LinkEvents
<1>3. ASSUME NEW i \in DOMAIN r, r[i] \in LinkEvents,
             \A k \in DOMAIN r : k > i => r[k] \notin LinkEvents
      PROVE  r[i] = LinkUpInput <=> last
  <2>1. \A k \in DOMAIN q : k > i + 1 => q[k] \notin LinkEvents
    <3> SUFFICES ASSUME NEW k \in DOMAIN q, k > i + 1 PROVE q[k] \notin LinkEvents
      OBVIOUS
    <3>1. k - 1 \in DOMAIN r /\ k - 1 > i /\ r[k - 1] = q[k]
      BY <1>1
    <3>2. QED BY <1>3, <3>1
  <2>2. QED BY <1>1, <1>3, <2>1 DEF Alternates
<1>4. ASSUME NEW i \in DOMAIN r, NEW j \in DOMAIN r, i < j,
             r[i] \in LinkEvents, r[j] \in LinkEvents,
             \A k \in DOMAIN r : i < k /\ k < j => r[k] \notin LinkEvents
      PROVE  r[i] # r[j]
  <2>1. \A k \in DOMAIN q : i + 1 < k /\ k < j + 1 => q[k] \notin LinkEvents
    <3> SUFFICES ASSUME NEW k \in DOMAIN q, i + 1 < k, k < j + 1 PROVE q[k] \notin LinkEvents
      OBVIOUS
    <3>1. k - 1 \in DOMAIN r /\ i < k - 1 /\ k - 1 < j /\ r[k - 1] = q[k]
      BY <1>1
    <3>2. QED BY <1>4, <3>1
  <2>2. i + 1 < j + 1
    BY <1>1, <1>4
  <2>3. QED BY <1>1, <1>4, <2>1, <2>2 DEF Alternates
<1>5. (\A i \in DOMAIN r : r[i] \notin LinkEvents) => (~first) = last
  <2> SUFFICES ASSUME \A i \in DOMAIN r : r[i] \notin LinkEvents
               PROVE  q[1] = LinkUpInput <=> last
    BY <1>0
  <2>1. \A k \in DOMAIN q : k > 1 => q[k] \notin LinkEvents
    <3> SUFFICES ASSUME NEW k \in DOMAIN q, k > 1 PROVE q[k] \notin LinkEvents
      OBVIOUS
    <3>1. k - 1 \in DOMAIN r /\ r[k - 1] = q[k]
      BY <1>1
    <3>2. QED BY <3>1
  <2>2. QED BY <1>1, <2>1 DEF Alternates
<1>6. QED BY <1>0, <1>1, <1>2, <1>3, <1>4, <1>5 DEF Alternates, r

-----------------------------------------------------------------------------
(* The loop's types.                                                       *)

\* What the downlink carries.
Packets ==
  [total : Nat, running : Nat, waiting : Nat, completed : BOOLEAN, tokens : Nat,
   prompt : Prompts \cup {None}]
Lines == {TimeLine, OwnerLine} \cup [kind : {"snapshot"}, packet : Packets]

\* Every variable of the loop has its type.
LoopTypeOK ==
  /\ TypeOK
  /\ daemonUp \in BOOLEAN
  /\ mailbox \in Seq(Inputs)
  /\ linkUp \in BOOLEAN
  /\ downlink \in Seq(Lines)
  /\ uplink \in Seq(Responses)
  /\ glass \in Prompts \cup {None}
  /\ answered \in Nat \cup {None}
  /\ torn \in BOOLEAN
  /\ hook \in [Hooks -> {"new", "waiting", "done"}]
  /\ reply \in [Hooks -> Replies \cup {"EOF", None}]
  /\ outcome \in [Hooks -> {"none", "silent", "allow", "deny"}]
  /\ said \subseteq Hooks \X Decisions

\* The mailbox only holds what the daemon's environment may present.
HookInputsAreNew ==
  /\ \A i \in DOMAIN mailbox : mailbox[i].kind = "hook" =>
       mailbox[i].hook \notin asked /\ hook[mailbox[i].hook] # "new"
  /\ \A i, j \in DOMAIN mailbox :
       mailbox[i].kind = "hook" /\ mailbox[j].kind = "hook" /\ mailbox[i].hook = mailbox[j].hook
         => i = j
  /\ \A h \in asked : hook[h] # "new"

\* The mailbox drives the daemon as Daemon's own environment may.
Driven == Alternates(mailbox, bonded, linkUp) /\ HookInputsAreNew

\* The loop's inductive invariant, whatever goes wrong.
DrivenInv == LoopTypeOK /\ Bookkeeping /\ SnapshotsMatchLedger /\ Driven

\* What a packet carries.
LEMMA GatedSnapshotType ==
  ASSUME NEW led \in LedgerType
  PROVE  GatedSnapshot(led) \in Packets
<1>1. ASSUME NEW l \in LedgerType PROVE OutstandingPrompt(l) \in Prompts \cup {None}
  <2>1. CASE Waiting(l) = {}
    BY <2>1 DEF OutstandingPrompt
  <2>2. CASE Waiting(l) # {}
    <3>1. Newest(l) \in Sessions /\ l.sessions[Newest(l)].pending # None
      BY <2>2, NewestExists DEF Waiting, LedgerType
    <3>2. l.sessions[Newest(l)].pending.prompt \in Prompts
      BY <3>1, PendingIsNotNone DEF LedgerType
    <3>3. QED BY <2>2, <3>2 DEF OutstandingPrompt
  <2>3. QED BY <2>1, <2>2
<1>2. ASSUME NEW S \in SUBSET Sessions PROVE CapU8(Cardinality(S)) \in Nat
  <2>1. Cardinality(S) \in Nat
    BY SessionsAssumption, FS_Subset, FS_CardinalityType
  <2>2. QED BY <2>1, WidthAssumption DEF CapU8
<1>3. /\ CapU8(Cardinality(Seen(led))) \in Nat
      /\ CapU8(Cardinality(Running(led))) \in Nat
      /\ CapU8(Cardinality(Waiting(led))) \in Nat
  BY <1>2 DEF Seen, Running, Waiting
<1>4. led.completedPulse \in BOOLEAN /\ led.credited \in Nat
  BY DEF LedgerType, LedgersOver
<1>5. Synthesize(led) \in Packets
  <2> DEFINE p == OutstandingPrompt(led)
             a == CapU8(Cardinality(Seen(led)))
             b == CapU8(Cardinality(Running(led)))
             c == CapU8(Cardinality(Waiting(led)))
  <2>1. p \in Prompts \cup {None} /\ a \in Nat /\ b \in Nat /\ c \in Nat
    BY <1>1, <1>3
  <2>2. Synthesize(led) = [total |-> a, running |-> b, waiting |-> c,
                           completed |-> led.completedPulse, tokens |-> led.credited, prompt |-> p]
    BY DEF Synthesize
  <2> HIDE DEF p, a, b, c
  <2>3. QED BY <1>4, <2>1, <2>2 DEF Packets
<1>6. OutstandingPrompt(AfterSynthesis(led)) \in Prompts \cup {None}
  BY <1>1, AfterSynthesisEffect DEF LedgerType
<1> DEFINE q == OutstandingPrompt(AfterSynthesis(led))
           packet == Synthesize(led)
<1>7. GatedSnapshot(led) = IF q = None THEN packet ELSE [packet EXCEPT !.prompt = q]
  BY DEF GatedSnapshot, Gate
<1> HIDE DEF q, packet
<1>8. QED BY <1>5, <1>6, <1>7 DEF q, packet, Packets

\* What is emitted are lines.
LEMMA EmissionLines ==
  ASSUME NEW l \in LedgerType, NEW before \in {<< >>, <<TimeLine, OwnerLine>>},
         NEW replies, EmitFrom(l, before, replies)
  PROVE  effects'.lines \in Seq(Lines)
<1> DEFINE line == SnapshotLine(GatedSnapshot(l))
<1>1. effects'.lines = Append(before, line)
  BY DEF EmitFrom, Effects
<1>2. line \in Lines
  BY GatedSnapshotType DEF SnapshotLine, Lines
<1>3. before \in Seq(Lines)
  <2>1. TimeLine \in Lines /\ OwnerLine \in Lines
    BY DEF Lines
  <2> HIDE DEF line
  <2>2. <<TimeLine, OwnerLine>> \in Seq(Lines) /\ << >> \in Seq(Lines)
    BY <2>1
  <2>3. QED BY <2>2
<1> HIDE DEF line
<1>4. QED BY <1>1, <1>2, <1>3

\* And so are the lines of a change that answers nobody.
LEMMA QuietEmissionLines ==
  ASSUME NEW l \in LedgerType, EmitIfBonded(l)
  PROVE  effects'.lines \in Seq(Lines)
<1>1. CASE bonded
  BY <1>1, EmissionLines DEF EmitIfBonded
<1>2. CASE ~bonded
  <2>1. effects'.lines = << >>
    BY <1>2 DEF EmitIfBonded, NoEffects, Effects
  <2>2. QED BY <2>1
<1>3. QED BY <1>1, <1>2

-----------------------------------------------------------------------------
(* What taking an input does, as far as the rest of the loop can tell.     *)

\* A hook's request is filed under a fresh id, or turned away on the spot.
Raises(h) ==
  /\ Head(mailbox) = HookInput(h)
  /\ bonded
  /\ pending' = Insert(pending, promptSeq, [hook |-> h, session |-> SessionOf[h]])
  /\ promptSeq' = promptSeq + 1
  /\ asked' = asked \cup {h}
  /\ Answered = {}

\* Turned away: no stick is there to ask.
TurnsAway(h) ==
  /\ Head(mailbox) = HookInput(h)
  /\ UNCHANGED <<pending, promptSeq>>
  /\ asked' = asked \cup {h}
  /\ Answered = {h} /\ effects'.replies[h] = "Unbonded"

\* The link went: everybody who waits is answered.
Drains ==
  /\ Head(mailbox) = LinkDownInput
  /\ DOMAIN pending' = {} /\ UNCHANGED <<promptSeq, asked>>
  /\ Answered = {pending[id].hook : id \in DOMAIN pending}
  /\ \A h \in Answered : effects'.replies[h] = "Unbonded"

\* The owner's answer to a prompt that is still pending.
Settles(r) ==
  /\ Head(mailbox) = DeviceInput(r)
  /\ r.id \in DOMAIN pending
  /\ pending' = Restrict(pending, DOMAIN pending \ {r.id}) /\ UNCHANGED <<promptSeq, asked>>
  /\ Answered = {pending[r.id].hook}
  /\ effects'.replies[pending[r.id].hook] = ReplyFor(r.decision)

\* Anything else answers nobody.
Passes ==
  /\ Head(mailbox).kind # "hook"
  /\ UNCHANGED <<pending, promptSeq, asked>>
  /\ Answered = {}

\* An input is one of its kind's.
LEMMA InputsByKind ==
  ASSUME NEW x \in Inputs
  PROVE  /\ x.kind \in {"hook", "linkUp", "linkDown", "keepalive", "deviceLine"}
         /\ x.kind = "hook" => x.hook \in Hooks /\ x = HookInput(x.hook)
         /\ x.kind = "linkUp" => x = LinkUpInput
         /\ x.kind = "linkDown" => x = LinkDownInput
         /\ x.kind = "keepalive" => x = KeepaliveInput
         /\ x.kind = "deviceLine" => x.response \in Responses /\ x = DeviceInput(x.response)
         /\ x.kind \notin {"linkUp", "linkDown"} => x \notin LinkEvents
  BY DEF Inputs, LinkEvents, HookInput, LinkUpInput, LinkDownInput, KeepaliveInput, DeviceInput

\* The head of the mailbox and what is left when it is taken.
LEMMA HeadIsInput ==
  ASSUME LoopTypeOK, mailbox # << >>
  PROVE  /\ Head(mailbox) \in Inputs /\ Head(mailbox) = mailbox[1] /\ 1 \in DOMAIN mailbox
         /\ Tail(mailbox) \in Seq(Inputs)
         /\ \A i \in DOMAIN Tail(mailbox) :
              i \in Nat /\ i + 1 \in DOMAIN mailbox /\ Tail(mailbox)[i] = mailbox[i + 1]
         /\ \A i \in DOMAIN mailbox : i # 1 =>
              i - 1 \in DOMAIN Tail(mailbox) /\ Tail(mailbox)[i - 1] = mailbox[i]
  BY TailShifts DEF LoopTypeOK

\* One of the five is what the actor's step does, and the lines it asks for are
\* lines.
LEMMA ActorEffects ==
  ASSUME LoopTypeOK, ActorTakes
  PROVE  /\ \/ \E h \in Hooks : Raises(h) \/ TurnsAway(h)
            \/ Drains
            \/ \E r \in Responses : Settles(r)
            \/ Passes
         /\ effects'.lines \in Seq(Lines)
<1>t. TypeOK /\ ledger \in LedgerType
  BY DEF LoopTypeOK, TypeOK
<1>1. CASE ActorTakesLinkUp
  <2>1. Head(mailbox).kind = "linkUp" /\ EmitFrom(ledger, <<TimeLine, OwnerLine>>, NoReplies)
        /\ UNCHANGED <<pending, promptSeq, asked>>
    BY <1>1 DEF ActorTakesLinkUp, Heads, StepLinkUp, OnLinkUp
  <2>2. Answered = {}
    BY <1>t, <2>1, EmissionEffect, NothingType DEF Answered
  <2>3. QED BY <1>t, <2>1, <2>2, EmissionLines DEF Passes
<1>2. CASE ActorTakesLinkDown
  <2>1. /\ Head(mailbox) = LinkDownInput
        /\ pending' = NoPending /\ UNCHANGED <<promptSeq, asked>>
        /\ effects' = Effects(<< >>, [h \in {d.hook : d \in Range(pending)} |-> "Unbonded"])
    BY <1>2, HeadIsInput, InputsByKind DEF ActorTakesLinkDown, Heads, StepLinkDown, OnLinkDown
  <2>2. {d.hook : d \in Range(pending)} = {pending[id].hook : id \in DOMAIN pending}
    BY DEF Range
  <2> DEFINE H == {d.hook : d \in Range(pending)}
  <2>3. effects'.lines = << >> /\ effects'.replies = [h \in H |-> "Unbonded"]
    BY <2>1 DEF Effects
  <2> HIDE DEF H
  <2>4. Answered = H /\ \A h \in H : effects'.replies[h] = "Unbonded"
    BY <2>3 DEF Answered
  <2>5. Drains
    BY <2>1, <2>2, <2>4, NothingType DEF Drains, H
  <2>6. QED BY <2>3, <2>5
<1>3. CASE ActorTakesKeepalive
  <2>1. Head(mailbox).kind = "keepalive" /\ EmitIfBonded(ledger)
        /\ UNCHANGED <<pending, promptSeq, asked>>
    BY <1>3 DEF ActorTakesKeepalive, Heads, StepKeepalive, OnKeepalive
  <2>2. Answered = {}
    BY <1>t, <2>1, QuietEmissionEffect, NothingType DEF Answered
  <2>3. QED BY <1>t, <2>1, <2>2, QuietEmissionLines DEF Passes
<1>4. CASE ActorTakesHook
  <2> DEFINE h == Head(mailbox).hook
  <2>1. h \in Hooks /\ Head(mailbox) = HookInput(h) /\ StepHook(h)
    BY <1>4, HeadIsInput, InputsByKind DEF ActorTakesHook, Heads
  <2> HIDE DEF h
  <2>2. CASE ~bonded
    <3>1. effects' = Effects(<< >>, [x \in {h} |-> "Unbonded"])
          /\ UNCHANGED <<pending, promptSeq>> /\ asked' = asked \cup {h}
      BY <2>1, <2>2 DEF StepHook, OnHook
    <3>2. effects'.lines = << >> /\ effects'.replies = [x \in {h} |-> "Unbonded"]
      BY <3>1 DEF Effects
    <3>3. TurnsAway(h)
      BY <2>1, <3>1, <3>2 DEF TurnsAway, Answered
    <3>4. QED BY <2>1, <3>2, <3>3
  <2>3. CASE bonded
    <3> DEFINE prompt == [id |-> promptSeq, call |-> h]
               l == Record(ledger, SessionOf[h], AwaitingApproval(prompt))
    <3>1. prompt \in Prompts /\ SessionOf[h] \in Sessions
      BY <1>t, <2>1, SessionOfAssumption DEF TypeOK, Prompts
    <3>2. l \in LedgerType
      BY <1>t, <3>1, RaiseEffect DEF LedgerType
    <3>3. /\ EmitFrom(l, << >>, NoReplies)
          /\ pending' = Insert(pending, promptSeq, [hook |-> h, session |-> SessionOf[h]])
          /\ promptSeq' = promptSeq + 1
          /\ asked' = asked \cup {h}
      BY <2>1, <2>3 DEF StepHook, OnHook
    <3> HIDE DEF l
    <3>4. Answered = {}
      BY <3>2, <3>3, EmissionEffect, NothingType DEF Answered
    <3>5. QED BY <2>1, <2>3, <3>2, <3>3, <3>4, EmissionLines DEF Raises
  <2>4. QED BY <1>t, <2>2, <2>3 DEF TypeOK
<1>5. CASE ActorTakesResponse
  <2> DEFINE r == Head(mailbox).response
  <2>1. r \in Responses /\ Head(mailbox) = DeviceInput(r) /\ StepDeviceLine(r)
        /\ Head(mailbox).kind = "deviceLine"
    BY <1>5, HeadIsInput, InputsByKind DEF ActorTakesResponse, Heads
  <2> HIDE DEF r
  <2>2. CASE r = None \/ r.id \notin DOMAIN pending
    <3>1. effects' = NoEffects /\ UNCHANGED <<pending, promptSeq, asked>>
      BY <2>1, <2>2 DEF StepDeviceLine, OnDeviceLine
    <3>2. effects'.lines = << >> /\ Answered = {}
      BY <3>1, NothingType DEF NoEffects, Effects, Answered
    <3>3. QED BY <2>1, <3>1, <3>2 DEF Passes
  <2>3. CASE ~(r = None \/ r.id \notin DOMAIN pending)
    <3> DEFINE p == pending[r.id]
               l == Record(ledger, p.session, Resolved)
               replies == [h \in {p.hook} |-> ReplyFor(r.decision)]
    <3>1. p \in [hook : Hooks, session : Sessions]
      BY <1>t, <2>3 DEF TypeOK
    <3>2. l \in LedgerType
      BY <1>t, <3>1, ResolveEffect DEF LedgerType
    <3>3. /\ EmitFrom(l, << >>, replies)
          /\ pending' = Restrict(pending, DOMAIN pending \ {r.id})
          /\ UNCHANGED <<promptSeq, asked>>
      BY <2>1, <2>3 DEF StepDeviceLine, OnDeviceLine
    <3>4. DOMAIN replies = {p.hook} /\ replies[p.hook] = ReplyFor(r.decision)
      OBVIOUS
    <3> HIDE DEF l, replies
    <3>5. effects'.replies = replies /\ effects'.lines \in Seq(Lines)
      BY <3>2, <3>3, EmissionEffect, EmissionLines
    <3>6. QED BY <2>1, <2>3, <3>3, <3>4, <3>5 DEF Settles, Answered
  <2>4. QED BY <2>2, <2>3
<1>6. QED BY <1>1, <1>2, <1>3, <1>4, <1>5 DEF ActorTakes

-----------------------------------------------------------------------------
(* The steps of the loop.                                                  *)

\* Everything but the actor's steps and a crash leaves the daemon alone.
Elsewhere ==
  \/ \E h \in Hooks : HookAsks(h) \/ HookReads(h) \/ HookTimesOut(h)
  \/ KeepaliveTicks
  \/ BridgeConnects
  \/ BridgeAbsorbs
  \/ DeviceReceives
  \/ \E decision \in Decisions : OwnerAnswers(decision) \/ OwnerIsRefused(decision)
  \/ LinkDrops
  \/ BridgeLosesLine
  \/ StickReboots
  \/ DaemonStarts

\* A step of the loop is the actor's, a crash, or happens elsewhere.
LEMMA LoopSteps == LoopNext <=> ActorTakes \/ DaemonCrashes \/ Elsewhere
  BY DEF LoopNext, Protocol, Mishaps, Elsewhere

\* The serial loop is a loop.
LEMMA SerialLoopSteps == SerialLoop => LoopNext
  BY DEF SerialLoop, LoopNext, HookAsksAlone

\* Nothing else writes the daemon's state.
LEMMA ElsewhereLeavesDaemon == Elsewhere => UNCHANGED daemonVars
  BY DEF Elsewhere, HookAsks, HookReads, HookTimesOut, KeepaliveTicks, BridgeConnects,
         BridgeAbsorbs, DeviceReceives, OwnerAnswers, OwnerIsRefused, Press, LinkDrops,
         BridgeLosesLine, StickReboots, DaemonStarts

\* Every line is Apply'd to the same effect.
LEMMA LinesByKind ==
  ASSUME NEW line \in Lines
  PROVE  line.kind = "snapshot" => line.packet.prompt \in Prompts \cup {None}
  BY DEF Lines, TimeLine, OwnerLine, Packets

\* What a prompt is made of.
LEMMA PromptFields ==
  ASSUME NEW p \in Prompts
  PROVE  p.id \in Nat /\ p.call \in Hooks
  BY DEF Prompts

\* The types survive everything that happens outside the daemon.
LEMMA ElsewhereTypes == LoopTypeOK /\ Elsewhere => LoopTypeOK'
<1> SUFFICES ASSUME LoopTypeOK, Elsewhere PROVE LoopTypeOK'
  OBVIOUS
<1>t. UNCHANGED daemonVars /\ TypeOK'
  <2>1. UNCHANGED daemonVars
    BY ElsewhereLeavesDaemon
  <2>2. QED BY <2>1, TypeStep DEF LoopTypeOK
<1>q. /\ LinkDownInput \in Inputs /\ LinkUpInput \in Inputs /\ KeepaliveInput \in Inputs
      /\ \A h \in Hooks : HookInput(h) \in Inputs
      /\ \A r \in Responses : DeviceInput(r) \in Inputs
      /\ << >> \in Seq(Lines) /\ << >> \in Seq(Responses)
  BY DEF Inputs, LinkEvents, HookInput, DeviceInput
<1>a. /\ \A x \in Inputs : Append(mailbox, x) \in Seq(Inputs)
      /\ CutShort => torn' \in BOOLEAN
      /\ Tail(downlink) \in Seq(Lines) \/ downlink = << >>
  <2>1. \A x \in Inputs : Append(mailbox, x) \in Seq(Inputs)
    BY DEF LoopTypeOK
  <2>2. CutShort => torn' \in BOOLEAN
    BY DEF LoopTypeOK, CutShort
  <2>3. Tail(downlink) \in Seq(Lines) \/ downlink = << >>
    BY DEF LoopTypeOK
  <2>4. QED BY <2>1, <2>2, <2>3
<1>1. ASSUME NEW h \in Hooks, HookAsks(h) PROVE LoopTypeOK'
  <2>1. mailbox' \in Seq(Inputs) /\ hook' \in [Hooks -> {"new", "waiting", "done"}]
        /\ outcome' \in [Hooks -> {"none", "silent", "allow", "deny"}]
    BY <1>1, <1>q, <1>a DEF HookAsks, LoopTypeOK
  <2>2. QED BY <1>1, <1>t, <2>1 DEF HookAsks, LoopTypeOK, linkVars, deviceVars
<1>2. ASSUME NEW h \in Hooks, HookReads(h) PROVE LoopTypeOK'
  BY <1>2, <1>t, <1>q DEF HookReads, Verdict, LoopTypeOK, linkVars, deviceVars
<1>3. ASSUME NEW h \in Hooks, HookTimesOut(h) PROVE LoopTypeOK'
  BY <1>3, <1>t, <1>q DEF HookTimesOut, LoopTypeOK, linkVars, deviceVars
<1>4. CASE KeepaliveTicks
  BY <1>4, <1>t, <1>q DEF KeepaliveTicks, LoopTypeOK, linkVars, deviceVars, hookVars
<1>5. CASE BridgeConnects
  BY <1>5, <1>t, <1>q DEF BridgeConnects, LoopTypeOK, linkVars, deviceVars, hookVars
<1>6. CASE BridgeAbsorbs
  BY <1>6, <1>t, <1>q DEF BridgeAbsorbs, LoopTypeOK, linkVars, deviceVars, hookVars
<1>7. CASE DeviceReceives
  <2>1. Head(downlink) \in Lines /\ downlink' \in Seq(Lines)
    BY <1>7 DEF DeviceReceives, LoopTypeOK
  <2>2. glass' \in Prompts \cup {None} /\ answered' \in Nat \cup {None} /\ torn' \in BOOLEAN
    BY <1>7, <2>1, LinesByKind DEF DeviceReceives, Apply, LoopTypeOK
  <2>3. QED BY <1>7, <1>t, <2>1, <2>2 DEF DeviceReceives, LoopTypeOK, linkVars, hookVars
<1>8. ASSUME NEW decision \in Decisions, OwnerAnswers(decision) \/ OwnerIsRefused(decision)
      PROVE  LoopTypeOK'
  <2>1. glass \in Prompts /\ glass.id \in Nat /\ glass.call \in Hooks
    BY <1>8, PromptFields DEF OwnerAnswers, OwnerIsRefused, Press, Unanswered, LoopTypeOK
  <2>2. [id |-> glass.id, decision |-> decision] \in Responses
    BY <2>1 DEF Responses
  <2>3. uplink' \in Seq(Responses)
    <3>1. uplink \in Seq(Responses) /\ Append(uplink, [id |-> glass.id, decision |-> decision]) \in Seq(Responses)
      BY <2>2 DEF LoopTypeOK
    <3>2. QED BY <1>8, <3>1 DEF OwnerAnswers, OwnerIsRefused, Notifies
  <2>4. said' \subseteq Hooks \X Decisions
    BY <1>8, <2>1 DEF OwnerAnswers, OwnerIsRefused, Press, LoopTypeOK
  <2>5. QED
    BY <1>8, <1>t, <2>1, <2>3, <2>4
    DEF OwnerAnswers, OwnerIsRefused, Press, LoopTypeOK, hookVars
<1>9. CASE LinkDrops
  BY <1>9, <1>t, <1>q, <1>a DEF LinkDrops, LoopTypeOK, hookVars
<1>10. CASE BridgeLosesLine
  BY <1>10, <1>t, <1>a DEF BridgeLosesLine, LoopTypeOK, hookVars
<1>11. CASE StickReboots
  <2>1. mailbox' \in Seq(Inputs)
    BY <1>11, <1>q, <1>a DEF StickReboots, LoopTypeOK
  <2>2. QED BY <1>11, <1>t, <1>q, <2>1 DEF StickReboots, LoopTypeOK, hookVars
<1>12. CASE DaemonStarts
  BY <1>12, <1>t, <1>q DEF DaemonStarts, LoopTypeOK, linkVars, deviceVars, hookVars
<1>13. QED
  BY <1>1, <1>2, <1>3, <1>4, <1>5, <1>6, <1>7, <1>8, <1>9, <1>10, <1>11, <1>12 DEF Elsewhere

\* How the mailbox and the link move outside the daemon: at most one input is
\* queued, a link event exactly when the link turns, a hook's request when its
\* process starts.
LEMMA ElsewhereQueues ==
  ASSUME LoopTypeOK, Elsewhere
  PROVE  /\ \A h \in Hooks : hook'[h] = "new" => hook[h] = "new"
         /\ \/ UNCHANGED <<mailbox, linkUp>>
            \/ \E x \in Inputs :
                 /\ x.kind \in {"keepalive", "deviceLine"}
                 /\ mailbox' = Append(mailbox, x) /\ linkUp' = linkUp
            \/ /\ linkUp' = ~linkUp
               /\ mailbox' = Append(mailbox, IF linkUp THEN LinkDownInput ELSE LinkUpInput)
            \/ \E h \in Hooks :
                 /\ hook[h] = "new" /\ hook'[h] # "new"
                 /\ mailbox' = Append(mailbox, HookInput(h)) /\ linkUp' = linkUp
<1>t. hook \in [Hooks -> {"new", "waiting", "done"}] /\ linkUp \in BOOLEAN
  BY DEF LoopTypeOK
<1>q. /\ KeepaliveInput \in Inputs /\ KeepaliveInput.kind = "keepalive"
      /\ \A r \in Responses : DeviceInput(r) \in Inputs /\ DeviceInput(r).kind = "deviceLine"
  BY DEF Inputs, KeepaliveInput, DeviceInput
<1>1. ASSUME NEW h \in Hooks, HookAsks(h)
      PROVE  /\ \A g \in Hooks : hook'[g] = "new" => hook[g] = "new"
             /\ linkUp' = linkUp
             /\ mailbox' # mailbox =>
                  /\ hook[h] = "new" /\ hook'[h] # "new"
                  /\ mailbox' = Append(mailbox, HookInput(h))
  BY <1>1, <1>t DEF HookAsks, linkVars
<1>2. ASSUME NEW h \in Hooks, HookReads(h) \/ HookTimesOut(h)
      PROVE  UNCHANGED <<mailbox, linkUp>> /\ \A g \in Hooks : hook'[g] = "new" => hook[g] = "new"
  BY <1>2, <1>t DEF HookReads, HookTimesOut, linkVars
<1>3. CASE KeepaliveTicks
  BY <1>3, <1>q DEF KeepaliveTicks, linkVars, hookVars
<1>4. CASE BridgeAbsorbs
  <2>1. Head(uplink) \in Responses
    BY <1>4 DEF BridgeAbsorbs, LoopTypeOK
  <2>2. QED BY <1>4, <1>q, <2>1 DEF BridgeAbsorbs, hookVars
<1>5. CASE BridgeConnects \/ LinkDrops \/ StickReboots
  BY <1>5, <1>t DEF BridgeConnects, LinkDrops, StickReboots, hookVars
<1>6. CASE \/ DeviceReceives \/ BridgeLosesLine \/ DaemonStarts
           \/ \E decision \in Decisions : OwnerAnswers(decision) \/ OwnerIsRefused(decision)
  BY <1>6 DEF DeviceReceives, BridgeLosesLine, DaemonStarts, OwnerAnswers, OwnerIsRefused,
              Press, linkVars, hookVars
<1>7. QED
  BY <1>1, <1>2, <1>3, <1>4, <1>5, <1>6 DEF Elsewhere

-----------------------------------------------------------------------------
(* The daemon is driven as its own module allows.                          *)

\* What appending to a queue leaves.
LEMMA AppendAt ==
  ASSUME NEW S, NEW q \in Seq(S), NEW x \in S
  PROVE  /\ Append(q, x) \in Seq(S)
         /\ \A i \in DOMAIN Append(q, x) :
              \/ i \in DOMAIN q /\ Append(q, x)[i] = q[i]
              \/ i = Len(q) + 1 /\ Append(q, x)[i] = x
         /\ \A i \in DOMAIN q : i \in DOMAIN Append(q, x) /\ Append(q, x)[i] = q[i]
         /\ Len(q) + 1 \in DOMAIN Append(q, x) /\ Append(q, x)[Len(q) + 1] = x
  OBVIOUS

\* Whatever happens outside the daemon, its mailbox stays well driven.
LEMMA ElsewhereDrives == LoopTypeOK /\ Driven /\ Elsewhere => Driven'
<1> SUFFICES ASSUME LoopTypeOK, Driven, Elsewhere PROVE Driven'
  OBVIOUS
<1>t. /\ mailbox \in Seq(Inputs) /\ bonded \in BOOLEAN /\ linkUp \in BOOLEAN
      /\ asked \subseteq Hooks /\ hook \in [Hooks -> {"new", "waiting", "done"}]
  BY DEF LoopTypeOK, TypeOK
<1>u. UNCHANGED daemonVars /\ \A h \in Hooks : hook'[h] = "new" => hook[h] = "new"
  BY ElsewhereLeavesDaemon, ElsewhereQueues
<1>v. /\ bonded' = bonded /\ asked' = asked
      /\ \A h \in asked : hook'[h] # "new"
      /\ \A i \in DOMAIN mailbox : mailbox[i].kind = "hook" =>
           mailbox[i].hook \notin asked /\ hook'[mailbox[i].hook] # "new"
  <2>1. \A i \in DOMAIN mailbox : mailbox[i].kind = "hook" => mailbox[i].hook \in Hooks
    BY <1>t, InputsByKind
  <2>2. QED BY <1>t, <1>u, <2>1 DEF daemonVars, Driven, HookInputsAreNew
<1>1. CASE UNCHANGED <<mailbox, linkUp>>
  BY <1>1, <1>v DEF Driven, HookInputsAreNew
<1>2. ASSUME NEW x \in Inputs, x.kind # "hook", mailbox' = Append(mailbox, x)
      PROVE  HookInputsAreNew'
  <2>1. \A i \in DOMAIN mailbox' : mailbox'[i].kind = "hook" =>
           i \in DOMAIN mailbox /\ mailbox'[i] = mailbox[i]
    BY <1>2, <1>t, AppendAt
  <2>2. QED BY <1>v, <2>1 DEF Driven, HookInputsAreNew
<1>3. CASE \E x \in Inputs : /\ x.kind \in {"keepalive", "deviceLine"}
                             /\ mailbox' = Append(mailbox, x) /\ linkUp' = linkUp
  <2> PICK x \in Inputs : x.kind \in {"keepalive", "deviceLine"}
                          /\ mailbox' = Append(mailbox, x) /\ linkUp' = linkUp
    BY <1>3
  <2>1. Alternates(mailbox', bonded', linkUp')
    BY <1>t, <1>v, InputsByKind, AlternatesAppendOther DEF Driven
  <2>2. QED BY <1>2, <2>1 DEF Driven
<1>4. CASE /\ linkUp' = ~linkUp
           /\ mailbox' = Append(mailbox, IF linkUp THEN LinkDownInput ELSE LinkUpInput)
  <2> DEFINE x == IF linkUp THEN LinkDownInput ELSE LinkUpInput
  <2>1. x \in Inputs /\ x.kind # "hook"
    BY DEF Inputs, LinkEvents, LinkDownInput, LinkUpInput
  <2>2. Alternates(mailbox', bonded', linkUp')
    <3>1. Alternates(mailbox, bonded, linkUp)
      BY DEF Driven
    <3>2. x = (IF linkUp THEN LinkDownInput ELSE LinkUpInput) /\ mailbox' = Append(mailbox, x)
      BY <1>4
    <3> HIDE DEF x
    <3>3. Alternates(Append(mailbox, x), bonded, ~linkUp)
      BY <1>t, <2>1, <3>1, <3>2, AlternatesAppendEvent
    <3>4. QED BY <1>4, <1>v, <3>2, <3>3
  <2>3. QED BY <1>2, <1>4, <2>1, <2>2 DEF Driven
<1>5. CASE \E h \in Hooks : /\ hook[h] = "new" /\ hook'[h] # "new"
                            /\ mailbox' = Append(mailbox, HookInput(h)) /\ linkUp' = linkUp
  <2> PICK h \in Hooks : /\ hook[h] = "new" /\ hook'[h] # "new"
                         /\ mailbox' = Append(mailbox, HookInput(h)) /\ linkUp' = linkUp
    BY <1>5
  <2>1. HookInput(h) \in Inputs /\ HookInput(h).kind = "hook" /\ HookInput(h).hook = h
    BY DEF Inputs, HookInput
  <2>2. Alternates(mailbox', bonded', linkUp')
    BY <1>t, <1>v, <2>1, InputsByKind, AlternatesAppendOther DEF Driven
  <2> DEFINE x == HookInput(h)
             n == Len(mailbox) + 1
  <2> HIDE DEF x
  <2>3. /\ x.kind = "hook" /\ x.hook = h /\ h \notin asked
        /\ \A i \in DOMAIN mailbox' : \/ i \in DOMAIN mailbox /\ mailbox'[i] = mailbox[i]
                                      \/ i = n /\ mailbox'[i] = x
        /\ \A i \in DOMAIN mailbox : mailbox[i].kind = "hook" => mailbox[i].hook # h
    <3>1. mailbox' = Append(mailbox, x) /\ x \in Inputs /\ x.kind = "hook" /\ x.hook = h
      BY <2>1 DEF x
    <3>2. QED BY <1>t, <3>1, AppendAt DEF Driven, HookInputsAreNew
  <2> HIDE DEF n
  <2>4. HookInputsAreNew'
    BY <1>v, <2>3 DEF Driven, HookInputsAreNew
  <2>5. QED BY <2>2, <2>4 DEF Driven
<1>6. QED
  BY <1>1, <1>3, <1>4, <1>5, ElsewhereQueues

\* The head of the mailbox is an input the daemon's environment may present.
LEMMA ActorIsDriven ==
  ASSUME LoopTypeOK, Bookkeeping, Driven, ActorTakes
  PROVE  Next
<1>t. mailbox \in Seq(Inputs) /\ bonded \in BOOLEAN /\ linkUp \in BOOLEAN
  BY DEF LoopTypeOK, TypeOK
<1>1. CASE ActorTakesLinkUp
  <2>1. mailbox # << >> /\ Head(mailbox) = LinkUpInput /\ StepLinkUp
    BY <1>1, HeadIsInput, InputsByKind DEF ActorTakesLinkUp, Heads
  <2>2. ~bonded
    BY <1>t, <2>1, AlternatesTakeEvent DEF Driven, LinkEvents
  <2>3. QED BY <2>1, <2>2 DEF Next, EnvironmentNext, LinkComesUp
<1>2. CASE ActorTakesLinkDown
  <2>1. mailbox # << >> /\ Head(mailbox) = LinkDownInput /\ StepLinkDown
    BY <1>2, HeadIsInput, InputsByKind DEF ActorTakesLinkDown, Heads
  <2>2. bonded
    BY <1>t, <2>1, EventsDiffer, AlternatesTakeEvent DEF Driven, LinkEvents
  <2>3. QED BY <2>1, <2>2 DEF Next, EnvironmentNext, LinkGoesDown
<1>3. CASE ActorTakesKeepalive
  BY <1>3 DEF ActorTakesKeepalive, Next, EnvironmentNext
<1>4. CASE ActorTakesHook
  <2> DEFINE h == Head(mailbox).hook
  <2>1. h \in Hooks /\ h \notin asked /\ StepHook(h)
    BY <1>4, HeadIsInput, InputsByKind DEF ActorTakesHook, Heads, Driven, HookInputsAreNew
  <2>2. QED BY <2>1 DEF Next, HookArrives
<1>5. CASE ActorTakesResponse
  <2> DEFINE r == Head(mailbox).response
  <2>1. r \in Responses /\ StepDeviceLine(r)
    BY <1>5, HeadIsInput, InputsByKind DEF ActorTakesResponse, Heads
  <2>2. CASE r.id \in DOMAIN pending
    <3>1. r \in [id : 0 .. promptSeq, decision : Decisions]
      <4>1. r.id \in 0 .. promptSeq
        BY <2>1, <2>2 DEF Bookkeeping, IdsWereMinted, LoopTypeOK, TypeOK, Responses
      <4>2. QED BY <2>1, <4>1 DEF Responses
    <3>2. QED BY <2>1, <3>1 DEF Next, EnvironmentNext, DeviceSpeaks
  <2>3. CASE r.id \notin DOMAIN pending
    <3>1. StepDeviceLine(None)
      BY <2>1, <2>3 DEF StepDeviceLine, OnDeviceLine
    <3>2. QED BY <3>1 DEF Next, EnvironmentNext, DeviceSpeaks
  <2>4. QED BY <2>2, <2>3
<1>6. QED BY <1>1, <1>2, <1>3, <1>4, <1>5 DEF ActorTakes

\* What one step of the actor leaves of the loop's own state.
LEMMA ActorPerforms ==
  ASSUME ActorTakes
  PROVE  /\ mailbox # << >> /\ mailbox' = Tail(mailbox) /\ daemonUp
         /\ UNCHANGED <<daemonUp, linkUp, uplink, glass, answered, torn, hook, outcome, said, faults>>
         /\ downlink' \in {downlink \o effects'.lines, downlink \o << >>}
         /\ reply' = [h \in Hooks |-> IF h \in Answered /\ hook[h] = "waiting"
                                      THEN effects'.replies[h] ELSE reply[h]]
  BY DEF ActorTakes, ActorTakesLinkUp, ActorTakesLinkDown, ActorTakesKeepalive, ActorTakesHook,
         ActorTakesResponse, Heads, Performs, SentLines, deviceVars

\* The types survive the actor's steps.
LEMMA ActorTypes ==
  ASSUME LoopTypeOK, Bookkeeping, Driven, ActorTakes
  PROVE  LoopTypeOK'
<1>1. TypeOK'
  BY ActorIsDriven, TypeStep DEF LoopTypeOK
<1>2. mailbox' \in Seq(Inputs)
  BY ActorPerforms, HeadIsInput
<1>3. downlink' \in Seq(Lines)
  <2>1. effects'.lines \in Seq(Lines) /\ downlink \in Seq(Lines) /\ << >> \in Seq(Lines)
    BY ActorEffects DEF LoopTypeOK
  <2>2. downlink \o effects'.lines \in Seq(Lines) /\ downlink \o << >> \in Seq(Lines)
    BY <2>1
  <2>3. QED BY <2>2, ActorPerforms
<1>4. reply' \in [Hooks -> Replies \cup {"EOF", None}]
  <2>1. \A h \in Answered : effects'.replies[h] \in Replies
    BY <1>1 DEF TypeOK, Answered
  <2>2. QED BY <2>1, ActorPerforms DEF LoopTypeOK
<1>5. QED BY <1>1, <1>2, <1>3, <1>4, ActorPerforms DEF LoopTypeOK

\* Taking an input flips the link's state exactly at a link event, and marks only
\* the hook whose request it takes.
LEMMA ActorTakesAnInput ==
  ASSUME LoopTypeOK, Bookkeeping, Driven, ActorTakes
  PROVE  /\ Head(mailbox) \in LinkEvents => bonded' = ~bonded
         /\ Head(mailbox) \notin LinkEvents => bonded' = bonded
         /\ asked' \subseteq asked \cup {h \in Hooks : Head(mailbox) = HookInput(h)}
<1>t. mailbox \in Seq(Inputs) /\ bonded \in BOOLEAN /\ linkUp \in BOOLEAN /\ mailbox # << >>
  BY ActorPerforms DEF LoopTypeOK, TypeOK
<1>1. CASE ActorTakesLinkUp
  <2>1. Head(mailbox) = LinkUpInput /\ bonded' = TRUE /\ asked' = asked
    BY <1>1, HeadIsInput, InputsByKind DEF ActorTakesLinkUp, Heads, StepLinkUp, OnLinkUp
  <2>2. ~bonded
    BY <1>t, <2>1, AlternatesTakeEvent DEF Driven, LinkEvents
  <2>3. QED BY <2>1, <2>2 DEF LinkEvents
<1>2. CASE ActorTakesLinkDown
  <2>1. Head(mailbox) = LinkDownInput /\ bonded' = FALSE /\ asked' = asked
    BY <1>2, HeadIsInput, InputsByKind DEF ActorTakesLinkDown, Heads, StepLinkDown, OnLinkDown
  <2>2. bonded
    BY <1>t, <2>1, EventsDiffer, AlternatesTakeEvent DEF Driven, LinkEvents
  <2>3. QED BY <2>1, <2>2 DEF LinkEvents
<1>3. CASE ActorTakesKeepalive
  BY <1>3, HeadIsInput, InputsByKind DEF ActorTakesKeepalive, Heads, StepKeepalive, OnKeepalive
<1>4. CASE ActorTakesHook
  <2> DEFINE h == Head(mailbox).hook
  <2>1. h \in Hooks /\ Head(mailbox) = HookInput(h) /\ Head(mailbox) \notin LinkEvents /\ StepHook(h)
    BY <1>4, HeadIsInput, InputsByKind DEF ActorTakesHook, Heads
  <2>2. bonded' = bonded /\ asked' = asked \cup {h}
    BY <2>1 DEF StepHook, OnHook
  <2>3. QED BY <2>1, <2>2
<1>5. CASE ActorTakesResponse
  BY <1>5, HeadIsInput, InputsByKind DEF ActorTakesResponse, Heads, StepDeviceLine, OnDeviceLine
<1>6. QED BY <1>1, <1>2, <1>3, <1>4, <1>5 DEF ActorTakes

\* Taking an input leaves a mailbox that drives the daemon on.
LEMMA ActorDrives ==
  ASSUME LoopTypeOK, Bookkeeping, Driven, ActorTakes
  PROVE  Driven'
<1>t. /\ mailbox \in Seq(Inputs) /\ bonded \in BOOLEAN /\ linkUp \in BOOLEAN /\ mailbox # << >>
      /\ mailbox' = Tail(mailbox) /\ UNCHANGED <<hook, linkUp>>
      /\ Alternates(mailbox, bonded, linkUp)
  BY ActorPerforms DEF LoopTypeOK, TypeOK, Driven
<1>1. Alternates(mailbox', bonded', linkUp')
  <2>1. CASE Head(mailbox) \in LinkEvents
    BY <1>t, <2>1, ActorTakesAnInput, AlternatesTakeEvent
  <2>2. CASE Head(mailbox) \notin LinkEvents
    BY <1>t, <2>2, ActorTakesAnInput, AlternatesTakeOther
  <2>3. QED BY <2>1, <2>2
<1>2. /\ 1 \in DOMAIN mailbox /\ Head(mailbox) = mailbox[1]
      /\ \A i \in DOMAIN mailbox' : i \in Nat /\ i + 1 \in DOMAIN mailbox /\ mailbox'[i] = mailbox[i + 1]
      /\ \A i \in DOMAIN mailbox' : i + 1 # 1
  <2>1. \A i \in DOMAIN mailbox' : i # 0
    BY <1>t
  <2>2. QED BY <1>t, <2>1, HeadIsInput
<1>3. \A h \in asked' \ asked : h \in Hooks /\ mailbox[1] = HookInput(h)
  BY <1>2, ActorTakesAnInput
<1>4. \A h \in asked' \ asked : mailbox[1].kind = "hook" /\ mailbox[1].hook = h
  <2>1. \A h \in Hooks : HookInput(h).kind = "hook" /\ HookInput(h).hook = h
    BY DEF HookInput
  <2>2. QED BY <1>3, <2>1
<1>5. ASSUME NEW i \in DOMAIN mailbox', mailbox'[i].kind = "hook"
      PROVE  mailbox'[i].hook \notin asked' /\ hook'[mailbox'[i].hook] # "new"
  BY <1>t, <1>2, <1>4, <1>5 DEF Driven, HookInputsAreNew
<1>6. ASSUME NEW i \in DOMAIN mailbox', NEW j \in DOMAIN mailbox',
             mailbox'[i].kind = "hook", mailbox'[j].kind = "hook", mailbox'[i].hook = mailbox'[j].hook
      PROVE  i = j
  <2>1. i + 1 = j + 1
    BY <1>2, <1>6 DEF Driven, HookInputsAreNew
  <2>2. QED BY <1>2, <2>1
<1>7. \A h \in asked' : hook'[h] # "new"
  BY <1>t, <1>2, <1>4 DEF Driven, HookInputsAreNew
<1>8. QED BY <1>1, <1>5, <1>6, <1>7 DEF Driven, HookInputsAreNew

\* A restarted daemon knows nothing, and knows it consistently.
LEMMA CrashLeavesNothing ==
  ASSUME DrivenInv, DaemonCrashes
  PROVE  DrivenInv' /\ DOMAIN pending' = {} /\ mailbox' = << >> /\ ~linkUp'
<1>1. /\ bonded' = FALSE /\ promptSeq' = 0 /\ pending' = NoPending /\ ledger' = NewLedger
      /\ effects' = NoEffects /\ waiters' = {} /\ linkOut' = FALSE
      /\ daemonUp' = FALSE /\ mailbox' = << >> /\ linkUp' = FALSE /\ downlink' = << >> /\ uplink' = << >>
      /\ UNCHANGED <<asked, glass, answered, hook, outcome, said>>
      /\ CutShort
  BY DEF DaemonCrashes
<1>2. NewLedger \in LedgerType /\ Waiting(NewLedger) = {}
  BY DEF NewLedger, LedgerType, LedgersOver, Unseen, SessionStatesOver, Waiting
<1>3. TypeOK'
  <2>1. DOMAIN pending' = {} /\ pending' \in [DOMAIN pending' -> [hook : Hooks, session : Sessions]]
    BY <1>1, NothingType
  <2>2. /\ DOMAIN effects' = {"lines", "replies"} /\ DOMAIN effects'.replies = {}
        /\ effects'.replies \in [DOMAIN effects'.replies -> Replies]
    BY <1>1, NothingType
  <2>3. QED BY <1>1, <1>2, <2>1, <2>2 DEF TypeOK, DrivenInv, LoopTypeOK
<1>4. Bookkeeping'
  BY <1>1, <1>2, NothingType
  DEF Bookkeeping, IdsWereMinted, WaitersHaveAsked, ShownPromptIsAnswerable,
      EveryWaiterHasOnePrompt, NothingPendsUnbonded
<1>5. SnapshotsMatchLedger'
  BY <1>1, SilenceMatches DEF NoEffects
<1>6. Driven'
  <2>1. Alternates(mailbox', bonded', linkUp')
    BY <1>1, AlternatesAtRest
  <2>2. DOMAIN mailbox' = {}
    BY <1>1
  <2>3. QED BY <1>1, <2>1, <2>2 DEF Driven, HookInputsAreNew, DrivenInv
<1>7. LoopTypeOK'
  <2>1. torn' \in BOOLEAN
    BY <1>1 DEF CutShort, DrivenInv, LoopTypeOK
  <2>2. reply' \in [Hooks -> Replies \cup {"EOF", None}]
    BY DEF DaemonCrashes
  <2>3. mailbox' \in Seq(Inputs) /\ downlink' \in Seq(Lines) /\ uplink' \in Seq(Responses)
    BY <1>1
  <2>4. QED BY <1>1, <1>3, <2>1, <2>2, <2>3 DEF LoopTypeOK, DrivenInv
<1>8. QED BY <1>1, <1>3, <1>4, <1>5, <1>6, <1>7, NothingType DEF DrivenInv

\* The loop starts at rest.
LEMMA DrivenStarts == LoopInit => DrivenInv
<1> SUFFICES ASSUME LoopInit PROVE DrivenInv
  OBVIOUS
<1>1. ActorInit /\ TypeOK
  BY TypeInit DEF LoopInit
<1>2. LoopTypeOK
  <2>1. mailbox \in Seq(Inputs) /\ downlink \in Seq(Lines) /\ uplink \in Seq(Responses)
    BY DEF LoopInit
  <2>2. QED BY <1>1, <2>1 DEF LoopInit, LoopTypeOK
<1>3. Driven
  <2>1. bonded = FALSE /\ asked = {} /\ mailbox = << >> /\ linkUp = FALSE
    BY <1>1 DEF LoopInit, ActorInit, CoordinatorInit
  <2>2. Alternates(mailbox, bonded, linkUp)
    BY <2>1, AlternatesAtRest
  <2>3. DOMAIN mailbox = {}
    BY <2>1
  <2>4. QED BY <2>1, <2>2, <2>3 DEF Driven, HookInputsAreNew
<1>4. QED BY <1>1, <1>2, <1>3, BookkeepingInit, SnapshotsInit DEF DrivenInv

\* Every step of the loop keeps the daemon's bookkeeping and the discipline of its
\* mailbox.
LEMMA DrivenStep == DrivenInv /\ [LoopNext]_loopVars => DrivenInv'
<1> SUFFICES ASSUME DrivenInv, [LoopNext]_loopVars PROVE DrivenInv'
  OBVIOUS
<1>1. CASE ActorTakes
  <2>1. Next
    BY <1>1, ActorIsDriven DEF DrivenInv
  <2>2. QED
    BY <1>1, <2>1, ActorTypes, ActorDrives, BookkeepingStep, SnapshotsStep DEF DrivenInv, LoopTypeOK
<1>2. CASE DaemonCrashes
  BY <1>2, CrashLeavesNothing
<1>3. CASE Elsewhere
  <2>1. UNCHANGED daemonVars
    BY <1>3, ElsewhereLeavesDaemon
  <2>2. QED
    BY <1>3, <2>1, ElsewhereTypes, ElsewhereDrives, BookkeepingStep, SnapshotsStep
    DEF DrivenInv, LoopTypeOK
<1>4. CASE UNCHANGED loopVars
  <2>1. UNCHANGED daemonVars
    BY <1>4 DEF loopVars
  <2>2. TypeOK' /\ Bookkeeping' /\ SnapshotsMatchLedger'
    BY <2>1, TypeStep, BookkeepingStep, SnapshotsStep DEF DrivenInv, LoopTypeOK
  <2>3. LoopTypeOK'
    BY <1>4, <2>2 DEF loopVars, linkVars, deviceVars, hookVars, DrivenInv, LoopTypeOK
  <2>4. Driven'
    BY <1>4 DEF loopVars, daemonVars, linkVars, hookVars, DrivenInv, Driven, HookInputsAreNew
  <2>5. QED BY <2>2, <2>3, <2>4 DEF DrivenInv
<1>5. QED BY <1>1, <1>2, <1>3, <1>4, LoopSteps

\* The loop's invariant holds whatever goes wrong.
LEMMA DrivenAlways == LoopSpec => []DrivenInv
  BY DrivenStarts, DrivenStep, PTL DEF LoopSpec

\* Whatever goes wrong short of a crash of the daemon itself.
THEOREM TheDaemonIsDriven ==
  ASSUME "crash" \notin Faults
  PROVE  LoopSpec => DaemonIsDriven
<1>1. LoopInit => ActorInit
  BY DEF LoopInit
<1>2. DrivenInv /\ [LoopNext]_loopVars => [Next]_daemonVars
  <2> SUFFICES ASSUME DrivenInv, [LoopNext]_loopVars PROVE [Next]_daemonVars
    OBVIOUS
  <2>1. CASE ActorTakes
    BY <2>1, ActorIsDriven DEF DrivenInv
  <2>2. ~DaemonCrashes
    BY DEF DaemonCrashes, Fails, MayFail
  <2>3. CASE Elsewhere
    BY <2>3, ElsewhereLeavesDaemon
  <2>4. CASE UNCHANGED loopVars
    BY <2>4 DEF loopVars
  <2>5. QED BY <2>1, <2>2, <2>3, <2>4, LoopSteps
<1>3. QED BY <1>1, <1>2, DrivenAlways, PTL DEF LoopSpec, DaemonIsDriven, Spec

\* So what is proved of the daemon in any environment holds of it in the loop.
THEOREM TheLoopKeepsItsApprovalsUp ==
  ASSUME "crash" \notin Faults
  PROVE  LoopSpec => SerialApprovalsStayUp /\ SerialGlassShowsTheNewest /\ CompletionIsEmitted
<1>1. LoopSpec => Spec
  BY TheDaemonIsDriven, PTL DEF DaemonIsDriven
<1>2. QED BY <1>1, ApprovalsStayUp, GlassIsShownTheNewest, CompletionsAreEmitted, PTL

\* The daemon's records agree with each other through its crashes too: the one that
\* starts over finds nobody waiting, and the queue and the link as it knows them.
THEOREM TheBooksAgreeThroughCrashes ==
  LoopSpec => [](/\ ShownPromptIsAnswerable /\ EveryWaiterHasOnePrompt
                 /\ NothingPendsUnbonded /\ CountAgreesWithPrompt)
<1>1. DrivenInv => /\ ShownPromptIsAnswerable /\ EveryWaiterHasOnePrompt
                   /\ NothingPendsUnbonded /\ CountAgreesWithPrompt
  BY DEF DrivenInv, Bookkeeping, SnapshotsMatchLedger, CountAgreesWithPrompt
<1>2. QED BY <1>1, DrivenAlways, PTL

-----------------------------------------------------------------------------
(* Nobody is stranded.                                                     *)

\* A hook that an input answers and that waits has a reply to read.
LEMMA AnsweredIsReplied ==
  ASSUME DrivenInv, DrivenInv', ActorTakes, NEW h \in Hooks, hook[h] = "waiting"
  PROVE  /\ h \in Answered => reply'[h] = effects'.replies[h] /\ reply'[h] # None
         /\ h \notin Answered => reply'[h] = reply[h]
<1>1. h \in Answered => effects'.replies[h] \in Replies
  BY DEF DrivenInv, LoopTypeOK, TypeOK, Answered
<1>2. QED BY <1>1, ActorPerforms, SilenceAssumption

\* A request that is filed pends under its fresh id.
LEMMA RaisedIsPending ==
  ASSUME DrivenInv, NEW h \in Hooks, Raises(h)
  PROVE  /\ promptSeq \notin DOMAIN pending /\ promptSeq \in Nat
         /\ DOMAIN pending' = DOMAIN pending \cup {promptSeq}
         /\ pending'[promptSeq].hook = h
         /\ \A id \in DOMAIN pending : pending'[id] = pending[id]
  BY DEF Raises, Insert, DrivenInv, LoopTypeOK, TypeOK, Bookkeeping, IdsWereMinted

\* A prompt that is settled pends no longer, and it alone.
LEMMA SettledIsGone ==
  ASSUME NEW r, Settles(r)
  PROVE  /\ DOMAIN pending' = DOMAIN pending \ {r.id}
         /\ \A id \in DOMAIN pending' : pending'[id] = pending[id]
  BY DEF Settles, Restrict

\* The hook whose request is at the head is filed or answered.
LEMMA TakenIsNotStranded ==
  ASSUME DrivenInv, ActorTakes, NEW h \in Hooks, Head(mailbox) = HookInput(h)
  PROVE  h \in Answered \/ \E id \in DOMAIN pending' : pending'[id].hook = h
<1>1. /\ HookInput(h).kind = "hook" /\ HookInput(h) # LinkDownInput
      /\ \A g \in Hooks : HookInput(g) = HookInput(h) => g = h
      /\ \A r \in Responses : DeviceInput(r) # HookInput(h)
  BY DEF HookInput, LinkDownInput, DeviceInput
<1>2. LoopTypeOK
  BY DEF DrivenInv
<1>3. ~Drains /\ ~Passes /\ \A r \in Responses : ~Settles(r)
  BY <1>1 DEF Drains, Passes, Settles
<1>4. PICK g \in Hooks : Raises(g) \/ TurnsAway(g)
  BY <1>2, <1>3, ActorEffects
<1>5. g = h
  BY <1>1, <1>4 DEF Raises, TurnsAway
<1>6. QED BY <1>4, <1>5, RaisedIsPending DEF TurnsAway

\* A hook that is pending stays so or is answered.
LEMMA PendingIsNotStranded ==
  ASSUME DrivenInv, ActorTakes, NEW id \in DOMAIN pending
  PROVE  pending[id].hook \in Answered \/ (id \in DOMAIN pending' /\ pending'[id] = pending[id])
<1>1. LoopTypeOK
  BY DEF DrivenInv
<1>2. ASSUME NEW g \in Hooks, Raises(g) \/ TurnsAway(g)
      PROVE  id \in DOMAIN pending' /\ pending'[id] = pending[id]
  BY <1>2, RaisedIsPending DEF TurnsAway
<1>3. CASE Drains
  BY <1>3 DEF Drains
<1>4. ASSUME NEW r \in Responses, Settles(r)
      PROVE  pending[id].hook \in Answered \/ (id \in DOMAIN pending' /\ pending'[id] = pending[id])
  BY <1>4, SettledIsGone DEF Settles
<1>5. CASE Passes
  BY <1>5 DEF Passes
<1>6. QED BY <1>1, <1>2, <1>3, <1>4, <1>5, ActorEffects

\* No step leaves a blocked hook without somebody to answer it.
LEMMA NotStrandedStep ==
  DrivenInv /\ DrivenInv' /\ NoHookIsStranded /\ [LoopNext]_loopVars => NoHookIsStranded'
<1> SUFFICES ASSUME DrivenInv, DrivenInv', NoHookIsStranded, [LoopNext]_loopVars,
                    NEW h \in Hooks, hook'[h] = "waiting", reply'[h] = None
             PROVE  \/ \E i \in DOMAIN mailbox' : mailbox'[i] = HookInput(h)
                    \/ \E id \in DOMAIN pending' : pending'[id].hook = h
  BY DEF NoHookIsStranded
<1>t. LoopTypeOK /\ mailbox \in Seq(Inputs)
  BY DEF DrivenInv, LoopTypeOK
<1>1. CASE ActorTakes
  <2>1. hook[h] = "waiting"
    BY <1>1, ActorPerforms
  <2>2. h \notin Answered /\ reply[h] = None
    BY <1>1, <2>1, AnsweredIsReplied
  <2>3. CASE \E i \in DOMAIN mailbox : mailbox[i] = HookInput(h)
    <3> PICK i \in DOMAIN mailbox : mailbox[i] = HookInput(h)
      BY <2>3
    <3>1. CASE i = 1
      BY <1>1, <1>t, <2>2, <3>1, ActorPerforms, HeadIsInput, TakenIsNotStranded
    <3>2. CASE i # 1
      BY <1>1, <1>t, <3>2, ActorPerforms, HeadIsInput
    <3>3. QED BY <3>1, <3>2
  <2>4. CASE \E id \in DOMAIN pending : pending[id].hook = h
    BY <1>1, <2>2, <2>4, PendingIsNotStranded
  <2>5. QED BY <2>1, <2>2, <2>3, <2>4 DEF NoHookIsStranded
<1>2. CASE DaemonCrashes
  <2>1. hook[h] = "waiting" /\ reply'[h] \in {"EOF"} \cup ({reply[h]} \ {None})
    BY <1>2 DEF DaemonCrashes
  <2>2. QED BY <2>1, SilenceAssumption
<1>3. CASE Elsewhere
  <2>1. UNCHANGED pending
    BY <1>3, ElsewhereLeavesDaemon DEF daemonVars
  <2>2. \A i \in DOMAIN mailbox : i \in DOMAIN mailbox' /\ mailbox'[i] = mailbox[i]
    <3>1. \A x \in Inputs : mailbox' = Append(mailbox, x) =>
            \A i \in DOMAIN mailbox : i \in DOMAIN mailbox' /\ mailbox'[i] = mailbox[i]
      BY <1>t, AppendAt
    <3>2. /\ LinkDownInput \in Inputs /\ LinkUpInput \in Inputs
          /\ \A g \in Hooks : HookInput(g) \in Inputs
      BY DEF Inputs, LinkEvents, HookInput
    <3>3. QED BY <1>3, <1>t, <3>1, <3>2, ElsewhereQueues
  <2>3. UNCHANGED reply
    BY <1>3 DEF Elsewhere, HookAsks, HookReads, HookTimesOut, KeepaliveTicks, BridgeConnects,
                BridgeAbsorbs, DeviceReceives, OwnerAnswers, OwnerIsRefused, Press, LinkDrops,
                BridgeLosesLine, StickReboots, DaemonStarts, hookVars
  <2>4. CASE hook[h] = "waiting"
    BY <2>1, <2>2, <2>3, <2>4 DEF NoHookIsStranded
  <2>5. CASE hook[h] # "waiting"
    <3>1. PICK g \in Hooks : HookAsks(g) \/ HookReads(g) \/ HookTimesOut(g)
      BY <1>3, <2>5 DEF Elsewhere, KeepaliveTicks, BridgeConnects, BridgeAbsorbs, DeviceReceives,
                        OwnerAnswers, OwnerIsRefused, Press, LinkDrops, BridgeLosesLine,
                        StickReboots, DaemonStarts, hookVars
    <3>2. mailbox' = Append(mailbox, HookInput(h))
      BY <1>t, <2>5, <3>1 DEF HookAsks, HookReads, HookTimesOut, LoopTypeOK
    <3>3. HookInput(h) \in Inputs
      BY DEF Inputs, HookInput
    <3>4. QED BY <1>t, <3>2, <3>3, AppendAt
  <2>6. QED BY <2>4, <2>5
<1>4. CASE UNCHANGED loopVars
  BY <1>4 DEF loopVars, daemonVars, hookVars, NoHookIsStranded
<1>5. QED BY <1>1, <1>2, <1>3, <1>4, LoopSteps

\* Through drops, losses, reboots and restarts, a hook that still blocks without a
\* reply is one somebody is going to answer (actor.rs, the oneshots; the socket's
\* end of file when the bridge dies).
THEOREM NobodyIsStranded == LoopSpec => []NoHookIsStranded
<1>1. LoopInit => NoHookIsStranded
  BY DEF LoopInit, NoHookIsStranded
<1>2. QED BY <1>1, DrivenAlways, NotStrandedStep, PTL DEF LoopSpec

-----------------------------------------------------------------------------
(* Answers on their way, and what was said.                                *)

\* The responses that have left the stick and not reached the daemon.
InFlight ==
  {r \in Responses : \/ \E i \in DOMAIN uplink : uplink[i] = r
                     \/ \E i \in DOMAIN mailbox : mailbox[i] = DeviceInput(r)}

\* The actor only takes answers that were on their way.
LEMMA ActorAnswersArrive ==
  ASSUME LoopTypeOK, ActorTakes
  PROVE  /\ InFlight' \subseteq InFlight
         /\ \A r \in Responses : Settles(r) => r \in InFlight
<1>1. InFlight' \subseteq InFlight
  BY ActorPerforms, HeadIsInput DEF InFlight
<1>2. \A r \in Responses : Settles(r) => r \in InFlight
  BY ActorPerforms, HeadIsInput DEF InFlight, Settles
<1>3. QED BY <1>1, <1>2

\* The hooks' processes: who asks, what is printed.
HookMoves ==
  /\ \A h \in Hooks :
       \/ UNCHANGED <<hook[h], outcome[h]>>
       \/ hook[h] = "new" /\ hook'[h] = "waiting" /\ outcome'[h] = outcome[h]
       \/ hook[h] = "new" /\ hook'[h] = "done" /\ outcome'[h] = "silent" /\ ~daemonUp
       \/ hook[h] = "waiting" /\ hook'[h] = "done" /\ outcome'[h] \in {"silent", Verdict(reply[h])}

\* What the owner says is what he reads on the glass, and it is sent at most once;
\* nothing else outside the daemon puts an answer on its way or is said.
LEMMA AnswersAreSaid ==
  ASSUME LoopTypeOK, Elsewhere
  PROVE  \/ InFlight' \subseteq InFlight /\ said' = said
         \/ \E decision \in Decisions :
              /\ glass \in Prompts
              /\ said' = said \cup {<<glass.call, decision>>}
              /\ InFlight' \subseteq InFlight \cup {[id |-> glass.id, decision |-> decision]}
<1>t. mailbox \in Seq(Inputs) /\ uplink \in Seq(Responses)
  BY DEF LoopTypeOK
<1>u. /\ \A r, x \in Responses : DeviceInput(x) = DeviceInput(r) => x = r
      /\ \A r \in Responses : DeviceInput(r) \in Inputs
      /\ LinkDownInput \in Inputs /\ LinkUpInput \in Inputs /\ KeepaliveInput \in Inputs
      /\ \A h \in Hooks : HookInput(h) \in Inputs
      /\ \A r \in Responses : DeviceInput(r) \notin LinkEvents /\ DeviceInput(r) # KeepaliveInput
      /\ \A r \in Responses, h \in Hooks : DeviceInput(r) # HookInput(h)
  BY DEF DeviceInput, LinkEvents, LinkUpInput, LinkDownInput, KeepaliveInput, HookInput, Inputs
<1>1. CASE \/ \E decision \in Decisions : OwnerAnswers(decision) \/ OwnerIsRefused(decision)
  <2> PICK decision \in Decisions : OwnerAnswers(decision) \/ OwnerIsRefused(decision)
    BY <1>1
  <2> DEFINE r == [id |-> glass.id, decision |-> decision]
  <2>1. glass \in Prompts /\ said' = said \cup {<<glass.call, decision>>} /\ mailbox' = mailbox
    BY DEF OwnerAnswers, OwnerIsRefused, Press, Unanswered, LoopTypeOK
  <2>2. r \in Responses
    BY <2>1, PromptFields DEF Responses
  <2>3. uplink' \in {uplink, Append(uplink, r)}
    BY DEF OwnerAnswers, OwnerIsRefused, Notifies
  <2> HIDE DEF r
  <2>4. \A i \in DOMAIN uplink' : uplink'[i] = r \/ (i \in DOMAIN uplink /\ uplink'[i] = uplink[i])
    BY <1>t, <2>2, <2>3, AppendAt
  <2>5. InFlight' \subseteq InFlight \cup {r}
    BY <2>1, <2>4 DEF InFlight
  <2>6. QED BY <2>1, <2>5 DEF r
<1>2. CASE BridgeAbsorbs
  <2>1. /\ uplink # << >> /\ mailbox' = Append(mailbox, DeviceInput(Head(uplink)))
        /\ uplink' = Tail(uplink) /\ said' = said
    BY <1>2 DEF BridgeAbsorbs
  <2>2. /\ Head(uplink) \in Responses /\ Head(uplink) = uplink[1] /\ 1 \in DOMAIN uplink
        /\ \A i \in DOMAIN uplink' : i + 1 \in DOMAIN uplink /\ uplink'[i] = uplink[i + 1]
    BY <1>t, <2>1, TailShifts
  <2>3. \A i \in DOMAIN mailbox' : \/ i \in DOMAIN mailbox /\ mailbox'[i] = mailbox[i]
                                   \/ mailbox'[i] = DeviceInput(uplink[1])
    BY <1>t, <1>u, <2>1, <2>2, AppendAt
  <2>4. QED BY <1>u, <2>1, <2>2, <2>3 DEF InFlight
<1>3. ASSUME UNCHANGED said, uplink' \in {uplink, << >>},
             \/ mailbox' = mailbox
             \/ \E x \in LinkEvents \cup {KeepaliveInput} \cup {HookInput(h) : h \in Hooks} :
                  mailbox' = Append(mailbox, x)
      PROVE  InFlight' \subseteq InFlight /\ said' = said
  <2>1. \A i \in DOMAIN uplink' : i \in DOMAIN uplink /\ uplink'[i] = uplink[i]
    BY <1>3
  <2>2. \A i \in DOMAIN mailbox' : \/ i \in DOMAIN mailbox /\ mailbox'[i] = mailbox[i]
                                   \/ \A r \in Responses : mailbox'[i] # DeviceInput(r)
    BY <1>t, <1>u, <1>3, AppendAt DEF LinkEvents
  <2>3. QED BY <1>3, <2>1, <2>2 DEF InFlight
<1>4. CASE \/ \E h \in Hooks : HookAsks(h) \/ HookReads(h) \/ HookTimesOut(h)
           \/ KeepaliveTicks \/ DeviceReceives \/ BridgeLosesLine \/ DaemonStarts
  BY <1>3, <1>4 DEF HookAsks, HookReads, HookTimesOut, KeepaliveTicks, DeviceReceives,
                    BridgeLosesLine, DaemonStarts, linkVars
<1>5. CASE BridgeConnects \/ LinkDrops \/ StickReboots
  <2>1. UNCHANGED said /\ uplink' \in {uplink, << >>}
        /\ \/ mailbox' = mailbox
           \/ \E x \in LinkEvents : mailbox' = Append(mailbox, x)
    BY <1>5 DEF BridgeConnects, LinkDrops, StickReboots, LinkEvents
  <2>2. QED BY <1>3, <2>1
<1>6. QED BY <1>1, <1>2, <1>4, <1>5 DEF Elsewhere

\* Outside the daemon hooks only move as their process does, and nobody writes replies.
LEMMA ElsewhereMovesHooks ==
  ASSUME LoopTypeOK, Elsewhere
  PROVE  UNCHANGED reply /\ HookMoves
<1>1. ASSUME NEW h \in Hooks, HookAsks(h) \/ HookReads(h) \/ HookTimesOut(h)
      PROVE  UNCHANGED reply /\ HookMoves
  BY <1>1 DEF HookAsks, HookReads, HookTimesOut, HookMoves, LoopTypeOK
<1>2. CASE ~ \E h \in Hooks : HookAsks(h) \/ HookReads(h) \/ HookTimesOut(h)
  BY <1>2 DEF Elsewhere, KeepaliveTicks, BridgeConnects, BridgeAbsorbs, DeviceReceives,
              OwnerAnswers, OwnerIsRefused, Press, LinkDrops, BridgeLosesLine,
              StickReboots, DaemonStarts, hookVars, HookMoves
<1>3. QED BY <1>1, <1>2

-----------------------------------------------------------------------------
(* Every verdict was pressed.                                              *)

\* The owner has made this decision about some call.
Pressed(decision) == \E call \in Hooks : <<call, decision>> \in said

\* A decision anywhere on its way to a hook is one the owner has made.
DecisionsWerePressed ==
  /\ \A r \in InFlight : Pressed(r.decision)
  /\ \A h \in Hooks : /\ reply[h] = "Allow" => Pressed("once")
                      /\ reply[h] = "Deny"  => Pressed("deny")
  /\ EveryVerdictWasPressed

\* The replies the actor writes: an answer's own decision, or none.
LEMMA RepliesDecide ==
  ASSUME DrivenInv, DrivenInv', ActorTakes, NEW h \in Hooks, reply'[h] # reply[h]
  PROVE  \/ reply'[h] = "Unbonded"
         \/ \E r \in InFlight :
              /\ Settles(r) /\ h = pending[r.id].hook
              /\ reply'[h] = "Allow" => r.decision = "once"
              /\ reply'[h] = "Deny"  => r.decision = "deny"
<1>t. LoopTypeOK
  BY DEF DrivenInv
<1>1. h \in Answered /\ reply'[h] = effects'.replies[h]
  BY ActorPerforms
<1>2. CASE Drains \/ Passes \/ \E g \in Hooks : Raises(g) \/ TurnsAway(g)
  BY <1>1, <1>2 DEF Drains, Passes, Raises, TurnsAway
<1>3. ASSUME NEW r \in Responses, Settles(r)
      PROVE  \E x \in InFlight :
              /\ Settles(x) /\ h = pending[x.id].hook
              /\ reply'[h] = "Allow" => x.decision = "once"
              /\ reply'[h] = "Deny"  => x.decision = "deny"
  <2>1. r \in InFlight /\ r.decision \in Decisions
    BY <1>t, <1>3, ActorAnswersArrive DEF Responses
  <2>2. h = pending[r.id].hook /\ reply'[h] = ReplyFor(r.decision)
    BY <1>1, <1>3 DEF Settles
  <2>3. QED BY <1>3, <2>1, <2>2 DEF ReplyFor, Decisions
<1>4. QED BY <1>t, <1>2, <1>3, ActorEffects

\* No step makes up a decision.
LEMMA PressedStep ==
  DrivenInv /\ DrivenInv' /\ DecisionsWerePressed /\ [LoopNext]_loopVars => DecisionsWerePressed'
<1> SUFFICES ASSUME DrivenInv, DrivenInv', DecisionsWerePressed, [LoopNext]_loopVars
             PROVE  DecisionsWerePressed'
  OBVIOUS
<1>t. LoopTypeOK
  BY DEF DrivenInv
<1>0. ASSUME NEW d, Pressed(d), said \subseteq said'
      PROVE  Pressed(d)'
  BY <1>0 DEF Pressed
<1>1. CASE ActorTakes
  <2>1. UNCHANGED <<said, outcome>> /\ InFlight' \subseteq InFlight
    BY <1>t, <1>1, ActorPerforms, ActorAnswersArrive
  <2>2. ASSUME NEW h \in Hooks
        PROVE  /\ reply'[h] = "Allow" => Pressed("once")
               /\ reply'[h] = "Deny"  => Pressed("deny")
    <3>1. CASE reply'[h] = reply[h]
      BY <3>1 DEF DecisionsWerePressed
    <3>2. CASE reply'[h] # reply[h]
      BY <1>1, <3>2, RepliesDecide DEF DecisionsWerePressed
    <3>3. QED BY <3>1, <3>2
  <2>3. QED BY <2>1, <2>2 DEF DecisionsWerePressed, EveryVerdictWasPressed, Pressed
<1>2. CASE DaemonCrashes
  <2>1. UNCHANGED <<said, outcome>> /\ mailbox' = << >> /\ uplink' = << >>
        /\ \A h \in Hooks : reply'[h] \in {"EOF", reply[h]}
    BY <1>2 DEF DaemonCrashes
  <2>2. InFlight' = {}
    BY <2>1 DEF InFlight
  <2>3. QED BY <2>1, <2>2 DEF DecisionsWerePressed, EveryVerdictWasPressed, Pressed
<1>3. CASE Elsewhere
  <2>1. said \subseteq said'
    BY <1>t, <1>3, AnswersAreSaid
  <2>2. \A r \in InFlight' : Pressed(r.decision)'
    <3>1. CASE InFlight' \subseteq InFlight
      BY <1>0, <2>1, <3>1 DEF DecisionsWerePressed
    <3>2. ASSUME NEW decision \in Decisions, glass \in Prompts,
                 said' = said \cup {<<glass.call, decision>>},
                 InFlight' \subseteq InFlight \cup {[id |-> glass.id, decision |-> decision]}
          PROVE  \A r \in InFlight' : Pressed(r.decision)'
      <4>1. Pressed(decision)'
        BY <3>2, PromptFields DEF Pressed
      <4>2. QED BY <1>0, <2>1, <3>2, <4>1 DEF DecisionsWerePressed
    <3>3. QED BY <1>t, <1>3, <3>1, <3>2, AnswersAreSaid
  <2>3. UNCHANGED reply /\ HookMoves
    BY <1>t, <1>3, ElsewhereMovesHooks
  <2>4. ASSUME NEW h \in Hooks
        PROVE  /\ outcome'[h] = "allow" => Pressed("once")
               /\ outcome'[h] = "deny"  => Pressed("deny")
    <3>1. CASE outcome'[h] = outcome[h]
      BY <3>1 DEF DecisionsWerePressed, EveryVerdictWasPressed, Pressed
    <3>2. CASE outcome'[h] = Verdict(reply[h])
      BY <3>2 DEF Verdict, DecisionsWerePressed
    <3>3. CASE outcome'[h] = "silent"
      BY <3>3
    <3>4. QED BY <2>3, <3>1, <3>2, <3>3 DEF HookMoves
  <2>5. /\ \A h \in Hooks : /\ reply'[h] = "Allow" => Pressed("once")'
                            /\ reply'[h] = "Deny"  => Pressed("deny")'
        /\ \A h \in Hooks : /\ outcome'[h] = "allow" => Pressed("once")'
                            /\ outcome'[h] = "deny"  => Pressed("deny")'
    BY <1>0, <2>1, <2>3, <2>4 DEF DecisionsWerePressed
  <2>6. QED BY <2>2, <2>5 DEF DecisionsWerePressed, EveryVerdictWasPressed, Pressed
<1>4. CASE UNCHANGED loopVars
  BY <1>4 DEF loopVars, linkVars, hookVars, DecisionsWerePressed, EveryVerdictWasPressed, Pressed, InFlight
<1>5. QED BY <1>1, <1>2, <1>3, <1>4, LoopSteps

\* No exit with a verdict without that decision by the owner, whatever is lost,
\* refused or restarted in between (device_wire.rs, hook.rs).
THEOREM VerdictsArePressed == LoopSpec => []EveryVerdictWasPressed
<1>1. LoopInit => DecisionsWerePressed
  <2> SUFFICES ASSUME LoopInit PROVE DecisionsWerePressed
    OBVIOUS
  <2>1. DOMAIN uplink = {} /\ DOMAIN mailbox = {}
    BY DEF LoopInit
  <2>2. \A h \in Hooks : reply[h] \notin {"Allow", "Deny"} /\ outcome[h] = "none"
    BY SilenceAssumption DEF LoopInit, Replies
  <2>3. QED BY <2>1, <2>2 DEF DecisionsWerePressed, EveryVerdictWasPressed, InFlight
<1>2. DecisionsWerePressed => EveryVerdictWasPressed
  BY DEF DecisionsWerePressed
<1>3. QED BY <1>1, <1>2, DrivenAlways, PressedStep, PTL DEF LoopSpec

-----------------------------------------------------------------------------
(* Which call an id is about.                                              *)

\* Every prompt there is: on the glass, on a line to the stick, or pending.  (One
\* in the ledger is pending, by ShownPromptIsAnswerable.)
Mentions ==
  {p \in Prompts :
     \/ glass = p
     \/ \E i \in DOMAIN downlink : downlink[i].kind = "snapshot" /\ downlink[i].packet.prompt = p
     \/ p.id \in DOMAIN pending /\ pending[p.id].hook = p.call}

\* One id is about one call, wherever it is read, and was minted for a hook that
\* has asked.
MentionsAgree ==
  /\ \A p, q \in Mentions : p.id = q.id => p.call = q.call
  /\ \A p \in Mentions : p.id < promptSeq /\ hook[p.call] # "new"

\* The lines the actor emits mention pending prompts only.
LEMMA EmittedIsPending ==
  ASSUME DrivenInv', NEW i \in DOMAIN effects'.lines, effects'.lines[i].kind = "snapshot",
         NEW p \in Prompts, effects'.lines[i].packet.prompt = p
  PROVE  p.id \in DOMAIN pending' /\ pending'[p.id].hook = p.call
<1>1. p # None
  BY NoneAssumption DEF Prompts
<1>2. /\ Waiting(ledger') # {}
      /\ p = OutstandingPrompt(ledger')
  BY <1>1 DEF DrivenInv, SnapshotsMatchLedger
<1>3. ledger' \in LedgersOver(Prompts)
  BY DEF DrivenInv, LoopTypeOK, TypeOK, LedgerType
<1>4. Newest(ledger') \in Waiting(ledger')
  BY <1>2, <1>3, NewestExists
<1>5. p = ledger'.sessions[Newest(ledger')].pending.prompt
  BY <1>2 DEF OutstandingPrompt
<1> DEFINE s == Newest(ledger')
<1>6. p.id \in DOMAIN pending' /\ pending'[p.id] = [hook |-> p.call, session |-> s]
  <2> HIDE DEF s
  <2>1. s \in Waiting(ledger') /\ p = ledger'.sessions[s].pending.prompt
    BY <1>4, <1>5 DEF s
  <2>2. QED BY <2>1 DEF DrivenInv, Bookkeeping, ShownPromptIsAnswerable
<1>7. QED BY <1>6

\* What concatenating two queues leaves.
LEMMA ConcatAt ==
  ASSUME NEW S, NEW q \in Seq(S), NEW r \in Seq(S)
  PROVE  \A i \in DOMAIN (q \o r) :
           \/ i \in DOMAIN q /\ (q \o r)[i] = q[i]
           \/ i - Len(q) \in DOMAIN r /\ (q \o r)[i] = r[i - Len(q)]
  OBVIOUS

\* A step of the actor mentions no prompt that was not there, but the one it mints.
LEMMA ActorMentions ==
  ASSUME DrivenInv, DrivenInv', ActorTakes
  PROVE  \/ Mentions' \subseteq Mentions /\ promptSeq' = promptSeq
         \/ \E h \in Hooks :
              /\ Raises(h) /\ hook[h] # "new"
              /\ Mentions' \subseteq Mentions \cup {[id |-> promptSeq, call |-> h]}
<1>t. LoopTypeOK /\ downlink \in Seq(Lines) /\ effects'.lines \in Seq(Lines)
  BY ActorEffects DEF DrivenInv, LoopTypeOK
<1>1. ASSUME NEW p \in Mentions'
      PROVE  p \in Mentions \/ (p.id \in DOMAIN pending' /\ pending'[p.id].hook = p.call)
  <2>1. CASE glass' = p
    BY <1>1, <2>1, ActorPerforms DEF Mentions
  <2>2. ASSUME NEW i \in DOMAIN downlink', downlink'[i].kind = "snapshot",
               downlink'[i].packet.prompt = p
        PROVE  p \in Mentions \/ (p.id \in DOMAIN pending' /\ pending'[p.id].hook = p.call)
    <3>1. CASE i \in DOMAIN downlink /\ downlink'[i] = downlink[i]
      BY <1>1, <2>2, <3>1 DEF Mentions
    <3>2. CASE \E j \in DOMAIN effects'.lines : downlink'[i] = effects'.lines[j]
      BY <1>1, <2>2, <3>2, EmittedIsPending DEF Mentions
    <3>3. CASE downlink' = downlink \o effects'.lines
      BY <1>t, <2>2, <3>1, <3>2, <3>3, ConcatAt
    <3>4. CASE downlink' = downlink \o << >>
      BY <1>t, <2>2, <3>1, <3>4
    <3>5. QED BY <3>3, <3>4, ActorPerforms
  <2>3. QED BY <1>1, <2>1, <2>2 DEF Mentions
<1>2. ASSUME NEW p \in Prompts, p.id \in DOMAIN pending, pending[p.id].hook = p.call
      PROVE  p \in Mentions
  BY <1>2 DEF Mentions
<1>p. Mentions' \subseteq Prompts
  BY DEF Mentions
<1>3. ASSUME NEW h \in Hooks, Raises(h)
      PROVE  /\ hook[h] # "new"
             /\ Mentions' \subseteq Mentions \cup {[id |-> promptSeq, call |-> h]}
  <2>1. hook[h] # "new"
    <3>1. Head(mailbox).kind = "hook" /\ Head(mailbox).hook = h
      BY <1>3 DEF Raises, HookInput
    <3>2. QED
      BY <1>t, <3>1, ActorPerforms, HeadIsInput DEF DrivenInv, Driven, HookInputsAreNew
  <2>2. ASSUME NEW p \in Mentions', p \notin Mentions
        PROVE  p = [id |-> promptSeq, call |-> h]
    <3>1. p \in Prompts /\ p.id \in DOMAIN pending' /\ pending'[p.id].hook = p.call
      BY <1>1, <1>p, <2>2
    <3>2. p.id = promptSeq
      BY <1>2, <1>3, <2>2, <3>1, RaisedIsPending
    <3>3. p.call = h
      BY <1>3, <3>1, <3>2, RaisedIsPending
    <3>4. QED BY <3>1, <3>2, <3>3 DEF Prompts
  <2>3. QED BY <2>1, <2>2
<1>4. ASSUME \A id \in DOMAIN pending' : id \in DOMAIN pending /\ pending'[id] = pending[id]
      PROVE  Mentions' \subseteq Mentions
  BY <1>1, <1>2, <1>4, <1>p
<1>5. CASE Drains \/ Passes \/ \E h \in Hooks : TurnsAway(h)
  BY <1>4, <1>5 DEF Drains, Passes, TurnsAway
<1>6. ASSUME NEW r \in Responses, Settles(r)
      PROVE  Mentions' \subseteq Mentions /\ promptSeq' = promptSeq
  BY <1>4, <1>6, SettledIsGone DEF Settles
<1>7. QED BY <1>t, <1>3, <1>5, <1>6, ActorEffects

\* Nothing outside the daemon makes up a prompt.
LEMMA ElsewhereMentions ==
  ASSUME LoopTypeOK, Elsewhere
  PROVE  Mentions' \subseteq Mentions /\ promptSeq' = promptSeq
<1>1. UNCHANGED <<pending, promptSeq>>
  BY ElsewhereLeavesDaemon DEF daemonVars
<1>t. downlink \in Seq(Lines) /\ glass \in Prompts \cup {None}
  BY DEF LoopTypeOK
<1>2. CASE UNCHANGED <<glass, downlink>>
  BY <1>1, <1>2 DEF Mentions
<1>3. CASE downlink # << >> /\ downlink' = Tail(downlink)
           /\ glass' \in {glass} \cup {Head(downlink).packet.prompt : x \in {y \in {1} : Head(downlink).kind = "snapshot"}}
  <2>1. /\ Head(downlink) = downlink[1] /\ 1 \in DOMAIN downlink
        /\ \A i \in DOMAIN downlink' : i + 1 \in DOMAIN downlink /\ downlink'[i] = downlink[i + 1]
    BY <1>t, <1>3, TailShifts
  <2>2. QED BY <1>1, <1>3, <2>1 DEF Mentions
<1>4. CASE downlink' = << >> /\ glass' \in {glass, None}
  <2>1. None \notin Prompts
    BY NoneAssumption DEF Prompts
  <2>2. DOMAIN downlink' = {}
    BY <1>4
  <2>3. QED BY <1>1, <1>4, <2>1, <2>2 DEF Mentions
<1>5. CASE DeviceReceives \/ BridgeLosesLine
  BY <1>3, <1>5 DEF DeviceReceives, BridgeLosesLine, Apply
<1>6. CASE LinkDrops \/ StickReboots
  BY <1>4, <1>6 DEF LinkDrops, StickReboots
<1>7. CASE ~(DeviceReceives \/ BridgeLosesLine \/ LinkDrops \/ StickReboots)
  BY <1>2, <1>7 DEF Elsewhere, HookAsks, HookReads, HookTimesOut, KeepaliveTicks, BridgeConnects,
       BridgeAbsorbs, OwnerAnswers, OwnerIsRefused, Press, DaemonStarts, linkVars, deviceVars
<1>8. QED BY <1>5, <1>6, <1>7

-----------------------------------------------------------------------------
(* Without a crash of the daemon, the loop keeps its promise.              *)

\* The decision the owner made about this very call.
Spoke(h, decision) == <<h, decision>> \in said

\* An answer on its way was minted for a call, and says about the call it will be
\* routed to what the owner said about it.
AnswersAreAuthentic ==
  \A r \in InFlight :
    /\ r.id < promptSeq
    /\ r.id \in DOMAIN pending => Spoke(pending[r.id].hook, r.decision)

\* A decision in a hook's socket is what the owner said about that call.
RepliesAreAuthentic ==
  \A h \in Hooks : /\ reply[h] = "Allow" => Spoke(h, "once")
                   /\ reply[h] = "Deny"  => Spoke(h, "deny")

\* The invariant of a loop whose daemon does not crash.
PromiseInv ==
  /\ daemonUp
  /\ MentionsAgree
  /\ AnswersAreAuthentic
  /\ RepliesAreAuthentic
  /\ VerdictIsAuthentic
  /\ \A h \in Hooks : hook[h] # "done" => outcome[h] = "none"

\* It holds at rest.
LEMMA PromiseStarts == LoopInit => PromiseInv
<1> SUFFICES ASSUME LoopInit PROVE PromiseInv
  OBVIOUS
<1>1. DOMAIN uplink = {} /\ DOMAIN mailbox = {} /\ DOMAIN downlink = {} /\ glass = None
      /\ DOMAIN pending = {}
  BY NothingType DEF LoopInit, ActorInit, CoordinatorInit
<1>2. None \notin Prompts
  BY NoneAssumption DEF Prompts
<1>3. InFlight = {} /\ Mentions = {}
  BY <1>1, <1>2 DEF InFlight, Mentions
<1>4. \A h \in Hooks : reply[h] \notin {"Allow", "Deny"} /\ outcome[h] = "none"
  BY SilenceAssumption DEF LoopInit, Replies
<1>5. QED
  BY <1>3, <1>4 DEF LoopInit, PromiseInv, MentionsAgree, AnswersAreAuthentic, RepliesAreAuthentic,
                    VerdictIsAuthentic

\* A call with a prompt pending is the one every mention of that id is about.
LEMMA PendingIsMentioned ==
  ASSUME DrivenInv, MentionsAgree, NEW p \in Mentions, p.id \in DOMAIN pending
  PROVE  pending[p.id].hook = p.call
<1> DEFINE q == [id |-> p.id, call |-> pending[p.id].hook]
<1>1. q \in Prompts /\ q.id = p.id /\ q.call = pending[p.id].hook
  BY DEF Mentions, Prompts, DrivenInv, LoopTypeOK, TypeOK
<1> HIDE DEF q
<1>2. q \in Mentions
  BY <1>1 DEF Mentions
<1>3. QED BY <1>1, <1>2 DEF MentionsAgree

\* The actor's steps keep it.
LEMMA PromiseActorStep ==
  ASSUME DrivenInv, DrivenInv', PromiseInv, ActorTakes
  PROVE  PromiseInv'
<1>t. LoopTypeOK /\ promptSeq \in Nat /\ \A p \in Prompts : p.id \in Nat
  BY DEF DrivenInv, LoopTypeOK, TypeOK, Prompts
<1>u. /\ UNCHANGED <<said, outcome, hook>> /\ daemonUp'
      /\ InFlight' \subseteq InFlight
  BY <1>t, ActorPerforms, ActorAnswersArrive DEF PromiseInv
<1>p. Mentions \subseteq Prompts
  BY DEF Mentions
<1>1. MentionsAgree'
  <2>1. CASE Mentions' \subseteq Mentions /\ promptSeq' = promptSeq
    BY <1>u, <2>1 DEF PromiseInv, MentionsAgree
  <2>2. ASSUME NEW h \in Hooks, Raises(h), hook[h] # "new",
               Mentions' \subseteq Mentions \cup {[id |-> promptSeq, call |-> h]}
        PROVE  MentionsAgree'
    <3>1. promptSeq' = promptSeq + 1 /\ \A p \in Mentions : p.id < promptSeq /\ hook[p.call] # "new"
      BY <2>2 DEF Raises, PromiseInv, MentionsAgree
    <3> DEFINE new == [id |-> promptSeq, call |-> h]
    <3>2. new.id = promptSeq /\ new.call = h
      OBVIOUS
    <3> HIDE DEF new
    <3>3. \A p \in Mentions' : p \in Mentions \/ p = new
      BY <2>2 DEF new
    <3>4. \A p \in Mentions' : p.id < promptSeq' /\ hook'[p.call] # "new"
      BY <1>t, <1>u, <1>p, <2>2, <3>1, <3>2, <3>3
    <3>5. \A p, q \in Mentions' : p.id = q.id => p.call = q.call
      BY <1>t, <1>p, <3>1, <3>2, <3>3 DEF PromiseInv, MentionsAgree
    <3>6. QED BY <3>4, <3>5 DEF MentionsAgree
  <2>3. QED BY <2>1, <2>2, ActorMentions
<1>2. AnswersAreAuthentic'
  <2>1. ASSUME \A id \in DOMAIN pending' : id \in DOMAIN pending /\ pending'[id] = pending[id],
               promptSeq' = promptSeq
        PROVE  AnswersAreAuthentic'
    BY <1>u, <2>1 DEF PromiseInv, AnswersAreAuthentic, Spoke
  <2>2. CASE Drains \/ Passes \/ \E h \in Hooks : TurnsAway(h)
    BY <2>1, <2>2 DEF Drains, Passes, TurnsAway
  <2>3. ASSUME NEW r \in Responses, Settles(r)
        PROVE  AnswersAreAuthentic'
    BY <2>1, <2>3, SettledIsGone DEF Settles
  <2>4. ASSUME NEW h \in Hooks, Raises(h)
        PROVE  AnswersAreAuthentic'
    <3>1. /\ promptSeq' = promptSeq + 1
          /\ \A r \in InFlight : r.id < promptSeq /\ r.id \in Nat
          /\ \A id \in DOMAIN pending' : id = promptSeq \/ (id \in DOMAIN pending /\ pending'[id] = pending[id])
      BY <2>4, RaisedIsPending DEF Raises, PromiseInv, AnswersAreAuthentic, InFlight, Responses
    <3>2. QED BY <1>t, <1>u, <3>1 DEF PromiseInv, AnswersAreAuthentic, Spoke
  <2>5. QED BY <1>t, <2>2, <2>3, <2>4, ActorEffects
<1>3. RepliesAreAuthentic'
  <2> SUFFICES ASSUME NEW h \in Hooks
               PROVE  /\ reply'[h] = "Allow" => Spoke(h, "once")
                      /\ reply'[h] = "Deny"  => Spoke(h, "deny")
    BY <1>u DEF RepliesAreAuthentic, Spoke
  <2>1. CASE reply'[h] = reply[h]
    BY <2>1 DEF PromiseInv, RepliesAreAuthentic
  <2>2. CASE reply'[h] # reply[h]
    BY <2>2, RepliesDecide DEF PromiseInv, AnswersAreAuthentic, Settles
  <2>3. QED BY <2>1, <2>2
<1>4. QED BY <1>1, <1>2, <1>3, <1>u DEF PromiseInv, VerdictIsAuthentic

\* So do the steps of everybody else.
LEMMA PromiseElsewhereStep ==
  ASSUME DrivenInv, PromiseInv, Elsewhere
  PROVE  PromiseInv'
<1>t. LoopTypeOK
  BY DEF DrivenInv
<1>u. /\ UNCHANGED <<pending, promptSeq, reply>> /\ HookMoves
      /\ Mentions' \subseteq Mentions /\ said \subseteq said'
  BY <1>t, ElsewhereLeavesDaemon, ElsewhereMovesHooks, ElsewhereMentions, AnswersAreSaid DEF daemonVars
<1>0. daemonUp'
  BY DEF PromiseInv, Elsewhere, HookAsks, HookReads, HookTimesOut, KeepaliveTicks, BridgeConnects,
       BridgeAbsorbs, DeviceReceives, OwnerAnswers, OwnerIsRefused, Press, LinkDrops, BridgeLosesLine,
       StickReboots, DaemonStarts
<1>1. MentionsAgree'
  <2>1. \A p \in Mentions : p.call \in Hooks
    BY PromptFields DEF Mentions
  <2>2. \A h \in Hooks : hook[h] # "new" => hook'[h] # "new"
    BY <1>u DEF HookMoves
  <2>3. QED BY <1>u, <2>1, <2>2 DEF PromiseInv, MentionsAgree
<1>2. AnswersAreAuthentic'
  <2>1. CASE InFlight' \subseteq InFlight /\ said' = said
    BY <1>u, <2>1 DEF PromiseInv, AnswersAreAuthentic, Spoke
  <2>2. ASSUME NEW decision \in Decisions, glass \in Prompts,
               said' = said \cup {<<glass.call, decision>>},
               InFlight' \subseteq InFlight \cup {[id |-> glass.id, decision |-> decision]}
        PROVE  AnswersAreAuthentic'
    <3> DEFINE new == [id |-> glass.id, decision |-> decision]
    <3>1. new.id = glass.id /\ new.decision = decision
      OBVIOUS
    <3>2. glass \in Mentions
      BY <2>2 DEF Mentions
    <3>3. /\ glass.id < promptSeq
          /\ glass.id \in DOMAIN pending => pending[glass.id].hook = glass.call
      BY <3>2, PendingIsMentioned DEF PromiseInv, MentionsAgree
    <3> HIDE DEF new
    <3>4. \A r \in InFlight' : r \in InFlight \/ r = new
      BY <2>2 DEF new
    <3>5. QED BY <1>u, <2>2, <3>1, <3>3, <3>4 DEF PromiseInv, AnswersAreAuthentic, Spoke
  <2>3. QED BY <1>t, <2>1, <2>2, AnswersAreSaid
<1>3. RepliesAreAuthentic'
  BY <1>u DEF PromiseInv, RepliesAreAuthentic, Spoke
<1>4. /\ VerdictIsAuthentic'
      /\ \A h \in Hooks : hook'[h] # "done" => outcome'[h] = "none"
  <2> SUFFICES ASSUME NEW h \in Hooks
               PROVE  /\ outcome'[h] = "allow" => Spoke(h, "once")
                      /\ outcome'[h] = "deny"  => Spoke(h, "deny")
                      /\ hook'[h] # "done" => outcome'[h] = "none"
    BY <1>u DEF VerdictIsAuthentic, Spoke
  <2>1. CASE outcome'[h] = outcome[h] /\ (hook'[h] # "done" => hook[h] # "done")
    BY <2>1 DEF PromiseInv, VerdictIsAuthentic, Spoke
  <2>2. CASE hook'[h] = "done" /\ outcome'[h] = Verdict(reply[h])
    BY <2>2 DEF Verdict, PromiseInv, RepliesAreAuthentic
  <2>3. CASE hook'[h] = "done" /\ outcome'[h] = "silent"
    BY <2>3
  <2>4. QED BY <1>u, <2>1, <2>2, <2>3 DEF HookMoves
<1>5. QED BY <1>0, <1>1, <1>2, <1>3, <1>4 DEF PromiseInv

\* So does every step, as long as the daemon does not crash.
LEMMA PromiseStep ==
  ASSUME "crash" \notin Faults
  PROVE  DrivenInv /\ DrivenInv' /\ PromiseInv /\ [LoopNext]_loopVars => PromiseInv'
<1> SUFFICES ASSUME DrivenInv, DrivenInv', PromiseInv, [LoopNext]_loopVars PROVE PromiseInv'
  OBVIOUS
<1>1. ~DaemonCrashes
  BY DEF DaemonCrashes, Fails, MayFail
<1>2. CASE UNCHANGED loopVars
  BY <1>2 DEF loopVars, daemonVars, linkVars, deviceVars, hookVars, PromiseInv, MentionsAgree, Mentions,
     AnswersAreAuthentic, InFlight, RepliesAreAuthentic, VerdictIsAuthentic, Spoke
<1>3. QED BY <1>1, <1>2, PromiseActorStep, PromiseElsewhereStep, LoopSteps

\* It holds forever.
LEMMA PromiseAlways ==
  ASSUME "crash" \notin Faults
  PROVE  LoopSpec => [](DrivenInv /\ PromiseInv)
BY PromiseStarts, PromiseStep, DrivenStarts, DrivenStep, PTL DEF LoopSpec

\* An id that is still pending is about the call the owner reads beside it.
THEOREM TheGlassNamesItsCall ==
  ASSUME "crash" \notin Faults
  PROVE  LoopSpec => []GlassNamesItsCall
<1>1. DrivenInv /\ PromiseInv => GlassNamesItsCall
  <2> SUFFICES ASSUME DrivenInv, PromiseInv, glass # None, glass.id \in DOMAIN pending
               PROVE  pending[glass.id].hook = glass.call
    BY DEF GlassNamesItsCall
  <2>1. glass \in Mentions
    BY DEF DrivenInv, LoopTypeOK, Mentions
  <2>2. QED BY <2>1, PendingIsMentioned DEF PromiseInv
<1>2. QED BY <1>1, PromiseAlways, PTL

\* Short of a crash of the daemon, a verdict is the owner's own word about that
\* very call.
THEOREM VerdictsAreAuthentic ==
  ASSUME "crash" \notin Faults
  PROVE  LoopSpec => []VerdictIsAuthentic
<1>1. PromiseInv => VerdictIsAuthentic
  BY DEF PromiseInv
<1>2. QED BY <1>1, PromiseAlways, PTL

\* Nothing has been asked, said or settled at first.
LEMMA PromiseInitially == LoopInit => Promise!Init
  BY DEF LoopInit, Promise!Init

\* The only steps the abstract promise sees: a hook asks, the owner speaks about a
\* call that was asked, a hook settles with what it was told.
LEMMA PromiseSteps ==
  ASSUME "crash" \notin Faults
  PROVE  DrivenInv /\ PromiseInv /\ [LoopNext]_loopVars => [Promise!Next]_(Promise!vars)
<1> SUFFICES ASSUME DrivenInv, PromiseInv, [LoopNext]_loopVars
             PROVE  Promise!Next \/ UNCHANGED Promise!vars
  OBVIOUS
<1> DEFINE Asked == {h \in Hooks : hook[h] # "new"}
<1>t. LoopTypeOK
  BY DEF DrivenInv
<1>a. \A h \in Hooks : h \in Asked <=> hook[h] # "new"
  OBVIOUS
<1>1. CASE ActorTakes \/ UNCHANGED loopVars
  BY <1>1, ActorPerforms DEF loopVars, hookVars, Promise!vars
<1>2. ~DaemonCrashes
  BY DEF DaemonCrashes, Fails, MayFail
<1>3. ASSUME NEW h \in Hooks, HookAsks(h) PROVE Promise!Ask(h)
  <2>1. /\ hook[h] = "new" /\ hook' = [hook EXCEPT ![h] = "waiting"]
        /\ UNCHANGED <<said, outcome>>
    BY <1>3 DEF HookAsks, PromiseInv
  <2>2. {g \in Hooks : hook'[g] # "new"} = Asked \cup {h}
    BY <1>t, <2>1 DEF LoopTypeOK
  <2>3. QED BY <2>1, <2>2 DEF Promise!Ask
<1>4. ASSUME NEW h \in Hooks, HookReads(h) \/ HookTimesOut(h)
      PROVE  \E verdict \in {"silent", "allow", "deny"} : Promise!Settle(h, verdict)
  <2> DEFINE verdict == outcome'[h]
  <2>1. /\ hook[h] = "waiting" /\ hook' = [hook EXCEPT ![h] = "done"]
        /\ outcome' = [outcome EXCEPT ![h] = verdict]
        /\ verdict \in {"silent", Verdict(reply[h])}
        /\ UNCHANGED said
    BY <1>4, <1>t DEF HookReads, HookTimesOut, LoopTypeOK
  <2>2. {g \in Hooks : hook'[g] # "new"} = Asked
    BY <1>t, <2>1 DEF LoopTypeOK
  <2>3. outcome[h] = "none"
    BY <2>1 DEF PromiseInv
  <2> HIDE DEF verdict
  <2>4. verdict \in {"silent", "allow", "deny"} /\ Promise!Authorised(h, verdict)
    BY <2>1 DEF Verdict, Promise!Authorised, PromiseInv, RepliesAreAuthentic, Spoke
  <2>5. Promise!Settle(h, verdict)
    BY <2>1, <2>2, <2>3, <2>4 DEF Promise!Settle
  <2>6. QED BY <2>4, <2>5
<1>5. ASSUME NEW decision \in Decisions, OwnerAnswers(decision) \/ OwnerIsRefused(decision)
      PROVE  glass.call \in Hooks /\ Promise!Say(glass.call, decision)
  <2>1. /\ glass \in Prompts /\ said' = said \cup {<<glass.call, decision>>}
        /\ UNCHANGED <<hook, outcome>>
    BY <1>5, <1>t DEF OwnerAnswers, OwnerIsRefused, Press, Unanswered, hookVars, LoopTypeOK
  <2>2. glass \in Mentions /\ glass.call \in Hooks
    BY <2>1, PromptFields DEF Mentions
  <2>3. hook[glass.call] # "new"
    BY <2>2 DEF PromiseInv, MentionsAgree
  <2>4. QED BY <2>1, <2>2, <2>3 DEF Promise!Say
<1>6. CASE \/ KeepaliveTicks \/ BridgeConnects \/ BridgeAbsorbs \/ DeviceReceives \/ LinkDrops
           \/ BridgeLosesLine \/ StickReboots \/ DaemonStarts
  BY <1>6 DEF KeepaliveTicks, BridgeConnects, BridgeAbsorbs, DeviceReceives, LinkDrops,
              BridgeLosesLine, StickReboots, DaemonStarts, hookVars, Promise!vars
<1>7. QED
  BY <1>1, <1>2, <1>3, <1>4, <1>5, <1>6, LoopSteps
  DEF Elsewhere, Promise!Next, Decisions

\* Whatever is dropped, lost or refused, and however often the stick reboots, the
\* loop implements PermissionSpec: a verdict is the owner's word about that very
\* call, given after it was asked, or silence.
THEOREM ThePromiseIsKept ==
  ASSUME "crash" \notin Faults
  PROVE  LoopSpec => KeepsPromise
<1>1. QED
  BY PromiseInitially, PromiseSteps, PromiseAlways, PTL DEF LoopSpec, KeepsPromise, Promise!Spec

-----------------------------------------------------------------------------
(* With one call in flight per session: the glass never asks twice.        *)

\* The owner has decided about this call.
Decided(h) == \E decision \in Decisions : <<h, decision>> \in said

\* A call has one id, and whatever names it or decided it did so after it reached
\* the daemon.
CallsAgree ==
  /\ \A p, q \in Mentions : p.call = q.call => p.id = q.id
  /\ \A p \in Mentions : p.call \in asked
  /\ \A h \in Hooks : Decided(h) => h \in asked

\* What the glass shows (position 0) and will show, in order.
Places  == {0} \cup {i \in DOMAIN downlink : downlink[i].kind = "snapshot"}
Shows(i) == IF i = 0 THEN glass ELSE downlink[i].packet.prompt
Asks(i, p) == i \in Places /\ p \in Prompts /\ Shows(i) = p

\* A prompt the owner has decided about is on the glass as answered, and nothing
\* else is shown before it.
DecidedIsAnswered ==
  \A i \in Places, p \in Prompts : Asks(i, p) /\ Decided(p.call) =>
    /\ answered = p.id
    /\ \A k \in Places : k =< i => Shows(k) = p

\* What an older prompt gives way to, or nothing, is shown because that prompt is
\* settled.
ReplacedIsSettled ==
  \A i, j \in Places, p \in Prompts : i < j /\ Asks(i, p) /\ p.id \in DOMAIN pending =>
    \E q \in Prompts : Asks(j, q) /\ q.id >= p.id

\* A prompt on its way to the glass pends or is decided; one that is on it may be
\* left from an earlier link, and is not on its way again.
ShownIsPending ==
  \A i \in Places, p \in Prompts : Asks(i, p) =>
    \/ p.id \in DOMAIN pending
    \/ Decided(p.call)
    \/ i = 0 /\ \A j \in Places : j > 0 => Shows(j) # p

\* A decided prompt that still pends has its answer on the way, and the glass only
\* shows it or newer prompts, which pend too.
DecidedIsInFlight ==
  \A id \in DOMAIN pending : Decided(pending[id].hook) =>
    /\ \E r \in InFlight : r.id = id
    /\ \A i \in Places : \E q \in Prompts :
         Asks(i, q) /\ q.id >= id /\ q.id \in DOMAIN pending

\* The answers on their way to prompts that pend come in the order of their ids.
Answers(i, r) == i \in DOMAIN mailbox /\ mailbox[i] = DeviceInput(r) /\ r.id \in DOMAIN pending
Sends(i, r)   == i \in DOMAIN uplink /\ uplink[i] = r /\ r.id \in DOMAIN pending
AnswersInOrder ==
  \A r, x \in Responses :
    /\ \A i, j \in Nat : i < j /\ Answers(i, r) /\ Answers(j, x) => r.id < x.id
    /\ \A i, j \in Nat : Answers(i, r) /\ Sends(j, x) => r.id < x.id
    /\ \A i, j \in Nat : i < j /\ Sends(i, r) /\ Sends(j, x) => r.id < x.id

\* The daemon holds the stick's own link, and answers reach it.
Live == ChannelIsCurrent(mailbox)

\* The inductive invariant of the owner being asked once: what is on the glass and
\* on its way there, against what he has decided, what pends, and the answers on
\* their way to it.  Over a link the daemon no longer holds nothing is on its way.
FreshInv ==
  /\ CallsAgree
  /\ DecidedIsAnswered
  /\ Live => ReplacedIsSettled /\ ShownIsPending /\ DecidedIsInFlight /\ AnswersInOrder
  /\ ~Live => downlink = << >>

\* How the glass and the lines to it move outside the daemon: the stick forgets
\* the prompt when it reboots; otherwise what will be shown is some of what would
\* have been, in the same order, and what was answered stays so exactly while the
\* id stays, or the owner has just answered what he reads.
LEMMA StreamMoves ==
  ASSUME LoopTypeOK, Elsewhere
  PROVE  \/ glass' = None /\ Places' = {0} /\ said' = said
         \/ \E f \in [Places' -> Places] :
              /\ \A i, k \in Places' : i < k => f[i] < f[k]
              /\ \A i \in Places' : Shows(i)' = Shows(f[i])
              /\ said' = said
              /\ answered' = IF IdOf(Shows(f[0])) = IdOf(glass) THEN answered ELSE None
         \/ /\ Unanswered /\ answered' = glass.id /\ UNCHANGED <<glass, downlink, mailbox, linkUp>>
            /\ \E decision \in Decisions :
                 /\ said' = said \cup {<<glass.call, decision>>}
                 /\ linkUp /\ "refuse" \notin Faults =>
                      uplink' = Append(uplink, [id |-> glass.id, decision |-> decision])
<1>t. downlink \in Seq(Lines)
  BY DEF LoopTypeOK
<1>p. Places \subseteq Nat /\ Places' \subseteq Nat /\ 0 \in Places /\ 0 \in Places'
  <2>1. downlink' \in Seq(Lines)
    BY ElsewhereTypes DEF LoopTypeOK
  <2>2. QED BY <1>t, <2>1 DEF Places
<1> DEFINE Keeps(f) == /\ f \in [Places' -> Places]
                       /\ \A i, k \in Places' : i < k => f[i] < f[k]
                       /\ \A i \in Places' : Shows(i)' = Shows(f[i])
<1>1. CASE UNCHANGED <<glass, downlink, answered, said>>
  <2> DEFINE f == [i \in Places' |-> i]
  <2>1. Places' = Places /\ \A i : Shows(i)' = Shows(i)
    BY <1>1 DEF Places, Shows
  <2>2. Keeps(f) /\ f[0] = 0 /\ Shows(0) = glass
    BY <1>p, <2>1 DEF Shows
  <2> HIDE DEF f
  <2>3. QED BY <1>1, <2>2
<1>2. CASE downlink # << >> /\ downlink' = Tail(downlink) /\ UNCHANGED <<glass, answered, said>>
  <2> DEFINE f == [i \in Places' |-> IF i = 0 THEN 0 ELSE i + 1]
  <2>1. \A i \in DOMAIN downlink' : i \in Nat /\ i + 1 \in DOMAIN downlink /\ downlink'[i] = downlink[i + 1]
    BY <1>t, <1>2, TailShifts
  <2>2. f \in [Places' -> Places]
    BY <1>p, <2>1 DEF Places
  <2>3. \A i \in Places' : Shows(i)' = Shows(f[i])
    BY <1>2, <1>p, <2>1, <2>2 DEF Places, Shows
  <2>4. \A i, k \in Places' : i < k => f[i] < f[k]
    BY <1>p
  <2>5. f[0] = 0 /\ Shows(0) = glass
    BY <1>p DEF Shows
  <2> HIDE DEF f
  <2>6. QED BY <1>2, <2>2, <2>3, <2>4, <2>5
<1>3. CASE /\ downlink # << >> /\ downlink' = Tail(downlink) /\ said' = said
           /\ Head(downlink).kind = "snapshot" /\ glass' = Head(downlink).packet.prompt
           /\ answered' = IF IdOf(glass') = IdOf(glass) THEN answered ELSE None
  <2> DEFINE f == [i \in Places' |-> i + 1]
  <2>1. /\ \A i \in DOMAIN downlink' : i \in Nat /\ i + 1 \in DOMAIN downlink /\ downlink'[i] = downlink[i + 1]
        /\ 1 \in DOMAIN downlink /\ Head(downlink) = downlink[1]
    BY <1>t, <1>3, TailShifts
  <2>2. f \in [Places' -> Places]
    BY <1>3, <1>p, <2>1 DEF Places
  <2>3. \A i \in Places' : Shows(i)' = Shows(f[i])
    BY <1>3, <1>p, <2>1, <2>2 DEF Places, Shows
  <2>4. \A i, k \in Places' : i < k => f[i] < f[k]
    BY <1>p
  <2>5. f[0] = 1 /\ Shows(1) = glass'
    BY <1>3, <1>p, <2>1 DEF Shows
  <2> HIDE DEF f
  <2>6. QED BY <1>3, <2>2, <2>3, <2>4, <2>5
<1>4. CASE downlink' = << >> /\ UNCHANGED <<glass, answered, said>>
  <2> DEFINE f == [i \in Places' |-> 0]
  <2>1. Places' = {0}
    BY <1>4 DEF Places
  <2>2. Keeps(f) /\ f[0] = 0 /\ Shows(0) = glass
    BY <1>4, <1>p, <2>1 DEF Shows
  <2> HIDE DEF f
  <2>3. QED BY <1>4, <2>2
<1>5. CASE DeviceReceives
  <2>1. CASE torn
    BY <1>2, <1>5, <2>1 DEF DeviceReceives
  <2>2. CASE ~torn /\ Head(downlink).kind # "snapshot"
    BY <1>2, <1>5, <2>2 DEF DeviceReceives, Apply
  <2>3. CASE ~torn /\ Head(downlink).kind = "snapshot"
    BY <1>3, <1>5, <2>3 DEF DeviceReceives, Apply
  <2>4. QED BY <2>1, <2>2, <2>3
<1>6. CASE BridgeLosesLine
  BY <1>2, <1>6 DEF BridgeLosesLine
<1>7. CASE LinkDrops
  BY <1>4, <1>7 DEF LinkDrops
<1>8. CASE StickReboots
  BY <1>8 DEF StickReboots, Places
<1>9. ASSUME NEW decision \in Decisions, OwnerAnswers(decision) \/ OwnerIsRefused(decision)
      PROVE  /\ Unanswered /\ answered' = glass.id /\ UNCHANGED <<glass, downlink, mailbox, linkUp>>
             /\ said' = said \cup {<<glass.call, decision>>}
             /\ linkUp /\ "refuse" \notin Faults =>
                  uplink' = Append(uplink, [id |-> glass.id, decision |-> decision])
  BY <1>9 DEF OwnerAnswers, OwnerIsRefused, Press, Notifies, Fails, MayFail
<1>10. CASE \/ \E h \in Hooks : HookAsks(h) \/ HookReads(h) \/ HookTimesOut(h)
            \/ KeepaliveTicks \/ BridgeConnects \/ BridgeAbsorbs \/ DaemonStarts
  BY <1>1, <1>10 DEF HookAsks, HookReads, HookTimesOut, KeepaliveTicks, BridgeConnects, BridgeAbsorbs,
                     DaemonStarts, linkVars, deviceVars
<1>11. QED BY <1>5, <1>6, <1>7, <1>8, <1>9, <1>10 DEF Elsewhere

\* The stick keeps hearing its daemon only while the link stays up, and then no
\* answer gets lost.
LEMMA LiveMoves ==
  ASSUME LoopTypeOK, Elsewhere
  PROVE  /\ Live' => Live /\ InFlight \subseteq InFlight' /\ ~StickReboots
         /\ ~Live /\ downlink = << >> => downlink' = << >>
         /\ Live /\ ~Live' => downlink' = << >>
<1>t. LoopTypeOK /\ LoopTypeOK' /\ mailbox \in Seq(Inputs) /\ uplink \in Seq(Responses)
  BY ElsewhereTypes DEF LoopTypeOK
<1>i. /\ LinkUpInput \in Inputs /\ LinkDownInput \in Inputs /\ KeepaliveInput \in Inputs
      /\ \A h \in Hooks : HookInput(h) \in Inputs /\ HookInput(h) \notin LinkEvents
      /\ \A r \in Responses : DeviceInput(r) \in Inputs /\ DeviceInput(r) \notin LinkEvents
      /\ \A x \in Inputs : x.kind \in {"keepalive", "deviceLine"} => x \notin LinkEvents
  BY DEF Inputs, LinkEvents, LinkUpInput, LinkDownInput, KeepaliveInput, HookInput, DeviceInput
<1>l. /\ Live <=> linkUp /\ \A i \in DOMAIN mailbox : mailbox[i] \notin LinkEvents
      /\ Live' <=> linkUp' /\ \A i \in DOMAIN mailbox' : mailbox'[i] \notin LinkEvents
  BY DEF Live, ChannelIsCurrent, LinkEvents
<1>1. Live' => Live /\ linkUp' = linkUp
  <2>1. \A x \in Inputs : mailbox' = Append(mailbox, x) =>
          /\ \A i \in DOMAIN mailbox : i \in DOMAIN mailbox' /\ mailbox'[i] = mailbox[i]
          /\ x \in LinkEvents => \E i \in DOMAIN mailbox' : mailbox'[i] \in LinkEvents
    BY <1>t, AppendAt
  <2>2. CASE UNCHANGED <<mailbox, linkUp>>
    BY <1>l, <2>2
  <2>3. ASSUME NEW x \in Inputs, mailbox' = Append(mailbox, x), linkUp' = linkUp
        PROVE  Live' => Live /\ linkUp' = linkUp
    BY <1>l, <2>1, <2>3
  <2>4. CASE mailbox' = Append(mailbox, IF linkUp THEN LinkDownInput ELSE LinkUpInput)
    BY <1>i, <1>l, <2>1, <2>4 DEF LinkEvents
  <2>5. QED BY <1>i, <2>2, <2>3, <2>4, ElsewhereQueues
<1>2. Live' => InFlight \subseteq InFlight'
  <2>1. CASE BridgeAbsorbs
    <3>1. /\ uplink # << >> /\ mailbox' = Append(mailbox, DeviceInput(uplink[1])) /\ uplink' = Tail(uplink)
          /\ DeviceInput(uplink[1]) \in Inputs
      BY <1>t, <1>i, <2>1, TailShifts DEF BridgeAbsorbs
    <3>2. /\ \A i \in DOMAIN mailbox : i \in DOMAIN mailbox' /\ mailbox'[i] = mailbox[i]
          /\ \E i \in DOMAIN mailbox' : mailbox'[i] = DeviceInput(uplink[1])
          /\ \A i \in DOMAIN uplink : i = 1 \/ (i - 1 \in DOMAIN uplink' /\ uplink'[i - 1] = uplink[i])
      BY <1>t, <3>1, AppendAt, TailShifts
    <3>3. QED BY <3>2 DEF InFlight
  <2>2. ASSUME \/ mailbox' = mailbox
               \/ \E x \in Inputs : mailbox' = Append(mailbox, x),
               \/ uplink' = uplink
               \/ \E x \in Responses : uplink' = Append(uplink, x)
        PROVE  InFlight \subseteq InFlight'
    <3>1. \A i \in DOMAIN mailbox : i \in DOMAIN mailbox' /\ mailbox'[i] = mailbox[i]
      BY <1>t, <2>2, AppendAt
    <3>2. \A i \in DOMAIN uplink : i \in DOMAIN uplink' /\ uplink'[i] = uplink[i]
      BY <1>t, <2>2, AppendAt
    <3>3. QED BY <3>1, <3>2 DEF InFlight
  <2>3. CASE LinkDrops \/ StickReboots
    BY <1>l, <2>3 DEF LinkDrops, StickReboots
  <2>4. CASE \E decision \in Decisions : OwnerAnswers(decision) \/ OwnerIsRefused(decision)
    <3>1. mailbox' = mailbox
      BY <2>4 DEF OwnerAnswers, OwnerIsRefused, Press
    <3>2. glass \in Prompts /\ \A decision \in Decisions : [id |-> glass.id, decision |-> decision] \in Responses
      BY <1>t, <2>4, PromptFields DEF OwnerAnswers, OwnerIsRefused, Press, Unanswered, Responses, LoopTypeOK
    <3>3. uplink' = uplink \/ \E x \in Responses : uplink' = Append(uplink, x)
      BY <2>4, <3>2 DEF OwnerAnswers, OwnerIsRefused, Notifies
    <3>4. QED BY <2>2, <3>1, <3>3
  <2>5. CASE \/ \E h \in Hooks : HookAsks(h) \/ HookReads(h) \/ HookTimesOut(h)
             \/ KeepaliveTicks \/ BridgeConnects \/ DeviceReceives \/ BridgeLosesLine \/ DaemonStarts
    <3>1. uplink' = uplink
      BY <2>5 DEF HookAsks, HookReads, HookTimesOut, KeepaliveTicks, BridgeConnects, DeviceReceives,
                  BridgeLosesLine, DaemonStarts, linkVars
    <3>2. mailbox' = mailbox \/ \E x \in Inputs : mailbox' = Append(mailbox, x)
      BY <1>i, <2>5 DEF HookAsks, HookReads, HookTimesOut, KeepaliveTicks, BridgeConnects, DeviceReceives,
                  BridgeLosesLine, DaemonStarts, linkVars
    <3>3. QED BY <2>2, <3>1, <3>2
  <2>6. QED BY <2>1, <2>3, <2>4, <2>5 DEF Elsewhere
<1>3. Live' => ~StickReboots
  BY <1>l DEF StickReboots
<1>4. downlink' \in {downlink, << >>} \/ (downlink # << >> /\ downlink' = Tail(downlink))
  BY DEF Elsewhere, HookAsks, HookReads, HookTimesOut, KeepaliveTicks, BridgeConnects, BridgeAbsorbs,
         DeviceReceives, OwnerAnswers, OwnerIsRefused, Press, LinkDrops, BridgeLosesLine, StickReboots,
         DaemonStarts, linkVars
<1>5. Live /\ ~Live' => downlink' = << >>
  <2> SUFFICES ASSUME Live, ~Live' PROVE LinkDrops \/ StickReboots
    BY DEF LinkDrops, StickReboots
  <2>1. \A x \in Inputs : x \notin LinkEvents /\ mailbox' = Append(mailbox, x) /\ linkUp' = linkUp => Live'
    BY <1>l, <1>t, AppendAt
  <2>2. mailbox' = Append(mailbox, LinkDownInput) /\ linkUp' = ~linkUp
    BY <1>i, <1>l, <2>1, ElsewhereQueues
  <2>3. linkUp /\ ~linkUp'
    BY <1>l, <2>2
  <2>4. QED
    BY <2>3 DEF Elsewhere, HookAsks, HookReads, HookTimesOut, KeepaliveTicks, BridgeConnects, BridgeAbsorbs,
         DeviceReceives, OwnerAnswers, OwnerIsRefused, Press, Notifies, BridgeLosesLine, DaemonStarts, linkVars
<1>6. QED BY <1>1, <1>2, <1>3, <1>4, <1>5

\* What is shown is mentioned.
LEMMA ShownIsMentioned ==
  ASSUME NEW i, NEW p, Asks(i, p)
  PROVE  p \in Mentions /\ p \in Prompts /\ p.id \in Nat /\ p.call \in Hooks
BY PromptFields DEF Asks, Places, Shows, Mentions

\* A mentioned prompt is known by its id and by its call.
LEMMA OnePromptEach ==
  ASSUME MentionsAgree, CallsAgree, NEW p \in Mentions, NEW q \in Mentions,
         p.id = q.id \/ p.call = q.call
  PROVE  p = q
<1>1. p \in [id : Nat, call : Hooks] /\ q \in [id : Nat, call : Hooks]
  BY DEF Mentions, Prompts
<1>2. p.id = q.id /\ p.call = q.call
  BY DEF MentionsAgree, CallsAgree
<1>3. QED BY <1>1, <1>2

\* Nothing that happens outside the daemon gives a call another id.
LEMMA CallsAgreeElsewhere ==
  ASSUME DrivenInv, PromiseInv, CallsAgree, Elsewhere
  PROVE  CallsAgree'
<1>1. /\ LoopTypeOK /\ Mentions' \subseteq Mentions /\ asked' = asked
  BY ElsewhereMentions, ElsewhereLeavesDaemon DEF daemonVars, DrivenInv
<1>2. \A h \in Hooks : Decided(h)' => Decided(h) \/ (glass \in Prompts /\ h = glass.call)
  BY <1>1, AnswersAreSaid DEF Decided
<1>3. glass \in Prompts => glass \in Mentions
  BY DEF Mentions
<1>4. QED BY <1>1, <1>2, <1>3 DEF CallsAgree

\* A step after which the stick shows some of what it would have shown.
LEMMA DecidedIsAnsweredElsewhere ==
  ASSUME DrivenInv, PromiseInv, FreshInv, Elsewhere
  PROVE  DecidedIsAnswered'
<1>t. LoopTypeOK /\ Places \subseteq Nat /\ 0 \in Places /\ Places' \subseteq Nat /\ 0 \in Places'
  <2>1. LoopTypeOK /\ LoopTypeOK'
    BY ElsewhereTypes DEF DrivenInv
  <2>2. downlink \in Seq(Lines) /\ downlink' \in Seq(Lines)
    BY <2>1 DEF LoopTypeOK
  <2>3. QED BY <2>1, <2>2 DEF Places
<1>1. CASE glass' = None /\ Places' = {0} /\ said' = said
  BY <1>1, NoneAssumption DEF DecidedIsAnswered, Asks, Shows, Prompts
<1>2. ASSUME NEW f \in [Places' -> Places],
             \A i, k \in Places' : i < k => f[i] < f[k],
             \A i \in Places' : Shows(i)' = Shows(f[i]),
             said' = said,
             answered' = IF IdOf(Shows(f[0])) = IdOf(glass) THEN answered ELSE None
      PROVE  DecidedIsAnswered'
  <2> SUFFICES ASSUME NEW i \in Places', NEW p \in Prompts, Asks(i, p)', Decided(p.call)'
               PROVE  /\ answered' = p.id
                      /\ \A k \in Places' : k =< i => Shows(k)' = p
    BY DEF DecidedIsAnswered
  <2>1. Asks(f[i], p) /\ Decided(p.call) /\ f[i] \in Places
    BY <1>2 DEF Asks, Decided
  <2>2. answered = p.id /\ \A k \in Places : k =< f[i] => Shows(k) = p
    BY <2>1 DEF FreshInv, DecidedIsAnswered
  <2>3. \A k \in Places' : k =< i => f[k] =< f[i] /\ f[k] \in Places
    <3> SUFFICES ASSUME NEW k \in Places', k =< i PROVE f[k] =< f[i] /\ f[k] \in Places
      OBVIOUS
    <3>1. f[k] \in Places /\ f[k] \in Nat /\ f[i] \in Nat /\ k \in Nat /\ i \in Nat
      BY <1>2, <1>t
    <3>2. k < i => f[k] < f[i]
      BY <1>2
    <3>3. k < i \/ k = i
      BY <3>1
    <3>4. QED BY <3>1, <3>2, <3>3
  <2>4. \A k \in Places' : k =< i => Shows(k)' = p
    BY <1>2, <2>2, <2>3
  <2>5. Shows(f[0]) = p /\ glass = p
    <3>1. f[0] =< f[i] /\ f[0] \in Places /\ 0 =< f[i]
      <4>1. i \in Nat
        BY <1>t
      <4>2. f[i] \in Nat
        BY <1>t, <2>1
      <4>3. QED BY <1>t, <2>3, <4>1, <4>2
    <3>2. Shows(0) = p
      BY <1>t, <2>2, <3>1
    <3>3. QED BY <2>2, <3>1, <3>2 DEF Shows
  <2>6. QED BY <1>2, <2>2, <2>4, <2>5
<1>3. CASE /\ Unanswered /\ answered' = glass.id /\ UNCHANGED <<glass, downlink, mailbox, linkUp>>
           /\ \E decision \in Decisions : said' = said \cup {<<glass.call, decision>>}
  <2> SUFFICES ASSUME NEW i \in Places', NEW p \in Prompts, Asks(i, p)', Decided(p.call)'
               PROVE  /\ answered' = p.id
                      /\ \A k \in Places' : k =< i => Shows(k)' = p
    BY DEF DecidedIsAnswered
  <2>1. Places' = Places /\ \A k : Shows(k)' = Shows(k)
    BY <1>3 DEF Places, Shows
  <2>2. Asks(i, p) /\ i \in Places /\ p \in Mentions
    BY <2>1, ShownIsMentioned DEF Asks
  <2>3. glass \in Prompts /\ Asks(0, glass) /\ glass \in Mentions
    BY <1>t, <1>3, ShownIsMentioned DEF Unanswered, LoopTypeOK, Asks, Shows
  <2>4. \A q \in Prompts, k \in Places : Asks(k, q) /\ Decided(q.call) => FALSE
    <3> SUFFICES ASSUME NEW q \in Prompts, NEW k \in Places, Asks(k, q), Decided(q.call)
                 PROVE FALSE
      OBVIOUS
    <3>1. answered = q.id /\ Shows(0) = q
      BY <1>t DEF FreshInv, DecidedIsAnswered
    <3>2. QED BY <1>3, <3>1 DEF Unanswered, Shows
  <2>5. p = glass
    <3>1. p.call = glass.call
      BY <1>3, <2>2, <2>4 DEF Decided
    <3>2. QED BY <2>2, <2>3, <3>1, OnePromptEach DEF FreshInv, PromiseInv
  <2>6. ASSUME NEW k \in Places, k =< i PROVE Shows(k) = glass
    <3>1. CASE k = 0 \/ k = i
      BY <2>2, <2>5, <3>1 DEF Asks, Shows
    <3>2. CASE 0 < k /\ k < i
      <4>1. Live /\ glass.id \in Nat /\ i > 0
        <5>1. downlink # << >>
          BY <3>2, <1>t DEF Places
        <5>2. QED BY <1>t, <2>3, <3>2, <5>1, ShownIsMentioned DEF FreshInv
      <4>2. glass.id \in DOMAIN pending
        BY <1>t, <2>2, <2>3, <2>4, <2>5, <4>1 DEF FreshInv, ShownIsPending, Asks
      <4>3. PICK q \in Prompts : Asks(k, q) /\ q.id >= glass.id
        BY <1>t, <2>3, <3>2, <4>1, <4>2 DEF FreshInv, ReplacedIsSettled
      <4>4. q.id \in DOMAIN pending
        BY <1>t, <2>4, <3>2, <4>1, <4>3 DEF FreshInv, ShownIsPending
      <4>5. PICK x \in Prompts : Asks(i, x) /\ x.id >= q.id
        BY <1>t, <2>2, <3>2, <4>1, <4>3, <4>4 DEF FreshInv, ReplacedIsSettled
      <4>6. q.id = glass.id
        BY <2>2, <2>5, <4>1, <4>3, <4>5, ShownIsMentioned DEF Asks
      <4>7. QED BY <2>3, <4>3, <4>6, ShownIsMentioned, OnePromptEach DEF FreshInv, PromiseInv, Asks
    <3>3. QED BY <1>t, <2>2, <2>6, <3>1, <3>2
  <2>7. QED BY <1>3, <2>1, <2>5, <2>6
<1>4. QED BY <1>t, <1>1, <1>2, <1>3, StreamMoves

\* What is on its way to the glass, seen after a step that leaves the stick its link.
LEMMA StreamElsewhere ==
  ASSUME DrivenInv, PromiseInv, FreshInv, Elsewhere, Live', "refuse" \notin Faults
  PROVE  ReplacedIsSettled' /\ ShownIsPending' /\ DecidedIsInFlight'
<1>t. LoopTypeOK /\ Places \subseteq Nat /\ 0 \in Places /\ Places' \subseteq Nat /\ 0 \in Places'
  <2>1. LoopTypeOK /\ LoopTypeOK'
    BY ElsewhereTypes DEF DrivenInv
  <2>2. downlink \in Seq(Lines) /\ downlink' \in Seq(Lines)
    BY <2>1 DEF LoopTypeOK
  <2>3. QED BY <2>1, <2>2 DEF Places
<1>l. Live /\ InFlight \subseteq InFlight' /\ pending' = pending
  BY <1>t, LiveMoves, ElsewhereLeavesDaemon DEF daemonVars
<1>f. ReplacedIsSettled /\ ShownIsPending /\ DecidedIsInFlight /\ DecidedIsAnswered
  BY <1>l DEF FreshInv
<1>1. CASE glass' = None /\ Places' = {0} /\ said' = said
  <2>1. ~StickReboots
    BY <1>t, LiveMoves
  <2>2. CASE glass = None
    <3> DEFINE f == [i \in Places' |-> 0]
    <3>1. \A id \in DOMAIN pending : ~Decided(pending[id].hook)
      <4> SUFFICES ASSUME NEW id \in DOMAIN pending, Decided(pending[id].hook) PROVE FALSE
        OBVIOUS
      <4>1. PICK q \in Prompts : Asks(0, q)
        BY <1>t, <1>f DEF DecidedIsInFlight
      <4>2. QED BY <2>2, <4>1, NoneAssumption DEF Asks, Shows, Prompts
    <3>2. QED
      BY <1>1, <1>l, <3>1, NoneAssumption
      DEF ReplacedIsSettled, ShownIsPending, DecidedIsInFlight, Decided, Asks, Shows, Prompts
  <2>3. CASE glass # None
    <3>1. DeviceReceives /\ downlink # << >> /\ glass' = Head(downlink).packet.prompt
          /\ Head(downlink).kind = "snapshot"
      BY <1>1, <2>1, <2>3
      DEF Elsewhere, HookAsks, HookReads, HookTimesOut, KeepaliveTicks, BridgeConnects, BridgeAbsorbs,
         DeviceReceives, Apply, OwnerAnswers, OwnerIsRefused, Press, LinkDrops, BridgeLosesLine,
         DaemonStarts, linkVars, deviceVars
    <3>2. 1 \in Places /\ Shows(1) = None
      <4>1. Head(downlink) = downlink[1] /\ 1 \in DOMAIN downlink
        BY <1>t, <3>1, TailShifts DEF LoopTypeOK
      <4>2. QED BY <1>1, <3>1, <4>1 DEF Places, Shows
    <3>3. \A id \in DOMAIN pending : ~Decided(pending[id].hook)
      <4> SUFFICES ASSUME NEW id \in DOMAIN pending, Decided(pending[id].hook) PROVE FALSE
        OBVIOUS
      <4>1. PICK q \in Prompts : Asks(1, q)
        BY <1>f, <3>2 DEF DecidedIsInFlight
      <4>2. QED BY <3>2, <4>1, NoneAssumption DEF Asks, Prompts
    <3>4. QED
      BY <1>1, <1>l, <3>3, NoneAssumption
      DEF ReplacedIsSettled, ShownIsPending, DecidedIsInFlight, Decided, Asks, Shows, Prompts
  <2>4. QED BY <2>2, <2>3
<1>2. ASSUME NEW f \in [Places' -> Places],
             \A i, k \in Places' : i < k => f[i] < f[k],
             \A i \in Places' : Shows(i)' = Shows(f[i]),
             said' = said
      PROVE  ReplacedIsSettled' /\ ShownIsPending' /\ DecidedIsInFlight'
  <2>1. \A i \in Places', p \in Prompts : f[i] \in Places /\ (Asks(i, p)' <=> Asks(f[i], p))
    BY <1>2 DEF Asks
  <2>2. \A i \in Places' : i > 0 => f[i] > 0
    <3> SUFFICES ASSUME NEW i \in Places', i > 0 PROVE f[i] > 0
      OBVIOUS
    <3>1. f[0] \in Nat /\ f[i] \in Nat /\ 0 < i
      BY <1>t, <1>2
    <3>2. f[0] < f[i]
      BY <1>t, <1>2, <3>1
    <3>3. QED BY <3>1, <3>2
  <2>3. ReplacedIsSettled'
    BY <1>2, <1>f, <1>l, <2>1 DEF ReplacedIsSettled
  <2>4. ShownIsPending'
    <3> SUFFICES ASSUME NEW i \in Places', NEW p \in Prompts, Asks(i, p)'
                 PROVE  \/ p.id \in DOMAIN pending
                        \/ Decided(p.call)
                        \/ i = 0 /\ \A j \in Places' : j > 0 => Shows(j)' # p
      BY <1>2, <1>l DEF ShownIsPending, Decided
    <3>1. \/ p.id \in DOMAIN pending
          \/ Decided(p.call)
          \/ f[i] = 0 /\ \A j \in Places : j > 0 => Shows(j) # p
      BY <1>f, <2>1 DEF ShownIsPending
    <3>2. CASE f[i] = 0 /\ \A j \in Places : j > 0 => Shows(j) # p
      <4>1. i = 0
        BY <1>t, <2>2, <3>2
      <4>2. QED BY <1>2, <2>1, <2>2, <3>2, <4>1
    <3>3. QED BY <3>1, <3>2
  <2>5. DecidedIsInFlight'
    BY <1>2, <1>f, <1>l, <2>1 DEF DecidedIsInFlight, Decided
  <2>6. QED BY <2>3, <2>4, <2>5
<1>3. ASSUME Unanswered, UNCHANGED <<glass, downlink, mailbox, linkUp>>, NEW decision \in Decisions,
             said' = said \cup {<<glass.call, decision>>},
             linkUp => uplink' = Append(uplink, [id |-> glass.id, decision |-> decision])
      PROVE  ReplacedIsSettled' /\ ShownIsPending' /\ DecidedIsInFlight'
  <2>1. Places' = Places /\ (\A k : Shows(k)' = Shows(k)) /\ \A k, p : Asks(k, p)' <=> Asks(k, p)
    BY <1>3 DEF Places, Shows, Asks
  <2>2. ReplacedIsSettled'
    BY <1>f, <1>l, <2>1 DEF ReplacedIsSettled
  <2>3. ShownIsPending'
    BY <1>3, <1>f, <1>l, <2>1 DEF ShownIsPending, Decided
  <2>4. DecidedIsInFlight'
    <3> SUFFICES ASSUME NEW id \in DOMAIN pending, Decided(pending[id].hook)'
                 PROVE  /\ \E r \in InFlight' : r.id = id
                        /\ \A i \in Places : \E q \in Prompts :
                             Asks(i, q) /\ q.id >= id /\ q.id \in DOMAIN pending
      BY <1>l, <2>1 DEF DecidedIsInFlight
    <3>1. CASE Decided(pending[id].hook)
      BY <1>f, <1>l, <3>1 DEF DecidedIsInFlight
    <3>2. CASE ~Decided(pending[id].hook)
      <4>1. glass \in Prompts /\ Asks(0, glass) /\ glass \in Mentions /\ glass.id \in Nat
        BY <1>t, <1>3, ShownIsMentioned DEF Unanswered, LoopTypeOK, Asks, Shows
      <4>2. \A q \in Prompts, k \in Places : Asks(k, q) /\ Decided(q.call) => FALSE
        <5> SUFFICES ASSUME NEW q \in Prompts, NEW k \in Places, Asks(k, q), Decided(q.call)
                     PROVE FALSE
          OBVIOUS
        <5>1. answered = q.id /\ Shows(0) = q
          BY <1>t, <1>f DEF DecidedIsAnswered
        <5>2. QED BY <1>3, <5>1 DEF Unanswered, Shows
      <4>3. id = glass.id
        <5> DEFINE p == [id |-> id, call |-> pending[id].hook]
        <5>1. p \in Mentions /\ p.id = id /\ p.call = pending[id].hook
          BY <1>t DEF Mentions, Prompts, LoopTypeOK, TypeOK
        <5> HIDE DEF p
        <5>2. p.call = glass.call
          BY <1>3, <1>l, <3>2, <5>1 DEF Decided
        <5>3. QED BY <4>1, <5>1, <5>2, OnePromptEach DEF FreshInv, PromiseInv
      <4>4. \E r \in InFlight' : r.id = id
        <5> DEFINE r == [id |-> glass.id, decision |-> decision]
        <5>1. r \in Responses /\ r.id = id
          BY <4>1, <4>3 DEF Responses
        <5> HIDE DEF r
        <5>2. uplink' = Append(uplink, r)
          BY <1>3, <1>l DEF Live, ChannelIsCurrent, r
        <5>3. \E i \in DOMAIN uplink' : uplink'[i] = r
          BY <1>t, <5>1, <5>2, AppendAt DEF LoopTypeOK
        <5>4. QED BY <5>1, <5>3 DEF InFlight
      <4>5. ASSUME NEW i \in Places
            PROVE  \E q \in Prompts : Asks(i, q) /\ q.id >= id /\ q.id \in DOMAIN pending
        <5>1. CASE i = 0
          BY <4>1, <4>3, <5>1
        <5>2. CASE i > 0
          <6>1. PICK q \in Prompts : Asks(i, q) /\ q.id >= id
            BY <1>t, <1>f, <4>1, <4>3, <5>2 DEF ReplacedIsSettled
          <6>2. QED BY <1>t, <1>f, <4>2, <5>2, <6>1 DEF ShownIsPending
        <5>3. QED BY <1>t, <5>1, <5>2
      <4>6. QED BY <4>4, <4>5
    <3>3. QED BY <3>1, <3>2
  <2>5. QED BY <2>2, <2>3, <2>4
<1>4. QED BY <1>t, <1>1, <1>2, <1>3, StreamMoves

\* Whoever answers what he reads answers a newer prompt than any he has answered
\* that still pends.
LEMMA AnswersGrow ==
  ASSUME DrivenInv, PromiseInv, FreshInv, Live, Unanswered, NEW r \in InFlight, r.id \in DOMAIN pending
  PROVE  r.id < glass.id /\ glass.id \in Nat
<1>t. LoopTypeOK /\ r \in Responses /\ r.id \in Nat /\ 0 \in Places
  BY DEF DrivenInv, InFlight, Responses, Places
<1>1. glass \in Prompts /\ Asks(0, glass) /\ glass \in Mentions /\ glass.id \in Nat
  BY <1>t, ShownIsMentioned DEF Unanswered, LoopTypeOK, Asks, Shows
<1>2. Decided(pending[r.id].hook)
  BY <1>t DEF PromiseInv, AnswersAreAuthentic, Spoke, Decided, Responses
<1>3. PICK q \in Prompts : Asks(0, q) /\ q.id >= r.id
  BY <1>t, <1>2 DEF FreshInv, DecidedIsInFlight
<1>4. q = glass
  BY <1>3 DEF Asks, Shows
<1>5. CASE r.id = glass.id
  <2>1. pending[r.id].hook = glass.call
    BY <1>1, <1>5, PendingIsMentioned DEF PromiseInv
  <2>2. Decided(glass.call)
    BY <1>2, <2>1
  <2>3. answered = glass.id
    BY <1>t, <1>1, <2>2 DEF FreshInv, DecidedIsAnswered
  <2>4. QED BY <2>3 DEF Unanswered
<1>6. QED BY <1>t, <1>1, <1>3, <1>4, <1>5

\* The answers on their way keep their order while they travel.
LEMMA OrderElsewhere ==
  ASSUME DrivenInv, PromiseInv, FreshInv, Elsewhere, Live'
  PROVE  AnswersInOrder'
<1>t. /\ LoopTypeOK /\ mailbox \in Seq(Inputs) /\ uplink \in Seq(Responses)
      /\ glass \in Prompts \cup {None} /\ Live /\ pending' = pending
  BY LiveMoves, ElsewhereLeavesDaemon DEF DrivenInv, LoopTypeOK, daemonVars
<1>i. /\ LinkUpInput \in Inputs /\ LinkDownInput \in Inputs /\ KeepaliveInput \in Inputs
      /\ \A h \in Hooks : HookInput(h) \in Inputs
      /\ \A r \in Responses : DeviceInput(r) \in Inputs
      /\ \A r \in Responses : DeviceInput(r) \notin LinkEvents /\ DeviceInput(r) # KeepaliveInput
      /\ \A r \in Responses, h \in Hooks : DeviceInput(r) # HookInput(h)
      /\ \A r, x \in Responses : DeviceInput(r) = DeviceInput(x) => r = x
  BY DEF Inputs, LinkEvents, LinkUpInput, LinkDownInput, KeepaliveInput, HookInput, DeviceInput
<1>o. AnswersInOrder
  BY <1>t DEF FreshInv
<1>n. DOMAIN mailbox \subseteq Nat /\ DOMAIN uplink \subseteq Nat
  BY <1>t
<1>1. CASE /\ uplink' = uplink
           /\ \/ mailbox' = mailbox
              \/ \E x \in LinkEvents \cup {KeepaliveInput} \cup {HookInput(h) : h \in Hooks} :
                   mailbox' = Append(mailbox, x)
  <2>1. \A i, r : r \in Responses /\ Answers(i, r)' => Answers(i, r)
    BY <1>1, <1>t, <1>i, AppendAt DEF Answers, LinkEvents
  <2>2. \A i, r : Sends(i, r)' => Sends(i, r)
    BY <1>1, <1>t DEF Sends
  <2>3. QED BY <1>o, <2>1, <2>2 DEF AnswersInOrder
<1>2. CASE BridgeAbsorbs
  <2> DEFINE x == uplink[1]
             n == Len(mailbox) + 1
  <2>1. /\ x \in Responses /\ DeviceInput(x) \in Inputs /\ uplink # << >>
        /\ mailbox' = Append(mailbox, DeviceInput(x)) /\ uplink' = Tail(uplink)
        /\ 1 \in DOMAIN uplink
    BY <1>t, <1>i, <1>2, TailShifts DEF BridgeAbsorbs
  <2>2. /\ n \in Nat /\ \A i \in DOMAIN mailbox : i < n
        /\ \A i \in DOMAIN mailbox' : (i \in DOMAIN mailbox /\ mailbox'[i] = mailbox[i])
                                      \/ (i = n /\ mailbox'[i] = DeviceInput(x))
    BY <1>t, <2>1, AppendAt
  <2>3. \A i \in DOMAIN uplink' : i \in Nat /\ i >= 1 /\ i + 1 \in DOMAIN uplink /\ uplink'[i] = uplink[i + 1]
    BY <1>t, <2>1, TailShifts
  <2> HIDE DEF n, x
  <2>4. \A i, r : r \in Responses /\ Answers(i, r)' => Answers(i, r) \/ (i = n /\ r = x /\ Sends(1, x))
    <3>0. Sends(1, x) <=> x.id \in DOMAIN pending
      BY <2>1 DEF Sends, x
    <3>1. QED BY <1>t, <1>i, <2>1, <2>2, <3>0 DEF Answers
  <2>5. \A i, r : Sends(i, r)' => i \in Nat /\ i >= 1 /\ Sends(i + 1, r)
    BY <1>t, <2>3 DEF Sends
  <2>6. \A i, r : Answers(i, r) => i \in Nat /\ i < n
    BY <1>n, <2>2 DEF Answers
  <2>7. ASSUME NEW r \in Responses, NEW y \in Responses
        PROVE  /\ \A i, j \in Nat : i < j /\ Answers(i, r)' /\ Answers(j, y)' => r.id < y.id
               /\ \A i, j \in Nat : Answers(i, r)' /\ Sends(j, y)' => r.id < y.id
               /\ \A i, j \in Nat : i < j /\ Sends(i, r)' /\ Sends(j, y)' => r.id < y.id
    <3>1. \A i, j \in Nat : i < j /\ Answers(i, r)' /\ Answers(j, y)' => r.id < y.id
      <4> SUFFICES ASSUME NEW i \in Nat, NEW j \in Nat, i < j, Answers(i, r)', Answers(j, y)'
                   PROVE  r.id < y.id
        OBVIOUS
      <4>1. Answers(i, r)
        <5>1. CASE i = n
          BY <2>2, <2>4, <2>6, <5>1
        <5>2. QED BY <2>4, <5>1
      <4>2. Answers(j, y) \/ Sends(1, y)
        BY <2>4
      <4>3. QED BY <1>o, <4>1, <4>2 DEF AnswersInOrder
    <3>2. \A i, j \in Nat : Answers(i, r)' /\ Sends(j, y)' => r.id < y.id
      <4> SUFFICES ASSUME NEW i \in Nat, NEW j \in Nat, Answers(i, r)', Sends(j, y)'
                   PROVE  r.id < y.id
        OBVIOUS
      <4>1. j + 1 \in Nat /\ 1 < j + 1 /\ Sends(j + 1, y)
        BY <2>5
      <4>2. Answers(i, r) \/ Sends(1, r)
        BY <2>4
      <4>3. QED BY <1>o, <4>1, <4>2 DEF AnswersInOrder
    <3>3. \A i, j \in Nat : i < j /\ Sends(i, r)' /\ Sends(j, y)' => r.id < y.id
      <4> SUFFICES ASSUME NEW i \in Nat, NEW j \in Nat, i < j, Sends(i, r)', Sends(j, y)'
                   PROVE  r.id < y.id
        OBVIOUS
      <4>1. i + 1 \in Nat /\ j + 1 \in Nat /\ i + 1 < j + 1 /\ Sends(i + 1, r) /\ Sends(j + 1, y)
        BY <2>5
      <4>2. QED BY <1>o, <4>1 DEF AnswersInOrder
    <3>4. QED BY <3>1, <3>2, <3>3
  <2>8. QED BY <2>7 DEF AnswersInOrder
<1>3. ASSUME NEW decision \in Decisions, OwnerAnswers(decision) \/ OwnerIsRefused(decision)
      PROVE  AnswersInOrder'
  <2>1. Unanswered /\ mailbox' = mailbox
    BY <1>3 DEF OwnerAnswers, OwnerIsRefused, Press
  <2>2. CASE uplink' = uplink
    BY <1>1, <2>1, <2>2
  <2>3. CASE uplink' = Append(uplink, [id |-> glass.id, decision |-> decision])
    <3> DEFINE x == [id |-> glass.id, decision |-> decision]
               n == Len(uplink) + 1
    <3>1. x \in Responses /\ x.id = glass.id
      BY <1>t, <2>1, PromptFields DEF Unanswered, Responses
    <3>2. /\ n \in Nat /\ \A i \in DOMAIN uplink : i < n
          /\ \A i \in DOMAIN uplink' : (i \in DOMAIN uplink /\ uplink'[i] = uplink[i])
                                       \/ (i = n /\ uplink'[i] = x)
      BY <1>t, <2>3, <3>1, AppendAt
    <3> HIDE DEF x, n
    <3>3. \A i, r : r \in Responses /\ (Answers(i, r) \/ Sends(i, r)) => r.id < x.id
      <4>1. \A i, r : r \in Responses /\ (Answers(i, r) \/ Sends(i, r)) => r \in InFlight /\ r.id \in DOMAIN pending
        BY DEF Answers, Sends, InFlight
      <4>2. QED BY <1>t, <2>1, <3>1, <4>1, AnswersGrow
    <3>4. \A i, r : Answers(i, r)' => Answers(i, r)
      BY <1>t, <2>1 DEF Answers
    <3>5. \A i, r : Sends(i, r)' => Sends(i, r) \/ (i = n /\ r = x)
      BY <1>t, <3>2 DEF Sends
    <3>6. \A i, r : Sends(i, r) => i \in Nat /\ i < n
      BY <1>n, <3>2 DEF Sends
    <3>7. ASSUME NEW r \in Responses, NEW y \in Responses
          PROVE  /\ \A i, j \in Nat : i < j /\ Answers(i, r)' /\ Answers(j, y)' => r.id < y.id
                 /\ \A i, j \in Nat : Answers(i, r)' /\ Sends(j, y)' => r.id < y.id
                 /\ \A i, j \in Nat : i < j /\ Sends(i, r)' /\ Sends(j, y)' => r.id < y.id
      <4>1. \A i, j \in Nat : i < j /\ Answers(i, r)' /\ Answers(j, y)' => r.id < y.id
        BY <1>o, <3>4 DEF AnswersInOrder
      <4>2. \A i, j \in Nat : Answers(i, r)' /\ Sends(j, y)' => r.id < y.id
        BY <1>o, <3>3, <3>4, <3>5 DEF AnswersInOrder
      <4>3. \A i, j \in Nat : i < j /\ Sends(i, r)' /\ Sends(j, y)' => r.id < y.id
        <5> SUFFICES ASSUME NEW i \in Nat, NEW j \in Nat, i < j, Sends(i, r)', Sends(j, y)'
                     PROVE  r.id < y.id
          OBVIOUS
        <5>1. Sends(i, r)
          <6>1. CASE i = n
            BY <3>2, <3>5, <3>6, <6>1
          <6>2. QED BY <3>5, <6>1
        <5>2. QED BY <1>o, <3>3, <3>5, <5>1 DEF AnswersInOrder
      <4>4. QED BY <4>1, <4>2, <4>3
    <3>8. QED BY <3>7 DEF AnswersInOrder
  <2>4. QED BY <1>3, <2>2, <2>3 DEF OwnerAnswers, OwnerIsRefused, Notifies
<1>4. CASE \/ \E h \in Hooks : HookAsks(h) \/ HookReads(h) \/ HookTimesOut(h)
           \/ KeepaliveTicks \/ BridgeConnects \/ DeviceReceives \/ BridgeLosesLine \/ DaemonStarts
  <2>1. uplink' = uplink
    BY <1>4 DEF HookAsks, HookReads, HookTimesOut, KeepaliveTicks, BridgeConnects, DeviceReceives,
                BridgeLosesLine, DaemonStarts, linkVars
  <2>2. \/ mailbox' = mailbox
        \/ \E x \in LinkEvents \cup {KeepaliveInput} \cup {HookInput(h) : h \in Hooks} :
             mailbox' = Append(mailbox, x)
    BY <1>4 DEF HookAsks, HookReads, HookTimesOut, KeepaliveTicks, BridgeConnects, DeviceReceives,
                BridgeLosesLine, DaemonStarts, linkVars, LinkEvents
  <2>3. QED BY <1>1, <2>1, <2>2
<1>5. ~LinkDrops /\ ~StickReboots
  BY DEF Live, ChannelIsCurrent, LinkDrops, StickReboots
<1>6. QED BY <1>2, <1>3, <1>4, <1>5 DEF Elsewhere

\* Everything that happens outside the daemon keeps the stick from asking twice.
LEMMA FreshElsewhere ==
  ASSUME DrivenInv, PromiseInv, FreshInv, Elsewhere, "refuse" \notin Faults
  PROVE  FreshInv'
<1>1. LoopTypeOK
  BY DEF DrivenInv
<1>2. ~Live' => downlink' = << >>
  BY <1>1, LiveMoves DEF FreshInv
<1>3. CallsAgree' /\ DecidedIsAnswered'
  BY CallsAgreeElsewhere, DecidedIsAnsweredElsewhere DEF FreshInv
<1>4. Live' => ReplacedIsSettled' /\ ShownIsPending' /\ DecidedIsInFlight' /\ AnswersInOrder'
  BY StreamElsewhere, OrderElsewhere
<1>5. QED BY <1>2, <1>3, <1>4 DEF FreshInv

\* What a daemon with one call per session puts on its lines: the newest prompt
\* that pends, and none only if nothing pends.
ShowsTheNewest == NoBareSnapshot /\ GlassShowsTheNewest

\* The stick hears a daemon only after the daemon has heard of the link, and when
\* it first hears it nothing pends.
LEMMA LiveActor ==
  ASSUME DrivenInv, DrivenInv', ActorTakes
  PROVE  /\ Live => Live'
         /\ ~Live' => downlink' = downlink
         /\ Live' /\ ~Live => DOMAIN pending' = {}
         /\ Live' => Head(mailbox) # LinkDownInput
<1>t. LoopTypeOK /\ LoopTypeOK' /\ Bookkeeping /\ Driven /\ Driven' /\ bonded \in BOOLEAN /\ bonded' \in BOOLEAN
  BY DEF DrivenInv, LoopTypeOK, TypeOK
<1>p. mailbox # << >> /\ mailbox' = Tail(mailbox) /\ linkUp' = linkUp
  BY ActorPerforms
<1>m. /\ Head(mailbox) = mailbox[1] /\ 1 \in DOMAIN mailbox /\ Head(mailbox) \in Inputs
      /\ \A i \in DOMAIN mailbox' : i + 1 \in DOMAIN mailbox /\ mailbox'[i] = mailbox[i + 1]
      /\ \A i \in DOMAIN mailbox : i # 1 => i - 1 \in DOMAIN mailbox' /\ mailbox'[i - 1] = mailbox[i]
  BY <1>t, <1>p, HeadIsInput
<1>l. /\ Live <=> linkUp /\ \A i \in DOMAIN mailbox : mailbox[i] \notin LinkEvents
      /\ Live' <=> linkUp' /\ \A i \in DOMAIN mailbox' : mailbox'[i] \notin LinkEvents
  BY DEF Live, ChannelIsCurrent, LinkEvents
<1>1. Live => Live'
  BY <1>l, <1>m, <1>p
<1>2. ~Live' => downlink' = downlink
  <2>1. Performs
    BY DEF ActorTakes, ActorTakesLinkUp, ActorTakesLinkDown, ActorTakesKeepalive, ActorTakesHook,
           ActorTakesResponse
  <2>2. ~Live' => downlink' = downlink \o << >>
    BY <2>1 DEF Performs, SentLines, Live, ChannelIsCurrent
  <2>3. downlink \in Seq(Lines)
    BY <1>t DEF LoopTypeOK
  <2>4. QED BY <2>2, <2>3
<1>3. Live' => bonded'
  <2> SUFFICES ASSUME Live' PROVE bonded' = TRUE
    BY <1>t
  <2>1. linkUp' = TRUE /\ \A i \in DOMAIN mailbox' : mailbox'[i] \notin LinkEvents
    BY <1>l, <1>t DEF LoopTypeOK
  <2>2. bonded' = linkUp'
    BY <1>t, <2>1 DEF Driven, Alternates
  <2>3. QED BY <2>1, <2>2
<1>4. Live' /\ ~Live => DOMAIN pending' = {}
  <2> SUFFICES ASSUME Live', ~Live PROVE DOMAIN pending' = {}
    OBVIOUS
  <2>1. Head(mailbox) \in LinkEvents
    BY <1>l, <1>m, <1>p
  <2>2. ~bonded
    BY <1>t, <1>3, <2>1, ActorTakesAnInput
  <2>3. DOMAIN pending = {}
    BY <1>t, <2>2 DEF Bookkeeping, NothingPendsUnbonded, EveryWaiterHasOnePrompt
  <2>4. pending' = pending \/ DOMAIN pending' = {}
    <3>1. /\ \A h \in Hooks : HookInput(h) \notin LinkEvents
          /\ \A r \in Responses : DeviceInput(r) \notin LinkEvents
      BY DEF LinkEvents, LinkUpInput, LinkDownInput, HookInput, DeviceInput
    <3>2. QED BY <1>t, <2>1, <3>1, ActorEffects DEF Raises, TurnsAway, Drains, Settles, Passes
  <2>5. QED BY <2>3, <2>4
<1>5. Live' => Head(mailbox) # LinkDownInput
  <2> SUFFICES ASSUME Live', Head(mailbox) = LinkDownInput PROVE FALSE
    OBVIOUS
  <2>1. ActorTakesLinkDown
    BY DEF ActorTakes, ActorTakesLinkUp, ActorTakesLinkDown, ActorTakesKeepalive, ActorTakesHook,
           ActorTakesResponse, Heads, LinkDownInput
  <2>2. ~bonded'
    BY <2>1 DEF ActorTakesLinkDown, StepLinkDown, OnLinkDown
  <2>3. QED BY <1>3, <2>2
<1>6. QED BY <1>1, <1>2, <1>4, <1>5

\* An answer that pends is settled by the step that takes it.
LEMMA TakenIsSettled ==
  ASSUME LoopTypeOK, ActorTakes, NEW r \in Responses, Head(mailbox) = DeviceInput(r), r.id \in DOMAIN pending
  PROVE  r.id \notin DOMAIN pending'
<1>1. ActorTakesResponse /\ Head(mailbox).response = r
  BY DEF ActorTakes, ActorTakesLinkUp, ActorTakesLinkDown, ActorTakesKeepalive, ActorTakesHook,
         ActorTakesResponse, Heads, DeviceInput
<1>2. r # None
  BY NoneAssumption DEF Responses, Decisions
<1>3. QED BY <1>1, <1>2 DEF ActorTakesResponse, StepDeviceLine, OnDeviceLine, Restrict

\* The stream to the stick after a step of the actor: what was there, and behind
\* it, while the stick hears the daemon, the newest prompt that pends.
LEMMA StreamGrows ==
  ASSUME DrivenInv, DrivenInv', ActorTakes, ShowsTheNewest'
  PROVE  /\ Places \subseteq Places' /\ Places' \subseteq Nat /\ 0 \in Places
         /\ \A i \in Places : Shows(i)' = Shows(i)
         /\ \A i \in Places' \ Places :
              /\ Live' /\ i > 0 /\ \A k \in Places : k < i
              /\ DOMAIN pending' = {} => Shows(i)' = None
              /\ DOMAIN pending' # {} =>
                   \E p \in Prompts :
                     /\ Asks(i, p)' /\ p.id \in DOMAIN pending' /\ pending'[p.id].hook = p.call
                     /\ \A id \in DOMAIN pending' : id =< p.id
<1>t. /\ LoopTypeOK /\ LoopTypeOK' /\ downlink \in Seq(Lines) /\ downlink' \in Seq(Lines)
      /\ effects'.lines \in Seq(Lines)
  BY ActorEffects DEF DrivenInv, LoopTypeOK
<1>g. glass' = glass
  BY ActorPerforms
<1> DEFINE n == Len(downlink)
<1>1. /\ \A i \in DOMAIN downlink : i \in DOMAIN downlink' /\ downlink'[i] = downlink[i]
      /\ \A i \in DOMAIN downlink' :
           \/ i \in DOMAIN downlink
           \/ i > n /\ i - n \in DOMAIN effects'.lines /\ downlink'[i] = effects'.lines[i - n]
      /\ n \in Nat /\ DOMAIN downlink = 1 .. n /\ DOMAIN downlink' \subseteq Nat
  <2>1. CASE downlink' = downlink \o effects'.lines
    BY <1>t, <2>1
  <2>2. CASE downlink' = downlink \o << >>
    BY <1>t, <2>2
  <2>3. QED BY <2>1, <2>2, ActorPerforms
<1> HIDE DEF n
<1>2. Places \subseteq Places' /\ Places' \subseteq Nat /\ 0 \in Places /\ \A i \in Places : Shows(i)' = Shows(i)
  BY <1>1, <1>g DEF Places, Shows
<1>3. ASSUME NEW i \in Places', i \notin Places
      PROVE  /\ Live' /\ i > 0 /\ \A k \in Places : k < i
             /\ DOMAIN pending' = {} => Shows(i)' = None
             /\ DOMAIN pending' # {} =>
                  \E p \in Prompts :
                    /\ Asks(i, p)' /\ p.id \in DOMAIN pending' /\ pending'[p.id].hook = p.call
                    /\ \A id \in DOMAIN pending' : id =< p.id
  <2>1. i \in DOMAIN downlink' /\ downlink'[i].kind = "snapshot" /\ i \notin DOMAIN downlink /\ i # 0
    BY <1>1, <1>3 DEF Places
  <2>2. i > n /\ i - n \in DOMAIN effects'.lines /\ downlink'[i] = effects'.lines[i - n]
    BY <1>1, <2>1
  <2> DEFINE line == effects'.lines[i - n]
  <2>3. line \in Lines /\ line.kind = "snapshot" /\ line.packet.prompt \in Prompts \cup {None}
        /\ Shows(i)' = line.packet.prompt
    BY <1>t, <2>1, <2>2, LinesByKind DEF Shows
  <2>4. Live'
    BY <2>1, LiveActor
  <2>5. \A k \in Places : k < i
    BY <1>1, <1>2, <2>2 DEF Places
  <2>6. CASE line.packet.prompt = None
    <3>1. waiters' = {}
      BY <2>2, <2>3, <2>6 DEF ShowsTheNewest, NoBareSnapshot
    <3>2. DOMAIN pending' = {}
      BY <3>1 DEF DrivenInv, Bookkeeping, EveryWaiterHasOnePrompt
    <3>3. QED BY <1>1, <2>1, <2>3, <2>4, <2>5, <2>6, <3>2
  <2>7. CASE line.packet.prompt \in Prompts
    <3> PICK p \in Prompts : p = line.packet.prompt
      BY <2>7
    <3>1. p.id \in DOMAIN pending' /\ pending'[p.id].hook = p.call
      BY <2>2, <2>3, <2>7, EmittedIsPending
    <3>2. \A id \in DOMAIN pending' : id =< p.id
      BY <2>2, <2>3, <2>7, NoneAssumption DEF ShowsTheNewest, GlassShowsTheNewest, Prompts
    <3>3. Asks(i, p)'
      BY <1>3, <2>3, <2>7 DEF Asks
    <3>4. i > 0 /\ DOMAIN pending' # {}
      BY <1>1, <2>1, <3>1
    <3>5. QED BY <2>4, <2>5, <3>1, <3>2, <3>3, <3>4
  <2>8. QED BY <2>3, <2>6, <2>7
<1>4. QED BY <1>2, <1>3

\* The actor gives no call another id.
LEMMA CallsAgreeActor ==
  ASSUME DrivenInv, DrivenInv', PromiseInv, CallsAgree, ActorTakes
  PROVE  CallsAgree'
<1>t. LoopTypeOK /\ mailbox # << >> /\ said' = said
  BY ActorPerforms DEF DrivenInv
<1>a. asked \subseteq asked'
  BY <1>t, ActorEffects DEF Raises, TurnsAway, Drains, Settles, Passes
<1>d. \A h \in Hooks : Decided(h)' <=> Decided(h)
  BY <1>t DEF Decided
<1>1. CASE Mentions' \subseteq Mentions
  BY <1>a, <1>d, <1>1 DEF CallsAgree
<1>2. ASSUME NEW h \in Hooks, Raises(h), Mentions' \subseteq Mentions \cup {[id |-> promptSeq, call |-> h]}
      PROVE  CallsAgree'
  <2> DEFINE new == [id |-> promptSeq, call |-> h]
  <2>1. new.id = promptSeq /\ new.call = h
    OBVIOUS
  <2> HIDE DEF new
  <2>2. h \notin asked /\ asked' = asked \cup {h}
    <3>1. Head(mailbox).kind = "hook" /\ Head(mailbox).hook = h
      BY <1>2 DEF Raises, HookInput
    <3>2. QED
      BY <1>t, <1>2, <3>1, HeadIsInput DEF DrivenInv, Driven, HookInputsAreNew, Raises
  <2>3. \A p \in Mentions' : p \in Mentions \/ p = new
    BY <1>2 DEF new
  <2>4. \A p \in Mentions : p.call \in asked /\ p.call # h
    BY <2>2 DEF CallsAgree
  <2>5. \A p, q \in Mentions' : p.call = q.call => p.id = q.id
    BY <2>1, <2>3, <2>4 DEF CallsAgree
  <2>6. \A p \in Mentions' : p.call \in asked'
    BY <1>a, <2>1, <2>2, <2>3, <2>4
  <2>7. QED BY <1>a, <1>d, <2>5, <2>6 DEF CallsAgree
<1>3. QED BY <1>1, <1>2, ActorMentions

\* What pends after a step and is decided pended before, and any answer the step
\* settles is to an older prompt.
LEMMA DecidedOutlivesOlder ==
  ASSUME DrivenInv, DrivenInv', PromiseInv, FreshInv, Live, ActorTakes,
         NEW id \in DOMAIN pending', Decided(pending'[id].hook)
  PROVE  /\ id \in DOMAIN pending /\ pending'[id] = pending[id]
         /\ \A k \in DOMAIN pending : k >= id => k \in DOMAIN pending'
         /\ \E r \in InFlight' : r.id = id
<1>t. LoopTypeOK /\ LoopTypeOK' /\ mailbox # << >> /\ DOMAIN pending \subseteq Nat
      /\ mailbox' = Tail(mailbox) /\ uplink' = uplink
  BY ActorPerforms DEF DrivenInv, LoopTypeOK, TypeOK
<1>m. /\ Head(mailbox) = mailbox[1] /\ 1 \in DOMAIN mailbox
      /\ \A i \in DOMAIN mailbox : i \in Nat /\ i >= 1
           /\ (i # 1 => i - 1 \in DOMAIN mailbox' /\ mailbox'[i - 1] = mailbox[i])
  BY <1>t, HeadIsInput, TailShifts DEF LoopTypeOK
<1>1. id \in DOMAIN pending /\ pending'[id] = pending[id]
  <2>1. ASSUME NEW h \in Hooks, Raises(h)
        PROVE  id \in DOMAIN pending /\ pending'[id] = pending[id]
    <3>1. h \notin asked
      <4>1. Head(mailbox).kind = "hook" /\ Head(mailbox).hook = h
        BY <2>1 DEF Raises, HookInput
      <4>2. QED
        BY <1>t, <1>m, <4>1 DEF DrivenInv, Driven, HookInputsAreNew
    <3>2. ~Decided(h)
      BY <3>1 DEF FreshInv, CallsAgree
    <3>3. QED BY <2>1, <3>2, RaisedIsPending
  <2>2. ASSUME NEW r \in Responses, Settles(r)
        PROVE  id \in DOMAIN pending /\ pending'[id] = pending[id]
    BY <2>2, SettledIsGone DEF Settles
  <2>3. CASE Drains \/ Passes \/ \E h \in Hooks : TurnsAway(h)
    BY <2>3 DEF Drains, Passes, TurnsAway
  <2>4. QED BY <1>t, <2>1, <2>2, <2>3, ActorEffects
<1>2. PICK x \in InFlight : x.id = id
  BY <1>1 DEF FreshInv, DecidedIsInFlight
<1>3. x \in Responses /\ x.id \in DOMAIN pending /\ id \in Nat
  BY <1>1, <1>2, <1>t DEF InFlight
<1>4. mailbox[1] # DeviceInput(x)
  BY <1>2, <1>3, <1>t, <1>m, TakenIsSettled
<1>5. x \in InFlight'
  BY <1>3, <1>4, <1>m, <1>t, <1>2 DEF InFlight
<1>6. ASSUME NEW k \in DOMAIN pending, k >= id, k \notin DOMAIN pending'
      PROVE  FALSE
  <2>1. Live'
    BY LiveActor
  <2>2. PICK r \in Responses : Settles(r)
    <3>1. ~Drains
      BY <2>1, LiveActor DEF Drains
    <3>2. ASSUME NEW h \in Hooks, Raises(h) PROVE k \in DOMAIN pending'
      BY <3>2, RaisedIsPending
    <3>3. QED BY <1>t, <1>6, <3>1, <3>2, ActorEffects DEF Passes, TurnsAway
  <2>3. r.id = k /\ mailbox[1] = DeviceInput(r) /\ r.id \in DOMAIN pending
    <3>1. DOMAIN pending' = DOMAIN pending \ {r.id}
      BY <2>2, SettledIsGone
    <3>2. Head(mailbox) = DeviceInput(r)
      BY <2>2 DEF Settles
    <3>3. QED BY <1>6, <1>m, <3>1, <3>2
  <2>4. Answers(1, r)
    BY <1>m, <2>3 DEF Answers
  <2>5. r.id < x.id
    <3>1. CASE \E i \in DOMAIN mailbox : mailbox[i] = DeviceInput(x)
      <4>1. PICK i \in DOMAIN mailbox : mailbox[i] = DeviceInput(x)
        BY <3>1
      <4>2. i \in Nat /\ 1 < i /\ Answers(i, x)
        BY <1>3, <1>4, <1>m, <4>1 DEF Answers
      <4>3. QED BY <1>3, <2>4, <4>2 DEF FreshInv, AnswersInOrder
    <3>2. CASE \E i \in DOMAIN uplink : uplink[i] = x
      <4>1. PICK i \in DOMAIN uplink : uplink[i] = x
        BY <3>2
      <4>2. i \in Nat /\ Sends(i, x)
        BY <1>3, <1>t, <4>1 DEF Sends, LoopTypeOK
      <4>3. QED BY <1>3, <2>4, <4>2 DEF FreshInv, AnswersInOrder
    <3>3. QED BY <1>2, <3>1, <3>2 DEF InFlight
  <2>6. k \in Nat
    BY <1>t
  <2>7. QED BY <1>2, <1>3, <1>6, <2>3, <2>5, <2>6
<1>7. QED BY <1>1, <1>2, <1>5, <1>6

\* A prompt that is put on a line again although it is decided is the only one the
\* stick shows or is about to show.
LEMMA DecidedIsAnsweredActor ==
  ASSUME DrivenInv, DrivenInv', PromiseInv, PromiseInv', FreshInv, ActorTakes, ShowsTheNewest'
  PROVE  DecidedIsAnswered'
<1>t. /\ Places \subseteq Places' /\ Places' \subseteq Nat /\ 0 \in Places
      /\ \A i \in Places : Shows(i)' = Shows(i)
      /\ answered' = answered /\ said' = said
  BY StreamGrows, ActorPerforms
<1>d. \A h : Decided(h)' <=> Decided(h)
  BY <1>t DEF Decided
<1>f. DecidedIsAnswered /\ CallsAgree' /\ MentionsAgree'
  <2>1. CallsAgree'
    BY CallsAgreeActor DEF FreshInv
  <2>2. QED BY <2>1 DEF FreshInv, PromiseInv
<1> SUFFICES ASSUME NEW i \in Places', NEW p \in Prompts, Asks(i, p)', Decided(p.call)
             PROVE  /\ answered = p.id
                    /\ \A k \in Places' : k =< i => Shows(k)' = p
  BY <1>t, <1>d DEF DecidedIsAnswered
<1>1. CASE i \in Places
  <2>1. Asks(i, p)
    BY <1>1, <1>t DEF Asks
  <2>2. answered = p.id /\ \A k \in Places : k =< i => Shows(k) = p
    BY <1>1, <1>f, <2>1 DEF DecidedIsAnswered
  <2>3. ASSUME NEW k \in Places', k =< i PROVE k \in Places
    <3>1. k \notin Places => i < k
      BY <1>1, StreamGrows
    <3>2. QED BY <1>t, <2>3, <3>1
  <2>4. QED BY <1>t, <2>2, <2>3
<1>2. CASE i \notin Places
  <2>1. /\ Live' /\ DOMAIN pending' # {} /\ p.id \in DOMAIN pending' /\ pending'[p.id].hook = p.call
        /\ \A id \in DOMAIN pending' : id =< p.id
    <3>1. DOMAIN pending' # {}
      BY <1>2, StreamGrows, NoneAssumption DEF Asks, Prompts
    <3>2. PICK q \in Prompts :
            /\ Asks(i, q)' /\ q.id \in DOMAIN pending' /\ pending'[q.id].hook = q.call
            /\ \A id \in DOMAIN pending' : id =< q.id
      BY <1>2, <3>1, StreamGrows
    <3>3. q = p
      BY <3>2 DEF Asks
    <3>4. QED BY <1>2, <3>1, <3>2, <3>3, StreamGrows
  <2>2. Live
    BY <2>1, LiveActor
  <2>3. /\ p.id \in DOMAIN pending /\ pending[p.id] = pending'[p.id]
        /\ \A k \in DOMAIN pending : k >= p.id => k \in DOMAIN pending'
    <3>1. Decided(pending'[p.id].hook)
      BY <2>1
    <3>2. QED BY <2>1, <2>2, <3>1, DecidedOutlivesOlder
  <2>4. \A k \in Places' : Shows(k)' = p
    <3> SUFFICES ASSUME NEW k \in Places' PROVE Shows(k)' = p
      OBVIOUS
    <3>1. \E q \in Prompts : Asks(k, q)' /\ q.id \in DOMAIN pending' /\ q.id >= p.id
      <4>1. CASE k \in Places
        <5>1. PICK q \in Prompts : Asks(k, q) /\ q.id >= p.id /\ q.id \in DOMAIN pending
          BY <2>1, <2>2, <2>3, <4>1 DEF FreshInv, DecidedIsInFlight
        <5>2. Asks(k, q)'
          BY <1>t, <4>1, <5>1 DEF Asks
        <5>3. QED BY <2>3, <5>1, <5>2
      <4>2. CASE k \notin Places
        <5>1. PICK q \in Prompts :
                /\ Asks(k, q)' /\ q.id \in DOMAIN pending'
                /\ \A id \in DOMAIN pending' : id =< q.id
          BY <2>1, <4>2, StreamGrows
        <5>2. p.id =< q.id /\ p.id \in Nat /\ q.id \in Nat
          BY <2>1, <5>1, PromptFields
        <5>3. QED BY <5>1, <5>2
      <4>3. QED BY <4>1, <4>2
    <3>2. PICK q \in Prompts : Asks(k, q)' /\ q.id \in DOMAIN pending' /\ q.id >= p.id
      BY <3>1
    <3>3. q.id = p.id
      BY <2>1, <3>2, PromptFields
    <3>4. p \in Mentions' /\ q \in Mentions'
      BY <3>2 DEF Mentions, Asks, Places, Shows
    <3>5. q.call = p.call
      BY <1>f, <3>3, <3>4 DEF MentionsAgree
    <3>6. q = p
      BY <3>3, <3>5 DEF Prompts
    <3>7. QED BY <3>2, <3>6 DEF Asks
  <2>5. Shows(0) = p /\ Asks(0, p)
    BY <1>t, <2>4 DEF Asks
  <2>6. answered = p.id
    BY <1>f, <1>t, <2>5 DEF DecidedIsAnswered
  <2>7. QED BY <2>4, <2>6
<1>3. QED BY <1>1, <1>2

\* What is on its way to the glass, and the answers on their way back, seen after a
\* step of the actor that the stick hears.
LEMMA StreamActor ==
  ASSUME DrivenInv, DrivenInv', PromiseInv, FreshInv, ActorTakes, ShowsTheNewest', Live'
  PROVE  ReplacedIsSettled' /\ ShownIsPending' /\ DecidedIsInFlight' /\ AnswersInOrder'
<1>t. /\ Places \subseteq Places' /\ Places' \subseteq Nat /\ 0 \in Places
      /\ \A i \in Places : Shows(i)' = Shows(i)
      /\ said' = said /\ LoopTypeOK /\ InFlight' \subseteq InFlight
  BY StreamGrows, ActorPerforms, ActorAnswersArrive DEF DrivenInv
<1>d. \A h : Decided(h)' <=> Decided(h)
  BY <1>t DEF Decided
<1>s. /\ \A i \in Places : \A p : Asks(i, p)' <=> Asks(i, p)
      /\ \A k \in Places, i \in Places' : i \notin Places => k < i
      /\ \A i \in Places' : i \in Nat
  BY <1>t, StreamGrows DEF Asks
<1>1. CASE DOMAIN pending' = {} /\ ~Live
  <2>1. Places = {0}
    BY <1>1 DEF FreshInv, Places
  <2>2. \A i \in Places' : i # 0 => Shows(i)' = None
    BY <1>1, <2>1, StreamGrows
  <2>3. ReplacedIsSettled' /\ DecidedIsInFlight' /\ AnswersInOrder'
    BY <1>1 DEF ReplacedIsSettled, DecidedIsInFlight, AnswersInOrder, Answers, Sends
  <2>4. ShownIsPending'
    <3>1. \A p \in Prompts : p # None
      BY NoneAssumption DEF Prompts
    <3>2. QED BY <2>2, <3>1 DEF ShownIsPending, Asks
  <2>5. QED BY <2>3, <2>4
<1>2. CASE Live
  <2>f. ReplacedIsSettled /\ ShownIsPending /\ DecidedIsInFlight /\ AnswersInOrder
    BY <1>2 DEF FreshInv
  <2>n. ASSUME NEW i \in Places', i \notin Places, NEW p \in Prompts, Asks(i, p)'
        PROVE  p.id \in DOMAIN pending'
    <3>1. DOMAIN pending' # {}
      BY <2>n, StreamGrows, NoneAssumption DEF Asks, Prompts
    <3>2. PICK q \in Prompts : Asks(i, q)' /\ q.id \in DOMAIN pending'
      BY <2>n, <3>1, StreamGrows
    <3>3. QED BY <2>n, <3>2 DEF Asks
  <2>m. ASSUME NEW i \in Places, NEW p \in Prompts, Asks(i, p), p.id \in DOMAIN pending'
        PROVE  p.id \in DOMAIN pending
    <3>1. p.id < promptSeq /\ p.id \in Nat
      BY <2>m, ShownIsMentioned DEF PromiseInv, MentionsAgree
    <3>2. p.id # promptSeq
      BY <1>t, <3>1 DEF LoopTypeOK, TypeOK
    <3>3. QED BY <1>t, <2>m, <3>2, ActorEffects, RaisedIsPending, SettledIsGone
              DEF Drains, Passes, TurnsAway
  <2>1. ReplacedIsSettled'
    <3> SUFFICES ASSUME NEW i \in Places', NEW j \in Places', NEW p \in Prompts, i < j, Asks(i, p)',
                        p.id \in DOMAIN pending'
                 PROVE  \E q \in Prompts : Asks(j, q)' /\ q.id >= p.id
      BY DEF ReplacedIsSettled
    <3>1. CASE j \in Places
      <4>1. i \in Places
        <5>1. i \notin Places => j < i
          BY <1>s, <3>1
        <5>2. QED BY <1>s, <5>1
      <4>2. Asks(i, p) /\ p.id \in DOMAIN pending
        BY <1>s, <2>m, <4>1
      <4>3. PICK q \in Prompts : Asks(j, q) /\ q.id >= p.id
        BY <2>f, <3>1, <4>1, <4>2 DEF ReplacedIsSettled
      <4>4. QED BY <1>s, <3>1, <4>3
    <3>2. CASE j \notin Places
      <4>1. PICK q \in Prompts : Asks(j, q)' /\ \A id \in DOMAIN pending' : id =< q.id
        BY <3>2, StreamGrows
      <4>2. p.id =< q.id /\ p.id \in Nat /\ q.id \in Nat
        BY <4>1, PromptFields
      <4>3. QED BY <4>1, <4>2
    <3>3. QED BY <3>1, <3>2
  <2>2. ShownIsPending'
    <3> SUFFICES ASSUME NEW i \in Places', NEW p \in Prompts, Asks(i, p)', p.id \notin DOMAIN pending'
                 PROVE  Decided(p.call) \/ (i = 0 /\ \A j \in Places' : j > 0 => Shows(j)' # p)
      BY <1>d DEF ShownIsPending
    <3>1. i \in Places /\ Asks(i, p)
      BY <1>s, <2>n
    <3>2. CASE p.id \in DOMAIN pending
      <4>1. PICK r \in Responses : Settles(r)
        <5>1. ~Drains
          BY LiveActor DEF Drains
        <5>2. ASSUME NEW h \in Hooks, Raises(h) PROVE p.id \in DOMAIN pending'
          BY <3>2, <5>2, RaisedIsPending
        <5>3. QED BY <1>t, <3>2, <5>1, <5>2, ActorEffects DEF Passes, TurnsAway
      <4>2. r.id = p.id
        <5>1. DOMAIN pending' = DOMAIN pending \ {r.id}
          BY <4>1, SettledIsGone
        <5>2. QED BY <3>2, <5>1
      <4>3. r \in InFlight
        BY <1>t, <4>1, ActorAnswersArrive
      <4>4. Decided(pending[p.id].hook)
        BY <3>2, <4>2, <4>3 DEF PromiseInv, AnswersAreAuthentic, Spoke, Decided, Responses
      <4>5. pending[p.id].hook = p.call
        BY <3>1, <3>2, ShownIsMentioned, PendingIsMentioned DEF PromiseInv
      <4>6. QED BY <4>4, <4>5
    <3>3. CASE p.id \notin DOMAIN pending /\ ~Decided(p.call)
      <4>1. i = 0 /\ \A j \in Places : j > 0 => Shows(j) # p
        BY <2>f, <3>1, <3>3 DEF ShownIsPending
      <4>2. \A j \in Places' : j > 0 => Shows(j)' # p
        <5> SUFFICES ASSUME NEW j \in Places', j > 0, Shows(j)' = p PROVE FALSE
          OBVIOUS
        <5>1. CASE j \in Places
          BY <1>t, <4>1, <5>1
        <5>2. CASE j \notin Places
          BY <2>n, <5>2 DEF Asks
        <5>3. QED BY <5>1, <5>2
      <4>3. QED BY <4>1, <4>2
    <3>4. QED BY <3>2, <3>3
  <2>3. DecidedIsInFlight'
    <3> SUFFICES ASSUME NEW id \in DOMAIN pending', Decided(pending'[id].hook)
                 PROVE  /\ \E r \in InFlight' : r.id = id
                        /\ \A i \in Places' : \E q \in Prompts :
                             Asks(i, q)' /\ q.id >= id /\ q.id \in DOMAIN pending'
      BY <1>d DEF DecidedIsInFlight
    <3>1. /\ id \in DOMAIN pending /\ pending'[id] = pending[id]
          /\ \A k \in DOMAIN pending : k >= id => k \in DOMAIN pending'
          /\ \E r \in InFlight' : r.id = id
      BY <1>2, DecidedOutlivesOlder
    <3>2. ASSUME NEW i \in Places'
          PROVE  \E q \in Prompts : Asks(i, q)' /\ q.id >= id /\ q.id \in DOMAIN pending'
      <4>1. CASE i \in Places
        <5>1. PICK q \in Prompts : Asks(i, q) /\ q.id >= id /\ q.id \in DOMAIN pending
          BY <2>f, <3>1, <4>1 DEF DecidedIsInFlight
        <5>2. QED BY <1>s, <3>1, <4>1, <5>1
      <4>2. CASE i \notin Places
        <5>1. PICK q \in Prompts : Asks(i, q)' /\ q.id \in DOMAIN pending' /\ \A k \in DOMAIN pending' : k =< q.id
          BY <3>2, <4>2, StreamGrows
        <5>2. id =< q.id /\ id \in Nat /\ q.id \in Nat
          BY <1>t, <3>1, <5>1, PromptFields DEF LoopTypeOK, TypeOK
        <5>3. QED BY <5>1, <5>2
      <4>3. QED BY <4>1, <4>2
    <3>3. QED BY <3>1, <3>2
  <2>4. AnswersInOrder'
    <3>1. mailbox # << >> /\ mailbox' = Tail(mailbox) /\ uplink' = uplink /\ mailbox \in Seq(Inputs)
      BY <1>t, ActorPerforms DEF LoopTypeOK
    <3>2. \A i \in DOMAIN mailbox' : i \in Nat /\ i + 1 \in DOMAIN mailbox /\ mailbox'[i] = mailbox[i + 1]
      BY <3>1, TailShifts
    <3>3. ASSUME NEW r \in InFlight, r.id \in DOMAIN pending' PROVE r.id \in DOMAIN pending
      <4>1. r.id < promptSeq /\ r.id \in Nat /\ promptSeq \in Nat
        BY <1>t DEF PromiseInv, AnswersAreAuthentic, InFlight, Responses, LoopTypeOK, TypeOK
      <4>2. r.id # promptSeq
        BY <4>1
      <4>3. QED BY <1>t, <3>3, <4>2, ActorEffects, RaisedIsPending, SettledIsGone
                DEF Drains, Passes, TurnsAway
    <3>4. \A i, r : r \in Responses /\ Answers(i, r)' => i \in Nat /\ Answers(i + 1, r)
      <4> SUFFICES ASSUME NEW i, NEW r \in Responses, Answers(i, r)'
                   PROVE  i \in Nat /\ Answers(i + 1, r)
        OBVIOUS
      <4>1. i \in DOMAIN mailbox' /\ mailbox'[i] = DeviceInput(r) /\ r.id \in DOMAIN pending'
        BY DEF Answers
      <4>2. i \in Nat /\ i + 1 \in DOMAIN mailbox /\ mailbox[i + 1] = DeviceInput(r)
        BY <3>2, <4>1
      <4>3. r \in InFlight
        BY <4>2 DEF InFlight
      <4>4. QED BY <3>3, <4>1, <4>2, <4>3 DEF Answers
    <3>5. \A i, r : r \in Responses /\ Sends(i, r)' => Sends(i, r)
      <4> SUFFICES ASSUME NEW i, NEW r \in Responses, Sends(i, r)' PROVE Sends(i, r)
        OBVIOUS
      <4>1. i \in DOMAIN uplink /\ uplink[i] = r /\ r.id \in DOMAIN pending'
        BY <3>1 DEF Sends
      <4>2. r \in InFlight
        BY <4>1 DEF InFlight
      <4>3. QED BY <3>3, <4>1, <4>2 DEF Sends
    <3>6. ASSUME NEW r \in Responses, NEW x \in Responses
          PROVE  /\ \A i, j \in Nat : i < j /\ Answers(i, r)' /\ Answers(j, x)' => r.id < x.id
                 /\ \A i, j \in Nat : Answers(i, r)' /\ Sends(j, x)' => r.id < x.id
                 /\ \A i, j \in Nat : i < j /\ Sends(i, r)' /\ Sends(j, x)' => r.id < x.id
      <4>1. \A i, j \in Nat : i < j /\ Answers(i, r)' /\ Answers(j, x)' => r.id < x.id
        <5> SUFFICES ASSUME NEW i \in Nat, NEW j \in Nat, i < j, Answers(i, r)', Answers(j, x)'
                     PROVE  r.id < x.id
          OBVIOUS
        <5>1. i + 1 \in Nat /\ j + 1 \in Nat /\ i + 1 < j + 1 /\ Answers(i + 1, r) /\ Answers(j + 1, x)
          BY <3>4
        <5>2. QED BY <2>f, <5>1 DEF AnswersInOrder
      <4>2. \A i, j \in Nat : Answers(i, r)' /\ Sends(j, x)' => r.id < x.id
        <5> SUFFICES ASSUME NEW i \in Nat, NEW j \in Nat, Answers(i, r)', Sends(j, x)'
                     PROVE  r.id < x.id
          OBVIOUS
        <5>1. i + 1 \in Nat /\ Answers(i + 1, r) /\ Sends(j, x)
          BY <3>4, <3>5
        <5>2. QED BY <2>f, <5>1 DEF AnswersInOrder
      <4>3. \A i, j \in Nat : i < j /\ Sends(i, r)' /\ Sends(j, x)' => r.id < x.id
        BY <2>f, <3>5 DEF AnswersInOrder
      <4>4. QED BY <4>1, <4>2, <4>3
    <3>7. QED BY <3>6 DEF AnswersInOrder
  <2>5. QED BY <2>1, <2>2, <2>3, <2>4
<1>3. QED BY <1>1, <1>2, LiveActor

\* At rest the glass is blank and nothing is said.
LEMMA FreshStarts == LoopInit => FreshInv
<1> SUFFICES ASSUME LoopInit PROVE FreshInv
  OBVIOUS
<1>1. /\ glass = None /\ downlink = << >> /\ said = {} /\ linkUp = FALSE
      /\ DOMAIN pending = {}
  BY NothingType DEF LoopInit, ActorInit, CoordinatorInit
<1>2. Mentions = {} /\ \A h : ~Decided(h)
  BY <1>1, NoneAssumption DEF Mentions, Decided, Prompts
<1>3. ~Live
  BY <1>1 DEF Live, ChannelIsCurrent
<1>4. QED BY <1>1, <1>2, <1>3 DEF FreshInv, CallsAgree, DecidedIsAnswered

\* With no crash and no refused answer, every step keeps it.
LEMMA FreshStep ==
  ASSUME "crash" \notin Faults, "refuse" \notin Faults
  PROVE  /\ DrivenInv /\ DrivenInv' /\ PromiseInv /\ PromiseInv' /\ FreshInv /\ ShowsTheNewest'
         /\ [LoopNext]_loopVars
         => FreshInv'
<1> SUFFICES ASSUME DrivenInv, DrivenInv', PromiseInv, PromiseInv', FreshInv, ShowsTheNewest',
                    [LoopNext]_loopVars
             PROVE  FreshInv'
  OBVIOUS
<1>1. ~DaemonCrashes
  BY DEF DaemonCrashes, Fails, MayFail
<1>2. CASE UNCHANGED loopVars
  <2>1. /\ UNCHANGED <<pending, asked, mailbox, linkUp, downlink, uplink, glass, answered, said>>
    BY <1>2 DEF loopVars, daemonVars, linkVars, deviceVars
  <2>2. Places' = Places /\ (\A i : Shows(i)' = Shows(i)) /\ (\A i, p : Asks(i, p)' <=> Asks(i, p))
        /\ InFlight' = InFlight /\ Mentions' = Mentions /\ (\A h : Decided(h)' <=> Decided(h))
        /\ (Live' <=> Live)
    BY <2>1 DEF Places, Shows, Asks, InFlight, Mentions, Decided, Live, ChannelIsCurrent
  <2>3. CallsAgree'
    BY <2>1, <2>2 DEF FreshInv, CallsAgree
  <2>4. DecidedIsAnswered'
    BY <2>1, <2>2 DEF FreshInv, DecidedIsAnswered
  <2>5. Live' => ReplacedIsSettled' /\ ShownIsPending' /\ DecidedIsInFlight'
    BY <2>1, <2>2 DEF FreshInv, ReplacedIsSettled, ShownIsPending, DecidedIsInFlight
  <2>6. Live' => AnswersInOrder'
    BY <2>1, <2>2 DEF FreshInv, AnswersInOrder, Answers, Sends
  <2>7. QED BY <2>1, <2>2, <2>3, <2>4, <2>5, <2>6 DEF FreshInv
<1>3. CASE ActorTakes
  <2>1. ~Live' => downlink' = << >>
    BY <1>3, LiveActor DEF FreshInv
  <2>2. CallsAgree' /\ DecidedIsAnswered'
    BY <1>3, CallsAgreeActor, DecidedIsAnsweredActor DEF FreshInv
  <2>3. Live' => ReplacedIsSettled' /\ ShownIsPending' /\ DecidedIsInFlight' /\ AnswersInOrder'
    BY <1>3, StreamActor
  <2>4. QED BY <2>1, <2>2, <2>3 DEF FreshInv
<1>4. QED BY <1>1, <1>2, <1>3, FreshElsewhere, LoopSteps

\* As long as the daemon does not crash and the stick's stack refuses no answer,
\* whatever else is dropped or lost, and no session has two calls in flight: the
\* glass never asks again about a call its owner has decided (device state.rs,
\* `answered`; gating.rs; coordinator.rs).
THEOREM TheGlassNeverAsksTwice ==
  ASSUME "crash" \notin Faults, "refuse" \notin Faults
  PROVE  LoopSpec => SerialNeverAsksTwice
<1>1. DrivenInv /\ FreshInv => NeverAsksTwice
  <2> SUFFICES ASSUME DrivenInv, FreshInv, Unanswered,
                      NEW decision \in Decisions, <<glass.call, decision>> \in said
               PROVE  FALSE
    BY DEF NeverAsksTwice
  <2>1. glass \in Prompts /\ answered # glass.id
    BY DEF Unanswered, DrivenInv, LoopTypeOK
  <2>2. 0 \in Places /\ Asks(0, glass) /\ Decided(glass.call)
    BY <2>1 DEF Places, Asks, Shows, Decided
  <2>3. QED BY <2>1, <2>2 DEF FreshInv, DecidedIsAnswered
<1>2. LoopSpec => Spec
  BY TheDaemonIsDriven DEF DaemonIsDriven
<1>3. Spec /\ []OneCallPerSession => []ShowsTheNewest
  <2>1. NoBareSnapshot /\ GlassShowsTheNewest => ShowsTheNewest
    BY DEF ShowsTheNewest
  <2>2. QED
    BY <2>1, ApprovalsStayUp, GlassIsShownTheNewest, PTL
    DEF SerialApprovalsStayUp, SerialGlassShowsTheNewest
<1>4. QED
  BY <1>1, <1>2, <1>3, PromiseAlways, FreshStarts, FreshStep, PTL DEF LoopSpec, SerialNeverAsksTwice
=============================================================================

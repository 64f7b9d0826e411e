----------------------------- MODULE HealthProofs -----------------------------
(***************************************************************************)
(* Theorems about the health alarm, for any components, deadlines, cadence   *)
(* and capacity of the memory of acknowledgements.                          *)
(***************************************************************************)
EXTENDS Health, FiniteSetTheorems, WellFoundedInduction, TLAPS

\* A fault is acknowledged exactly as long as it is one of the AckCapacity last
\* silenced, and the entries stand in the order of their silences.
AckedInOrder ==
  /\ \A i \in 1 .. Len(acked) : silence[acked[i]] = Len(acked) - i + 1
  /\ \A key \in FaultKey : ~IsAcked(key) => silence[key] = 0

AlarmInv == AlarmTypeOK /\ AckedInOrder

-----------------------------------------------------------------------------

LEMMA ModesDiffer ==
  ASSUME state \in AlarmState
  PROVE  /\ state.due \in 0 .. Cadence
         /\ state.mode = "Silent" => state = Silent
         /\ state.mode # "Silent" => state.key \in FaultKey
         /\ state.mode = "Sounding" => state = Sounding(state.key, state.due)
  BY AlarmAssumption DEF AlarmState, Silent, Sounding, Acknowledged

LEMMA AckedKeys ==
  ASSUME AlarmTypeOK, NEW i \in 1 .. Len(acked)
  PROVE  acked[i] \in FaultKey /\ IsAcked(acked[i])
  BY DEF AlarmTypeOK, IsAcked

\* No action but Acknowledges touches the memory without clearing it.
LEMMA WaitsType ==
  ASSUME AlarmTypeOK, Waits
  PROVE  /\ AlarmTypeOK'
         /\ ~(state'.mode = "Sounding" /\ state'.due = Cadence)
<1>1. state \in AlarmState /\ state.due \in 0 .. Cadence
  BY ModesDiffer DEF AlarmTypeOK
<1> DEFINE left == IF state.due = 0 THEN 0 ELSE state.due - 1
<1>2. left \in 0 .. Cadence /\ left # Cadence
  BY <1>1, AlarmAssumption
<1>3. state' = [state EXCEPT !.due = left]
  BY DEF Waits
<1>4. CASE state = Silent
  BY <1>3, <1>4 DEF Waits, AlarmTypeOK, AlarmState, Silent
<1>5. CASE \E key \in FaultKey : state = Acknowledged(key)
  BY <1>3, <1>5 DEF Waits, AlarmTypeOK, AlarmState, Acknowledged
<1>6. CASE \E key \in FaultKey, due \in 0 .. Cadence : state = Sounding(key, due)
  <2>1. PICK key \in FaultKey, due \in 0 .. Cadence : state = Sounding(key, due)
    BY <1>6
  <2>2. state' = Sounding(key, left) /\ state'.due = left
    BY <1>3, <2>1 DEF Sounding
  <2>3. state' \in AlarmState
    BY <1>2, <2>2 DEF AlarmState
  <2>4. QED BY <1>2, <2>2, <2>3 DEF Waits, AlarmTypeOK
<1>7. QED BY <1>1, <1>4, <1>5, <1>6 DEF AlarmState

LEMMA EvaluatesKeepsType ==
  ASSUME AlarmTypeOK, NEW verdict, Evaluates(verdict)
  PROVE  AlarmTypeOK'
<1>1. CASE Recovers
  BY <1>1, AlarmAssumption DEF Recovers, AlarmTypeOK, AlarmState, Unsilenced
<1>2. CASE verdict \in FaultKey /\ state' \in {state, Acknowledged(verdict), Sounding(verdict, Cadence)}
           /\ UNCHANGED <<acked, silence>>
  BY <1>2, AlarmAssumption DEF AlarmTypeOK, AlarmState
<1>3. QED BY <1>1, <1>2 DEF Evaluates

LEMMA InsertedFacts ==
  ASSUME AlarmTypeOK, NEW key \in FaultKey, ~IsAcked(key)
  PROVE  LET new == Inserted(key)
             shift == IF Len(acked) = AckCapacity THEN 1 ELSE 0
         IN /\ new \in Seq(FaultKey)
            /\ Len(new) = Len(acked) + 1 - shift
            /\ Len(new) <= AckCapacity
            /\ new[Len(new)] = key
            /\ \A i \in 1 .. Len(new) - 1 : i + shift \in 1 .. Len(acked) /\ new[i] = acked[i + shift]
<1>1. acked \in Seq(FaultKey) /\ Len(acked) \in Nat /\ Len(acked) <= AckCapacity /\ AckCapacity >= 1
  BY AlarmAssumption DEF AlarmTypeOK
<1>2. CASE Len(acked) = AckCapacity
  <2> DEFINE rest == Tail(acked)
  <2>1. rest \in Seq(FaultKey) /\ Len(rest) = Len(acked) - 1
        /\ \A i \in 1 .. Len(rest) : rest[i] = acked[i + 1]
    BY <1>1, <1>2
  <2>2. Inserted(key) = Append(rest, key)
    BY <1>2 DEF Inserted
  <2> HIDE DEF rest
  <2>3. QED BY <1>1, <1>2, <2>1, <2>2
<1>3. CASE Len(acked) # AckCapacity
  <2>1. Inserted(key) = Append(acked, key)
    BY <1>3 DEF Inserted
  <2> DEFINE new == Append(acked, key)
  <2>2. /\ new \in Seq(FaultKey) /\ Len(new) = Len(acked) + 1
        /\ new[Len(new)] = key
        /\ \A i \in 1 .. Len(acked) : new[i] = acked[i]
    BY <1>1
  <2> HIDE DEF new
  <2>3. Len(acked) + 1 <= AckCapacity /\ \A i \in 1 .. Len(new) - 1 : i + 0 \in 1 .. Len(acked) /\ new[i] = acked[i + 0]
    BY <1>1, <1>3, <2>2, AlarmAssumption
  <2>4. Inserted(key) = new
    BY <2>1 DEF new
  <2>5. QED BY <1>1, <1>3, <2>2, <2>3, <2>4
<1>4. QED BY <1>2, <1>3

LEMMA AcknowledgesKeepsInv ==
  ASSUME AlarmInv, Acknowledges
  PROVE  AlarmInv'
<1> DEFINE key == state.key
<1>1. key \in FaultKey /\ state' = Acknowledged(key)
  BY ModesDiffer DEF AlarmInv, AlarmTypeOK, Acknowledges
<1>2. acked' = Inserted(key) /\ silence' = SilencedNow(key)
  BY DEF Acknowledges
<1>3. state' \in AlarmState
  BY <1>1 DEF AlarmState
<1> HIDE DEF key
<1>4. CASE IsAcked(key)
  <2>1. PICK i \in 1 .. Len(acked) : acked[i] = key
    BY <1>4 DEF IsAcked, AlarmInv, AlarmTypeOK
  <2>2. silence[key] # 0
    BY <2>1 DEF AlarmInv, AlarmTypeOK, AckedInOrder
  <2>3. UNCHANGED <<acked, silence>>
    BY <1>2, <1>4, <2>2 DEF Inserted, SilencedNow
  <2>4. QED BY <1>3, <2>3 DEF AlarmInv, AlarmTypeOK, AckedInOrder, IsAcked
<1>5. CASE ~IsAcked(key)
  <2> DEFINE shift == IF Len(acked) = AckCapacity THEN 1 ELSE 0
  <2>1. /\ acked \in Seq(FaultKey) /\ Len(acked) \in Nat /\ Len(acked) <= AckCapacity
        /\ AckCapacity \in Nat /\ AckCapacity >= 1
        /\ silence \in [FaultKey -> 0 .. AckCapacity]
    BY AlarmAssumption DEF AlarmInv, AlarmTypeOK
  <2>2. /\ acked' \in Seq(FaultKey)
        /\ Len(acked') = Len(acked) + 1 - shift
        /\ Len(acked') <= AckCapacity
        /\ acked'[Len(acked')] = key
        /\ \A i \in 1 .. Len(acked') - 1 : i + shift \in 1 .. Len(acked) /\ acked'[i] = acked[i + shift]
    BY <1>1, <1>2, <1>5, InsertedFacts DEF AlarmInv
  <2>3. silence[key] = 0
    BY <1>1, <1>5 DEF AlarmInv, AckedInOrder
  <2>4. silence' = [k \in FaultKey |->
          IF k = key THEN 1
          ELSE IF silence[k] \in {0, AckCapacity} THEN 0 ELSE silence[k] + 1]
    BY <1>2, <2>3 DEF SilencedNow
  <2>5. silence' \in [FaultKey -> 0 .. AckCapacity]
    BY <2>1, <2>4
  <2>6. \A i \in 1 .. Len(acked) : acked[i] \in FaultKey /\ acked[i] # key /\ silence[acked[i]] = Len(acked) - i + 1
    BY <1>5, AckedKeys DEF AlarmInv, AckedInOrder
  <2>7. shift \in {0, 1} /\ (shift = 1 <=> Len(acked) = AckCapacity)
    OBVIOUS
  <2> HIDE DEF shift
  <2>8. \A i \in 1 .. Len(acked') : silence'[acked'[i]] = Len(acked') - i + 1
    <3> TAKE i \in 1 .. Len(acked')
    <3>1. CASE i = Len(acked')
      BY <1>1, <2>1, <2>2, <2>4, <2>7, <3>1
    <3>2. CASE i # Len(acked')
      <4>1. i + shift \in 1 .. Len(acked) /\ acked'[i] = acked[i + shift]
        BY <2>1, <2>2, <2>7, <3>2
      <4>2. /\ acked'[i] \in FaultKey /\ acked'[i] # key
            /\ silence[acked'[i]] = Len(acked) - (i + shift) + 1
        BY <2>6, <4>1
      <4>3. Len(acked) - (i + shift) + 1 # 0 /\ Len(acked) - (i + shift) + 1 # AckCapacity
        BY <2>1, <2>7, <4>1
      <4>4. silence'[acked'[i]] = silence[acked'[i]] + 1
        BY <2>4, <4>2, <4>3
      <4>5. QED BY <2>1, <2>2, <2>7, <4>1, <4>2, <4>4
    <3>3. QED BY <3>1, <3>2
  <2>9. \A k \in FaultKey : ~IsAcked(k)' => silence'[k] = 0
    <3> SUFFICES ASSUME NEW k \in FaultKey, ~IsAcked(k)'
                 PROVE  silence'[k] = 0
      OBVIOUS
    <3>1. \A i \in 1 .. Len(acked') : acked'[i] # k
      BY <2>2 DEF IsAcked
    <3>2. k # key
      BY <2>1, <2>2, <2>7, <3>1
    <3>3. CASE ~IsAcked(k)
      BY <2>4, <3>2, <3>3 DEF AlarmInv, AckedInOrder
    <3>4. CASE IsAcked(k)
      <4>1. PICK j \in 1 .. Len(acked) : acked[j] = k
        BY <2>1, <3>4 DEF IsAcked
      <4>2. CASE j > shift
        <5>1. j - shift \in 1 .. Len(acked') - 1 /\ (j - shift) + shift = j
          BY <2>1, <2>2, <2>7, <4>2
        <5>2. acked'[j - shift] = k
          BY <2>2, <4>1, <5>1
        <5>3. QED BY <2>1, <2>2, <2>7, <3>1, <5>1, <5>2
      <4>3. CASE j <= shift
        <5>1. silence[k] = AckCapacity
          BY <2>1, <2>6, <2>7, <4>1, <4>3
        <5>2. QED BY <2>4, <3>2, <5>1
      <4>4. QED BY <2>7, <4>2, <4>3
    <3>5. QED BY <3>3, <3>4
  <2>10. QED BY <1>3, <2>2, <2>5, <2>8, <2>9 DEF AlarmInv, AlarmTypeOK, AckedInOrder
<1>6. QED BY <1>4, <1>5

LEMMA AlarmStep ==
  ASSUME AlarmInv, [AlarmNext]_alarmVars
  PROVE  /\ AlarmInv'
         /\ Chirping' /\ state' # state => silence[state'.key] = 0
<1>1. CASE UNCHANGED alarmVars
  BY <1>1 DEF AlarmInv, AlarmTypeOK, AckedInOrder, IsAcked, alarmVars
<1>2. CASE Acknowledges
  <2>1. state'.mode = "Acknowledged"
    BY <1>2 DEF Acknowledges, Acknowledged
  <2>2. QED BY <1>2, <2>1, AcknowledgesKeepsInv DEF Chirping
<1>3. CASE Waits
  <2>1. UNCHANGED <<acked, silence>>
    BY <1>3 DEF Waits
  <2>2. QED BY <1>3, <2>1, WaitsType DEF AlarmInv, AckedInOrder, IsAcked, Chirping
<1>4. ASSUME NEW verdict, Evaluates(verdict)
      PROVE  AlarmInv' /\ (Chirping' /\ state' # state => silence[state'.key] = 0)
  <2>1. AlarmTypeOK'
    BY <1>4, EvaluatesKeepsType DEF AlarmInv
  <2>2. CASE Recovers
    BY <2>1, <2>2, AlarmAssumption
       DEF Recovers, AlarmInv, AckedInOrder, IsAcked, Unsilenced, Silent, Chirping
  <2>3. CASE verdict \in FaultKey /\ UNCHANGED <<acked, silence>>
    <3>1. AlarmInv'
      BY <2>1, <2>3 DEF AlarmInv, AckedInOrder, IsAcked
    <3>2. CASE state' = Acknowledged(verdict)
      BY <3>1, <3>2 DEF Acknowledged, Chirping
    <3>3. CASE UNCHANGED state
      BY <3>1, <3>3
    <3>4. CASE ~IsAcked(verdict) /\ state' = Sounding(verdict, Cadence)
      BY <2>3, <3>1, <3>4 DEF Sounding, AlarmInv, AckedInOrder
    <3>5. CASE verdict = Healthy
      BY <2>3, <3>5, AlarmAssumption
    <3>6. QED BY <1>4, <3>2, <3>3, <3>4, <3>5 DEF Evaluates
  <2>4. QED BY <1>4, <2>2, <2>3 DEF Evaluates
<1>5. QED BY <1>1, <1>2, <1>3, <1>4 DEF AlarmNext

LEMMA AlarmStarts == AlarmInit => AlarmInv
  BY AlarmAssumption
     DEF AlarmInit, AlarmInv, AlarmTypeOK, AlarmState, AckedInOrder, IsAcked, Unsilenced

\* Every step of the board is one the alarm may take, or leaves it alone.
LEMMA BoardStepsAreAlarmSteps == [Next]_healthVars => [AlarmNext]_alarmVars
  BY DEF Next, Does, Beats, GivesUp, ReadsHeap, TimePasses, Assess, Press, Evaluates, AlarmNext,
         healthVars, alarmVars

-----------------------------------------------------------------------------

\* The board's alarm is the alarm: whatever the evidence does, the alarm only ever
\* takes the steps that Alarm.step and Alarm.acknowledge allow it on some verdict.
THEOREM BoardImplementsAlarm == Spec => AlarmSpec
<1>1. Init => AlarmInit
  BY DEF Init
<1>2. QED BY <1>1, BoardStepsAreAlarmSteps, PTL DEF Spec, AlarmSpec

\* The state, the memory and the history keep their types.
THEOREM AlarmTypeCorrect == AlarmSpec => []AlarmTypeOK
<1>1. QED BY AlarmStarts, AlarmStep, PTL DEF AlarmSpec, AlarmInv

\* A silenced fault stays silent until the board is healthy, or AckCapacity others
\* have been silenced since (ack.rs): under any sequence of verdicts, not only those
\* of a board.
THEOREM SilenceIsKept == AlarmSpec => SilencedStaysSilent
<1>1. AlarmInv /\ [AlarmNext]_alarmVars =>
        [Chirping' /\ state' # state => silence[state'.key] = 0]_alarmVars
  BY AlarmStep
<1>2. QED BY AlarmStarts, AlarmStep, <1>1, PTL DEF AlarmSpec, SilencedStaysSilent

\* The memory and the promise agree: a fault is acknowledged exactly while it is one
\* of the AckCapacity last silenced, so an unsilenced fault is never deaf.
THEOREM MemoryIsThePromise ==
  AlarmSpec => [](\A key \in FaultKey : IsAcked(key) <=> silence[key] # 0)
<1>1. AlarmInv => \A key \in FaultKey : IsAcked(key) <=> silence[key] # 0
  <2> SUFFICES ASSUME AlarmInv, NEW key \in FaultKey, IsAcked(key)
               PROVE  silence[key] # 0
    BY DEF AlarmInv, AckedInOrder
  <2>1. PICK i \in 1 .. Len(acked) : acked[i] = key
    BY DEF IsAcked, AlarmInv, AlarmTypeOK
  <2>2. QED BY <2>1 DEF AlarmInv, AlarmTypeOK, AckedInOrder
<1>2. QED BY AlarmStarts, AlarmStep, <1>1, PTL DEF AlarmSpec

-----------------------------------------------------------------------------
(* The verdict.                                                            *)

\* A set of naturals that is not empty has a least element: what the inductions
\* below rest on.
LEMMA LeastOf ==
  ASSUME NEW T \in SUBSET Nat, T # {}
  PROVE  \E m \in T : \A k \in T : m =< k
<1>1. PICK m \in T : \A k \in T : ~(<<k, m>> \in OpToRel(<, Nat))
  BY NatLessThanWellFounded, WFMin
<1>2. \A k \in T : ~(k < m)
  BY <1>1 DEF OpToRel
<1> QED
  BY <1>2

\* The fold of the first n candidates, as a table of the worst so far.
IsFold(worst, n) ==
  worst = [i \in 0 .. n |-> IF i = 0 THEN Healthy ELSE Worse(worst[i - 1], Candidate(i))]

\* There is such a table for every n.
LEMMA FoldExists == ASSUME NEW n \in Nat PROVE \E worst : IsFold(worst, n)
<1> DEFINE Missing == {k \in Nat : ~ \E worst : IsFold(worst, k)}
<1> SUFFICES ASSUME Missing # {} PROVE FALSE
  OBVIOUS
<1>1. PICK m \in Missing : \A k \in Missing : m =< k
  BY LeastOf
<1>2. CASE m = 0
  <2> DEFINE worst == [i \in 0 .. 0 |-> Healthy]
  <2>1. IsFold(worst, 0)
    BY DEF IsFold
  <2> QED BY <1>2, <2>1
<1>3. CASE m # 0
  <2>1. m - 1 \in Nat /\ m - 1 \notin Missing
    BY <1>1, <1>3
  <2>2. PICK before : IsFold(before, m - 1)
    BY <2>1
  <2> DEFINE worst == [i \in 0 .. m |->
                         IF i = m THEN Worse(before[m - 1], Candidate(m)) ELSE before[i]]
             next == [i \in 0 .. m |-> IF i = 0 THEN Healthy ELSE Worse(worst[i - 1], Candidate(i))]
  <2>3. ASSUME NEW i \in 0 .. m PROVE worst[i] = next[i]
    <3>1. CASE i = m
      BY <1>3, <2>1, <3>1
    <3>2. CASE i = 0
      BY <1>3, <2>1, <2>2, <3>2 DEF IsFold
    <3>3. CASE i # m /\ i # 0
      <4>1. i \in 0 .. m - 1 /\ i - 1 \in 0 .. m - 1 /\ i - 1 # m /\ i - 1 \in 0 .. m
        BY <2>1, <3>3
      <4>2. before[i] = Worse(before[i - 1], Candidate(i))
        BY <2>2, <3>3, <4>1 DEF IsFold
      <4> QED BY <3>3, <4>1, <4>2
    <3> QED BY <3>1, <3>2, <3>3
  <2>4. IsFold(worst, m)
    BY <2>3 DEF IsFold
  <2> QED BY <1>1, <2>4
<1> QED BY <1>2, <1>3

\* assess is the last entry of that table.
LEMMA AssessedIsFold ==
  \E worst : IsFold(worst, Last) /\ Assessed = worst[Last]
<1>1. Last \in Nat
  BY AlarmAssumption DEF Last
<1> DEFINE worst == CHOOSE w : IsFold(w, Last)
<1>2. IsFold(worst, Last)
  BY <1>1, FoldExists
<1>3. Assessed = worst[Last]
  BY DEF Assessed, IsFold
<1> QED BY <1>2, <1>3

\* What a candidate is, when it is a fault.
Ranked(fault) == fault.key.kind \in DOMAIN Severity /\ fault.standing \in Nat

\* Outranking is a strict order of which every two faults are comparable but for
\* equals, which rank alike against a third.
LEMMA RankingIsAnOrder ==
  \A a, b, c : Ranked(a) /\ Ranked(b) /\ Ranked(c) =>
    /\ ~Outranks(a, a)
    /\ Outranks(a, b) /\ ~Outranks(c, b) => Outranks(a, c)
    /\ Outranks(a, b) => ~Outranks(b, a)
<1>1. \A kind \in DOMAIN Severity : Severity[kind] \in Nat
  BY DEF Severity
<1> QED
  BY <1>1 DEF Ranked, Outranks

\* What the components' evidence ranges over.
EvidenceTypes ==
  observed \in [Components -> [did : {"nothing", "beat", "gave_up"}, age : Nat]]

\* Every candidate is a fault with a rank, or none.
LEMMA CandidatesAreRanked ==
  ASSUME EvidenceTypes, NEW i \in 1 .. Last
  PROVE  Candidate(i) = Healthy \/ Ranked(Candidate(i))
<1>1. CASE i > 2
  <2>1. i - 2 \in Components
    BY <1>1, AlarmAssumption DEF Last, Components
  <2>2. observed[i - 2].age \in Nat
    BY <2>1 DEF EvidenceTypes
  <2>3. ComponentFault(i - 2) = Healthy \/ Ranked(ComponentFault(i - 2))
    BY <2>2 DEF ComponentFault, Fault, Ranked, Severity
  <2> QED BY <1>1, <2>3 DEF Candidate
<1>2. CASE ~(i > 2)
  BY <1>2 DEF Candidate, Fault, Ranked, Severity
<1> QED BY <1>1, <1>2

\* NamesTheWorst of the first n candidates.
Found(n) == {i \in 1 .. n : Candidate(i) # Healthy}
NamesTheWorstOf(fault, n) ==
  IF Found(n) = {} THEN fault = Healthy
  ELSE \E i \in Found(n) :
         /\ fault = Candidate(i)
         /\ \A j \in Found(n) : /\ ~Outranks(Candidate(j), fault)
                                /\ j < i => Outranks(fault, Candidate(j))

\* One more candidate is weighed against the worst of those before it.
LEMMA WorseNamesTheWorst ==
  ASSUME EvidenceTypes, NEW n \in 1 .. Last, NEW best, NamesTheWorstOf(best, n - 1)
  PROVE  NamesTheWorstOf(Worse(best, Candidate(n)), n)
<1>0. /\ n \in Nat /\ n >= 1 /\ \A j \in 1 .. n : j \in 1 .. n - 1 \/ j = n
      /\ 1 .. n - 1 \subseteq 1 .. n /\ 1 .. n \subseteq 1 .. Last
  BY AlarmAssumption DEF Last
<1>r. \A j \in Found(n) : Ranked(Candidate(j))
  BY <1>0, CandidatesAreRanked DEF Found
<1>1. CASE Candidate(n) = Healthy
  <2>1. Found(n) = Found(n - 1)
    BY <1>0, <1>1 DEF Found
  <2> QED BY <1>1, <2>1 DEF NamesTheWorstOf, Worse
<1>2. CASE Candidate(n) # Healthy
  <2>1. Found(n) = Found(n - 1) \cup {n} /\ n \notin Found(n - 1)
        /\ \A j \in Found(n - 1) : j \in Nat /\ j < n
    BY <1>0, <1>2 DEF Found
  <2>2. CASE Found(n - 1) = {}
    <3>1. Worse(best, Candidate(n)) = Candidate(n) /\ Found(n) = {n}
      BY <1>2, <2>1, <2>2 DEF NamesTheWorstOf, Worse
    <3>2. ~Outranks(Candidate(n), Candidate(n)) /\ ~(n < n)
      BY <1>0, <1>r, <3>1, RankingIsAnOrder
    <3> QED BY <3>1, <3>2 DEF NamesTheWorstOf
  <2>3. CASE Found(n - 1) # {}
    <3>1. PICK i \in Found(n - 1) :
            /\ best = Candidate(i)
            /\ \A j \in Found(n - 1) : /\ ~Outranks(Candidate(j), best)
                                       /\ j < i => Outranks(best, Candidate(j))
      BY <2>3 DEF NamesTheWorstOf
    <3>2. best # Healthy /\ Ranked(best) /\ Ranked(Candidate(n)) /\ i < n /\ i \in Nat
      BY <1>r, <2>1, <3>1 DEF Found
    <3>3. CASE Outranks(Candidate(n), best)
      <4>1. Worse(best, Candidate(n)) = Candidate(n)
        BY <1>2, <3>3 DEF Worse
      <4>2. \A j \in Found(n - 1) : Outranks(Candidate(n), Candidate(j))
        BY <1>r, <2>1, <3>1, <3>2, <3>3, RankingIsAnOrder
      <4>3. \A j \in Found(n) : ~Outranks(Candidate(j), Candidate(n))
        BY <1>r, <2>1, <4>2, RankingIsAnOrder
      <4>4. ~(n < n)
        BY <1>0
      <4> QED BY <2>1, <4>1, <4>2, <4>3, <4>4 DEF NamesTheWorstOf
    <3>4. CASE ~Outranks(Candidate(n), best)
      <4>1. Worse(best, Candidate(n)) = best
        BY <1>2, <3>2, <3>4 DEF Worse
      <4>2. ~(n < i)
        BY <1>0, <3>2
      <4> QED BY <2>1, <3>1, <3>4, <4>1, <4>2 DEF NamesTheWorstOf
    <3> QED BY <3>3, <3>4
  <2> QED BY <2>2, <2>3
<1> QED BY <1>1, <1>2

\* So the fold names the worst of all.
LEMMA AssessedIsTheWorst == ASSUME EvidenceTypes PROVE NamesTheWorst
<1>1. PICK worst : IsFold(worst, Last) /\ Assessed = worst[Last]
  BY AssessedIsFold
<1>0. Last \in Nat
  BY AlarmAssumption DEF Last
<1> DEFINE Wrong == {k \in 0 .. Last : ~NamesTheWorstOf(worst[k], k)}
<1>2. Wrong = {}
  <2> SUFFICES ASSUME Wrong # {} PROVE FALSE
    OBVIOUS
  <2>0. Wrong \in SUBSET Nat
    BY <1>0
  <2>1. PICK m \in Wrong : \A k \in Wrong : m =< k
    <3> HIDE DEF Wrong
    <3> QED BY <2>0, LeastOf
  <2>2. CASE m = 0
    <3>1. worst[0] = Healthy
      BY <1>0, <1>1 DEF IsFold
    <3>2. Found(0) = {}
      BY DEF Found
    <3> QED BY <2>1, <2>2, <3>1, <3>2 DEF NamesTheWorstOf
  <2>3. CASE m # 0
    <3>1. m \in 1 .. Last /\ m - 1 \in 0 .. Last /\ ~(m =< m - 1) /\ m \in 0 .. Last
      BY <1>0, <2>1, <2>3
    <3>2. NamesTheWorstOf(worst[m - 1], m - 1)
      BY <2>1, <3>1
    <3>3. worst[m] = Worse(worst[m - 1], Candidate(m))
      BY <1>1, <2>3, <3>1 DEF IsFold
    <3>4. NamesTheWorstOf(worst[m], m)
      BY <3>1, <3>2, <3>3, WorseNamesTheWorst
    <3> QED BY <2>1, <3>4
  <2> QED BY <2>2, <2>3
<1>3. NamesTheWorstOf(worst[Last], Last)
  BY <1>0, <1>2
<1> QED
  BY <1>1, <1>3 DEF NamesTheWorst, NamesTheWorstOf, Found

\* The latest deadline is a number, so ages beyond it are numbers too.
LEMMA AgesStayNumbers ==
  ASSUME EvidenceTypes, NEW c \in Components
  PROVE  Older({observed[d].age : d \in Components}, observed[c].age) \in Nat
<1> DEFINE Limits == {Deadline[d] : d \in Components} \cup {0}
           Ages == {observed[d].age : d \in Components}
<1>1. Limits \subseteq Nat /\ Registered \in Nat
  BY HealthAssumption, AlarmAssumption
<1>2. \E n \in Limits : \A d \in Components : Deadline[d] <= n
  <2> DEFINE Bad == {k \in 0 .. Registered : ~ \E n \in Limits : \A d \in 1 .. k : Deadline[d] <= n}
  <2> SUFFICES ASSUME Bad # {} PROVE FALSE
    BY <1>1 DEF Components
  <2> HIDE DEF Limits
  <2>0. Bad \in SUBSET Nat
    BY <1>1
  <2>1. PICK m \in Bad : \A k \in Bad : m =< k
    <3> HIDE DEF Bad
    <3> QED BY <2>0, LeastOf
  <2>2. m # 0
    <3>1. 0 \in Limits
      BY DEF Limits
    <3> QED BY <3>1
  <2>3. m - 1 \in 0 .. Registered /\ m - 1 \notin Bad /\ m \in Components /\ m \in Nat
    BY <1>1, <2>1, <2>2 DEF Components
  <2>4. PICK n \in Limits : \A d \in 1 .. m - 1 : Deadline[d] <= n
    BY <2>3
  <2>5. Deadline[m] \in Limits
    BY <2>3 DEF Limits
  <2>6. \A d \in 1 .. m : d \in 1 .. m - 1 \/ d = m
    BY <2>3
  <2>7. Deadline[m] \in Nat /\ n \in Nat
    BY <1>1, <2>4, <2>5
  <2>8. CASE Deadline[m] <= n
    BY <2>1, <2>4, <2>6, <2>8
  <2>9. CASE n <= Deadline[m]
    <3>1. \A d \in 1 .. m : Deadline[d] <= Deadline[m]
      <4> SUFFICES ASSUME NEW d \in 1 .. m - 1 PROVE Deadline[d] <= Deadline[m]
        BY <2>6, <2>7
      <4>1. d \in Components /\ Deadline[d] \in Nat
        BY <1>1, <2>3, HealthAssumption DEF Components
      <4> QED BY <2>4, <2>7, <2>9, <4>1
    <3> QED BY <2>1, <2>5, <3>1
  <2> QED BY <2>7, <2>8, <2>9
<1>3. Late \in Limits
  BY <1>2 DEF Late
<1>4. Late \in Nat
  BY <1>1, <1>3
<1>5. IsFiniteSet(Ages)
  <2> DEFINE age == [d \in Components |-> observed[d].age]
  <2>1. age \in Surjection(Components, Ages)
    BY DEF Surjection
  <2>2. IsFiniteSet(Components)
    BY <1>1, FS_Interval DEF Components
  <2> HIDE DEF age, Ages
  <2> QED BY <2>1, <2>2, FS_Surjection
<1>6. \A age : Cardinality({other \in Ages : Late <= other /\ other < age}) \in Nat
  <2> HIDE DEF Ages
  <2> QED BY <1>5, FS_Subset, FS_CardinalityType
<1>7. observed[c].age \in Nat
  BY DEF EvidenceTypes
<1> HIDE DEF Ages, Limits
<1>8. Older(Ages, observed[c].age) \in Nat
  BY <1>4, <1>6, <1>7 DEF Older
<1> QED BY <1>8 DEF Ages

\* Whatever the components do and however long the board runs, the verdict names
\* the worst fault there is, ties broken as the code's doc says, for any number of
\* components and any deadlines.
THEOREM VerdictNamesTheWorst == Spec => []NamesTheWorst
<1>1. Init => EvidenceTypes
  BY DEF Init, EvidenceTypes
<1>2. EvidenceTypes /\ [Next]_healthVars => EvidenceTypes'
  <2> SUFFICES ASSUME EvidenceTypes, [Next]_healthVars PROVE EvidenceTypes'
    OBVIOUS
  <2>1. ASSUME NEW c \in Components, NEW what \in {"beat", "gave_up"}, Does(c, what)
        PROVE  EvidenceTypes'
    BY <2>1 DEF Does, EvidenceTypes
  <2>2. CASE TimePasses
    <3> DEFINE age(c) == Older({observed[d].age : d \in Components}, observed[c].age)
    <3>1. \A c \in Components : age(c) \in Nat
      BY AgesStayNumbers
    <3>2. observed' = [c \in Components |-> [observed[c] EXCEPT !.age = age(c)]]
      BY <2>2 DEF TimePasses
    <3> HIDE DEF age
    <3> QED BY <3>1, <3>2 DEF EvidenceTypes
  <2>3. CASE UNCHANGED observed
    BY <2>3 DEF EvidenceTypes
  <2> QED
    BY <2>1, <2>2, <2>3
    DEF Next, Beats, GivesUp, ReadsHeap, Assess, Press, evidence, healthVars
<1> QED
  BY <1>1, <1>2, AssessedIsTheWorst, PTL DEF Spec
===============================================================================

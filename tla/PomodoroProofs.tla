--------------------------- MODULE PomodoroProofs ---------------------------
(***************************************************************************)
(* Theorems about the pomodoro stick for every timing and every duration.   *)
(*                                                                         *)
(* The inductive invariant is the conjunction of the types, the accounting   *)
(* of presses (one equation over the recognizer), the shape of a cycle's    *)
(* event list, and the bound on what the rest of a cycle may still wait.     *)
(***************************************************************************)
EXTENDS Pomodoro, TLAPS, SequenceTheorems

-----------------------------------------------------------------------------
(* The recognizer.                                                         *)

LEMMA OlderType == \A cap \in Nat : \A age \in 0 .. cap : Older(age, cap) \in 0 .. cap
  BY SMT DEF Older

LEMMA NewRecognizerType == NewRecognizer \in Recognizer
  BY TimingAssumption, SMT DEF NewRecognizer, Recognizer

LEMMA AgedType == ASSUME NEW r \in Recognizer PROVE Aged(r) \in Recognizer
<1>1. Older(r.steady, DebounceMs) \in 0 .. DebounceMs
  BY OlderType, TimingAssumption DEF Recognizer
<1>2. (IF r.held = None THEN None ELSE Older(r.held, HoldMs)) \in (0 .. HoldMs) \cup {None}
  BY OlderType, TimingAssumption DEF Recognizer
<1>3. (IF r.pending = None THEN None ELSE Older(r.pending, DoubleClickMs))
        \in (0 .. DoubleClickMs) \cup {None}
  BY OlderType, TimingAssumption DEF Recognizer
<1>4. QED BY <1>1, <1>2, <1>3, Zenon DEF Aged, Recognizer

LEMMA SampledType ==
  ASSUME NEW r \in Recognizer, NEW pressed \in BOOLEAN
  PROVE  Sampled(r, pressed) \in Recognizer
<1>1. 0 \in 0 .. DebounceMs
  BY TimingAssumption
<1>2. QED BY <1>1, Zenon DEF Sampled, Recognizer

LEMMA DebouncedType == ASSUME NEW r \in Recognizer PROVE Debounced(r) \in Recognizer
<1>1. (IF r.candidate THEN 0 ELSE None) \in (0 .. HoldMs) \cup {None}
  BY TimingAssumption
<1>2. Accepted(r) \in Recognizer
  BY <1>1, Zenon DEF Accepted, Recognizer
<1>3. [r EXCEPT !.holdFired = TRUE] \in Recognizer
  BY DEF Recognizer
<1>4. QED BY <1>2, <1>3 DEF Debounced

LEMMA SettledType == ASSUME NEW r PROVE Settled(r) \in {Click, LongHold, None}
  BY DEF Settled

LEMMA GesturesDiffer == Click # LongHold /\ Click # DoubleClick /\ DoubleClick # LongHold
                        /\ None \notin {Click, DoubleClick, LongHold}
  BY NoneIsNoGesture DEF Click, DoubleClick, LongHold, Gesture

LEMMA RecognizedType ==
  ASSUME NEW r \in Recognizer, NEW pressed \in BOOLEAN
  PROVE  /\ Recognized(r, pressed).state \in Recognizer
         /\ Recognized(r, pressed).gesture \in Gesture \cup {None}
<1> DEFINE sampled == Sampled(r, pressed)
           gesture == Settled(sampled)
<1>1. Debounced(sampled) \in Recognizer
  BY SampledType, DebouncedType
<1>2. StillPending(r, gesture) \in (0 .. DoubleClickMs) \cup {None}
  BY TimingAssumption, SMT DEF StillPending, Recognizer
<1>3. [Debounced(sampled) EXCEPT !.pending = StillPending(r, gesture)] \in Recognizer
  <2> HIDE DEF sampled, gesture
  <2> QED BY <1>1, <1>2 DEF Recognizer
<1>4. Reported(r, gesture) \in Gesture \cup {None}
  BY SettledType DEF Reported, Gesture
<1>5. QED BY <1>3, <1>4 DEF Recognized

-----------------------------------------------------------------------------
(* The accounting of presses.                                              *)

\* A pending click and a press still down that no hold has reported.
Unanswered(r) == (IF r.pending = None THEN 0 ELSE 1)
                 + (IF r.debounced /\ ~r.holdFired THEN 1 ELSE 0)

\* The debounce remembers when a press was accepted exactly while it lasts.
HeldIsDown(r) == r.held # None <=> r.debounced

\* What a poll accepts and what it answers is what changes of the unanswered.
LEMMA PollBalances ==
  ASSUME NEW r \in Recognizer, NEW pressed \in BOOLEAN, HeldIsDown(r)
  PROVE  LET poll == Recognized(r, pressed)
         IN /\ HeldIsDown(poll.state)
            /\ Unanswered(poll.state)
                 = Unanswered(r) + NewPress(r, poll.state) - Answers(poll.gesture, r)
<1> DEFINE s == Sampled(r, pressed)
           d == Debounced(s)
           g == Settled(s)
           poll == Recognized(r, pressed)
<1> SUFFICES /\ HeldIsDown(poll.state)
             /\ Unanswered(poll.state)
                  = Unanswered(r) + NewPress(r, poll.state) - Answers(poll.gesture, r)
  OBVIOUS
<1>a. s \in Recognizer /\ d \in Recognizer
  BY SampledType, DebouncedType
<1>b. /\ s.debounced = r.debounced /\ s.holdFired = r.holdFired
      /\ s.held = r.held /\ s.pending = r.pending
  BY Zenon DEF Sampled, Recognizer
<1>1. /\ s \in Recognizer /\ d \in Recognizer
      /\ s.debounced = r.debounced /\ s.holdFired = r.holdFired
      /\ s.held = r.held /\ s.pending = r.pending
  BY <1>a, <1>b
<1>2. /\ poll.gesture = Reported(r, g)
      /\ poll.state = [d EXCEPT !.pending = StillPending(r, g)]
  BY DEF Recognized
<1>3. /\ poll.state.debounced = d.debounced /\ poll.state.holdFired = d.holdFired
      /\ poll.state.held = d.held /\ poll.state.pending = StillPending(r, g)
  BY <1>1, <1>2 DEF Recognizer
<1>4. CASE Settles(s)
  <2>1. /\ d.debounced = s.candidate /\ ~d.holdFired /\ s.candidate = ~r.debounced
        /\ d.held = IF s.candidate THEN 0 ELSE None
    BY <1>1, <1>4 DEF Debounced, Accepted, Settles, Recognizer
  <2>2. g = IF s.candidate \/ r.holdFired THEN None ELSE Click
    BY <1>1, <1>4 DEF Settled
  <2>3. HeldIsDown(poll.state)
    BY <1>3, <2>1, NoneIsNoAge DEF HeldIsDown
  <2>4. /\ poll.gesture = Reported(r, g) /\ poll.state.pending = StillPending(r, g)
        /\ poll.state.debounced = ~r.debounced /\ ~poll.state.holdFired
        /\ g = IF ~r.debounced \/ r.holdFired THEN None ELSE Click
        /\ r.debounced \in BOOLEAN /\ r.holdFired \in BOOLEAN
    BY <1>1, <1>2, <1>3, <2>1, <2>2 DEF Recognizer
  <2> HIDE DEF g, poll
  <2>5. CASE ~r.debounced
    BY <2>3, <2>4, <2>5, GesturesDiffer, NoneIsNoAge
    DEF Unanswered, NewPress, Answers, Reported, StillPending, WindowElapsed
  <2>6. CASE r.debounced /\ r.holdFired
    <3>1. g = None /\ NewPress(r, poll.state) = 0
      BY <2>4, <2>6 DEF NewPress
    <3>5. /\ Unanswered(r) = IF r.pending = None THEN 0 ELSE 1
          /\ Unanswered(poll.state) = IF poll.state.pending = None THEN 0 ELSE 1
      <4>1. /\ (IF r.debounced /\ ~r.holdFired THEN 1 ELSE 0) = 0
            /\ (IF poll.state.debounced /\ ~poll.state.holdFired THEN 1 ELSE 0) = 0
        BY <2>4, <2>6, Zenon
      <4>2. QED BY <4>1 DEF Unanswered
    <3>2. CASE WindowElapsed(r)
      <4>1. poll.gesture = Click /\ poll.state.pending = None /\ r.pending # None
        BY <2>4, <3>1, <3>2, GesturesDiffer DEF Reported, StillPending, WindowElapsed
      <4>2. QED
        BY <2>3, <3>1, <3>5, <4>1, GesturesDiffer DEF Answers
    <3>3. CASE ~WindowElapsed(r)
      <4>1. poll.gesture = None /\ poll.state.pending = r.pending
        BY <2>4, <3>1, <3>3, GesturesDiffer DEF Reported, StillPending
      <4>2. QED
        BY <2>3, <3>1, <3>5, <4>1, GesturesDiffer DEF Answers
    <3>4. QED BY <3>2, <3>3
  <2>7. CASE r.debounced /\ ~r.holdFired
    <3>1. g = Click /\ NewPress(r, poll.state) = 0
      BY <2>4, <2>7 DEF NewPress
    <3>2. CASE r.pending = None
      BY <2>3, <2>4, <2>7, <3>1, <3>2, GesturesDiffer, NoneIsNoAge
      DEF Unanswered, Answers, Reported, StillPending
    <3>3. CASE r.pending # None
      <4>1. poll.gesture = DoubleClick /\ poll.state.pending = None
        BY <2>4, <3>1, <3>3, GesturesDiffer DEF Reported, StillPending
      <4>2. QED
        BY <2>3, <2>4, <2>7, <3>1, <3>3, <4>1, GesturesDiffer DEF Unanswered, Answers
    <3>4. QED BY <3>2, <3>3
  <2>8. QED BY <2>4, <2>5, <2>6, <2>7
<1>5. CASE ~Settles(s) /\ HoldFires(s)
  <2>1. d.debounced = r.debounced /\ d.holdFired /\ d.held = r.held /\ ~r.holdFired /\ r.debounced
    BY <1>1, <1>5 DEF Debounced, HoldFires, Recognizer, HeldIsDown
  <2>2. g = LongHold
    BY <1>5 DEF Settled
  <2>3. HeldIsDown(poll.state)
    BY <1>3, <2>1 DEF HeldIsDown
  <2>4. QED
    BY <1>2, <1>3, <2>1, <2>2, <2>3, GesturesDiffer, NoneIsNoAge, SMT
    DEF Unanswered, NewPress, Answers, Reported, StillPending, WindowElapsed, Recognizer
<1>6. CASE ~Settles(s) /\ ~HoldFires(s)
  <2>1. d.debounced = r.debounced /\ d.holdFired = r.holdFired /\ d.held = r.held
    BY <1>1, <1>6 DEF Debounced
  <2>2. g = None
    BY <1>6 DEF Settled
  <2>3. HeldIsDown(poll.state)
    BY <1>3, <2>1 DEF HeldIsDown
  <2>4. QED
    BY <1>2, <1>3, <2>1, <2>2, <2>3, GesturesDiffer, NoneIsNoAge, SMT
    DEF Unanswered, NewPress, Answers, Reported, StillPending, WindowElapsed, Recognizer
<1>7. QED BY <1>4, <1>5, <1>6

LEMMA AgeingKeepsThePresses ==
  ASSUME NEW r \in Recognizer
  PROVE  /\ HeldIsDown(r) => HeldIsDown(Aged(r))
         /\ Unanswered(Aged(r)) = Unanswered(r)
<1>1. /\ Aged(r).debounced = r.debounced /\ Aged(r).holdFired = r.holdFired
      /\ Aged(r).held = None <=> r.held = None
      /\ Aged(r).pending = None <=> r.pending = None
  BY NoneIsNoAge, TimingAssumption, OlderType DEF Aged, Recognizer
<1>2. QED BY <1>1 DEF HeldIsDown, Unanswered

-----------------------------------------------------------------------------
(* The timer's types and the buzzer's queue.                               *)

LEMMA DurationType == ASSUME NEW phase \in Phase PROVE Duration(phase) \in Nat \ {0}
  BY DurationAssumption DEF Duration, Phase

LEMMA LagMaxType == LagMax \in Nat /\ LagMax =< SpanCap
  BY MelodyAssumption, SpanAssumption, DurationAssumption DEF LagMax

LEMMA ElapsedType ==
  ASSUME NEW t \in Timer, NEW age \in Nat
  PROVE  /\ Elapsed(t, age) \in Nat
         /\ Elapsed(t, age) =< Duration(t.phase)
         /\ Elapsed(t, age) = IF t.accrued + LiveSpan(t, age) < Duration(t.phase)
                              THEN t.accrued + LiveSpan(t, age) ELSE Duration(t.phase)
<1>1. t.accrued \in Nat /\ t.span \in Nat /\ t.phase \in Phase
  BY DurationAssumption DEF Timer
<1>2. LiveSpan(t, age) \in Nat
  BY <1>1 DEF LiveSpan
<1>3. QED BY <1>1, <1>2, DurationType DEF Elapsed, Capped

LEMMA NewTimerType == NewTimer \in Timer
  BY DurationAssumption DEF NewTimer, Timer, Phase, Status, FocusCount

LEMMA CountFocusType == ASSUME NEW done \in FocusCount PROVE CountFocus(done) \in FocusCount
<1>1. CASE LongBreakEvery = 0
  BY <1>1 DEF CountFocus, FocusCount
<1>2. CASE LongBreakEvery # 0
  <2>1. done % LongBreakEvery \in 0 .. (LongBreakEvery - 1)
    BY <1>2, DurationAssumption DEF FocusCount
  <2>2. QED BY <1>2, <2>1, DurationAssumption DEF CountFocus, FocusCount
<1>3. QED BY <1>1, <1>2

LEMMA TimerAgedType == ASSUME NEW t \in Timer PROVE TimerAged(t) \in Timer
<1>1. CASE t.status = "running" /\ t.span < SpanCap
  <2>1. t.span + 1 \in 0 .. SpanCap
    BY <1>1, DurationAssumption DEF Timer
  <2>2. QED BY <1>1, <2>1, Zenon DEF TimerAged, Timer
<1>2. QED BY <1>1 DEF TimerAged

LEMMA ParkedType ==
  ASSUME NEW t \in Timer, NEW status \in Status, NEW banked \in Nat
  PROVE  Parked(t, status, banked) \in Timer
<1>1. 0 \in 0 .. SpanCap
  BY DurationAssumption
<1>2. QED BY <1>1, Zenon DEF Parked, Timer

LEMMA StepType ==
  ASSUME NEW t \in Timer, NEW event \in Event, NEW age \in Nat, age =< LagMax
  PROVE  Step(t, event, age) \in Timer
<1>1. age \in 0 .. SpanCap /\ 0 \in 0 .. SpanCap /\ 0 \in Nat
  BY LagMaxType, DurationAssumption
<1>2. {"idle", "running", "paused", "finished"} = Status
  BY DEF Status
<1>3. \A u \in Timer : Running(u, age) \in Timer
  BY <1>1, <1>2, Zenon DEF Running, Timer
<1>4. NextPhase(t) \in Phase
  BY DEF NextPhase, Phase
<1>5. \A status \in Status : Advance(t, age, status) \in Timer
  BY <1>1, <1>4, Zenon DEF Advance, Timer
<1>6. OnStartPause(t, age) \in Timer
  <2>1. [t EXCEPT !.accrued = 0] \in Timer
    BY <1>1, Zenon DEF Timer
  <2>2. Parked(t, "paused", Elapsed(t, age)) \in Timer
    BY ParkedType, ElapsedType, <1>2
  <2>3. QED BY <1>2, <1>3, <1>5, <2>1, <2>2 DEF OnStartPause
<1>7. OnReset(t) \in Timer
  BY <1>1, <1>2, ParkedType DEF OnReset
<1>8. OnSkip(t, age) \in Timer
  BY <1>2, <1>5 DEF OnSkip
<1>9. OnTick(t, age) \in Timer
  <2> DEFINE banked == Parked(t, "finished", Elapsed(t, age))
             count  == IF t.phase = Focus THEN CountFocus(banked.completed) ELSE banked.completed
  <2>1. banked \in Timer
    BY ParkedType, ElapsedType, <1>2
  <2>2. banked.phase = t.phase
    BY Zenon DEF Parked, Timer
  <2>3. count \in FocusCount
    BY <2>1, CountFocusType DEF Timer
  <2>4. [banked EXCEPT !.completed = count] \in Timer
    <3> HIDE DEF banked, count
    <3> QED BY <2>1, <2>3, Zenon DEF Timer
  <2>5. QED BY <2>1, <2>4 DEF OnTick
<1>10. QED BY <1>6, <1>7, <1>8, <1>9, NewTimerType DEF Step

-----------------------------------------------------------------------------
(* The inductive invariant.                                                *)

Shapes ==
  /\ level \in BOOLEAN
  /\ front \in Recognizer
  /\ timer \in Timer
  /\ todo \in Seq(Event) /\ Len(todo) =< 3
  /\ lag \in Nat
  /\ polled \in BOOLEAN
  /\ watch \in PowerWatch
  /\ watched \in BOOLEAN
  /\ up \in (0 .. DebounceMs) \cup {None}
  /\ up = None <=> level
  /\ ended \in BOOLEAN
  /\ deaf \in BOOLEAN

\* No thread has two melodies with the buzzer's owner.
Queue(q) ==
  /\ q \in Seq(Melody)
  /\ \A i, j \in DOMAIN q : q[i].who = q[j].who => i = j

\* How long the input thread still waits for its melody.
Wait(q) ==
  IF Len(q) >= 1 /\ q[1].who = "input" THEN q[1].left
  ELSE IF Len(q) >= 2 /\ q[2].who = "input" THEN q[1].left + q[2].left
  ELSE 0

\* What the events already handled may have cost.
Spent == IF Len(todo) = 3 THEN 0 ELSE IF Len(todo) = 2 THEN JingleMs + ChimeMs ELSE LagMax
InBudget == /\ lag =< LagMax
            /\ todo # <<>> => lag + Wait(melodies) =< Spent

\* Only a cycle's first event starts or pauses, before anything has sounded.
StartsFirst ==
  \A i \in DOMAIN todo : todo[i] = StartPause => i = 1 /\ lag = 0 /\ Wait(melodies) = 0

IdleIsFresh == timer.status = "idle" => timer.accrued = 0

Balanced == HeldIsDown(front) /\ owed = Unanswered(front)

Inv == Shapes /\ Queue(melodies) /\ InBudget /\ StartsFirst /\ IdleIsFresh /\ Balanced

-----------------------------------------------------------------------------
(* The buzzer's queue.                                                     *)

LEMMA MelodyType ==
  ASSUME NEW m \in Melody
  PROVE  /\ m.who \in Threads
         /\ m.left \in 1 .. Lasts(m.who)
         /\ Lasts(m.who) \in Nat
  BY MelodyAssumption DEF Melody, Threads, Lasts

LEMMA QueueFacts ==
  ASSUME NEW q, Queue(q)
  PROVE  /\ Len(q) \in 0 .. 2
         /\ \A i \in 1 .. Len(q) : q[i] \in Melody
         /\ Wait(q) \in Nat
         /\ Wait(q) = 0 <=> ~\E i \in DOMAIN q : q[i].who = "input"
<1>1. Len(q) \in Nat /\ DOMAIN q = 1 .. Len(q) /\ \A i \in 1 .. Len(q) : q[i] \in Melody
  BY DEF Queue
<1>2. Len(q) =< 2
  <2> SUFFICES ASSUME Len(q) >= 3 PROVE FALSE
    BY <1>1
  <2>1. 1 \in DOMAIN q /\ 2 \in DOMAIN q /\ 3 \in DOMAIN q
    BY <1>1
  <2>2. q[1].who \in Threads /\ q[2].who \in Threads /\ q[3].who \in Threads
    BY <1>1, <2>1, MelodyType
  <2>3. QED BY <2>1, <2>2 DEF Queue, Threads
<1>3. \A i \in 1 .. Len(q) : q[i].left \in Nat \ {0}
  <2> TAKE i \in 1 .. Len(q)
  <2>1. q[i].left \in 1 .. Lasts(q[i].who) /\ Lasts(q[i].who) \in Nat
    BY <1>1, MelodyType
  <2>2. QED BY <2>1
<1>4. QED BY <1>1, <1>2, <1>3 DEF Wait

LEMMA SubmittedQueue ==
  ASSUME NEW q, Queue(q), NEW who \in Threads, \A i \in DOMAIN q : q[i].who # who
  PROVE  Queue(Submitted(q, who))
<1>1. [who |-> who, left |-> Lasts(who)] \in Melody
  BY MelodyAssumption DEF Melody, Threads, Lasts
<1>2. Len(q) \in Nat /\ DOMAIN q = 1 .. Len(q)
  BY DEF Queue
<1> DEFINE m == [who |-> who, left |-> Lasts(who)]
<1>3. m.who = who
  OBVIOUS
<1> HIDE DEF m
<1>4. Append(q, m) \in Seq(Melody)
  BY <1>1 DEF Queue, m
<1>5. /\ DOMAIN Append(q, m) = 1 .. (Len(q) + 1)
      /\ Append(q, m)[Len(q) + 1] = m
      /\ \A i \in 1 .. Len(q) : Append(q, m)[i] = q[i]
  BY <1>1, <1>2 DEF Queue, m
<1>6. \A i, j \in DOMAIN Append(q, m) : Append(q, m)[i].who = Append(q, m)[j].who => i = j
  <2> TAKE i, j \in DOMAIN Append(q, m)
  <2> HAVE Append(q, m)[i].who = Append(q, m)[j].who
  <2>1. CASE i \in DOMAIN q /\ j \in DOMAIN q
    BY <2>1, <1>2, <1>5 DEF Queue
  <2>2. CASE i \in DOMAIN q /\ j \notin DOMAIN q
    BY <2>2, <1>2, <1>3, <1>5
  <2>3. CASE i \notin DOMAIN q /\ j \in DOMAIN q
    BY <2>3, <1>2, <1>3, <1>5
  <2>4. QED BY <2>1, <2>2, <2>3, <1>2, <1>5
<1>7. QED BY <1>4, <1>6 DEF Queue, Submitted, m

\* A jingle waits for itself and for at most the one chime before it.
LEMMA SubmittedWait ==
  ASSUME NEW q, Queue(q), \A i \in DOMAIN q : q[i].who # "input"
  PROVE  /\ Wait(Submitted(q, "input")) =< JingleMs + ChimeMs
         /\ Wait(Submitted(q, "power_watch")) = 0
<1> DEFINE m(who) == [who |-> who, left |-> Lasts(who)]
<1>1. Len(q) \in Nat /\ DOMAIN q = 1 .. Len(q) /\ \A i \in 1 .. Len(q) : q[i] \in Melody
  BY DEF Queue
<1>2. Len(q) =< 1
  <2> SUFFICES ASSUME Len(q) >= 2 PROVE FALSE
    BY <1>1
  <2>1. 1 \in DOMAIN q /\ 2 \in DOMAIN q
    BY <1>1
  <2>2. q[1].who = "power_watch" /\ q[2].who = "power_watch"
    BY <1>1, <2>1, MelodyType DEF Threads
  <2>3. QED BY <2>1, <2>2 DEF Queue
<1>3. \A i \in 1 .. Len(q) : q[i].who = "power_watch" /\ q[i].left \in 1 .. ChimeMs
  BY <1>1, MelodyType DEF Threads, Lasts
<1>4. \A who \in Threads :
        /\ Len(Append(q, m(who))) = Len(q) + 1
        /\ Append(q, m(who))[Len(q) + 1] = m(who)
        /\ \A i \in 1 .. Len(q) : Append(q, m(who))[i] = q[i]
  BY <1>1 DEF Queue
<1>5. m("input").who = "input" /\ m("input").left = JingleMs /\ m("power_watch").who = "power_watch"
  BY DEF Lasts
<1> HIDE DEF m
<1>6. Wait(Append(q, m("input"))) =< JingleMs + ChimeMs
  BY <1>1, <1>2, <1>3, <1>4, <1>5, MelodyAssumption DEF Wait, Threads
<1>7. Wait(Append(q, m("power_watch"))) = 0
  BY <1>1, <1>2, <1>3, <1>4, <1>5 DEF Wait, Threads
<1>8. QED BY <1>6, <1>7 DEF Submitted, m

LEMMA SignalledQueue ==
  ASSUME NEW q, Queue(q), q # <<>>
  PROVE  /\ Queue(Signalled(q))
         /\ Wait(Signalled(q)) =< Wait(q)
         /\ Head(q).left = 1 /\ Wait(q) # 0 => Wait(Signalled(q)) + 1 =< Wait(q)
<1>1. /\ Len(q) \in 1 .. 2 /\ DOMAIN q = 1 .. Len(q)
      /\ \A i \in 1 .. Len(q) : q[i] \in Melody
  BY QueueFacts DEF Queue
<1>2. /\ Tail(q) \in Seq(Melody) /\ Len(Tail(q)) = Len(q) - 1
      /\ DOMAIN Tail(q) = 1 .. (Len(q) - 1)
      /\ \A i \in 1 .. (Len(q) - 1) : Tail(q)[i] = q[i + 1]
  BY <1>1 DEF Queue
<1>3. Queue(Tail(q))
  <2>1. \A i, j \in DOMAIN Tail(q) : Tail(q)[i].who = Tail(q)[j].who => i = j
    BY <1>1, <1>2
  <2>2. QED BY <1>2, <2>1 DEF Queue
<1>4. \A i \in 1 .. Len(q) : q[i].left \in Nat \ {0}
  <2> TAKE i \in 1 .. Len(q)
  <2>1. q[i].left \in 1 .. Lasts(q[i].who) /\ Lasts(q[i].who) \in Nat
    BY <1>1, MelodyType
  <2>2. QED BY <2>1
<1>5. Len(q) = 2 => q[1].who # q[2].who
  BY <1>1 DEF Queue
<1>6. QED BY <1>1, <1>2, <1>3, <1>4, <1>5 DEF Wait, Signalled

LEMMA SoundingQueue ==
  ASSUME NEW q, Queue(q)
  PROVE  /\ Queue(SoundsOn(q))
         /\ Wait(SoundsOn(q)) =< Wait(q)
         /\ Wait(q) # 0 => Wait(SoundsOn(q)) + 1 =< Wait(q)
<1>1. CASE q = <<>>
  BY <1>1 DEF SoundsOn, Wait
<1>2. CASE q # <<>> /\ Head(q).left = 1
  BY <1>2, SignalledQueue DEF SoundsOn
<1>3. CASE q # <<>> /\ Head(q).left # 1
  <2> DEFINE m == [q[1] EXCEPT !.left = @ - 1]
  <2>1. /\ Len(q) \in 1 .. 2 /\ DOMAIN q = 1 .. Len(q) /\ q \in Seq(Melody)
        /\ \A i \in 1 .. Len(q) : q[i] \in Melody
    BY <1>3, QueueFacts DEF Queue
  <2>2. q[1].left \in 1 .. Lasts(q[1].who) /\ q[1].left # 1 /\ q[1].who \in Threads
        /\ Lasts(q[1].who) \in Nat
    BY <1>3, <2>1, MelodyType
  <2>3. m \in Melody /\ m.who = q[1].who /\ m.left = q[1].left - 1
    BY <2>1, <2>2 DEF Melody
  <2>4. SoundsOn(q) = [q EXCEPT ![1] = m]
    BY <1>3, <2>1 DEF SoundsOn
  <2> HIDE DEF m
  <2>5. /\ SoundsOn(q) \in Seq(Melody) /\ Len(SoundsOn(q)) = Len(q)
        /\ SoundsOn(q)[1] = m /\ (Len(q) = 2 => SoundsOn(q)[2] = q[2])
        /\ DOMAIN SoundsOn(q) = 1 .. Len(q)
    BY <2>1, <2>3, <2>4
  <2>6. Queue(SoundsOn(q))
    BY <2>1, <2>3, <2>5 DEF Queue
  <2>7. \A i \in 1 .. Len(q) : q[i].left \in Nat \ {0}
    <3> TAKE i \in 1 .. Len(q)
    <3>1. q[i].left \in 1 .. Lasts(q[i].who) /\ Lasts(q[i].who) \in Nat
      BY <2>1, MelodyType
    <3>2. QED BY <3>1
  <2>8. QED BY <2>1, <2>2, <2>3, <2>5, <2>6, <2>7 DEF Wait
<1>4. QED BY <1>1, <1>2, <1>3

-----------------------------------------------------------------------------
(* Every action keeps the invariant.                                       *)

LEMMA WaitingIsWait == ASSUME Queue(melodies) PROVE Waiting("input") <=> Wait(melodies) # 0
  BY QueueFacts DEF Waiting

LEMMA EventsShape ==
  ASSUME NEW gesture \in Gesture \cup {None}, NEW sideClicked \in BOOLEAN
  PROVE  LET events == EventsOf(gesture, sideClicked)
         IN /\ events \in Seq(Event)
            /\ Len(events) \in 1 .. 3
            /\ \A i \in DOMAIN events : events[i] = StartPause => i = 1
<1> DEFINE a == IF gesture = None THEN <<>> ELSE <<CommandFor(gesture)>>
           b == IF sideClicked THEN <<Skip>> ELSE <<>>
           c == <<Tick>>
           events == a \o b \o c
<1>1. CommandFor(gesture) \in Event
  BY DEF CommandFor, Event
<1>2. Skip \in Event /\ Tick \in Event /\ Skip # StartPause /\ Tick # StartPause
  BY DEF Event, Skip, Tick, StartPause
<1>3. a \in Seq(Event) /\ Len(a) \in 0 .. 1 /\ Len(a) \in Nat /\ Len(a) =< 1
  BY <1>1
<1>4. b \in Seq(Event) /\ Len(b) \in 0 .. 1 /\ \A i \in 1 .. Len(b) : b[i] # StartPause
  BY <1>2
<1>5. c \in Seq(Event) /\ Len(c) = 1 /\ c[1] # StartPause
  BY <1>2
<1> HIDE DEF a, b, c
<1>6. /\ a \o b \in Seq(Event) /\ Len(a \o b) = Len(a) + Len(b)
      /\ \A i \in 1 .. Len(a) + Len(b) : (a \o b)[i] = IF i <= Len(a) THEN a[i] ELSE b[i - Len(a)]
  BY <1>3, <1>4, ConcatProperties
<1>7. /\ events \in Seq(Event) /\ Len(events) = Len(a) + Len(b) + 1
      /\ \A i \in 1 .. Len(a) + Len(b) + 1 :
           events[i] = IF i <= Len(a) + Len(b) THEN (a \o b)[i] ELSE c[i - (Len(a) + Len(b))]
  <2>1. a \o b \in Seq(Event) /\ Len(a \o b) = Len(a) + Len(b)
    BY <1>6
  <2> DEFINE ab == a \o b
  <2> HIDE DEF ab
  <2>2. /\ ab \o c \in Seq(Event) /\ Len(ab \o c) = Len(ab) + Len(c)
        /\ \A i \in 1 .. Len(ab) + Len(c) : (ab \o c)[i] = IF i <= Len(ab) THEN ab[i] ELSE c[i - Len(ab)]
    <3>1. ab \in Seq(Event)
      BY <2>1 DEF ab
    <3>2. QED BY <1>5, <3>1, ConcatProperties
  <2>3. Len(ab) = Len(a) + Len(b) /\ Len(c) = 1
    BY <1>5, <2>1 DEF ab
  <2>4. QED BY <2>2, <2>3 DEF ab
<1>8. DOMAIN events = 1 .. Len(events)
  BY <1>7, LenProperties
<1> HIDE DEF events
<1>9. \A i \in DOMAIN events : events[i] = StartPause => i = 1
  <2> TAKE i \in DOMAIN events
  <2> HAVE events[i] = StartPause
  <2>1. CASE i =< Len(a)
    <3>1. i \in Nat /\ i >= 1
      BY <1>3, <1>4, <1>7, <1>8
    <3>2. Len(a) \in Nat /\ Len(a) =< 1
      BY <1>3
    <3>3. QED BY <2>1, <3>1, <3>2
  <2>2. CASE i > Len(a) /\ i =< Len(a) + Len(b)
    BY <1>3, <1>4, <1>6, <1>7, <1>8, <2>2
  <2>3. CASE i > Len(a) + Len(b)
    <3>1. i = Len(a) + Len(b) + 1
      BY <1>3, <1>4, <1>7, <1>8, <2>3
    <3>2. events[i] = c[1]
      BY <1>3, <1>4, <1>7, <3>1
    <3>3. QED BY <1>5, <3>2
  <2>4. QED BY <1>3, <1>4, <1>7, <1>8, <2>1, <2>2, <2>3
<1>10. QED BY <1>3, <1>4, <1>7, <1>9 DEF EventsOf, events, a, b, c

LEMMA InitInv == Init => Inv
<1> SUFFICES ASSUME Init PROVE Inv
  OBVIOUS
<1>1. Shapes
  <2>1. watch \in PowerWatch
    BY MelodyAssumption DEF Init, PowerWatch
  <2>2. up \in 0 .. DebounceMs /\ up # None
    BY TimingAssumption, NoneIsNoAge DEF Init
  <2>3. up = None <=> level
    BY <2>2, Zenon DEF Init
  <2>4. front \in Recognizer /\ timer \in Timer
    BY NewRecognizerType, NewTimerType DEF Init
  <2>5. todo \in Seq(Event) /\ Len(todo) =< 3 /\ lag \in Nat
    BY DEF Init
  <2>6. QED BY <2>1, <2>2, <2>3, <2>4, <2>5, Zenon DEF Init, Shapes
<1>2. Queue(melodies) /\ Wait(melodies) = 0
  BY DEF Init, Queue, Wait
<1>3. InBudget /\ StartsFirst
  BY <1>2, LagMaxType DEF Init, InBudget, StartsFirst
<1>4. IdleIsFresh /\ Balanced
  BY DEF Init, IdleIsFresh, Balanced, HeldIsDown, Unanswered, NewTimer, NewRecognizer
<1>5. QED BY <1>1, <1>2, <1>3, <1>4 DEF Inv

LEMMA PollInv ==
  ASSUME Inv, NEW sideClicked \in BOOLEAN, Poll(sideClicked)
  PROVE  Inv'
<1> DEFINE poll == Recognized(front, level)
<1>1. /\ front \in Recognizer /\ level \in BOOLEAN /\ HeldIsDown(front) /\ owed = Unanswered(front)
  BY DEF Inv, Shapes, Balanced
<1>2. poll.state \in Recognizer /\ poll.gesture \in Gesture \cup {None}
  BY <1>1, RecognizedType
<1>3. /\ HeldIsDown(poll.state)
      /\ Unanswered(poll.state)
           = Unanswered(front) + NewPress(front, poll.state) - Answers(poll.gesture, front)
  BY <1>1, PollBalances
<1>4. /\ todo' = EventsOf(poll.gesture, sideClicked) /\ front' = poll.state /\ lag' = 0
      /\ polled' = TRUE
      /\ owed' = owed + NewPress(front, poll.state) - Answers(poll.gesture, front)
      /\ deaf' = (deaf /\ poll.state.debounced)
      /\ ended' = (ended /\ poll.state.debounced)
      /\ UNCHANGED <<level, timer, melodies, watch, watched, up>>
      /\ ~Waiting("input")
  BY DEF Poll, soundVars
<1> HIDE DEF poll
<1>5. /\ todo' \in Seq(Event) /\ Len(todo') \in 1 .. 3
      /\ \A i \in DOMAIN todo' : todo'[i] = StartPause => i = 1
  BY <1>2, <1>4, EventsShape
<1>6. Shapes'
  BY <1>2, <1>4, <1>5 DEF Inv, Shapes
<1>7. Queue(melodies)' /\ Wait(melodies)' = 0
  BY <1>4, WaitingIsWait DEF Inv
<1>8. InBudget'
  BY <1>4, <1>5, <1>7, LagMaxType, MelodyAssumption DEF InBudget, Spent
<1>9. StartsFirst'
  BY <1>4, <1>5, <1>7 DEF StartsFirst
<1>10. IdleIsFresh' /\ Balanced'
  BY <1>1, <1>3, <1>4 DEF Inv, IdleIsFresh, Balanced
<1>11. QED BY <1>6, <1>7, <1>8, <1>9, <1>10 DEF Inv

LEMMA HandleInv == ASSUME Inv, HandleEvent PROVE Inv'
<1>1. /\ timer \in Timer /\ todo \in Seq(Event) /\ Len(todo) \in 1 .. 3 /\ lag \in Nat /\ lag =< LagMax
      /\ todo # <<>> /\ Queue(melodies) /\ Wait(melodies) = 0 /\ lag =< Spent
  <2>1. todo # <<>> /\ ~Waiting("input")
    BY DEF HandleEvent
  <2>2. /\ timer \in Timer /\ todo \in Seq(Event) /\ Len(todo) =< 3 /\ lag \in Nat
        /\ lag =< LagMax /\ Queue(melodies)
        /\ todo # <<>> => lag + Wait(melodies) =< Spent
    BY DEF Inv, Shapes, InBudget
  <2>3. Wait(melodies) = 0
    BY <2>1, <2>2, WaitingIsWait
  <2>4. Len(todo) \in 1 .. 3
    <3>1. Len(todo) \in Nat /\ Len(todo) # 0
      BY <2>1, <2>2, EmptySeq
    <3>2. Len(todo) =< 3
      BY <2>2
    <3> DEFINE n == Len(todo)
    <3>3. n \in Nat /\ n # 0 /\ n =< 3
      BY <3>1, <3>2
    <3> HIDE DEF n
    <3>4. n \in 1 .. 3
      BY <3>3
    <3>5. QED BY <3>4 DEF n
  <2>5. QED BY <2>1, <2>2, <2>3, <2>4
<1>2. /\ Head(todo) \in Event /\ todo' \in Seq(Event) /\ Len(todo') = Len(todo) - 1
      /\ \A i \in DOMAIN todo' : todo'[i] = todo[i + 1] /\ i + 1 \in DOMAIN todo
  BY <1>1 DEF HandleEvent
<1>3. timer' \in Timer
  BY <1>1, <1>2, StepType DEF HandleEvent
<1>4. UNCHANGED <<level, front, lag, polled, watch, watched, up, ended, deaf, owed>>
  BY DEF HandleEvent, historyVars
<1>5. Shapes'
  BY <1>1, <1>2, <1>3, <1>4 DEF Inv, Shapes
<1>6. \A i \in DOMAIN melodies : melodies[i].who # "input"
  BY DEF HandleEvent, Waiting
<1>7. Queue(melodies') /\ Wait(melodies') =< JingleMs + ChimeMs /\ Wait(melodies') \in Nat
  <2>1. CASE melodies' = melodies
    BY <1>1, <2>1, MelodyAssumption
  <2>2. CASE melodies' = Submitted(melodies, "input")
    <3>1. Queue(melodies')
      BY <1>1, <1>6, <2>2, SubmittedQueue DEF Threads
    <3>2. QED BY <1>1, <1>6, <2>2, <3>1, SubmittedWait, QueueFacts
  <2>3. QED BY <2>1, <2>2 DEF HandleEvent
<1>8. InBudget'
  <2>1. todo' # <<>> => lag' + Wait(melodies') =< Spent'
    <3>1. CASE Len(todo) = 1
      BY <1>1, <1>2, <3>1
    <3>2. CASE Len(todo) = 2
      BY <1>1, <1>2, <1>4, <1>7, <3>2, MelodyAssumption DEF Spent, LagMax
    <3>3. CASE Len(todo) = 3
      BY <1>1, <1>2, <1>4, <1>7, <3>3, MelodyAssumption DEF Spent
    <3>4. QED BY <1>1, <3>1, <3>2, <3>3
  <2>2. QED BY <1>1, <1>4, <2>1, LagMaxType DEF InBudget
<1>9. StartsFirst'
  BY <1>1, <1>2 DEF Inv, StartsFirst
<1>10. IdleIsFresh'
  <2>1. timer.status \in Status /\ IdleIsFresh
    BY <1>1 DEF Timer, Inv
  <2>2. QED
    BY <1>1, <1>2, <2>1
    DEF HandleEvent, IdleIsFresh, Step, OnStartPause, OnReset, OnSkip, OnTick, Parked, Running,
        Advance, NewTimer, Timer, Event
<1>11. Balanced'
  BY <1>4 DEF Inv, Balanced
<1>12. QED BY <1>5, <1>7, <1>8, <1>9, <1>10, <1>11 DEF Inv

LEMMA WatchInv ==
  ASSUME Inv, NEW readFails \in BOOLEAN, NEW onUsb \in BOOLEAN, WatchPower(readFails, onUsb)
  PROVE  Inv'
<1> DEFINE sampled == PowerSampled(watch, onUsb)
<1>1. watch \in PowerWatch /\ Queue(melodies) /\ 0 \in 0 .. PowerDebounceMs
  BY MelodyAssumption DEF Inv, Shapes
<1>2. sampled \in PowerWatch
  BY <1>1, Zenon DEF PowerSampled, PowerWatch
<1>3. watch' \in PowerWatch
  <2>1. [sampled EXCEPT !.settled = sampled.candidate] \in PowerWatch
    <3> HIDE DEF sampled
    <3> QED BY <1>2 DEF PowerWatch
  <2>2. QED BY <1>1, <1>2, <2>1 DEF WatchPower
<1>4. UNCHANGED <<level, front, timer, todo, lag, polled, up, ended, deaf, owed>> /\ watched' = TRUE
  BY DEF WatchPower, inputVars, historyVars
<1>5. Shapes'
  BY <1>3, <1>4 DEF Inv, Shapes
<1>6. /\ melodies' = melodies \/ melodies' = Submitted(melodies, "power_watch")
      /\ \A i \in DOMAIN melodies : melodies[i].who # "power_watch"
  BY DEF WatchPower, Waiting
<1>7. Queue(melodies')
  BY <1>1, <1>6, SubmittedQueue DEF Threads
<1>8. Wait(melodies') = Wait(melodies)
  <2>1. CASE melodies' = melodies
    BY <2>1
  <2>2. CASE melodies' = Submitted(melodies, "power_watch") /\ Wait(melodies) = 0
    BY <1>1, <2>2, QueueFacts, SubmittedWait
  <2>3. CASE melodies' = Submitted(melodies, "power_watch") /\ Wait(melodies) # 0
    <3> DEFINE m == [who |-> "power_watch", left |-> Lasts("power_watch")]
    <3>1. Len(melodies) \in 1 .. 2 /\ DOMAIN melodies = 1 .. Len(melodies)
          /\ melodies \in Seq(Melody) /\ \A i \in 1 .. Len(melodies) : melodies[i] \in Melody
      BY <1>1, <2>3, QueueFacts DEF Wait, Queue
    <3>2. Len(melodies) = 1 /\ melodies[1].who = "input"
      <4>1. \A i \in 1 .. Len(melodies) : melodies[i].who = "input"
        BY <1>6, <3>1, MelodyType DEF Threads
      <4>2. QED BY <3>1, <4>1, <1>1 DEF Queue
    <3>3. Append(melodies, m)[1] = melodies[1] /\ Len(Append(melodies, m)) = 2
      <4>1. m \in Melody
        BY MelodyAssumption DEF Melody, Threads, Lasts
      <4> HIDE DEF m
      <4>2. melodies \in Seq(Melody) /\ Len(melodies) = 1
        BY <3>1, <3>2
      <4>3. Append(melodies, m)[1] = melodies[1] /\ Len(Append(melodies, m)) = Len(melodies) + 1
        BY <4>1, <4>2, AppendProperties
      <4>4. QED BY <4>2, <4>3
    <3> HIDE DEF m
    <3>4. Wait(Append(melodies, m)) = Wait(melodies)
      BY <3>2, <3>3 DEF Wait
    <3>5. QED BY <2>3, <3>4 DEF Submitted, m
  <2>4. QED BY <1>6, <2>1, <2>2, <2>3
<1>9. InBudget' /\ StartsFirst' /\ IdleIsFresh' /\ Balanced'
  BY <1>4, <1>8 DEF Inv, InBudget, Spent, StartsFirst, IdleIsFresh, Balanced
<1>10. QED BY <1>5, <1>7, <1>9 DEF Inv

LEMMA MelodyFailsInv == ASSUME Inv, MelodyFails PROVE Inv'
<1>1. UNCHANGED <<level, front, timer, todo, lag, polled, watch, watched, up, ended, deaf, owed>>
  BY DEF MelodyFails, inputVars, historyVars
<1>2. Queue(melodies') /\ Wait(melodies') =< Wait(melodies)
      /\ Wait(melodies) \in Nat /\ Wait(melodies') \in Nat
  <2>1. Queue(melodies') /\ Wait(melodies') =< Wait(melodies)
    BY SignalledQueue DEF MelodyFails, Inv
  <2>2. QED BY <2>1, QueueFacts DEF Inv
<1>3. Shapes'
  BY <1>1 DEF Inv, Shapes
<1>4. InBudget'
  BY <1>1, <1>2, LagMaxType, MelodyAssumption DEF Inv, Shapes, InBudget, Spent
<1>5. StartsFirst'
  BY <1>1, <1>2 DEF Inv, StartsFirst
<1>6. IdleIsFresh' /\ Balanced'
  BY <1>1 DEF Inv, IdleIsFresh, Balanced
<1>7. QED BY <1>2, <1>3, <1>4, <1>5, <1>6 DEF Inv

LEMMA TimePassesInv ==
  ASSUME Inv, NEW finger \in BOOLEAN, TimePasses(finger)
  PROVE  Inv'
<1>1. /\ front \in Recognizer /\ timer \in Timer /\ lag \in Nat /\ watch \in PowerWatch
      /\ Queue(melodies) /\ up \in (0 .. DebounceMs) \cup {None} /\ InBudget
  BY DEF Inv, Shapes
<1>2. /\ front' = Aged(front) /\ timer' = TimerAged(timer)
      /\ lag' = IF todo = <<>> THEN 0 ELSE lag + 1
      /\ melodies' = SoundsOn(melodies)
      /\ watch' = [watch EXCEPT !.steady = Older(@, PowerDebounceMs)]
      /\ level' = finger /\ watched' = FALSE
      /\ UNCHANGED <<todo, owed>>
      /\ todo # <<>> => Waiting("input")
  BY DEF TimePasses, InputIsDue
<1>3. Shapes'
  <2>1. front' \in Recognizer /\ timer' \in Timer
    BY <1>1, <1>2, AgedType, TimerAgedType
  <2>2. watch' \in PowerWatch
    <3>1. Older(watch.steady, PowerDebounceMs) \in 0 .. PowerDebounceMs
      BY <1>1, OlderType, MelodyAssumption DEF PowerWatch
    <3>2. QED BY <1>1, <1>2, <3>1, Zenon DEF PowerWatch
  <2>3. up' \in (0 .. DebounceMs) \cup {None} /\ (up' = None <=> level')
    <3>1. up' = IF finger THEN None ELSE IF level THEN 0 ELSE Older(up, DebounceMs)
      BY DEF TimePasses
    <3>2. ~level => Older(up, DebounceMs) \in 0 .. DebounceMs
      BY <1>1, OlderType, TimingAssumption DEF Inv, Shapes
    <3>3. 0 \in 0 .. DebounceMs /\ None \notin 0 .. DebounceMs
      BY TimingAssumption, NoneIsNoAge
    <3>4. QED BY <1>2, <3>1, <3>2, <3>3
  <2>4. polled' \in BOOLEAN /\ ended' \in BOOLEAN /\ deaf' \in BOOLEAN
    BY Zenon DEF TimePasses
  <2>5. todo' \in Seq(Event) /\ Len(todo') =< 3 /\ lag' \in Nat
    BY <1>1, <1>2 DEF Inv, Shapes
  <2>6. level' \in BOOLEAN /\ watched' \in BOOLEAN
    BY <1>2
  <2>7. QED BY <2>1, <2>2, <2>3, <2>4, <2>5, <2>6, Zenon DEF Shapes
<1>4. /\ Queue(melodies') /\ Wait(melodies') =< Wait(melodies)
      /\ Wait(melodies) # 0 => Wait(melodies') + 1 =< Wait(melodies)
      /\ Wait(melodies) \in Nat /\ Wait(melodies') \in Nat
  <2>1. /\ Queue(melodies') /\ Wait(melodies') =< Wait(melodies)
        /\ Wait(melodies) # 0 => Wait(melodies') + 1 =< Wait(melodies)
    BY <1>1, <1>2, SoundingQueue
  <2>2. QED BY <1>1, <2>1, QueueFacts
<1>5. todo # <<>> => Wait(melodies) # 0
  BY <1>1, <1>2, WaitingIsWait
<1>6. InBudget'
  <2>1. Spent =< LagMax /\ Spent \in Nat
    BY MelodyAssumption DEF Spent, LagMax
  <2>2. Spent' = Spent
    BY <1>2 DEF Spent
  <2>3. QED BY <1>1, <1>2, <1>4, <1>5, <2>1, <2>2, LagMaxType DEF InBudget
<1>7. StartsFirst'
  <2>1. \A i \in DOMAIN todo : todo[i] # StartPause
    <3>1. todo # <<>> => \A i \in DOMAIN todo : todo[i] # StartPause
      BY <1>5 DEF Inv, StartsFirst
    <3>2. QED BY <3>1
  <2>2. QED BY <1>2, <2>1 DEF StartsFirst
<1>8. IdleIsFresh'
  BY <1>1, <1>2 DEF Inv, IdleIsFresh, TimerAged, Timer
<1>9. Balanced'
  BY <1>1, <1>2, AgeingKeepsThePresses DEF Inv, Balanced
<1>10. QED BY <1>3, <1>4, <1>6, <1>7, <1>8, <1>9 DEF Inv

LEMMA StutterInv == ASSUME Inv, UNCHANGED pomodoroVars PROVE Inv'
<1>1. UNCHANGED <<level, front, timer, todo, lag, polled, melodies, watch, watched, up, ended, deaf,
                  owed>>
  BY DEF pomodoroVars, inputVars, soundVars, historyVars
<1>2. QED
  BY <1>1 DEF Inv, Shapes, Queue, InBudget, Spent, StartsFirst, IdleIsFresh, Balanced

LEMMA InvIsInductive == ASSUME Inv, [Next]_pomodoroVars PROVE Inv'
  BY PollInv, HandleInv, WatchInv, MelodyFailsInv, TimePassesInv, StutterInv DEF Next

LEMMA InvHolds == Spec => []Inv
<1>1. Inv /\ [Next]_pomodoroVars => Inv'
  BY InvIsInductive
<1>2. QED BY InitInv, <1>1, PTL DEF Spec

-----------------------------------------------------------------------------
(* What follows from the invariant.                                        *)

\* Every variable keeps its type for all timings, and the buzzer's channel
\* never holds two requests of one thread.
THEOREM PomodoroTypes == Spec => []TypeOK
<1>1. Inv => TypeOK
  <2> SUFFICES ASSUME Inv PROVE TypeOK
    OBVIOUS
  <2>1. owed \in 0 .. 2
    BY DEF Inv, Balanced, Unanswered
  <2>2. QED BY <2>1 DEF Inv, Shapes, Queue, TypeOK
<1>2. QED BY InvHolds, <1>1, PTL

\* However long the melodies keep the input thread from polling, an accepted
\* press is answered by exactly one gesture (debounce.rs, cadence.rs).
THEOREM PressesAreReportedOnce == Spec => []EveryPressIsReportedOnce
<1>1. Inv => EveryPressIsReportedOnce
  BY DEF Inv, Balanced, Unanswered, EveryPressIsReportedOnce
<1>2. QED BY InvHolds, <1>1, PTL

\* The instant a cycle hands to the timer is at most two jingles and two
\* chimes old, whatever the durations (input.rs, cycle).
THEOREM ClockReadingsAreFresh == Spec => []ClockReadingIsFresh
<1>1. Inv => ClockReadingIsFresh
  BY DEF Inv, InBudget, ClockReadingIsFresh
<1>2. QED BY InvHolds, <1>1, PTL

LEMMA RemainingFalls ==
  ASSUME NEW t \in Timer, NEW u \in Timer, u.phase = t.phase, Elapsed(t, 0) =< Elapsed(u, 0)
  PROVE  Remaining(u, 0) =< Remaining(t, 0)
<1>1. Duration(t.phase) \in Nat
  BY DurationType DEF Timer
<1>2. Elapsed(t, 0) \in Nat /\ Elapsed(u, 0) \in Nat
  BY ElapsedType
<1>3. QED BY <1>1, <1>2 DEF Remaining

LEMMA HandlingOnlyFalls ==
  ASSUME Inv, Inv', HandleEvent, ~BeginsAnew
  PROVE  Remaining(timer', 0) =< Remaining(timer, 0)
<1>1. /\ timer \in Timer /\ timer' \in Timer /\ lag \in Nat /\ IdleIsFresh
      /\ todo \in Seq(Event) /\ todo # <<>>
      /\ timer' = Step(timer, Head(todo), lag)
  BY DEF Inv, Shapes, HandleEvent
<1>2. Head(todo) \in {StartPause, Tick} /\ timer.status # "finished"
  <2>1. Head(todo) \in Event
    BY <1>1
  <2>2. QED BY <2>1 DEF BeginsAnew, Event
<1>3. /\ timer.accrued \in Nat /\ timer.span \in Nat /\ timer.status \in Status
      /\ timer.phase \in Phase /\ Duration(timer.phase) \in Nat
  BY <1>1, DurationType DEF Timer
<1>4. CASE Head(todo) = StartPause
  <2>1. lag = 0
    <3>1. 1 \in DOMAIN todo /\ todo[1] = StartPause
      BY <1>1, <1>4
    <3>2. QED BY <3>1 DEF Inv, StartsFirst
  <2>2. timer' = OnStartPause(timer, 0)
    BY <1>1, <1>4, <2>1 DEF Step, Tick, StartPause, Reset, Skip, RestartSession
  <2>3. CASE timer.status = "running"
    <3>1. timer' = Parked(timer, "paused", Elapsed(timer, 0))
      BY <2>2, <2>3 DEF OnStartPause
    <3>2. timer'.status = "paused" /\ timer'.accrued = Elapsed(timer, 0) /\ timer'.phase = timer.phase
      BY <1>1, <3>1 DEF Parked, Timer
    <3>3. LiveSpan(timer', 0) = 0
      BY <3>2 DEF LiveSpan
    <3>4. Elapsed(timer, 0) \in Nat /\ Elapsed(timer, 0) =< Duration(timer.phase)
      BY <1>1, ElapsedType
    <3>5. Elapsed(timer', 0) = IF timer'.accrued + LiveSpan(timer', 0) < Duration(timer'.phase)
                              THEN timer'.accrued + LiveSpan(timer', 0) ELSE Duration(timer'.phase)
      BY <1>1, ElapsedType
    <3>6. Elapsed(timer', 0) = Elapsed(timer, 0)
      BY <1>3, <3>2, <3>3, <3>4, <3>5
    <3>7. QED BY <1>1, <3>2, <3>4, <3>6, RemainingFalls
  <2>4. CASE timer.status \in {"paused", "idle"}
    <3>1. /\ timer'.status = "running" /\ timer'.span = 0 /\ timer'.phase = timer.phase
          /\ timer'.accrued = timer.accrued
      BY <1>1, <2>2, <2>4 DEF OnStartPause, Running, Timer, IdleIsFresh
    <3>2. LiveSpan(timer', 0) = 0 /\ LiveSpan(timer, 0) = 0
      BY <2>4, <3>1 DEF LiveSpan
    <3>3. Elapsed(timer', 0) = Elapsed(timer, 0)
      BY <3>1, <3>2 DEF Elapsed
    <3>4. Elapsed(timer, 0) \in Nat
      BY <1>1, ElapsedType
    <3>5. QED BY <1>1, <3>1, <3>3, <3>4, RemainingFalls
  <2>5. QED BY <1>2, <1>3, <2>3, <2>4 DEF Status
<1>5. CASE Head(todo) = Tick
  <2>1. timer' = OnTick(timer, lag)
    BY <1>1, <1>5 DEF Step, Tick, StartPause, Reset, Skip, RestartSession
  <2>2. CASE ~TimeIsUp(timer, lag)
    <3>1. timer' = timer /\ Elapsed(timer, 0) \in Nat
      BY <1>1, <2>1, <2>2, ElapsedType DEF OnTick
    <3>2. QED BY <1>1, <3>1, RemainingFalls
  <2>3. CASE TimeIsUp(timer, lag)
    <3>1. /\ Elapsed(timer, lag) = Duration(timer.phase)
          /\ Elapsed(timer, 0) \in Nat /\ Elapsed(timer, 0) =< Duration(timer.phase)
      BY <1>1, <1>3, <2>3, ElapsedType DEF TimeIsUp, Remaining
    <3> DEFINE banked == Parked(timer, "finished", Elapsed(timer, lag))
               count  == IF timer.phase = Focus THEN CountFocus(banked.completed) ELSE banked.completed
    <3>2. timer' = [banked EXCEPT !.completed = count]
      BY <2>1, <2>3 DEF OnTick
    <3>3. /\ banked.status = "finished" /\ banked.accrued = Elapsed(timer, lag)
          /\ banked.phase = timer.phase /\ banked \in Timer
      <4>1. banked \in Timer
        BY <1>1, <3>1, <1>3, ParkedType DEF Status
      <4>2. QED BY <1>1, <4>1 DEF Parked, Timer
    <3> HIDE DEF banked, count
    <3>4. timer'.status = "finished" /\ timer'.accrued = Duration(timer.phase) /\ timer'.phase = timer.phase
      BY <3>1, <3>2, <3>3 DEF Timer
    <3>5. LiveSpan(timer', 0) = 0
      BY <3>4 DEF LiveSpan
    <3>6. Elapsed(timer', 0) = Duration(timer.phase)
      BY <1>3, <3>4, <3>5 DEF Elapsed, Capped
    <3>7. QED BY <1>1, <3>1, <3>4, <3>6, RemainingFalls
  <2>4. QED BY <2>2, <2>3
<1>6. QED BY <1>2, <1>4, <1>5

LEMMA PassingOnlyFalls ==
  ASSUME Inv, NEW finger \in BOOLEAN, TimePasses(finger)
  PROVE  Remaining(timer', 0) =< Remaining(timer, 0)
<1>1. timer \in Timer /\ timer' = TimerAged(timer)
  BY DEF Inv, Shapes, TimePasses
<1>2. timer' \in Timer
  BY <1>1, TimerAgedType
<1>3. /\ timer'.phase = timer.phase /\ timer'.status = timer.status /\ timer'.accrued = timer.accrued
      /\ timer'.span >= timer.span /\ timer.span \in Nat /\ timer'.span \in Nat /\ timer.accrued \in Nat
  BY <1>1, DurationAssumption DEF TimerAged, Timer
<1>4. LiveSpan(timer, 0) \in Nat /\ LiveSpan(timer', 0) \in Nat /\ LiveSpan(timer, 0) =< LiveSpan(timer', 0)
  BY <1>3 DEF LiveSpan
<1>5. Duration(timer.phase) \in Nat
  BY <1>1, DurationType DEF Timer
<1>6. Elapsed(timer, 0) =< Elapsed(timer', 0)
  BY <1>3, <1>4, <1>5 DEF Elapsed, Capped
<1>7. QED BY <1>1, <1>2, <1>3, <1>6, RemainingFalls

\* Pausing, resuming, a late tick and events handled behind a melody never
\* give the countdown time back (timer.rs, step).
THEOREM CountdownsOnlyFall == Spec => CountdownOnlyFalls
<1>1. Inv /\ Inv' /\ [Next]_pomodoroVars
      => [BeginsAnew \/ Remaining(timer', 0) =< Remaining(timer, 0)]_pomodoroVars
  <2> SUFFICES ASSUME Inv, Inv', Next, ~BeginsAnew
               PROVE  Remaining(timer', 0) =< Remaining(timer, 0)
    OBVIOUS
  <2>1. CASE timer' = timer
    <3>1. timer \in Timer /\ Elapsed(timer, 0) \in Nat
      BY ElapsedType DEF Inv, Shapes
    <3>2. QED BY <2>1, <3>1, RemainingFalls
  <2>2. CASE HandleEvent
    BY <2>2, HandlingOnlyFalls
  <2>3. CASE \E finger \in BOOLEAN : TimePasses(finger)
    BY <2>3, PassingOnlyFalls
  <2>4. CASE (\E sideClicked \in BOOLEAN : Poll(sideClicked)) \/ MelodyFails
             \/ \E readFails, onUsb \in BOOLEAN : WatchPower(readFails, onUsb)
    BY <2>1, <2>4 DEF Poll, MelodyFails, WatchPower, inputVars
  <2>5. QED BY <2>2, <2>3, <2>4 DEF Next
<1>2. QED BY InvHolds, <1>1, PTL DEF Spec, CountdownOnlyFalls

-----------------------------------------------------------------------------
(* Holds.  While no melody keeps the thread from polling, the recognizer's   *)
(* window is as old as the finger's absence, so the poll that would report   *)
(* a hold settles the release instead.                                     *)

Watchful ==
  /\ ended \/ deaf => front.debounced
  /\ front.debounced /\ ~deaf /\ ~level =>
       \/ up = 0 /\ ~polled
       \/ ~front.candidate /\ front.steady >= up
  /\ ended /\ ~deaf => ~polled /\ ~level /\ ~front.candidate /\ front.steady = DebounceMs

LEMMA EndedPressSettles ==
  ASSUME Inv, Watchful, ended, ~deaf
  PROVE  PolledGesture # LongHold
<1>1. /\ front \in Recognizer /\ front.debounced /\ ~level /\ ~front.candidate
      /\ front.steady = DebounceMs
  BY DEF Watchful, Inv, Shapes
<1>2. level = FALSE /\ front.candidate = FALSE /\ front.debounced = TRUE
  BY <1>1, Zenon DEF Inv, Shapes, Recognizer
<1>3. Sampled(front, level) = front /\ Settles(front)
  <2>1. Sampled(front, level) = front
    BY <1>2 DEF Sampled
  <2>2. front.steady >= DebounceMs
    BY <1>1, TimingAssumption
  <2>3. QED BY <1>2, <2>1, <2>2 DEF Settles
<1>4. Settled(Sampled(front, level)) \in {None, Click}
  BY <1>3 DEF Settled
<1>5. QED BY <1>4, GesturesDiffer DEF PolledGesture, Recognized, Reported

LEMMA PollWatchful ==
  ASSUME Inv, Watchful, NEW sideClicked \in BOOLEAN, Poll(sideClicked)
  PROVE  Watchful'
<1> DEFINE s == Sampled(front, level)
           new == Recognized(front, level).state
<1>1. /\ front \in Recognizer /\ level \in BOOLEAN /\ up \in (0 .. DebounceMs) \cup {None}
      /\ up = None <=> level
      /\ deaf \in BOOLEAN /\ ended \in BOOLEAN
  BY DEF Inv, Shapes
<1>2. /\ front' = new /\ deaf' = (deaf /\ new.debounced) /\ ended' = (ended /\ new.debounced)
      /\ level' = level /\ up' = up
  BY DEF Poll
<1>3. /\ s \in Recognizer /\ s.debounced = front.debounced /\ s.candidate = level
      /\ s = front \/ s.steady = 0
      /\ s.candidate = front.candidate => s = front
  <2>1. s \in Recognizer
    BY <1>1, SampledType
  <2>2. CASE level = front.candidate
    BY <1>1, <2>2, <2>1 DEF Sampled
  <2>3. CASE level # front.candidate
    BY <1>1, <2>3, <2>1 DEF Sampled, Recognizer
  <2>4. QED BY <2>2, <2>3
<1>4. /\ new.candidate = s.candidate /\ new.steady = s.steady
      /\ new.debounced = IF Settles(s) THEN s.candidate ELSE s.debounced
  <2>1. Debounced(s) \in Recognizer
    BY <1>3, DebouncedType
  <2>2. /\ Debounced(s).candidate = s.candidate /\ Debounced(s).steady = s.steady
        /\ Debounced(s).debounced = IF Settles(s) THEN s.candidate ELSE s.debounced
    BY <1>3, Zenon DEF Debounced, Accepted, Recognizer
  <2>3. new = [Debounced(s) EXCEPT !.pending = StillPending(front, Settled(s))]
    BY DEF Recognized
  <2>4. QED BY <2>1, <2>2, <2>3 DEF Recognizer
<1> HIDE DEF s, new
<1>5. (ended \/ deaf => front.debounced)'
  BY <1>1, <1>2
<1>6. (front.debounced /\ ~deaf /\ ~level => ~front.candidate /\ front.steady >= up)'
  <2> SUFFICES ASSUME new.debounced, ~(deaf /\ new.debounced), ~level
               PROVE  ~new.candidate /\ new.steady >= up
    BY <1>2
  <2>1. front.debounced /\ ~deaf /\ ~new.candidate
    BY <1>1, <1>3, <1>4
  <2>2. up = 0 \/ (~front.candidate /\ front.steady >= up)
    BY <2>1 DEF Watchful
  <2>3. CASE up = 0
    <3>1. new.steady \in 0 .. DebounceMs
      BY <1>3, <1>4 DEF Recognizer
    <3>2. QED BY <2>1, <2>3, <3>1
  <2>4. CASE ~front.candidate /\ front.steady >= up
    <3>1. s = front
      BY <1>1, <1>3, <2>4 DEF Recognizer
    <3>2. QED BY <1>4, <2>1, <2>4, <3>1
  <2>5. QED BY <2>2, <2>3, <2>4
<1>7. ~(ended' /\ ~deaf')
  <2> SUFFICES ASSUME ended, ~deaf, new.debounced PROVE FALSE
    BY <1>1, <1>2
  <2>1. /\ front.debounced /\ ~level /\ ~front.candidate /\ front.steady = DebounceMs
    BY DEF Watchful
  <2>2. s = front
    BY <1>1, <1>3, <2>1 DEF Recognizer
  <2>3. Settles(s)
    BY <2>1, <2>2, TimingAssumption DEF Settles
  <2>4. QED BY <1>4, <2>1, <2>2, <2>3
<1>8. QED BY <1>5, <1>6, <1>7 DEF Watchful

LEMMA TimePassesWatchful ==
  ASSUME Inv, Watchful, NEW finger \in BOOLEAN, TimePasses(finger)
  PROVE  Watchful'
<1>1. /\ front \in Recognizer /\ level \in BOOLEAN /\ up \in (0 .. DebounceMs) \cup {None}
      /\ up = None <=> level
      /\ deaf \in BOOLEAN /\ ended \in BOOLEAN
  BY DEF Inv, Shapes
<1>2. /\ front' = Aged(front) /\ level' = finger
      /\ polled' = (Waiting("input") /\ todo # <<>>)
      /\ up' = IF finger THEN None ELSE IF level THEN 0 ELSE Older(up, DebounceMs)
      /\ ended' = (front.debounced /\ (ended \/ up' = DebounceMs))
      /\ deaf' = (deaf \/ (front.debounced /\ Waiting("input")))
      /\ ~Waiting("input") => polled
  BY DEF TimePasses, InputIsDue
<1>3. /\ front'.debounced = front.debounced /\ front'.candidate = front.candidate
      /\ front'.steady = Older(front.steady, DebounceMs)
      /\ front.steady \in 0 .. DebounceMs
  BY <1>1, <1>2 DEF Aged, Recognizer
<1>4. (ended \/ deaf => front.debounced)'
  BY <1>2, <1>3 DEF Watchful
<1>5. SUFFICES ASSUME ~deaf', front.debounced
               PROVE  /\ ~level' => \/ up' = 0 /\ ~polled'
                                    \/ ~front'.candidate /\ front'.steady >= up'
                      /\ ended' => ~polled' /\ ~level' /\ ~front'.candidate
                                   /\ front'.steady = DebounceMs
  BY <1>1, <1>2, <1>3, <1>4 DEF Watchful
<1>6. ~deaf /\ ~Waiting("input") /\ polled /\ ~polled' /\ ~ended
  BY <1>2, <1>5 DEF Watchful
<1>7. CASE finger
  <2>1. up' = None
    BY <1>2, <1>7
  <2>2. ~ended'
    BY <1>2, <1>6, <2>1, NoneIsNoAge, TimingAssumption
  <2>3. QED BY <1>2, <1>7, <2>2
<1>8. CASE ~finger /\ level
  <2>1. up' = 0
    BY <1>2, <1>8
  <2>2. ~ended'
    BY <1>2, <1>6, <2>1, TimingAssumption
  <2>3. QED BY <1>6, <2>1, <2>2
<1>9. CASE ~finger /\ ~level
  <2>1. ~front.candidate /\ front.steady >= up /\ up \in 0 .. DebounceMs
    BY <1>1, <1>5, <1>6, <1>9 DEF Watchful
  <2>2. up' = Older(up, DebounceMs)
    BY <1>2, <1>9
  <2>3. front'.steady >= up' /\ (up' = DebounceMs => front'.steady = DebounceMs)
    BY <1>3, <2>1, <2>2, TimingAssumption DEF Older
  <2>4. QED BY <1>2, <1>3, <1>6, <1>9, <2>1, <2>3
<1>10. QED BY <1>1, <1>7, <1>8, <1>9

LEMMA WatchfulIsInductive ==
  ASSUME Inv, Watchful, [Next]_pomodoroVars
  PROVE  Watchful'
<1>1. CASE \E sideClicked \in BOOLEAN : Poll(sideClicked)
  BY <1>1, PollWatchful
<1>2. CASE \E finger \in BOOLEAN : TimePasses(finger)
  BY <1>2, TimePassesWatchful
<1>3. CASE UNCHANGED <<level, front, polled, up, ended, deaf>>
  BY <1>3 DEF Watchful
<1>4. HandleEvent \/ MelodyFails \/ (\E readFails, onUsb \in BOOLEAN : WatchPower(readFails, onUsb))
        \/ UNCHANGED pomodoroVars
      => UNCHANGED <<level, front, polled, up, ended, deaf>>
  BY DEF HandleEvent, MelodyFails, WatchPower, historyVars, inputVars, pomodoroVars
<1>5. QED BY <1>1, <1>2, <1>3, <1>4 DEF Next

\* A hold is reported of a press that has ended only when a melody kept the
\* input thread from polling while the press lasted (debounce.rs, input.rs).
THEOREM HoldsAreHeldUnlessTheThreadWasDeaf == Spec => HoldsAreHeldUnlessDeaf
<1>1. Init => Watchful
  BY DEF Init, Watchful, NewRecognizer
<1>2. Inv /\ Watchful /\ [Next]_pomodoroVars => Watchful'
  BY WatchfulIsInductive
<1>3. Inv /\ Watchful => [Reports(LongHold) => deaf \/ ~ended]_pomodoroVars
  BY EndedPressSettles DEF Reports
<1>4. QED BY InvHolds, <1>1, <1>2, <1>3, PTL DEF Spec, HoldsAreHeldUnlessDeaf
=============================================================================

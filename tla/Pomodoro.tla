------------------------------ MODULE Pomodoro ------------------------------
(***************************************************************************)
(* The pomodoro stick: the input thread (pomodoro-shell/input.rs) polls the  *)
(* buttons, folds their gestures into the shared timer, fires a Tick every   *)
(* cycle and waits for every jingle it asks for; the power watch            *)
(* (platform-runtime/power_watch.rs) waits for its chimes; one thread owns   *)
(* the buzzer (buzzer.rs) and plays the melodies one after another.         *)
(*                                                                         *)
(* Time is discrete: a unit is one poll period, and `TimePasses` is the      *)
(* only action that takes any.  Before a unit passes every thread that is    *)
(* not waiting for the buzzer has done its cycle.  The front button's level  *)
(* is followed sample by sample; the side button runs the same recognizer,   *)
(* so here its clicks come when they like, and the power button's toggle is  *)
(* the display's business.                                                  *)
(***************************************************************************)
EXTENDS Gestures, PomodoroTimer, Sequences

CONSTANTS
  JingleMs,        \* how long a jingle sounds
  ChimeMs,         \* how long a power chime sounds
  PowerDebounceMs  \* how long VBUS holds steady before an edge counts

ASSUME MelodyAssumption ==
  /\ JingleMs \in Nat \ {0}
  /\ ChimeMs \in Nat \ {0}
  /\ PowerDebounceMs \in Nat \ {0}

\* No cycle waits longer than its two jingles, each behind one chime.
LagMax == 2 * (JingleMs + ChimeMs)

ASSUME SpanAssumption ==
  /\ SpanCap >= FocusMs + LagMax
  /\ SpanCap >= ShortBreakMs + LagMax
  /\ SpanCap >= LongBreakMs + LagMax

VARIABLES
  level,     \* whether the owner's finger is on the front button
  front,     \* the front button's recognizer
  timer,     \* SharedTimer
  todo,      \* the events of the input cycle not handled yet
  lag,       \* how long ago the cycle read its clock
  polled,    \* the input thread has begun its cycle in this unit of time
  melodies,  \* requests at the buzzer's owner, oldest first; the head sounds
  watch,     \* the power watch's debounce
  watched,   \* the power watch has done its cycle in this unit of time
  up,        \* history: how long the finger has been off the button, or None
  ended,     \* history: the accepted press has ended, by more than a bounce
  deaf,      \* history: a melody kept the thread from polling during this press
  owed       \* history: accepted presses no gesture has accounted for

inputVars   == <<level, front, timer, todo, lag, polled>>
soundVars   == <<melodies, watch, watched>>
historyVars == <<up, ended, deaf, owed>>
pomodoroVars == <<inputVars, soundVars, historyVars>>

Threads == {"input", "power_watch"}
Lasts(who) == IF who = "input" THEN JingleMs ELSE ChimeMs
Melody     == UNION {[who : {w}, left : 1 .. Lasts(w)] : w \in Threads}
Submitted(queue, who) == Append(queue, [who |-> who, left |-> Lasts(who)])

\* BuzzerHandle.play blocks until the owner has signalled this melody's end.
Waiting(who) == \E i \in DOMAIN melodies : melodies[i].who = who

PowerWatch == [settled : BOOLEAN, candidate : BOOLEAN, steady : 0 .. PowerDebounceMs]

Init ==
  /\ level = FALSE
  /\ front = NewRecognizer
  /\ timer = NewTimer
  /\ todo = <<>>
  /\ lag = 0
  /\ polled = FALSE
  /\ melodies = <<>>
  /\ \E onUsb \in BOOLEAN :
       watch = [settled |-> onUsb, candidate |-> onUsb, steady |-> PowerDebounceMs]
  /\ watched = FALSE
  /\ up = DebounceMs
  /\ ended = FALSE
  /\ deaf = FALSE
  /\ owed = 0

-----------------------------------------------------------------------------
(* The input thread.                                                       *)

\* command_for, the front button.
CommandFor(gesture) ==
  CASE gesture = Click       -> StartPause
    [] gesture = DoubleClick -> RestartSession
    [] OTHER                 -> Reset

EventsOf(gesture, sideClicked) ==
  (IF gesture = None THEN <<>> ELSE <<CommandFor(gesture)>>)
    \o (IF sideClicked THEN <<Skip>> ELSE <<>>)
    \o <<Tick>>

\* The presses a gesture accounts for; a hold also drops the pending click.
Answers(gesture, r) ==
  CASE gesture = None        -> 0
    [] gesture = DoubleClick -> 2
    [] gesture = LongHold    -> IF r.pending = None THEN 1 ELSE 2
    [] OTHER                 -> 1

NewPress(old, new) == IF new.debounced /\ ~old.debounced THEN 1 ELSE 0

\* cycle, up to the clock reading and the poll of the buttons.
Poll(sideClicked) ==
  LET poll == Recognized(front, level)
  IN /\ ~polled
     /\ todo = <<>>
     /\ ~Waiting("input")
     /\ front' = poll.state
     /\ todo' = EventsOf(poll.gesture, sideClicked)
     /\ lag' = 0
     /\ polled' = TRUE
     /\ owed' = owed + NewPress(front, poll.state) - Answers(poll.gesture, front)
     /\ deaf' = (deaf /\ poll.state.debounced)
     /\ ended' = (ended /\ poll.state.debounced)
     /\ UNCHANGED <<level, timer, soundVars, up>>

\* Mutant: the event is looked at and not taken.
PeeksAtEvent ==
  /\ todo # <<>>
  /\ ~Waiting("input")
  /\ timer' = Step(timer, Head(todo), lag)
  /\ todo' = todo
  /\ melodies' = IF Sounds(timer, Head(todo), lag)
                 THEN Submitted(melodies, "input")
                 ELSE melodies
  /\ UNCHANGED <<level, front, lag, polled, watch, watched, historyVars>>

\* SharedTimer.apply and `sound`: the thread waits for the jingle it asked for.
HandleEvent ==
  /\ todo # <<>>
  /\ ~Waiting("input")
  /\ timer' = Step(timer, Head(todo), lag)
  /\ todo' = Tail(todo)
  /\ melodies' = IF Sounds(timer, Head(todo), lag)
                 THEN Submitted(melodies, "input")
                 ELSE melodies
  /\ UNCHANGED <<level, front, lag, polled, watch, watched, historyVars>>

-----------------------------------------------------------------------------
(* The power watch and the buzzer's owner.                                 *)

\* PowerDebounce.update.
PowerSampled(w, onUsb) ==
  IF onUsb # w.candidate THEN [w EXCEPT !.candidate = onUsb, !.steady = 0] ELSE w
PowerSettles(w) == w.candidate # w.settled /\ w.steady >= PowerDebounceMs

\* watch_once: a failed VBUS read skips the cycle, a settled edge is chimed.
WatchPower(readFails, onUsb) ==
  LET sampled == PowerSampled(watch, onUsb)
  IN /\ ~watched
     /\ ~Waiting("power_watch")
     /\ watched' = TRUE
     /\ IF readFails
        THEN UNCHANGED <<watch, melodies>>
        ELSE /\ watch' = IF PowerSettles(sampled)
                         THEN [sampled EXCEPT !.settled = sampled.candidate]
                         ELSE sampled
             /\ melodies' = IF PowerSettles(sampled)
                            THEN Submitted(melodies, "power_watch")
                            ELSE melodies
     /\ UNCHANGED <<inputVars, historyVars>>

\* buzzer_loop signals `done` whether the melody was played or failed.
Signalled(queue) == Tail(queue)

MelodyFails ==
  /\ melodies # <<>>
  /\ melodies' = Signalled(melodies)
  /\ UNCHANGED <<inputVars, watch, watched, historyVars>>

SoundsOn(queue) ==
  IF queue = <<>> THEN queue
  ELSE IF Head(queue).left = 1 THEN Signalled(queue)
  ELSE [queue EXCEPT ![1].left = @ - 1]

-----------------------------------------------------------------------------

InputIsDue == ~Waiting("input") /\ (todo # <<>> \/ ~polled)
WatchIsDue == ~Waiting("power_watch") /\ ~watched

\* One unit of time: the finger moves, everything ages.
TimePasses(finger) ==
  /\ ~InputIsDue
  /\ ~WatchIsDue
  /\ level' = finger
  /\ front' = Aged(front)
  /\ timer' = TimerAged(timer)
  /\ lag' = IF todo = <<>> THEN 0 ELSE lag + 1
  /\ melodies' = SoundsOn(melodies)
  /\ watch' = [watch EXCEPT !.steady = Older(@, PowerDebounceMs)]
  /\ polled' = (Waiting("input") /\ todo # <<>>)
  /\ watched' = FALSE
  /\ up' = IF finger THEN None ELSE IF level THEN 0 ELSE Older(up, DebounceMs)
  /\ ended' = (front.debounced /\ (ended \/ up' = DebounceMs))
  /\ deaf' = (deaf \/ (front.debounced /\ Waiting("input")))
  /\ UNCHANGED <<todo, owed>>

Next ==
  \/ \E sideClicked \in BOOLEAN : Poll(sideClicked)
  \/ HandleEvent
  \/ \E readFails, onUsb \in BOOLEAN : WatchPower(readFails, onUsb)
  \/ MelodyFails
  \/ \E finger \in BOOLEAN : TimePasses(finger)

Spec == Init /\ [][Next]_pomodoroVars

Fairness ==
  /\ WF_pomodoroVars(\E sideClicked \in BOOLEAN : Poll(sideClicked))
  /\ WF_pomodoroVars(HandleEvent)
  /\ WF_pomodoroVars(\E readFails, onUsb \in BOOLEAN : WatchPower(readFails, onUsb))
  /\ WF_pomodoroVars(\E finger \in BOOLEAN : TimePasses(finger))
FairSpec == Spec /\ Fairness

-----------------------------------------------------------------------------
(* Properties.                                                             *)

\* Every variable has its type: a cycle holds at most three events, and no
\* thread has two melodies outstanding, so the owner's channel holds at most two.
TypeOK ==
  /\ level \in BOOLEAN
  /\ front \in Recognizer
  /\ timer \in Timer
  /\ todo \in Seq(Event) /\ Len(todo) =< 3
  /\ lag \in Nat
  /\ polled \in BOOLEAN
  /\ melodies \in Seq(Melody)
  /\ \A i, j \in DOMAIN melodies : melodies[i].who = melodies[j].who => i = j
  /\ watch \in PowerWatch
  /\ watched \in BOOLEAN
  /\ up \in (0 .. DebounceMs) \cup {None}
  /\ ended \in BOOLEAN
  /\ deaf \in BOOLEAN
  /\ owed \in 0 .. 2

\* Every press the debounce accepts is accounted for by exactly one gesture:
\* none is reported twice (a hold and a click, a click and a double click) and
\* none is dropped, however melodies delay the polls (debounce.rs, cadence.rs).
EveryPressIsReportedOnce ==
  owed = (IF front.pending = None THEN 0 ELSE 1)
         + (IF front.debounced /\ ~front.holdFired THEN 1 ELSE 0)

\* Whatever the cycle still has to do, the clock reading it does it with is no
\* older than the waits for two jingles and the chimes they stood behind.
ClockReadingIsFresh == lag =< LagMax

PolledGesture == Recognized(front, level).gesture
Reports(gesture) == PolledGesture = gesture /\ \E sideClicked \in BOOLEAN : Poll(sideClicked)

\* A long hold is a press the owner has not ended (gesture.rs: "held for at
\* least hold_ms ... while the button is still down"), unless a melody kept the
\* thread from polling during the press: then a press that had ended passes for one.
HoldsAreHeldUnlessDeaf == [][Reports(LongHold) => deaf \/ ~ended]_pomodoroVars

\* The remaining time of a phase only falls: pausing, resuming, and events
\* handled with a clock reading as old as a melody never give time back.
\* Only a reset, a skip, a restart or the next phase sets it anew.
BeginsAnew == HandleEvent /\ (Head(todo) \in {Reset, Skip, RestartSession} \/ timer.status = "finished")

CountdownOnlyFalls ==
  [][BeginsAnew \/ Remaining(timer', 0) =< Remaining(timer, 0)]_pomodoroVars

\* The input thread is never shut out for good: whoever else uses the buzzer,
\* and whether a melody plays or fails, it comes back to poll.
InputIsNeverShutOut == []<>(~Waiting("input") /\ todo = <<>>)
=============================================================================

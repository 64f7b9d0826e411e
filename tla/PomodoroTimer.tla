--------------------------- MODULE PomodoroTimer ---------------------------
(***************************************************************************)
(* pomodoro-core: the pure `step` over phase, status and a pause-correct    *)
(* clock.  `span` is now - running_since, and `lag` says how old the `now`   *)
(* handed to `step` is: the input cycle reads the clock once and uses that  *)
(* instant for every event of the cycle, melodies played in between         *)
(* included.                                                               *)
(***************************************************************************)
EXTENDS Naturals

CONSTANTS
  FocusMs, ShortBreakMs, LongBreakMs,  \* the three durations
  LongBreakEvery,                      \* completed focuses per long break; 0 is never
  SpanCap                              \* the age at which `span` stops counting

ASSUME DurationAssumption ==
  /\ FocusMs \in Nat \ {0}
  /\ ShortBreakMs \in Nat \ {0}
  /\ LongBreakMs \in Nat \ {0}
  /\ LongBreakEvery \in Nat
  /\ SpanCap \in Nat

Focus      == "focus"
ShortBreak == "short_break"
LongBreak  == "long_break"
Phase      == {Focus, ShortBreak, LongBreak}

Status == {"idle", "running", "paused", "finished"}

StartPause     == "start_pause"
Reset          == "reset"
Skip           == "skip"
RestartSession == "restart_session"
Tick           == "tick"
Event          == {StartPause, Reset, Skip, RestartSession, Tick}

Duration(phase) ==
  CASE phase = Focus -> FocusMs [] phase = ShortBreak -> ShortBreakMs [] OTHER -> LongBreakMs

\* The count of completed focuses matters as "none yet" or by its remainder:
\* 0, or 1 .. LongBreakEvery where LongBreakEvery stands for every multiple.
FocusCount       == 0 .. LongBreakEvery
CountFocus(done) == IF LongBreakEvery = 0 THEN 0 ELSE (done % LongBreakEvery) + 1
EarnsLong(done)  == LongBreakEvery # 0 /\ done = LongBreakEvery

Timer ==
  [phase : Phase, status : Status, completed : FocusCount, accrued : Nat, span : 0 .. SpanCap]

NewTimer == [phase |-> Focus, status |-> "idle", completed |-> 0, accrued |-> 0, span |-> 0]

\* One unit of time passes over a running timer.
TimerAged(t) ==
  IF t.status = "running" /\ t.span < SpanCap THEN [t EXCEPT !.span = @ + 1] ELSE t

LiveSpan(t, lag)  == IF t.status = "running" /\ t.span > lag THEN t.span - lag ELSE 0
Capped(ms, phase) == IF ms < Duration(phase) THEN ms ELSE Duration(phase)

\* Past the duration every elapsed time shows and decides the same.
Elapsed(t, lag)   == Capped(t.accrued + LiveSpan(t, lag), t.phase)
Remaining(t, lag) == Duration(t.phase) - Elapsed(t, lag)

-----------------------------------------------------------------------------

Running(t, lag)  == [t EXCEPT !.status = "running", !.span = lag]
Parked(t, status, banked) == [t EXCEPT !.status = status, !.accrued = banked, !.span = 0]

NextPhase(t) ==
  IF t.phase # Focus THEN Focus ELSE IF EarnsLong(t.completed) THEN LongBreak ELSE ShortBreak

Advance(t, lag, status) ==
  [t EXCEPT !.phase = NextPhase(t), !.status = status, !.accrued = 0,
            !.span = IF status = "running" THEN lag ELSE 0]

\* Mutant: pausing banks nothing.
PauseBanksNothing(t, lag) ==
  CASE t.status = "running" -> Parked(t, "paused", t.accrued)
    [] t.status = "paused"  -> Running(t, lag)
    [] t.status = "idle"    -> Running([t EXCEPT !.accrued = 0], lag)
    [] OTHER                -> Advance(t, lag, "running")

OnStartPause(t, lag) ==
  CASE t.status = "running" -> Parked(t, "paused", Elapsed(t, lag))
    [] t.status = "paused"  -> Running(t, lag)
    [] t.status = "idle"    -> Running([t EXCEPT !.accrued = 0], lag)
    [] OTHER                -> Advance(t, lag, "running")

OnReset(t) == Parked(t, IF t.status = "idle" THEN "idle" ELSE "paused", 0)
OnSkip(t, lag) == Advance(t, lag, IF t.status = "running" THEN "running" ELSE "paused")

TimeIsUp(t, lag) == t.status = "running" /\ Remaining(t, lag) = 0

OnTick(t, lag) ==
  IF TimeIsUp(t, lag)
  THEN [Parked(t, "finished", Elapsed(t, lag)) EXCEPT
          !.completed = IF t.phase = Focus THEN CountFocus(@) ELSE @]
  ELSE t

\* Step(timer, event): the next timer.
Step(t, event, lag) ==
  CASE event = StartPause     -> OnStartPause(t, lag)
    [] event = Reset          -> OnReset(t)
    [] event = Skip           -> OnSkip(t, lag)
    [] event = RestartSession -> NewTimer
    [] OTHER                  -> OnTick(t, lag)

\* Whether the transition plays a jingle.
Sounds(t, event, lag) ==
  \/ event \in {Skip, RestartSession}
  \/ event = StartPause /\ t.status \in {"idle", "finished"}
  \/ event = Tick /\ TimeIsUp(t, lag)
=============================================================================

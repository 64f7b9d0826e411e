------------------------------ MODULE Gestures ------------------------------
(***************************************************************************)
(* platform-input: a button's raw level, sampled on every poll, becomes     *)
(* clicks, double clicks and long holds.  The code keeps instants and       *)
(* subtracts them from `now`; these operators keep the differences, capped  *)
(* at the threshold they are compared with, so `Older` is the passing of    *)
(* one unit of time.                                                       *)
(***************************************************************************)
EXTENDS Naturals

CONSTANTS
  DebounceMs,     \* how long a level holds steady before it is accepted
  HoldMs,         \* how long an accepted press counts as a long hold
  DoubleClickMs,  \* how long a click waits for a second one
  None

ASSUME TimingAssumption ==
  /\ DebounceMs \in Nat \ {0}
  /\ HoldMs \in Nat \ {0}
  /\ DoubleClickMs \in Nat \ {0}

ASSUME NoneIsNoAge == None \notin Nat

Click       == "click"
DoubleClick == "double_click"
LongHold    == "long_hold"
Gesture     == {Click, DoubleClick, LongHold}

ASSUME NoneIsNoGesture == None \notin Gesture

\* An age and its cap.
Older(age, cap) == IF age < cap THEN age + 1 ELSE cap

\* The debounce and, behind it, the double-click stage's pending click.
\* `steady` is now - since, `held` now - pressed_at, `pending` now - pending.
Recognizer ==
  [debounced : BOOLEAN,
   candidate : BOOLEAN,
   steady    : 0 .. DebounceMs,
   held      : (0 .. HoldMs) \cup {None},
   holdFired : BOOLEAN,
   pending   : (0 .. DoubleClickMs) \cup {None}]

NewRecognizer ==
  [debounced |-> FALSE, candidate |-> FALSE, steady |-> DebounceMs,
   held |-> None, holdFired |-> FALSE, pending |-> None]

\* One unit of time passes over a recognizer.
Aged(r) ==
  [r EXCEPT !.steady  = Older(@, DebounceMs),
            !.held    = IF @ = None THEN None ELSE Older(@, HoldMs),
            !.pending = IF @ = None THEN None ELSE Older(@, DoubleClickMs)]

-----------------------------------------------------------------------------
(* The debounce: a level in, a settled click or hold out.                  *)

\* A changed level restarts its stability window.
Sampled(r, pressed) ==
  IF pressed # r.candidate THEN [r EXCEPT !.candidate = pressed, !.steady = 0] ELSE r

Settles(r)  == r.candidate # r.debounced /\ r.steady >= DebounceMs
HoldFires(r) == r.held # None /\ ~r.holdFired /\ r.held >= HoldMs

\* What the debounce makes of a sampled level: its state and its gesture.
Accepted(r) ==
  [r EXCEPT !.debounced = r.candidate, !.holdFired = FALSE,
            !.held = IF r.candidate THEN 0 ELSE None]

Debounced(r) ==
  IF Settles(r) THEN Accepted(r)
  ELSE IF HoldFires(r) THEN [r EXCEPT !.holdFired = TRUE]
  ELSE r

\* Mutant: the hold is looked for before the release.
HoldBeforeRelease(r) ==
  IF HoldFires(r) THEN LongHold
  ELSE IF Settles(r) THEN IF r.candidate \/ r.holdFired THEN None ELSE Click
  ELSE None

\* Mutant: a press that fired a hold is clicked as well when it ends.
ClicksAfterHold(r) ==
  IF Settles(r) THEN IF r.candidate THEN None ELSE Click
  ELSE IF HoldFires(r) THEN LongHold
  ELSE None

Settled(r) ==
  IF Settles(r) THEN IF r.candidate \/ r.holdFired THEN None ELSE Click
  ELSE IF HoldFires(r) THEN LongHold
  ELSE None

-----------------------------------------------------------------------------
(* The cadence: a lone click waits out its window, a second one inside it   *)
(* makes a double click, a hold cancels it.                                *)

WindowElapsed(r) == r.pending # None /\ r.pending >= DoubleClickMs

Reported(r, gesture) ==
  IF gesture = Click THEN IF r.pending = None THEN None ELSE DoubleClick
  ELSE IF gesture = None /\ WindowElapsed(r) THEN Click
  ELSE gesture

StillPending(r, gesture) ==
  IF gesture = Click /\ r.pending = None THEN 0
  ELSE IF gesture # None \/ WindowElapsed(r) THEN None
  ELSE r.pending

\* One poll of a button that reports double clicks.
Recognized(r, pressed) ==
  LET sampled == Sampled(r, pressed)
      gesture == Settled(sampled)
  IN [state   |-> [Debounced(sampled) EXCEPT !.pending = StillPending(r, gesture)],
      gesture |-> Reported(r, gesture)]
=============================================================================

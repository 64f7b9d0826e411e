------------------------------ MODULE Rotation ------------------------------
(***************************************************************************)
(* platform-core/rotation.rs and imu.rs: which quarter turn an acceleration *)
(* asks for, and the settler that turns the picture only when the board has  *)
(* asked for the same turn long enough.                                    *)
(***************************************************************************)
EXTENDS Integers

CONSTANTS
  OneG, RestTolerance,  \* a board at rest feels OneG, give or take, in mg
  InPlaneMinimum,       \* gravity in the screen's plane worth reading, in mg
  QuadrantMargin,       \* how clearly one axis beats the other, in mg
  SettleMs              \* how long a new rotation is asked for before it turns

ASSUME RotationAssumption ==
  /\ OneG \in Nat /\ RestTolerance \in Nat /\ RestTolerance =< OneG
  /\ InPlaneMinimum \in Nat
  /\ QuadrantMargin \in Nat \ {0}
  /\ SettleMs \in Nat

\* Quarter turns, clockwise, of the panel's native landscape.
ScreenRotation == {0, 90, 180, 270}
NoRotation     == -1

Acceleration == [x : Int, y : Int, z : Int]

Size(mg) == IF mg < 0 THEN -mg ELSE mg

IsAtRest(a) ==
  LET magnitude == a.x * a.x + a.y * a.y + a.z * a.z
  IN /\ magnitude >= (OneG - RestTolerance) * (OneG - RestTolerance)
     /\ magnitude =< (OneG + RestTolerance) * (OneG + RestTolerance)

\* The rotation of the in-plane axis that clearly points up, if one does.
UpAxis(a) ==
  LET across == Size(a.x)
      along  == Size(a.y)
  IN IF across < InPlaneMinimum /\ along < InPlaneMinimum THEN NoRotation
     ELSE IF across >= along + QuadrantMargin THEN IF a.x > 0 THEN 270 ELSE 90
     ELSE IF along >= across + QuadrantMargin THEN IF a.y > 0 THEN 180 ELSE 0
     ELSE NoRotation

\* What a reading asks for by itself.
Asked(a) == IF IsAtRest(a) THEN UpAxis(a) ELSE NoRotation

RotationFor(a, current) == IF Asked(a) = NoRotation THEN current ELSE Asked(a)

\* RotationSettler: `held` is now - since, capped.
Candidate == [rotation : ScreenRotation, held : 0 .. SettleMs]
NoCandidate == [rotation |-> NoRotation, held |-> 0]
Settler   == [showing : ScreenRotation, candidate : Candidate \cup {NoCandidate}]

NewSettler == [showing |-> 0, candidate |-> NoCandidate]

SettlerAged(s) ==
  IF s.candidate # NoCandidate /\ s.candidate.held < SettleMs
  THEN [s EXCEPT !.candidate.held = @ + 1]
  ELSE s

\* Mutant: a reading that agrees with what is shown forgets no candidate.
KeepsCandidate(s, a) ==
  LET wanted == RotationFor(a, s.showing)
  IN CASE wanted = s.showing -> s
       [] wanted # s.showing /\ wanted # s.candidate.rotation ->
            [s EXCEPT !.candidate = [rotation |-> wanted, held |-> 0]]
       [] wanted # s.showing /\ wanted = s.candidate.rotation ->
            IF s.candidate.held >= SettleMs
            THEN [showing |-> wanted, candidate |-> NoCandidate]
            ELSE s

SettlerUpdated(s, a) ==
  LET wanted == RotationFor(a, s.showing)
  IN CASE wanted = s.showing -> [s EXCEPT !.candidate = NoCandidate]
       [] wanted # s.showing /\ wanted # s.candidate.rotation ->
            [s EXCEPT !.candidate = [rotation |-> wanted, held |-> 0]]
       [] wanted # s.showing /\ wanted = s.candidate.rotation ->
            IF s.candidate.held >= SettleMs
            THEN [showing |-> wanted, candidate |-> NoCandidate]
            ELSE s
=============================================================================

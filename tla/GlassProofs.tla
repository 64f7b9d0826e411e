----------------------------- MODULE GlassProofs -----------------------------
(***************************************************************************)
(* Theorems about the stick's glass, for any states, frames, readings,      *)
(* thresholds and number of faults.                                        *)
(***************************************************************************)
EXTENDS Glass, TLAPS

-----------------------------------------------------------------------------
(* Rotations.                                                              *)

LEMMA SizeFacts ==
  ASSUME NEW mg \in Int
  PROVE  Size(mg) \in Nat /\ Size(mg) >= mg /\ Size(mg) >= -mg /\ Size(mg) \in {mg, -mg}
  BY DEF Size

\* Two readings that each name a way up and differ by less than the margin on
\* either axis name the same one: sensor noise cannot turn the picture
\* (rotation.rs, QUADRANT_MARGIN_MG).
THEOREM NoiseNeverTurns ==
  ASSUME NEW a \in Acceleration, NEW b \in Acceleration,
         Size(a.x - b.x) < QuadrantMargin, Size(a.y - b.y) < QuadrantMargin,
         UpAxis(a) # NoRotation, UpAxis(b) # NoRotation
  PROVE  UpAxis(a) = UpAxis(b)
<1>1. a.x \in Int /\ a.y \in Int /\ b.x \in Int /\ b.y \in Int /\ QuadrantMargin \in Nat /\ QuadrantMargin > 0
  BY RotationAssumption DEF Acceleration
<1>2. /\ a.x - b.x < QuadrantMargin /\ b.x - a.x < QuadrantMargin
      /\ a.y - b.y < QuadrantMargin /\ b.y - a.y < QuadrantMargin
  BY <1>1 DEF Size
<1> DEFINE ax == Size(a.x)
           ay == Size(a.y)
           bx == Size(b.x)
           by == Size(b.y)
<1>3. /\ ax \in Nat /\ ay \in Nat /\ bx \in Nat /\ by \in Nat
      /\ ax - bx < QuadrantMargin /\ bx - ax < QuadrantMargin
      /\ ay - by < QuadrantMargin /\ by - ay < QuadrantMargin
  BY <1>1, <1>2 DEF Size
<1>4. /\ ax >= ay + QuadrantMargin \/ ay >= ax + QuadrantMargin
      /\ bx >= by + QuadrantMargin \/ by >= bx + QuadrantMargin
  BY DEF UpAxis
<1>5. CASE ax >= ay + QuadrantMargin
  <2>1. bx >= by + QuadrantMargin
    BY <1>1, <1>3, <1>4, <1>5
  <2>2. a.x > 0 <=> b.x > 0
    BY <1>1, <1>2, <1>3, <1>5, <2>1 DEF Size
  <2>3. QED BY <1>5, <2>1, <2>2 DEF UpAxis
<1>6. CASE ~(ax >= ay + QuadrantMargin)
  <2>1. ay >= ax + QuadrantMargin /\ by >= bx + QuadrantMargin /\ ~(bx >= by + QuadrantMargin)
    BY <1>1, <1>3, <1>4, <1>6
  <2>2. a.y > 0 <=> b.y > 0
    BY <1>1, <1>2, <1>3, <2>1 DEF Size
  <2>3. QED BY <1>6, <2>1, <2>2 DEF UpAxis
<1>7. QED BY <1>5, <1>6

LEMMA AskedType == ASSUME NEW a \in Acceleration PROVE Asked(a) \in ScreenRotation \cup {NoRotation}
  BY DEF Asked, UpAxis, ScreenRotation

LEMMA NoRotationIsNone == NoRotation \notin ScreenRotation
  BY DEF NoRotation, ScreenRotation

LEMMA SettlerAgedType == ASSUME NEW s \in Settler PROVE SettlerAged(s) \in Settler
<1>1. CASE s.candidate # NoCandidate /\ s.candidate.held < SettleMs
  <2>1. s.candidate \in Candidate
    BY <1>1 DEF Settler
  <2>2. [s.candidate EXCEPT !.held = @ + 1] \in Candidate
    BY <1>1, <2>1, RotationAssumption DEF Candidate
  <2>3. SettlerAged(s) = [s EXCEPT !.candidate = [s.candidate EXCEPT !.held = @ + 1]]
    BY <1>1 DEF SettlerAged
  <2>4. QED BY <2>2, <2>3, Zenon DEF Settler
<1>2. QED BY <1>1 DEF SettlerAged

LEMMA SettlerUpdatedType ==
  ASSUME NEW s \in Settler, NEW a \in Acceleration
  PROVE  SettlerUpdated(s, a) \in Settler
<1> DEFINE wanted == RotationFor(a, s.showing)
<1>1. wanted \in ScreenRotation
  BY AskedType DEF RotationFor, Settler
<1>2. [rotation |-> wanted, held |-> 0] \in Candidate
  BY <1>1, RotationAssumption DEF Candidate
<1> HIDE DEF wanted
<1>3. /\ [s EXCEPT !.candidate = NoCandidate] \in Settler
      /\ [s EXCEPT !.candidate = [rotation |-> wanted, held |-> 0]] \in Settler
      /\ [showing |-> wanted, candidate |-> NoCandidate] \in Settler
  BY <1>1, <1>2, Zenon DEF Settler
<1>4. QED BY <1>3 DEF SettlerUpdated, wanted

-----------------------------------------------------------------------------
(* Types.                                                                  *)

\* TypeOK, and that a cycle past its first read holds a picture.
Types == TypeOK /\ (at \in {"aim", "turn", "clear", "paint"} => next \in Shown)

LEMMA Marks == Blank \notin Picture /\ Wreck \notin Picture /\ Nothing \notin Shown
<1>1. Blank \notin Picture /\ Wreck \notin Picture
  <2>1. \A p \in Picture : DOMAIN p = {"scene", "frame", "rotation"}
    BY DEF Picture
  <2>2. DOMAIN Blank = {"mark"} /\ DOMAIN Wreck = {"mark"}
    BY DEF Blank, Wreck
  <2>3. QED BY <2>1, <2>2
<1>2. Nothing \notin Shown
  BY <1>1 DEF Nothing, Shown
<1>3. QED BY <1>1, <1>2

LEMMA ComposedType ==
  ASSUME NEW s \in Scene, NEW rotation \in ScreenRotation, glass \in Shown \cup {Nothing}
  PROVE  Composed(s, rotation) \in Shown
<1> DEFINE kept == glass # Nothing /\ glass.picture.scene.anchor = s.anchor
           age  == IF kept THEN glass.age ELSE 0
<1>1. 0 \in 0 .. Frames - 1
  BY GlassAssumption
<1>2. age \in 0 .. Frames - 1
  BY <1>1 DEF Shown
<1> HIDE DEF age
<1>3. [scene |-> s, frame |-> IF Still(s) THEN 0 ELSE age, rotation |-> rotation] \in Picture
  BY <1>1, <1>2 DEF Picture
<1>4. QED BY <1>2, <1>3 DEF Composed, Shown, age

LEMMA InitTypes == Init => Types
<1> SUFFICES ASSUME Init PROVE Types
  OBVIOUS
<1>1. settler \in Settler /\ 0 \in ScreenRotation
  BY DEF Init, NewSettler, Settler, ScreenRotation
<1>2. 0 \in 0 .. MaxFaults /\ 0 \in 0 .. SettleMs
  BY GlassAssumption, RotationAssumption
<1>3. QED BY <1>1, <1>2 DEF Init, Types, TypeOK, Places

LEMMA TypesKept == Types /\ [Next]_glassVars => Types'
<1> SUFFICES ASSUME Types, [Next]_glassVars PROVE Types'
  OBVIOUS
<1> USE DEF Types
<1>1. CASE SceneChanges
  BY <1>1 DEF SceneChanges, TypeOK, lightVars, turnVars, renderVars
<1>2. CASE \E reading \in Readings : FeedRotation(reading)
  <2>1. PICK reading \in Readings : FeedRotation(reading)
    BY <1>2
  <2>2. reading \in Acceleration
    BY GlassAssumption
  <2>3. settler' \in Settler
    BY <2>1, <2>2, SettlerUpdatedType DEF FeedRotation, TypeOK
  <2>4. asking' \in [rotation : ScreenRotation \cup {NoRotation}, since : 0 .. SettleMs]
    <3>1. [rotation |-> Asked(reading), since |-> 0]
            \in [rotation : ScreenRotation \cup {NoRotation}, since : 0 .. SettleMs]
      BY <2>2, AskedType, RotationAssumption
    <3>2. QED BY <2>1, <3>1 DEF FeedRotation, TypeOK
  <2>5. QED BY <2>1, <2>3, <2>4 DEF FeedRotation, TypeOK, lightVars, renderVars
<1>3. CASE SwitchRail
  BY <1>3 DEF SwitchRail, TypeOK, turnVars, renderVars
<1>4. CASE SwitchFails
  <2>1. faults' \in 0 .. MaxFaults
    BY <1>4, GlassAssumption DEF SwitchFails, TypeOK
  <2>2. QED BY <1>4, <2>1 DEF SwitchFails, TypeOK, lightVars, turnVars, renderVars
<1>5. CASE SwitchFlag
  BY <1>5 DEF SwitchFlag, TypeOK, turnVars, renderVars
<1>6. CASE TimePasses
  <2>1. settler' \in Settler
    BY <1>6, SettlerAgedType DEF TimePasses, TypeOK
  <2>2. asking' \in [rotation : ScreenRotation \cup {NoRotation}, since : 0 .. SettleMs]
    BY <1>6, RotationAssumption DEF TimePasses, TypeOK
  <2>3. glass' \in Shown \cup {Nothing}
    <3>1. CASE glass = Nothing
      BY <1>6, <3>1 DEF TimePasses
    <3>2. CASE glass \in Shown
      <4>1. (glass.age + 1) % Frames \in 0 .. Frames - 1
        BY <3>2, GlassAssumption DEF Shown
      <4>2. [glass EXCEPT !.age = (@ + 1) % Frames] \in Shown
        BY <3>2, <4>1 DEF Shown
      <4>3. QED BY <1>6, <3>2, <4>2, Marks DEF TimePasses
    <3>3. QED BY <3>1, <3>2 DEF TypeOK
  <2>4. QED BY <1>6, <2>1, <2>2, <2>3 DEF TimePasses, TypeOK, lightVars
<1>7. CASE Look
  BY <1>7 DEF Look, TypeOK, Places, lightVars, turnVars
<1>8. CASE ReadState
  <2>1. next' \in Shown
    BY <1>8, ComposedType DEF ReadState, TypeOK
  <2>2. QED BY <1>8, <2>1 DEF ReadState, TypeOK, Places, lightVars, turnVars
<1>9. CASE ReadRotation
  <2>1. next \in Shown /\ next.picture.scene \in Scene /\ settler.showing \in ScreenRotation
    BY <1>9 DEF ReadRotation, TypeOK, Shown, Picture, Settler
  <2>2. Composed(next.picture.scene, settler.showing) \in Shown
    BY <2>1, ComposedType DEF TypeOK
  <2>3. /\ next' \in Shown \cup {Nothing}
        /\ at' \in {"look", "turn", "paint"}
        /\ at' # "look" => next' \in Shown
    BY <1>9, <2>2 DEF ReadRotation
  <2>4. QED BY <1>9, <2>3 DEF ReadRotation, TypeOK, Places, lightVars, turnVars
<1>10. ASSUME NEW left \in Picture \cup {Blank, Wreck}, Fails(left), marred' \in BOOLEAN,
              UNCHANGED <<scene, lightVars, turnVars>>
       PROVE  Types'
  <2>1. faults' \in 0 .. MaxFaults
    BY <1>10, GlassAssumption DEF Fails, TypeOK
  <2>2. QED BY <1>10, <2>1 DEF Fails, TypeOK, Places, lightVars, turnVars
<1>11. CASE Turn
  <2>1. next \in Shown /\ next.picture.rotation \in ScreenRotation
    BY <1>11 DEF Turn, Shown, Picture
  <2>2. CASE Fails(pixels) /\ UNCHANGED marred
    BY <1>10, <1>11, <2>2 DEF Turn, TypeOK
  <2>3. CASE ~(Fails(pixels) /\ UNCHANGED marred)
    BY <1>11, <2>1, <2>3 DEF Turn, TypeOK, Places, lightVars, turnVars
  <2>4. QED BY <2>2, <2>3
<1>12. CASE ClearTurned
  <2>1. next \in Shown /\ next.picture.rotation \in ScreenRotation
    BY <1>12 DEF ClearTurned, Shown, Picture
  <2>2. CASE Fails(Wreck) /\ marred' = TRUE
    BY <1>10, <1>12, <2>2 DEF ClearTurned
  <2>3. CASE ~(Fails(Wreck) /\ marred' = TRUE)
    BY <1>12, <2>1, <2>3 DEF ClearTurned, TypeOK, Places, lightVars, turnVars
  <2>4. QED BY <2>2, <2>3
<1>13. CASE Paint
  <2>1. next \in Shown /\ next.picture \in Picture
    BY <1>13 DEF Paint, Shown
  <2>2. CASE Fails(Wreck) /\ marred' = TRUE
    BY <1>10, <1>13, <2>2 DEF Paint
  <2>3. CASE ~(Fails(Wreck) /\ marred' = TRUE)
    BY <1>13, <2>1, <2>3 DEF Paint, TypeOK, Places, lightVars, turnVars
  <2>4. QED BY <2>2, <2>3
<1>14. CASE UNCHANGED glassVars
  BY <1>14 DEF glassVars, renderVars, lightVars, turnVars, TypeOK
<1>15. QED
  BY <1>1, <1>2, <1>3, <1>4, <1>5, <1>6, <1>7, <1>8, <1>9, <1>11, <1>12, <1>13, <1>14 DEF Next, Render

LEMMA TypesHold == Spec => []Types
  BY InitTypes, TypesKept, PTL DEF Spec

\* Every variable keeps its type.
THEOREM GlassTypes == Spec => []TypeOK
<1>1. Types => TypeOK
  BY DEF Types
<1>2. QED BY TypesHold, <1>1, PTL

-----------------------------------------------------------------------------
(* The picture remembered and the picture on the panel.                     *)

Remembered == pixels = glass.picture /\ scan = glass.picture.rotation

Faithful ==
  /\ at = "clear" => scan = next.picture.rotation
  /\ at = "paint" => showing = next.picture.rotation
  /\ ~marred /\ at # "clear" => showing = scan
  /\ ~marred /\ at \in {"look", "read", "aim", "turn"} /\ glass # Nothing => Remembered
  /\ glass # Nothing /\ Still(glass.picture.scene) => glass.picture.frame = 0
  /\ at \in {"turn", "clear", "paint"} =>
       next = Composed(next.picture.scene, next.picture.rotation)

LEMMA ComposedFacts ==
  ASSUME NEW s, NEW rotation
  PROVE  /\ Composed(s, rotation).picture.scene = s
         /\ Composed(s, rotation).picture.rotation = rotation
         /\ Still(s) => Composed(s, rotation).picture.frame = 0
         /\ (glass = Nothing \/ glass.picture.scene.anchor # s.anchor)
              => Composed(s, rotation).picture.frame = 0
  BY DEF Composed

LEMMA InitFaithful == Init => Faithful
  BY DEF Init, Faithful

LEMMA FaithfulKept == Types /\ Faithful /\ [Next]_glassVars => Faithful'
<1> SUFFICES ASSUME Types, Faithful, [Next]_glassVars PROVE Faithful'
  OBVIOUS
<1>1. CASE UNCHANGED renderVars
  BY <1>1 DEF renderVars, Faithful, Remembered, Composed
<1>2. CASE TimePasses
  <2>1. /\ at = "look" /\ UNCHANGED <<at, next, pixels, scan, showing, marred>>
        /\ glass' = IF glass = Nothing THEN glass ELSE [glass EXCEPT !.age = (@ + 1) % Frames]
    BY <1>2 DEF TimePasses
  <2>2. CASE glass = Nothing
    BY <2>1, <2>2 DEF Faithful, Remembered
  <2>3. CASE glass # Nothing
    <3>1. glass \in Shown
      BY <2>3 DEF Types, TypeOK
    <3>2. glass'.picture = glass.picture
      BY <2>1, <2>3, <3>1 DEF Shown
    <3>3. QED BY <2>1, <2>3, <3>2 DEF Faithful, Remembered
  <2>4. QED BY <2>2, <2>3
<1>3. CASE Look
  BY <1>3 DEF Look, Faithful, Remembered
<1>4. CASE ReadState
  BY <1>4 DEF ReadState, Faithful, Remembered
<1>5. CASE ReadRotation
  <2> DEFINE aimed == Composed(next.picture.scene, settler.showing)
  <2>1. /\ at = "aim" /\ UNCHANGED <<glass, pixels, scan, showing, marred>>
        /\ next' = IF glass = aimed THEN Nothing ELSE aimed
        /\ at' = IF glass = aimed THEN "look"
                 ELSE IF settler.showing = showing THEN "paint" ELSE "turn"
    BY <1>5 DEF ReadRotation
  <2>2. aimed.picture.scene = next.picture.scene /\ aimed.picture.rotation = settler.showing
    BY ComposedFacts
  <2>3. aimed = Composed(aimed.picture.scene, aimed.picture.rotation)
    BY <2>2
  <2> HIDE DEF aimed
  <2>4. \A s, r : Composed(s, r)' = Composed(s, r)'
    OBVIOUS
  <2>5. at' \in {"turn", "clear", "paint"}
          => next' = Composed(next.picture.scene, next.picture.rotation)'
    BY <2>1, <2>2, <2>3 DEF Composed
  <2>6. at' = "paint" => showing' = next'.picture.rotation
    BY <2>1, <2>2
  <2>7. QED BY <2>1, <2>5, <2>6 DEF Faithful, Remembered
<1>6. ASSUME NEW left, Fails(left), marred' = TRUE
      PROVE  Faithful'
  BY <1>6 DEF Fails, Faithful
<1>7. CASE Turn
  <2>1. CASE Fails(pixels) /\ UNCHANGED marred
    BY <1>7, <2>1 DEF Turn, Fails, Faithful, Remembered
  <2>2. CASE ~(Fails(pixels) /\ UNCHANGED marred)
    <3>1. /\ at = "turn" /\ at' = "clear" /\ scan' = next.picture.rotation
          /\ UNCHANGED <<next, glass, showing, marred>>
      BY <1>7, <2>2 DEF Turn
    <3>2. QED BY <3>1 DEF Faithful, Composed
  <2>3. QED BY <2>1, <2>2
<1>8. CASE ClearTurned
  <2>1. CASE Fails(Wreck) /\ marred' = TRUE
    BY <1>6, <2>1
  <2>2. CASE ~(Fails(Wreck) /\ marred' = TRUE)
    <3>1. /\ at = "clear" /\ at' = "paint" /\ showing' = next.picture.rotation
          /\ UNCHANGED <<next, glass, scan, marred>>
      BY <1>8, <2>2 DEF ClearTurned
    <3>2. QED BY <3>1 DEF Faithful, Composed
  <2>3. QED BY <2>1, <2>2
<1>9. CASE Paint
  <2>1. CASE Fails(Wreck) /\ marred' = TRUE
    BY <1>6, <2>1
  <2>2. CASE ~(Fails(Wreck) /\ marred' = TRUE)
    <3>1. /\ at = "paint" /\ at' = "look" /\ pixels' = next.picture /\ glass' = next
          /\ marred' = (scan # next.picture.rotation) /\ UNCHANGED <<scan, showing>>
      BY <1>9, <2>2 DEF Paint
    <3>2. showing = next.picture.rotation
      BY <3>1 DEF Faithful
    <3>3. Still(next.picture.scene) => next.picture.frame = 0
      BY <3>1, ComposedFacts DEF Faithful
    <3>4. QED BY <3>1, <3>2, <3>3 DEF Faithful, Remembered, Still
  <2>3. QED BY <2>1, <2>2
<1>10. QED
  BY <1>1, <1>2, <1>3, <1>4, <1>5, <1>7, <1>8, <1>9
  DEF Next, Render, SceneChanges, FeedRotation, SwitchRail, SwitchFails, SwitchFlag, glassVars

LEMMA FaithfulHolds == Spec => []Faithful
  BY InitFaithful, FaithfulKept, TypesHold, PTL DEF Spec

\* Between cycles and up to the comparison, what the display thread remembers
\* is what the panel holds, whatever turns, darkness and faults came before,
\* unless a failed paint spoilt it (display.rs, render_once; panel.rs).
THEOREM MemoryIsAlwaysThePicture == Spec => []MemoryIsThePicture
<1>1. Faithful => MemoryIsThePicture
  BY DEF Faithful, Remembered, MemoryIsThePicture
<1>2. QED BY FaithfulHolds, <1>1, PTL

\* A still picture that is whole on the panel is never painted again
\* (display.rs: "a still state paints once").
THEOREM UnchangedIsNeverRepainted == Spec => UnchangedIsNotRepainted
<1>1. Types /\ Faithful /\ [Next]_glassVars =>
        [PaintBegins =>
           \/ marred \/ glass = Nothing
           \/ ~Shows(next'.picture.scene, next'.picture.rotation)
           \/ ~Still(next'.picture.scene)]_glassVars
  <2> SUFFICES ASSUME Types, Faithful, Next, PaintBegins, ~marred, glass # Nothing,
                      Shows(next'.picture.scene, next'.picture.rotation),
                      Still(next'.picture.scene)
               PROVE  FALSE
    OBVIOUS
  <2> DEFINE aimed == Composed(next.picture.scene, settler.showing)
  <2>1. /\ at = "aim" /\ glass # aimed /\ next' = aimed
    <3>1. ReadRotation
      BY DEF PaintBegins, Next, Render, SceneChanges, FeedRotation, SwitchRail, SwitchFails,
             SwitchFlag, TimePasses, Look, ReadState, Turn, ClearTurned, Paint, renderVars
    <3>2. QED BY <3>1 DEF ReadRotation, PaintBegins
  <2>2. /\ aimed.picture.scene = next.picture.scene /\ aimed.picture.rotation = settler.showing
    BY ComposedFacts
  <2> DEFINE s == next.picture.scene
  <2>3. pixels = glass.picture /\ glass \in Shown
    BY <2>1 DEF Faithful, Remembered, Types, TypeOK
  <2>4. glass.picture.scene = s /\ glass.picture.rotation = settler.showing /\ Still(s)
    BY <2>1, <2>2, <2>3 DEF Shows
  <2>5. glass.picture.frame = 0
    BY <2>4 DEF Faithful
  <2>6. aimed = [picture |-> [scene |-> s, frame |-> 0, rotation |-> settler.showing],
                 age |-> glass.age]
    BY <2>4 DEF Composed
  <2>7. glass = [picture |-> [scene |-> s, frame |-> 0, rotation |-> settler.showing],
                 age |-> glass.age]
    BY <2>3, <2>4, <2>5 DEF Shown, Picture
  <2>8. QED BY <2>1, <2>6, <2>7
<1>2. QED BY TypesHold, FaithfulHolds, <1>1, PTL DEF Spec, UnchangedIsNotRepainted

\* A creature whose anchor changed, or whose glass was dark, is painted from its
\* first frame (display.rs: "a creature always starts at its first frame on a
\* real transition").
THEOREM CreaturesStartOver == Spec => CreatureStartsOver
<1>1. Faithful /\ [Next]_glassVars =>
        [(at = "paint" /\ glass' # glass
            /\ (glass = Nothing \/ glass.picture.scene.anchor # glass'.picture.scene.anchor))
         => glass'.picture.frame = 0]_glassVars
  <2> SUFFICES ASSUME Faithful, Next, at = "paint", glass' # glass,
                      glass = Nothing \/ glass.picture.scene.anchor # glass'.picture.scene.anchor
               PROVE  glass'.picture.frame = 0
    OBVIOUS
  <2>1. Paint
    BY DEF Next, Render, SceneChanges, FeedRotation, SwitchRail, SwitchFails,
           SwitchFlag, TimePasses, Look, ReadState, ReadRotation, Turn, ClearTurned, renderVars
  <2>2. glass' = next
    BY <2>1 DEF Paint, Fails
  <2>3. next = Composed(next.picture.scene, next.picture.rotation)
    BY DEF Faithful
  <2>4. QED BY <2>2, <2>3, ComposedFacts
<1>2. QED BY FaithfulHolds, <1>1, PTL DEF Spec, CreatureStartsOver

-----------------------------------------------------------------------------
(* The settler.                                                            *)

\* A candidate has been asked for by every reading since it was first seen.
Argued ==
  settler.candidate # NoCandidate =>
    asking.rotation = settler.candidate.rotation /\ asking.since >= settler.candidate.held

LEMMA FeedArgued ==
  ASSUME Types, Argued, NEW reading \in Readings, FeedRotation(reading)
  PROVE  /\ Argued'
         /\ settler'.showing # settler.showing
              => asking'.rotation = settler'.showing /\ asking'.since >= SettleMs
<1> DEFINE wanted == RotationFor(reading, settler.showing)
<1>1. /\ settler \in Settler /\ settler' = SettlerUpdated(settler, reading)
      /\ asking \in [rotation : ScreenRotation \cup {NoRotation}, since : 0 .. SettleMs]
      /\ asking' = IF Asked(reading) = asking.rotation THEN asking
                   ELSE [rotation |-> Asked(reading), since |-> 0]
  BY DEF FeedRotation, Types, TypeOK
<1>2. wanted # settler.showing => Asked(reading) = wanted
  BY DEF RotationFor
<1>3. CASE wanted = settler.showing
  <2>1. settler' = [settler EXCEPT !.candidate = NoCandidate]
    BY <1>1, <1>3 DEF SettlerUpdated
  <2>2. QED BY <1>1, <2>1 DEF Settler, Argued
<1>4. CASE wanted # settler.showing /\ wanted # settler.candidate.rotation
  <2>1. settler' = [settler EXCEPT !.candidate = [rotation |-> wanted, held |-> 0]]
    BY <1>1, <1>4 DEF SettlerUpdated
  <2>2. /\ settler'.showing = settler.showing /\ settler'.candidate = [rotation |-> wanted, held |-> 0]
    BY <1>1, <2>1 DEF Settler
  <2>3. asking'.rotation = wanted /\ asking'.since \in Nat
    BY <1>1, <1>2, <1>4, RotationAssumption
  <2>4. settler'.candidate.rotation = wanted /\ settler'.candidate.held = 0
    BY <2>2
  <2>5. QED BY <2>2, <2>3, <2>4 DEF Argued
<1>5. CASE wanted # settler.showing /\ wanted = settler.candidate.rotation
  <2>1. settler' = IF settler.candidate.held >= SettleMs
                   THEN [showing |-> wanted, candidate |-> NoCandidate] ELSE settler
    BY <1>1, <1>5 DEF SettlerUpdated
  <2>2. Asked(reading) = wanted /\ wanted # NoRotation
    BY <1>1, <1>2, <1>5, NoRotationIsNone DEF RotationFor, Settler
  <2>3. settler.candidate # NoCandidate /\ settler.candidate \in Candidate
    BY <1>1, <1>5, <2>2 DEF NoCandidate, Settler
  <2>4. asking' = asking /\ asking.rotation = wanted /\ asking.since >= settler.candidate.held
    BY <1>1, <1>5, <2>2, <2>3 DEF Argued
  <2>5. CASE settler.candidate.held >= SettleMs
    <3>1. asking.since >= SettleMs
      BY <1>1, <2>3, <2>4, <2>5, RotationAssumption DEF Candidate
    <3>2. QED BY <2>1, <2>4, <2>5, <3>1 DEF Argued
  <2>6. CASE ~(settler.candidate.held >= SettleMs)
    BY <2>1, <2>3, <2>4, <2>6 DEF Argued
  <2>7. QED BY <2>5, <2>6
<1>6. QED BY <1>3, <1>4, <1>5

LEMMA TimeArgued ==
  ASSUME Types, Argued, TimePasses
  PROVE  Argued' /\ settler'.showing = settler.showing
<1>1. /\ settler \in Settler /\ settler' = SettlerAged(settler)
      /\ asking \in [rotation : ScreenRotation \cup {NoRotation}, since : 0 .. SettleMs]
      /\ asking' = IF asking.since < SettleMs THEN [asking EXCEPT !.since = @ + 1] ELSE asking
  BY DEF TimePasses, Types, TypeOK
<1>2. CASE settler.candidate # NoCandidate /\ settler.candidate.held < SettleMs
  <2>1. settler.candidate \in Candidate
    BY <1>1, <1>2 DEF Settler
  <2>2. settler' = [settler EXCEPT !.candidate = [settler.candidate EXCEPT !.held = @ + 1]]
    BY <1>1, <1>2 DEF SettlerAged
  <2>3. /\ settler'.showing = settler.showing
        /\ settler'.candidate = [settler.candidate EXCEPT !.held = @ + 1]
    BY <1>1, <2>2 DEF Settler
  <2>4. /\ settler'.candidate.rotation = settler.candidate.rotation
        /\ settler'.candidate.held = settler.candidate.held + 1
        /\ settler.candidate.held \in Nat
    BY <2>1, <2>3 DEF Candidate
  <2>5. /\ asking.rotation = settler.candidate.rotation /\ asking.since >= settler.candidate.held
    BY <1>2 DEF Argued
  <2>6. asking'.rotation = asking.rotation /\ asking'.since >= settler.candidate.held + 1
    BY <1>1, <1>2, <2>4, <2>5, RotationAssumption
  <2>7. QED BY <2>3, <2>4, <2>5, <2>6 DEF Argued
<1>3. CASE ~(settler.candidate # NoCandidate /\ settler.candidate.held < SettleMs)
  <2>1. settler' = settler
    BY <1>1, <1>3 DEF SettlerAged
  <2>2. asking'.rotation = asking.rotation /\ asking'.since >= asking.since
    BY <1>1, RotationAssumption
  <2>3. settler.candidate # NoCandidate => settler.candidate.held \in Nat
    BY <1>1, RotationAssumption DEF Settler, Candidate
  <2>4. QED BY <1>1, <2>1, <2>2, <2>3, RotationAssumption DEF Argued
<1>4. QED BY <1>2, <1>3

LEMMA TurnVarsKept ==
  ASSUME [Next]_glassVars, \A reading \in Readings : ~FeedRotation(reading), ~TimePasses
  PROVE  UNCHANGED <<settler, asking>>
  BY DEF Next, Render, SceneChanges, SwitchRail, SwitchFails, SwitchFlag, Look, ReadState,
         ReadRotation, Turn, ClearTurned, Paint, Fails, turnVars, glassVars

\* No picture turns on a pose passed through: every reading since the candidate
\* was first seen asked for it, for SettleMs (rotation.rs, RotationSettler).
THEOREM TurnsAreAlwaysSettled == Spec => TurnsAreSettled
<1>1. Init => Argued
  BY DEF Init, Argued, NewSettler
<1>2. Types /\ Argued /\ [Next]_glassVars =>
        /\ Argued'
        /\ [settler'.showing # settler.showing =>
              asking'.rotation = settler'.showing /\ asking'.since >= SettleMs]_glassVars
  <2> SUFFICES ASSUME Types, Argued, [Next]_glassVars
               PROVE  /\ Argued'
                      /\ settler'.showing # settler.showing =>
                            asking'.rotation = settler'.showing /\ asking'.since >= SettleMs
    OBVIOUS
  <2>1. CASE \E reading \in Readings : FeedRotation(reading)
    BY <2>1, FeedArgued
  <2>2. CASE TimePasses
    BY <2>2, TimeArgued
  <2>3. CASE UNCHANGED <<settler, asking>>
    BY <2>3 DEF Argued
  <2>4. QED BY <2>1, <2>2, <2>3, TurnVarsKept
<1>3. QED BY TypesHold, <1>1, <1>2, PTL DEF Spec, TurnsAreSettled

-----------------------------------------------------------------------------
(* The glass catches up.  What fairness says of the two threads is written out *)
(* here, with the states in which each has nothing to do in place of ENABLED.  *)

\* The display thread goes on, but for looks at a glass that it has found dark.
DisplayRuns ==
  []<>(at = "look" /\ ~lit /\ glass = Nothing) \/ []<><<Render>>_glassVars

\* A switch that has written the rail goes on to the flag.
SwitchRuns == []<>~switching \/ []<><<SwitchFlag>>_glassVars

\* Transfers and PMIC writes do not fail for ever (MaxFaults bounds them).
FaultsEnd == <>[][faults' = faults]_glassVars

Flagged == ~switching => lit = rail

Aligned == ~marred /\ pixels # Blank /\ pixels # Wreck => pixels.rotation = scan

Sound == Types /\ Faithful /\ Flagged /\ Aligned

\* A step at rest: the app, the board and the switch rest, and nothing fails.
RestStep ==
  /\ [Next]_glassVars
  /\ UNCHANGED <<scene, settler.showing, rail>>
  /\ faults' = faults

\* What this cycle has read so far is the app's state, and the way up.
Current ==
  CASE at \in {"look", "read"} -> TRUE
    [] at = "aim" -> next.picture.scene = scene
    [] OTHER -> next.picture.scene = scene /\ next.picture.rotation = settler.showing

CaughtUp ==
  /\ Current
  /\ marred \/ (Shows(scene, settler.showing) /\ at \notin {"turn", "clear"})

LEMMA FlagKept == Types /\ Flagged /\ [Next]_glassVars => Flagged'
<1> SUFFICES ASSUME Types, Flagged, [Next]_glassVars PROVE Flagged'
  OBVIOUS
<1>1. CASE SwitchRail \/ SwitchFlag
  BY <1>1 DEF SwitchRail, SwitchFlag, Flagged
<1>2. CASE UNCHANGED lightVars
  BY <1>2 DEF lightVars, Flagged
<1>3. QED
  BY <1>1, <1>2 DEF Next, Render, SceneChanges, FeedRotation, SwitchFails, TimePasses,
     Look, ReadState, ReadRotation, Turn, ClearTurned, Paint, glassVars

LEMMA AlignedKept == Types /\ Aligned /\ [Next]_glassVars => Aligned'
<1> SUFFICES ASSUME Types, Aligned, [Next]_glassVars PROVE Aligned'
  OBVIOUS
<1>1. CASE UNCHANGED <<pixels, scan, marred>>
  BY <1>1 DEF Aligned
<1>2. CASE Turn \/ ClearTurned \/ Paint
  BY <1>2 DEF Turn, ClearTurned, Paint, Fails, Aligned
<1>3. QED
  BY <1>1, <1>2 DEF Next, Render, SceneChanges, FeedRotation, SwitchRail, SwitchFlag,
     SwitchFails, TimePasses, Look, ReadState, ReadRotation, renderVars, glassVars

LEMMA SoundHolds == Spec => []Sound
<1>1. Init => Flagged /\ Aligned
  BY DEF Init, Flagged, Aligned
<1>2. QED
  BY <1>1, FlagKept, AlignedKept, TypesHold, FaithfulHolds, PTL DEF Spec, Sound

\* Only the display thread moves its cycle on, and its steps at rest go from one
\* place to the next.
LEMMA CycleSteps ==
  ASSUME Sound, RestStep, lit
  PROVE  /\ Current => Current'
         /\ at = "look"  => at' = "look"  \/ at' = "read"
         /\ at = "read"  => at' = "read"  \/ at' = "aim"
         /\ at = "aim"   => at' = "aim"   \/ at' \in {"turn", "paint"}
                              \/ (at' = "look" /\ (Current => CaughtUp'))
         /\ at = "turn"  => at' = "turn"  \/ at' = "clear"
         /\ at = "clear" => at' = "clear" \/ at' = "paint"
         /\ at = "paint" => at' = "paint" \/ (at' = "look" /\ (Current => CaughtUp'))
         /\ Render => at' # at
<1> USE DEF RestStep
<1>1. CASE UNCHANGED <<at, next>> /\ ~Render
  BY <1>1 DEF Current
<1>2. CASE Look
  BY <1>2 DEF Look, Current
<1>3. CASE ReadState
  BY <1>3, ComposedFacts DEF ReadState, Current
<1>4. CASE ReadRotation
  <2> DEFINE aimed == Composed(next.picture.scene, settler.showing)
  <2>1. /\ at = "aim" /\ UNCHANGED <<glass, pixels, scan, showing, marred>>
        /\ next' = IF glass = aimed THEN Nothing ELSE aimed
        /\ at' = IF glass = aimed THEN "look"
                 ELSE IF settler.showing = showing THEN "paint" ELSE "turn"
    BY <1>4 DEF ReadRotation
  <2>2. aimed.picture.scene = next.picture.scene /\ aimed.picture.rotation = settler.showing
    BY ComposedFacts
  <2> HIDE DEF aimed
  <2>3. CASE glass = aimed
    <3>1. at' = "look" /\ Current'
      BY <2>1, <2>3 DEF Current
    <3>2. glass # Nothing
      <4>1. next \in Shown /\ next.picture.scene \in Scene /\ settler.showing \in ScreenRotation
        BY <2>1 DEF Sound, Types, TypeOK, Shown, Picture, Settler
      <4>2. aimed \in Shown
        BY <4>1, ComposedType DEF Sound, Types, TypeOK, aimed
      <4>3. QED
        BY <4>2, <2>3, Marks
    <3>3. ~marred => pixels = glass.picture /\ glass \in Shown
      BY <2>1, <3>2 DEF Sound, Types, TypeOK, Faithful, Remembered
    <3>4. ~marred => pixels # Blank /\ pixels # Wreck
      BY <3>3, Marks DEF Shown
    <3>5. Current => CaughtUp'
      BY <2>1, <2>2, <2>3, <3>1, <3>3, <3>4 DEF Current, CaughtUp, Shows
    <3>6. QED
      BY <2>1, <3>1, <3>5
  <2>4. CASE glass # aimed
    BY <2>1, <2>2, <2>4 DEF Current
  <2>5. QED
    BY <2>3, <2>4
<1>5. CASE Turn
  <2>1. faults \in Nat
    BY GlassAssumption DEF Sound, Types, TypeOK
  <2>2. QED
    BY <1>5, <2>1 DEF Turn, Fails, Current
<1>6. CASE ClearTurned
  <2>1. faults \in Nat
    BY GlassAssumption DEF Sound, Types, TypeOK
  <2>2. QED
    BY <1>6, <2>1 DEF ClearTurned, Fails, Current
<1>7. CASE Paint
  <2>1. faults \in Nat
    BY GlassAssumption DEF Sound, Types, TypeOK
  <2>2. /\ at = "paint" /\ at' = "look" /\ pixels' = next.picture
    BY <1>7, <2>1 DEF Paint, Fails
  <2>3. next.picture # Blank /\ next.picture # Wreck
    BY <2>2, Marks DEF Sound, Types, Shown
  <2>4. QED
    BY <2>2, <2>3 DEF Current, CaughtUp, Shows
<1>8. QED
  BY <1>1, <1>2, <1>3, <1>4, <1>5, <1>6, <1>7
  DEF Next, Render, SceneChanges, FeedRotation, SwitchRail, SwitchFails, SwitchFlag,
      TimePasses, renderVars, glassVars, Look, ReadState, ReadRotation, Turn, ClearTurned, Paint

\* What has caught up stays so: it is not turned, and painted only over itself.
LEMMA CaughtUpStays ==
  ASSUME Sound, RestStep, lit, CaughtUp
  PROVE  CaughtUp'
<1> USE DEF RestStep
<1>1. Current'
  BY CycleSteps DEF CaughtUp
<1>2. CASE Turn \/ ClearTurned
  BY <1>1, <1>2, GlassAssumption
  DEF Turn, ClearTurned, Fails, CaughtUp, Sound, Types, TypeOK
<1>3. CASE Paint
  BY <1>3, CycleSteps DEF Paint, CaughtUp
<1>4. CASE UNCHANGED <<pixels, marred>> /\ at' \notin {"turn", "clear"}
  BY <1>1, <1>4 DEF CaughtUp, Shows
<1>5. CASE ReadRotation
  <2>1. /\ at = "aim" /\ UNCHANGED <<pixels, marred>>
        /\ at' \in {"look", "paint"} \/ (at' = "turn" /\ settler.showing # showing)
    BY <1>5 DEF ReadRotation
  <2>2. ~marred => settler.showing = showing
    BY <2>1 DEF CaughtUp, Shows, Sound, Faithful, Aligned
  <2>3. QED
    BY <1>1, <2>1, <2>2 DEF CaughtUp, Shows
<1>6. QED
  BY <1>1, <1>2, <1>3, <1>4, <1>5
  DEF Next, Render, SceneChanges, FeedRotation, SwitchRail, SwitchFails, SwitchFlag,
      TimePasses, renderVars, glassVars, Look, ReadState, CaughtUp, Shows

\* Once the app, the board and the switch rest, and transfers no longer fail, a
\* glass that is lit comes to show the app's state the right way up, and goes on
\* showing it, unless a failed paint spoilt it (render_loop and the panel adapter).
THEOREM GlassAlwaysCatchesUp ==
  Spec /\ DisplayRuns /\ SwitchRuns /\ FaultsEnd => GlassCatchesUp
<1> DEFINE Lit  == rail /\ lit /\ ~switching
           Done == ~rail \/ marred \/ Shows(scene, settler.showing)
<1>1. Sound /\ RestStep => ((rail <=> rail') /\ (rail /\ ~switching => ~switching'))
  <2> SUFFICES ASSUME Sound, RestStep
               PROVE  (rail <=> rail') /\ (rail /\ ~switching => ~switching')
    OBVIOUS
  <2>1. rail' = rail /\ rail \in BOOLEAN
    BY DEF RestStep, Sound, Types, TypeOK
  <2>2. ~SwitchRail
    BY <2>1 DEF SwitchRail
  <2>3. ~switching => ~switching'
    BY <2>2 DEF RestStep, Next, Render, SceneChanges, FeedRotation, SwitchFails, SwitchFlag,
       TimePasses, Look, ReadState, ReadRotation, Turn, ClearTurned, Paint, lightVars, glassVars
  <2>4. rail <=> rail'
    BY <2>1
  <2>5. QED
    BY <2>3, <2>4
<1>2. Sound /\ rail /\ ~switching => Lit
  BY DEF Sound, Flagged
<1>3. <<SwitchFlag>>_glassVars => ~switching'
  BY DEF SwitchFlag
<1>4. Sound /\ Lit /\ RestStep =>
        /\ Current => Current'
        /\ CaughtUp => CaughtUp'
        /\ at = "look"  => (at = "look")'  \/ (at = "read")'
        /\ at = "read"  => (at = "read")'  \/ (at = "aim")'
        /\ at = "aim"   => (at = "aim")'   \/ (at = "turn")' \/ (at = "paint")'
                             \/ ((at = "look")' /\ (Current => CaughtUp'))
        /\ at = "turn"  => (at = "turn")'  \/ (at = "clear")'
        /\ at = "clear" => (at = "clear")' \/ (at = "paint")'
        /\ at = "paint" => (at = "paint")' \/ ((at = "look")' /\ (Current => CaughtUp'))
  BY CycleSteps, CaughtUpStays
<1>5. Sound /\ Lit /\ RestStep /\ <<Render>>_glassVars =>
        /\ at = "look"  => ~(at = "look")'
        /\ at = "read"  => ~(at = "read")'
        /\ at = "aim"   => ~(at = "aim")'
        /\ at = "turn"  => ~(at = "turn")'
        /\ at = "clear" => ~(at = "clear")'
        /\ at = "paint" => ~(at = "paint")'
  BY CycleSteps
<1>6. Sound => at = "look" \/ at = "read" \/ at = "aim" \/ at = "turn" \/ at = "clear"
               \/ at = "paint"
  BY DEF Sound, Types, TypeOK, Places
<1>7. at = "look" => Current
  BY DEF Current
<1>8. CaughtUp => Done
  BY DEF CaughtUp
<1>9. Lit => ~(at = "look" /\ ~lit /\ glass = Nothing)
  OBVIOUS
<1>10. ~rail => Done
  OBVIOUS
<1> HIDE DEF Lit, Done
<1>11. [Next]_glassVars /\ [UNCHANGED <<scene, settler.showing, rail>>]_glassVars
         /\ [faults' = faults]_glassVars => RestStep
  BY DEF RestStep, glassVars, lightVars, turnVars
<1>12. QED
  BY <1>1, <1>2, <1>3, <1>4, <1>5, <1>6, <1>7, <1>8, <1>9, <1>10, <1>11, SoundHolds, PTL
  DEF Spec, DisplayRuns, SwitchRuns, FaultsEnd, AtRest, GlassCatchesUp, Done
=============================================================================

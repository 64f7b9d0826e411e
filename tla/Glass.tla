-------------------------------- MODULE Glass --------------------------------
(***************************************************************************)
(* The stick's glass.  The display thread (platform-runtime/display.rs)      *)
(* looks at the backlight flag, reads the app's state and the rotation, and  *)
(* paints only if the picture differs from the one it remembers.  The panel  *)
(* adapter (adapters/panel.rs) turns and clears before it draws, and each of *)
(* its SPI transfers may fail, leaving what it had done so far.  Meanwhile   *)
(* the app's state changes, a thread feeds the IMU's readings to the         *)
(* rotation settler, and the input thread switches the backlight.           *)
(*                                                                         *)
(* A unit of time is one IMU poll; a render cycle takes less, so time        *)
(* passes between cycles.  A failed IMU read changes nothing.               *)
(***************************************************************************)
EXTENDS Rotation

CONSTANTS
  Anchors, Values,  \* the app's states: an animation's zero, and a value on it
  Moving,           \* the anchors whose creature moves
  Frames,           \* the frames of a creature
  Readings,         \* what the IMU may read
  MaxFaults         \* bound: how many SPI transfers and PMIC writes fail

ASSUME GlassAssumption ==
  /\ Moving \subseteq Anchors
  /\ Frames \in Nat \ {0}
  /\ Readings \subseteq Acceleration
  /\ MaxFaults \in Nat

VARIABLES
  scene,      \* the app's current state
  settler,    \* SharedRotation
  rail,       \* the backlight's PMIC rail
  lit,        \* LitFlag
  switching,  \* a BacklightSwitch.set that has written the rail but not the flag
  at,         \* where the display thread is in its cycle
  next,       \* the picture the cycle would paint
  glass,      \* the picture the thread remembers painting
  pixels,     \* what is on the panel: a picture, or what a transfer left
  scan,       \* the orientation the controller scans its memory in
  showing,    \* the rotation the panel adapter believes it is at
  faults,     \* how many transfers have failed
  asking,     \* history: what the readings ask for, and for how long
  marred      \* history: a failed paint has spoilt what is on the panel

renderVars == <<at, next, glass, pixels, scan, showing, marred>>
lightVars  == <<rail, lit, switching>>
turnVars   == <<settler, asking>>
glassVars  == <<scene, lightVars, turnVars, renderVars, faults>>

Scene == [anchor : Anchors, value : Values]
Still(s) == s.anchor \notin Moving

\* Shown: `age` is now - since, which matters by the frame it falls on.
Picture == [scene : Scene, frame : 0 .. Frames - 1, rotation : ScreenRotation]
Shown   == [picture : Picture, age : 0 .. Frames - 1]
Wreck   == [mark |-> "wreck"]
Blank   == [mark |-> "blank"]
Nothing == [picture |-> Blank, age |-> 0]

Places == {"look", "read", "aim", "turn", "clear", "paint"}

TypeOK ==
  /\ scene \in Scene
  /\ settler \in Settler
  /\ rail \in BOOLEAN /\ lit \in BOOLEAN /\ switching \in BOOLEAN
  /\ at \in Places
  /\ next \in Shown \cup {Nothing}
  /\ glass \in Shown \cup {Nothing}
  /\ pixels \in Picture \cup {Blank, Wreck}
  /\ scan \in ScreenRotation /\ showing \in ScreenRotation
  /\ faults \in 0 .. MaxFaults
  /\ asking \in [rotation : ScreenRotation \cup {NoRotation}, since : 0 .. SettleMs]
  /\ marred \in BOOLEAN

\* Panel.build clears the panel at its native landscape; power_on lit the rail.
Init ==
  /\ scene \in Scene
  /\ settler = NewSettler
  /\ rail = TRUE /\ lit = TRUE /\ switching = FALSE
  /\ at = "look"
  /\ next = Nothing
  /\ glass = Nothing
  /\ pixels = Blank
  /\ scan = 0 /\ showing = 0
  /\ faults = 0
  /\ asking = [rotation |-> NoRotation, since |-> 0]
  /\ marred = FALSE

-----------------------------------------------------------------------------
(* The app, the rotation thread, the backlight, time.                       *)

SceneChanges ==
  /\ \E s \in Scene \ {scene} : scene' = s
  /\ UNCHANGED <<lightVars, turnVars, renderVars, faults>>

\* rotate_once, a read that succeeded.
FeedRotation(reading) ==
  /\ settler' = SettlerUpdated(settler, reading)
  /\ asking' = IF Asked(reading) = asking.rotation THEN asking
               ELSE [rotation |-> Asked(reading), since |-> 0]
  /\ UNCHANGED <<scene, lightVars, renderVars, faults>>

\* Backlight.toggle through BacklightSwitch.set: the rail first.
SwitchRail ==
  /\ ~switching
  /\ rail' = ~rail
  /\ switching' = TRUE
  /\ UNCHANGED <<scene, lit, turnVars, renderVars, faults>>

\* The rail's write failed: the flag keeps telling what the glass is.
SwitchFails ==
  /\ ~switching
  /\ faults < MaxFaults
  /\ faults' = faults + 1
  /\ UNCHANGED <<scene, lightVars, turnVars, renderVars>>

SwitchFlag ==
  /\ switching
  /\ lit' = rail
  /\ switching' = FALSE
  /\ UNCHANGED <<scene, rail, turnVars, renderVars, faults>>

TimePasses ==
  /\ at = "look"
  /\ settler' = SettlerAged(settler)
  /\ asking' = IF asking.since < SettleMs THEN [asking EXCEPT !.since = @ + 1] ELSE asking
  /\ glass' = IF glass = Nothing THEN glass ELSE [glass EXCEPT !.age = (@ + 1) % Frames]
  /\ UNCHANGED <<scene, lightVars, at, next, pixels, scan, showing, marred, faults>>

-----------------------------------------------------------------------------
(* One cycle of render_loop.                                               *)

\* A dark glass is not painted, and what was on it is forgotten.
Look ==
  /\ at = "look"
  /\ at' = IF lit THEN "read" ELSE "look"
  /\ glass' = IF lit THEN glass ELSE Nothing
  /\ UNCHANGED <<scene, lightVars, turnVars, next, pixels, scan, showing, marred, faults>>

\* render_once: the picture a state makes now.
Composed(s, rotation) ==
  LET kept == glass # Nothing /\ glass.picture.scene.anchor = s.anchor
      age  == IF kept THEN glass.age ELSE 0
  IN [picture |-> [scene |-> s, frame |-> IF Still(s) THEN 0 ELSE age, rotation |-> rotation],
      age     |-> age]

ReadState ==
  /\ at = "read"
  /\ at' = "aim"
  /\ next' = Composed(scene, showing)
  /\ UNCHANGED <<scene, lightVars, turnVars, glass, pixels, scan, showing, marred, faults>>

\* Mutant: a turned board does not count as a change.
IgnoresRotation ==
  LET aimed == Composed(next.picture.scene, settler.showing)
      same  == glass # Nothing /\ [glass EXCEPT !.picture.rotation = settler.showing] = aimed
  IN /\ at = "aim"
     /\ next' = IF same THEN Nothing ELSE aimed
     /\ at' = IF same THEN "look"
              ELSE IF settler.showing = showing THEN "paint"
              ELSE "turn"
     /\ UNCHANGED <<scene, lightVars, turnVars, glass, pixels, scan, showing, marred, faults>>

\* The rotation is read next; an unchanged picture is left alone.
ReadRotation ==
  LET aimed == Composed(next.picture.scene, settler.showing)
  IN /\ at = "aim"
     /\ next' = IF glass = aimed THEN Nothing ELSE aimed
     /\ at' = IF glass = aimed THEN "look"
              ELSE IF settler.showing = showing THEN "paint"
              ELSE "turn"
     /\ UNCHANGED <<scene, lightVars, turnVars, glass, pixels, scan, showing, marred, faults>>

\* Mutant: a failed render is remembered as painted.
RemembersFailure(left) ==
  /\ faults < MaxFaults
  /\ faults' = faults + 1
  /\ at' = "look"
  /\ pixels' = left
  /\ next' = Nothing
  /\ glass' = next
  /\ UNCHANGED <<scan, showing>>

\* A transfer fails: the cycle ends and the glass keeps the prior picture.
Fails(left) ==
  /\ faults < MaxFaults
  /\ faults' = faults + 1
  /\ at' = "look"
  /\ pixels' = left
  /\ next' = Nothing
  /\ UNCHANGED <<glass, scan, showing>>

\* set_rotation, MADCTL: what is in the panel's memory loses its meaning.
Turn ==
  /\ at = "turn"
  /\ \/ /\ at' = "clear"
        /\ scan' = next.picture.rotation
        /\ pixels' = Wreck
        /\ UNCHANGED <<next, glass, showing, marred, faults>>
     \/ Fails(pixels) /\ UNCHANGED marred
  /\ UNCHANGED <<scene, lightVars, turnVars>>

\* set_rotation, the clear that must follow.
ClearTurned ==
  /\ at = "clear"
  /\ \/ /\ at' = "paint"
        /\ pixels' = Blank
        /\ showing' = next.picture.rotation
        /\ UNCHANGED <<next, glass, scan, marred, faults>>
     \/ Fails(Wreck) /\ marred' = TRUE
  /\ UNCHANGED <<scene, lightVars, turnVars>>

\* The app's render function, and what the loop remembers of it.
Paint ==
  /\ at = "paint"
  /\ \/ /\ at' = "look"
        /\ pixels' = next.picture
        /\ glass' = next
        /\ next' = Nothing
        /\ marred' = (scan # next.picture.rotation)
        /\ UNCHANGED <<scan, showing, faults>>
     \/ Fails(Wreck) /\ marred' = TRUE
  /\ UNCHANGED <<scene, lightVars, turnVars>>

Render == Look \/ ReadState \/ ReadRotation \/ Turn \/ ClearTurned \/ Paint

Next ==
  \/ SceneChanges
  \/ \E reading \in Readings : FeedRotation(reading)
  \/ SwitchRail
  \/ SwitchFails
  \/ SwitchFlag
  \/ TimePasses
  \/ Render

Spec == Init /\ [][Next]_glassVars

Fairness ==
  /\ WF_glassVars(Render)
  /\ WF_glassVars(SwitchFlag)
FairSpec == Spec /\ Fairness

-----------------------------------------------------------------------------
(* Properties.                                                             *)

\* What the loop remembers painting is what is on the panel, scanned the way
\* it was laid out: the suppression of unchanged pictures is sound, through
\* turns, darkness and every interleaving, unless a failed paint spoilt it.
MemoryIsThePicture ==
  at \in {"look", "read", "aim"} /\ ~marred =>
    /\ showing = scan
    /\ glass # Nothing => pixels = glass.picture /\ scan = glass.picture.rotation

Shows(s, rotation) == pixels # Blank /\ pixels # Wreck /\ pixels.scene = s /\ pixels.rotation = rotation

PaintBegins == at = "aim" /\ at' \in {"turn", "paint"}

\* A picture already whole on the panel is painted again only if its creature
\* moves, or the glass was dark in between, or an earlier paint failed.
UnchangedIsNotRepainted ==
  [][PaintBegins =>
       \/ marred \/ glass = Nothing
       \/ ~Shows(next'.picture.scene, next'.picture.rotation)
       \/ ~Still(next'.picture.scene)]_glassVars

\* A creature starts over: the first picture painted on another anchor, or of a
\* glass that was dark, shows its first frame.
CreatureStartsOver ==
  [][(at = "paint" /\ glass' # glass
        /\ (glass = Nothing \/ glass.picture.scene.anchor # glass'.picture.scene.anchor))
     => glass'.picture.frame = 0]_glassVars

\* The picture turns only to the way up that every reading of the last SettleMs
\* asked for: no pose passed through, no wobble and no bad read turns it.
TurnsAreSettled ==
  [][settler'.showing # settler.showing =>
       asking'.rotation = settler'.showing /\ asking'.since >= SettleMs]_glassVars

\* Once the app, the board and the switch rest, a lit glass comes to show the
\* app's state the right way up, unless a failed paint spoilt it: whatever was
\* on it from before a darkness or a turn does not stand.
AtRest == <>[][UNCHANGED <<scene, settler.showing, rail>>]_glassVars
GlassCatchesUp == AtRest => <>[](~rail \/ marred \/ Shows(scene, settler.showing))
=============================================================================

----------------------------- MODULE BuddyDevice -----------------------------
(***************************************************************************)
(* The stick itself: the DeviceState its threads share behind one mutex,   *)
(* and the threads around it.  The input thread folds a press and then,    *)
(* the lock released, performs the effect the fold returned; the NimBLE    *)
(* callbacks bring snapshots, commands and pairing; the sensor thread      *)
(* reports the battery; the display loop paints what `view` says.          *)
(*                                                                         *)
(* Time, the sensors' mood and the pages within a screen are left out: no  *)
(* press is claimed or refused because of them.                            *)
(***************************************************************************)
EXTENDS Naturals, Sequences

CONSTANTS
  PromptIds,      \* the ids of the prompts the host may have pending
  None,           \* no prompt, no settings page
  SpeciesCount,   \* how many creatures the registry holds
  HostSpecies     \* the indices a host command may carry

ASSUME PromptAssumption  == None \notin PromptIds
ASSUME EntryAssumption   == None \notin {"Species", "Owner", "Status", "Unpair", "Close"}
ASSUME SpeciesAssumption == SpeciesCount \in 0..255 /\ HostSpecies \subseteq 0..255

VARIABLES
  prompt,        \* the id of snapshot.prompt
  answered,      \* DeviceState.answered
  screen,        \* Nav.screen
  menu,          \* Menu.state: Closed, or the place of the cursor
  settings,      \* DeviceState.settings
  resetPending,  \* DeviceState.reset_pending
  passkey,       \* whether DeviceState.passkey is Some
  bonded,        \* DeviceState.bonded: what the root last reported
  species,       \* Buddy.species
  critical,      \* is_critical_battery(battery_pct)
  effect,        \* what the input thread has folded and not yet performed
  peer,          \* whether a central is connected
  bonds,         \* whether NimBLE holds a bond
  stored         \* the species in NVS

overlayVars == <<menu, settings, resetPending>>
pairingVars == <<passkey, bonded, peer, bonds>>
vars == <<prompt, answered, screen, menu, settings, resetPending, passkey, bonded,
          species, critical, effect, peer, bonds, stored>>

MenuEntries == <<"Species", "Owner", "Status", "Unpair", "Close">>
Closed == 0
NextScreen == [Home |-> "Pet", Pet |-> "Info", Info |-> "Clock", Clock |-> "Home"]

Front(gesture) == [button |-> "Front", gesture |-> gesture]
Side(gesture)  == [button |-> "Side", gesture |-> gesture]
Events == [button : {"Front", "Side", "Power"}, gesture : {"Click", "LongHold"}]

NoEffect == [kind |-> "none"]
Answers  == [kind : {"answer"}, id : PromptIds, decision : {"once", "deny"}]
Stores   == [kind : {"store"}, species : 0..255]
ForgetBond == [kind |-> "forget"]
Effects == Answers \cup Stores \cup {NoEffect, ForgetBond}

-----------------------------------------------------------------------------
(* DeviceState::view.                                                      *)

\* unanswered_prompt_id.
Unanswered == prompt # None /\ answered # prompt

\* The prompt a frame painted now would show: the passkey takes the whole
\* glass, only the home screen has the approval band, and an open overlay's
\* panel covers it.
ShownPrompt ==
  IF /\ Unanswered /\ ~passkey /\ screen = "Home"
     /\ menu = Closed /\ settings = None /\ ~resetPending
  THEN prompt
  ELSE None

Init ==
  /\ prompt = None /\ answered = None
  /\ screen = "Home" /\ menu = Closed /\ settings = None /\ resetPending = FALSE
  /\ passkey = FALSE /\ bonded = FALSE /\ peer = FALSE /\ bonds = FALSE
  /\ species = 0 /\ stored = 0 /\ critical = FALSE
  /\ effect = NoEffect

-----------------------------------------------------------------------------
(* DeviceState::press, on the input thread.                                *)

\* answer.
Answer(event) ==
  /\ answered' = prompt
  /\ effect' = [kind |-> "answer", id |-> prompt,
                decision |-> IF event = Front("Click") THEN "once" ELSE "deny"]
  /\ UNCHANGED <<screen, menu, settings, resetPending, species>>

\* The destructive confirmation: anything but a front click cancels.
ResolveReset(event) ==
  /\ resetPending' = FALSE /\ settings' = None
  /\ IF event = Front("Click")
     THEN menu' = Closed /\ effect' = ForgetBond
     ELSE UNCHANGED <<menu, effect>>
  /\ UNCHANGED <<answered, screen, species>>

ClosePage ==
  /\ settings' = None
  /\ UNCHANGED <<answered, screen, menu, resetPending, species, effect>>

\* Mutant: closing the menu leaves its page up.
ToggleMenuKeepsPage ==
  /\ menu' = IF menu = Closed THEN 1 ELSE Closed
  /\ UNCHANGED <<settings, resetPending, species, effect>>

\* Menu::dispatch and act_on.  A hold of the front button opens and closes.
ToggleMenu ==
  /\ menu' = IF menu = Closed THEN 1 ELSE Closed
  /\ settings' = None
  /\ UNCHANGED <<resetPending, species, effect>>

MoveCursor ==
  /\ menu' = (menu % Len(MenuEntries)) + 1
  /\ settings' = None
  /\ UNCHANGED <<resetPending, species, effect>>

\* SpeciesIndex::cycle.
NextSpecies == IF SpeciesCount = 0 THEN species ELSE (species + 1) % SpeciesCount

Choose(entry) ==
  \/ /\ entry = "Species"
     /\ species' = NextSpecies
     /\ settings' = "Species"
     /\ effect' = [kind |-> "store", species |-> NextSpecies]
     /\ UNCHANGED <<menu, resetPending>>
  \/ /\ entry = "Unpair"
     /\ resetPending' = TRUE
     /\ UNCHANGED <<menu, settings, species, effect>>
  \/ /\ entry = "Close"
     /\ menu' = Closed /\ settings' = None
     /\ UNCHANGED <<resetPending, species, effect>>
  \/ /\ entry \in {"Owner", "Status"}
     /\ settings' = entry
     /\ UNCHANGED <<menu, resetPending, species, effect>>

MenuPress(event) ==
  /\ IF event = Front("LongHold") THEN ToggleMenu
     ELSE IF menu # Closed /\ event = Front("Click") THEN MoveCursor
     ELSE IF menu # Closed /\ event = Side("Click") THEN Choose(MenuEntries[menu])
     ELSE settings' = None /\ UNCHANGED <<menu, resetPending, species, effect>>
  /\ UNCHANGED <<answered, screen>>

\* Nav::press: B walks the ring; A turns a page within the screen.
Navigate(event) ==
  /\ screen' = IF event = Side("Click") THEN NextScreen[screen] ELSE screen
  /\ UNCHANGED <<answered, menu, settings, resetPending, species, effect>>

\* The claim order of the two buttons.
Press(event) ==
  /\ effect = NoEffect
  /\ IF Unanswered /\ event \in {Front("Click"), Side("Click")} THEN Answer(event)
     ELSE IF resetPending THEN ResolveReset(event)
     ELSE IF settings # None /\ event = Side("Click") THEN ClosePage
     ELSE IF menu # Closed \/ event.gesture = "LongHold" THEN MenuPress(event)
     ELSE Navigate(event)
  /\ UNCHANGED <<prompt, pairingVars, critical, stored>>

\* perform, after the lock is released.  An answer leaves on the radio or is
\* logged as lost; a failed write of the species, or a failed deletion of the
\* bonds, is logged and forgotten.
Perform ==
  /\ effect # NoEffect
  /\ effect' = NoEffect
  /\ bonds' \in IF effect = ForgetBond THEN {FALSE, bonds} ELSE {bonds}
  /\ stored' \in IF effect.kind = "store" THEN {effect.species, stored} ELSE {stored}
  /\ UNCHANGED <<prompt, answered, screen, overlayVars, passkey, bonded, species,
                 critical, peer>>

-----------------------------------------------------------------------------
(* The NimBLE callbacks.                                                   *)

\* Mutant: every snapshot makes its prompt answerable again.
SnapshotForgetsAnswer(id) ==
  /\ peer
  /\ prompt' = id
  /\ answered' = None
  /\ UNCHANGED <<screen, overlayVars, pairingVars, species, critical, effect, stored>>

\* DeviceState::apply of a snapshot: a change of id makes the prompt
\* answerable, the same id again does not.
Snapshot(id) ==
  /\ peer
  /\ prompt' = id
  /\ answered' = IF id = prompt THEN answered ELSE None
  /\ UNCHANGED <<screen, overlayVars, pairingVars, species, critical, effect, stored>>

\* DeviceState::apply of the one command that moves this state.
CommandSpecies(index) ==
  /\ peer
  /\ species' = index
  /\ UNCHANGED <<prompt, answered, screen, overlayVars, pairingVars, critical, effect,
                 stored>>

Connect ==
  /\ ~peer
  /\ peer' = TRUE
  /\ bonded' \in {FALSE, bonds}
  /\ UNCHANGED <<prompt, answered, screen, overlayVars, passkey, species, critical,
                 effect, bonds, stored>>

PasskeyRequest ==
  /\ peer
  /\ passkey' = TRUE
  /\ UNCHANGED <<prompt, answered, screen, overlayVars, bonded, species, critical,
                 effect, peer, bonds, stored>>

AuthenticationComplete(success) ==
  /\ peer
  /\ passkey' = FALSE
  /\ bonded' = success
  /\ bonds' = (bonds \/ success)
  /\ UNCHANGED <<prompt, answered, screen, overlayVars, species, critical, effect, peer,
                 stored>>

\* Mutant: a central that goes away during pairing leaves its passkey up.
DisconnectKeepsPasskey ==
  /\ peer
  /\ peer' = FALSE
  /\ UNCHANGED <<prompt, answered, screen, overlayVars, passkey, bonded, species, critical,
                 effect, bonds, stored>>

Disconnect ==
  /\ peer
  /\ peer' = FALSE
  /\ passkey' = FALSE
  /\ UNCHANGED <<prompt, answered, screen, overlayVars, bonded, species, critical,
                 effect, bonds, stored>>

-----------------------------------------------------------------------------
(* The sensor thread and the power switch.                                 *)

\* DeviceState::power: a battery about to die takes the glass, on the crossing.
Power(isCritical) ==
  /\ critical' = isCritical
  /\ screen' = IF isCritical /\ ~critical THEN "Clock" ELSE screen
  /\ UNCHANGED <<prompt, answered, overlayVars, pairingVars, species, effect, stored>>

\* main: only NVS and the bond store outlive a power cycle.
PowerCycle ==
  /\ prompt' = None /\ answered' = None
  /\ screen' = "Home" /\ menu' = Closed /\ settings' = None /\ resetPending' = FALSE
  /\ passkey' = FALSE /\ peer' = FALSE /\ bonded' = bonds
  /\ species' = stored /\ critical' = FALSE
  /\ effect' = NoEffect
  /\ UNCHANGED <<bonds, stored>>

Next ==
  \/ \E event \in Events : Press(event)
  \/ Perform
  \/ \E id \in PromptIds \cup {None} : Snapshot(id)
  \/ \E index \in HostSpecies : CommandSpecies(index)
  \/ Connect \/ PasskeyRequest \/ Disconnect
  \/ \E success \in BOOLEAN : AuthenticationComplete(success)
  \/ \E isCritical \in BOOLEAN : Power(isCritical)
  \/ PowerCycle

Spec == Init /\ [][Next]_vars

\* What the panel's promise is about, in this state.
Panel == INSTANCE ApprovalPanel WITH
  decided <- prompt # None /\ answered = prompt,
  answer  <- IF effect.kind = "answer"
             THEN [id |-> effect.id, decision |-> effect.decision] ELSE None

-----------------------------------------------------------------------------
(* Properties.                                                             *)

PromptTypes ==
  prompt \in PromptIds \cup {None} /\ answered \in PromptIds \cup {None}
OverlayTypes ==
  screen \in {"Home", "Pet", "Info", "Clock"} /\ menu \in 0..5
  /\ settings \in {"Species", "Owner", "Status", None} /\ resetPending \in BOOLEAN
PairingTypes ==
  passkey \in BOOLEAN /\ bonded \in BOOLEAN /\ peer \in BOOLEAN /\ bonds \in BOOLEAN
EffectTypes == effect \in Effects /\ species \in 0..255 /\ stored \in 0..255

\* The state is well formed: the cursor stays on the list of entries, the
\* species in its byte.
TypeOK == PromptTypes /\ OverlayTypes /\ PairingTypes /\ EffectTypes /\ critical \in BOOLEAN

\* What covers the glass is always about the entry the cursor rests on: a page
\* or the confirmation is never up over a closed menu or another entry, and
\* never both.  Each is opened, moved past and closed in its own arm of `press`
\* and `act_on`; a prompt answered in between leaves all three as they were.
OverlayIsTheCursorsEntry ==
  /\ settings # None => menu # Closed /\ MenuEntries[menu] = settings
  /\ resetPending => menu # Closed /\ MenuEntries[menu] = "Unpair" /\ settings = None

\* A passkey is on the glass only while the central that asked for it is there:
\* the takeover hides prompts and menus, so one left up would hide them for good.
PasskeyNeedsAPeer == passkey => peer

\* Whatever happens around it, the prompt is decided once per showing, under
\* its own id, and only a press, a snapshot or a power cycle moves it.
HonoursThePanel == Panel!Spec

\* `answer` is documented to answer "the prompt on the glass": what a press
\* decides is what a frame painted at that moment would show.
AnswersThePromptOnTheGlass ==
  [][effect = NoEffect /\ effect'.kind = "answer" => ShownPrompt = effect'.id]_vars
=============================================================================

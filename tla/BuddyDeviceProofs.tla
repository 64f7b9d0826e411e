-------------------------- MODULE BuddyDeviceProofs --------------------------
(***************************************************************************)
(* Theorems about BuddyDevice: the types, the nesting of the overlays, and *)
(* that the whole device honours ApprovalPanel.                            *)
(***************************************************************************)
EXTENDS BuddyDevice, TLAPS

Presses == \E event \in Events : Press(event)

\* Next, split by who acts.
Callbacks ==
  \/ \E id \in PromptIds \cup {None} : Snapshot(id)
  \/ \E index \in HostSpecies : CommandSpecies(index)
  \/ Connect \/ PasskeyRequest \/ Disconnect
  \/ \E success \in BOOLEAN : AuthenticationComplete(success)

Others ==
  \/ \E isCritical \in BOOLEAN : Power(isCritical)
  \/ PowerCycle

LEMMA NextIsSplit == Next <=> Presses \/ Perform \/ Callbacks \/ Others
BY DEF Next, Presses, Callbacks, Others

-----------------------------------------------------------------------------

\* Each kind of effect is one.
LEMMA EffectsHold ==
  /\ NoEffect \in Effects /\ ForgetBond \in Effects
  /\ \A id \in PromptIds, decision \in {"once", "deny"} :
       [kind |-> "answer", id |-> id, decision |-> decision] \in Effects
  /\ \A index \in 0..255 : [kind |-> "store", species |-> index] \in Effects
BY DEF Effects, Answers, Stores

\* Cycling stays within a byte.
LEMMA NextSpeciesType == ASSUME species \in 0..255 PROVE NextSpecies \in 0..255
<1>1. CASE SpeciesCount = 0
  BY <1>1 DEF NextSpecies
<1>2. CASE SpeciesCount # 0
  <2>1. (species + 1) % SpeciesCount \in 0..(SpeciesCount - 1)
    BY <1>2, SpeciesAssumption
  <2> QED
    BY <1>2, <2>1, SpeciesAssumption DEF NextSpecies
<1> QED
  BY <1>1, <1>2

\* A prompt variable holds an id or nothing.
LEMMA PromptTypesStep == ASSUME PromptTypes, [Next]_vars PROVE PromptTypes'
<1> USE DEF PromptTypes
<1>1. CASE Presses
  BY <1>1 DEF Presses, Press, Answer, ResolveReset, ClosePage, MenuPress, Navigate
<1>2. CASE Perform
  BY <1>2 DEF Perform
<1>3. CASE Callbacks
  BY <1>3 DEF Callbacks, Snapshot, CommandSpecies, Connect, PasskeyRequest,
     AuthenticationComplete, Disconnect
<1>4. CASE Others
  BY <1>4 DEF Others, Power, PowerCycle, ShownPrompt
<1> QED
  BY <1>1, <1>2, <1>3, <1>4, NextIsSplit DEF vars

\* A closed menu has its place too.
LEMMA ClosedHolds == Closed \in 0..5
BY DEF Closed

\* The overlays are on the list of entries.
LEMMA OverlayTypesStep == ASSUME OverlayTypes, [Next]_vars PROVE OverlayTypes'
<1> USE DEF OverlayTypes
<1>1. ASSUME NEW event \in Events, Press(event) PROVE OverlayTypes'
  <2>1. CASE Answer(event)
    BY <2>1 DEF Answer
  <2>2. CASE ResolveReset(event)
    BY <2>2, ClosedHolds DEF ResolveReset
  <2>3. CASE ClosePage
    BY <2>3 DEF ClosePage
  <2>4. CASE MenuPress(event)
    <3>1. menu' \in 0..5
      BY <2>4, ClosedHolds DEF MenuPress, ToggleMenu, MoveCursor, Choose, MenuEntries, Closed
    <3>2. settings' \in {"Species", "Owner", "Status", None}
      BY <2>4 DEF MenuPress, ToggleMenu, MoveCursor, Choose
    <3>3. screen' = screen /\ resetPending' \in BOOLEAN
      BY <2>4 DEF MenuPress, ToggleMenu, MoveCursor, Choose
    <3> QED
      BY <3>1, <3>2, <3>3
  <2>5. CASE Navigate(event)
    BY <2>5 DEF Navigate, NextScreen
  <2> QED
    BY <1>1, <2>1, <2>2, <2>3, <2>4, <2>5 DEF Press
<1>2. CASE UNCHANGED <<screen, menu, settings, resetPending>>
  BY <1>2
<1>3. CASE Power(TRUE) \/ Power(FALSE)
  BY <1>3 DEF Power, overlayVars
<1>4. CASE PowerCycle
  BY <1>4, ClosedHolds DEF PowerCycle
<1> QED
  BY <1>1, <1>2, <1>3, <1>4, NextIsSplit DEF Presses, Callbacks, Others, Perform, Snapshot,
     CommandSpecies, Connect, PasskeyRequest, AuthenticationComplete, Disconnect,
     overlayVars, vars

\* Pairing moves flags only.
LEMMA PairingTypesStep ==
  ASSUME PairingTypes, critical \in BOOLEAN, [Next]_vars
  PROVE  PairingTypes' /\ critical' \in BOOLEAN
<1> USE DEF PairingTypes
<1>1. CASE Presses
  BY <1>1 DEF Presses, Press, pairingVars
<1>2. CASE Perform
  BY <1>2 DEF Perform
<1>3. CASE Callbacks
  BY <1>3 DEF Callbacks, Snapshot, CommandSpecies, Connect, PasskeyRequest,
     AuthenticationComplete, Disconnect, pairingVars
<1>4. CASE Others
  BY <1>4 DEF Others, Power, PowerCycle, pairingVars
<1> QED
  BY <1>1, <1>2, <1>3, <1>4, NextIsSplit DEF vars

\* The effects are those the input thread can perform, the species a byte.
LEMMA EffectTypesStep ==
  ASSUME PromptTypes, EffectTypes, [Next]_vars
  PROVE  EffectTypes'
<1> USE DEF EffectTypes
<1>1. ASSUME NEW event \in Events, Press(event) PROVE EffectTypes'
  <2>1. CASE Unanswered /\ Answer(event)
    BY <1>1, <2>1, EffectsHold DEF Press, Answer, Unanswered, PromptTypes
  <2>2. CASE ResolveReset(event)
    BY <1>1, <2>2, EffectsHold DEF Press, ResolveReset
  <2>3. CASE UNCHANGED <<effect, species>>
    BY <1>1, <2>3 DEF Press
  <2>4. CASE \E entry \in {"Species"} : Choose(entry)
    BY <1>1, <2>4, NextSpeciesType, EffectsHold DEF Press, Choose
  <2> QED
    BY <1>1, <2>1, <2>2, <2>3, <2>4
       DEF Press, ClosePage, MenuPress, ToggleMenu, MoveCursor, Choose, Navigate
<1>2. CASE Perform
  <2>1. effect.kind = "store" => effect.species \in 0..255
    BY DEF Effects, Stores, Answers, NoEffect, ForgetBond
  <2> QED
    BY <1>2, <2>1, EffectsHold DEF Perform
<1>3. CASE Callbacks
  BY <1>3, SpeciesAssumption DEF Callbacks, Snapshot, CommandSpecies, Connect, PasskeyRequest,
     AuthenticationComplete, Disconnect
<1>4. CASE Others
  BY <1>4, EffectsHold DEF Others, Power, PowerCycle
<1> QED
  BY <1>1, <1>2, <1>3, <1>4, NextIsSplit DEF Presses, vars

\* Every reachable state of the device is well formed, whatever the prompt
\* ids, the size of the registry and the indices the host sends.
THEOREM DeviceTypeCorrect == Spec => []TypeOK
<1>1. Init => TypeOK
  <2> SUFFICES ASSUME Init PROVE TypeOK
    OBVIOUS
  <2>1. PromptTypes /\ PairingTypes /\ critical \in BOOLEAN
    BY DEF Init, PromptTypes, PairingTypes
  <2>2. OverlayTypes
    BY ClosedHolds DEF Init, OverlayTypes
  <2>3. EffectTypes
    BY EffectsHold DEF Init, EffectTypes
  <2> QED
    BY <2>1, <2>2, <2>3 DEF TypeOK
<1>2. TypeOK /\ [Next]_vars => TypeOK'
  BY PromptTypesStep, OverlayTypesStep, PairingTypesStep, EffectTypesStep DEF TypeOK
<1> QED
  BY <1>1, <1>2, PTL DEF Spec

-----------------------------------------------------------------------------

\* A press leaves every overlay on its own entry: the page's claim on B comes
\* before the menu's, so Unpair is never chosen from under a page.
LEMMA PressKeepsNesting ==
  ASSUME TypeOK, OverlayIsTheCursorsEntry, NEW event \in Events, Press(event)
  PROVE  OverlayIsTheCursorsEntry'
<1> USE DEF OverlayIsTheCursorsEntry
<1>1. CASE UNCHANGED <<menu, settings, resetPending>>
  BY <1>1
<1>2. CASE settings' = None /\ resetPending' = FALSE
  BY <1>2
<1>3. CASE ClosePage
  BY <1>3 DEF ClosePage
<1>4. CASE /\ ~resetPending /\ MenuPress(event)
           /\ ~(settings # None /\ event = Side("Click"))
  <2>1. CASE settings' = None /\ UNCHANGED resetPending
    BY <1>4, <2>1
  <2>2. CASE /\ menu # Closed /\ settings = None
             /\ Choose(MenuEntries[menu])
    BY <1>4, <2>2, EntryAssumption DEF Choose
  <2> QED
    BY <1>4, <2>1, <2>2 DEF MenuPress, ToggleMenu, MoveCursor
<1> QED
  BY <1>1, <1>2, <1>3, <1>4 DEF Press, Answer, ResolveReset, Navigate

\* A page or the confirmation is only ever up over the menu, with the cursor
\* on its own entry, and never both at once.
THEOREM OverlaysNest == Spec => []OverlayIsTheCursorsEntry
<1>1. Init => OverlayIsTheCursorsEntry
  BY DEF Init, OverlayIsTheCursorsEntry
<1>2. TypeOK /\ OverlayIsTheCursorsEntry /\ [Next]_vars => OverlayIsTheCursorsEntry'
  <2> SUFFICES ASSUME TypeOK, OverlayIsTheCursorsEntry, [Next]_vars
               PROVE  OverlayIsTheCursorsEntry'
    OBVIOUS
  <2>1. CASE Presses
    BY <2>1, PressKeepsNesting DEF Presses
  <2>2. CASE PowerCycle
    BY <2>2 DEF PowerCycle, OverlayIsTheCursorsEntry
  <2>3. CASE UNCHANGED overlayVars
    BY <2>3 DEF OverlayIsTheCursorsEntry, overlayVars
  <2> QED
    BY <2>1, <2>2, <2>3, NextIsSplit DEF Perform, Callbacks, Others, Snapshot, CommandSpecies,
       Connect, PasskeyRequest, AuthenticationComplete, Disconnect, Power, vars, overlayVars
<1> QED
  BY <1>1, <1>2, DeviceTypeCorrect, PTL DEF Spec

-----------------------------------------------------------------------------

\* A passkey never outlives the central that asked for it (main.rs, the callbacks):
\* the takeover that shows it would hide every prompt for good.
THEOREM PasskeysHaveAPeer == Spec => []PasskeyNeedsAPeer
<1>1. Init => PasskeyNeedsAPeer
  BY DEF Init, PasskeyNeedsAPeer
<1>2. PasskeyNeedsAPeer /\ [Next]_vars => PasskeyNeedsAPeer'
  <2> USE DEF PasskeyNeedsAPeer
  <2> SUFFICES ASSUME PasskeyNeedsAPeer, [Next]_vars
               PROVE  PasskeyNeedsAPeer'
    OBVIOUS
  <2>1. CASE Presses
    BY <2>1 DEF Presses, Press, pairingVars
  <2>2. CASE Perform
    BY <2>2 DEF Perform
  <2>3. CASE Callbacks
    BY <2>3 DEF Callbacks, Snapshot, CommandSpecies, Connect, PasskeyRequest,
       AuthenticationComplete, Disconnect, pairingVars
  <2>4. CASE Others
    BY <2>4 DEF Others, Power, PowerCycle, pairingVars
  <2> QED
    BY <2>1, <2>2, <2>3, <2>4, NextIsSplit DEF vars
<1> QED
  BY <1>1, <1>2, PTL DEF Spec

-----------------------------------------------------------------------------

\* What the panel sees of a state.
Decided == prompt # None /\ answered = prompt
Handed  == IF effect.kind = "answer" THEN [id |-> effect.id, decision |-> effect.decision] ELSE None

\* A step that moves none of what the panel sees is a stutter of the panel.
LEMMA PanelStutters ==
  ASSUME UNCHANGED <<prompt, answered>>, Handed' = Handed
  PROVE  UNCHANGED Panel!vars
BY DEF Panel!vars, Handed

\* A press decides the pending prompt or leaves the panel alone.
LEMMA PressOnPanel ==
  ASSUME NEW event \in Events, Press(event)
  PROVE  [Panel!Next]_(Panel!vars)
<1>1. effect = NoEffect /\ UNCHANGED prompt
  BY DEF Press
<1>2. Handed = None
  BY <1>1 DEF Handed, NoEffect
<1>3. CASE Unanswered /\ Answer(event)
  <2>1. PICK decision \in {"once", "deny"} :
          effect' = [kind |-> "answer", id |-> prompt, decision |-> decision]
    BY <1>3 DEF Answer
  <2>2. Handed' = [id |-> prompt, decision |-> decision]
    BY <2>1 DEF Handed
  <2>3. Panel!Decide(decision)
    BY <1>1, <1>2, <1>3, <2>2 DEF Panel!Decide, Unanswered, Answer, Handed
  <2> QED
    BY <2>3 DEF Panel!Next
<1>4. CASE UNCHANGED answered /\ effect'.kind # "answer"
  BY <1>1, <1>2, <1>4, PanelStutters DEF Handed
<1> QED
  BY <1>1, <1>3, <1>4 DEF Press, ResolveReset, ClosePage, MenuPress, ToggleMenu, MoveCursor,
     Choose, Navigate, NoEffect, ForgetBond

\* A snapshot tells the panel its prompt.
LEMMA SnapshotOnPanel ==
  ASSUME NEW id \in PromptIds \cup {None}, Snapshot(id)
  PROVE  Panel!Tell(id)
<1>1. UNCHANGED effect /\ prompt' = id /\ answered' = IF id = prompt THEN answered ELSE None
  BY DEF Snapshot
<1>2. (prompt' # None /\ answered' = prompt') = ((prompt # None /\ answered = prompt) /\ id = prompt)
  BY <1>1
<1> QED
  BY <1>1, <1>2 DEF Panel!Tell

\* The menus, screens, pairing and power of the whole device never decide,
\* forget or repeat a prompt: it implements the panel.
THEOREM DeviceHonoursThePanel == Spec => HonoursThePanel
<1>1. Init => Panel!Init
  BY DEF Init, Panel!Init, NoEffect
<1>2. TypeOK /\ [Next]_vars => [Panel!Next]_(Panel!vars)
  <2> SUFFICES ASSUME TypeOK, [Next]_vars PROVE [Panel!Next]_(Panel!vars)
    OBVIOUS
  <2>1. CASE Presses
    BY <2>1, PressOnPanel DEF Presses
  <2>2. CASE Perform
    <3>1. UNCHANGED <<prompt, answered>> /\ Handed' = None
      BY <2>2 DEF Perform, Handed, NoEffect
    <3>2. CASE Handed = None
      BY <3>1, <3>2, PanelStutters
    <3>3. CASE Handed # None
      BY <3>1, <3>3 DEF Panel!Next, Panel!HandOver, Handed
    <3> QED
      BY <3>2, <3>3
  <2>3. CASE \E id \in PromptIds \cup {None} : Snapshot(id)
    BY <2>3, SnapshotOnPanel DEF Panel!Next
  <2>4. CASE PowerCycle
    BY <2>4 DEF PowerCycle, Panel!Next, Panel!Restart, NoEffect
  <2>5. CASE UNCHANGED <<prompt, answered, effect>>
    BY <2>5, PanelStutters DEF Handed
  <2> QED
    BY <2>1, <2>2, <2>3, <2>4, <2>5, NextIsSplit DEF Callbacks, Others, CommandSpecies,
       Connect, PasskeyRequest, AuthenticationComplete, Disconnect, Power, vars
<1> QED
  BY <1>1, <1>2, DeviceTypeCorrect, PTL DEF Spec, HonoursThePanel, Panel!Spec
=============================================================================

# stick-c-plus in TLA+

Formal models of this repository's programs for a hand-held ESP32 stick. The
*buddy* shows Claude Code's permission prompts and sends the owner's answer back
over BLE: the loop from a hook process to the glass and back, the machine that
finds, pairs with and recovers the stick, and the stick itself. The *pomodoro*
folds a bouncing button into a timer while its threads share a buzzer. The
*plant monitor* serves a soil probe to Home Assistant over the ESPHome native
API. All of them show their state through one display thread, and may watch
their own health. TLC checks the models on small instances; TLAPS proves the
central properties for every value of the constants.

Contents: the inventory (1), the modules and their correspondence to the code
(2), the runs (3), the bounds (4), the fairness (5), the proofs (6), what the
models found (7), what is not modelled (8) and the plan (9).

## 1. Inventory

The workspace is a set of Rust crates in three layers: pure cores (no I/O), host
and device shells, and the firmware's composition roots. Line counts are of
`src/` of the crate.

### The permission loop (modelled)

```
 Claude Code --> buddy-hook --socket--> buddy-bridge process --BLE/NUS--> stick --> owner
                                        socket.rs / keepalive.rs
                                          | mailbox (mpsc)
                                        actor.rs + coordinator.rs + ledger.rs
                                          | outbound channel
                                        drive_loop.rs + fsm.rs + bluer_central.rs
```

| component | crates | state it keeps | operations |
|---|---|---|---|
| session ledger and gate | buddy-permission (1149) | per-session flags and the one pending prompt, raise order, completion pulse, token latch and sum | `record`, `observe_tokens`, `synthesize`, `outstanding_prompt`, `GatedSnapshot::gate` |
| permission coordinator | buddy-daemon-core (898) | `bonded`, `prompt_seq`, `pending`: prompt id to (hook, session), the ledger | `on_link_up`, `on_link_down`, `on_hook`, `on_device_line`, `on_session_event`, `on_keepalive` |
| daemon actor and edges | buddy-daemon-shell (374) | mailbox, oneshots of waiting hooks, the outbound channel of the live link | `step`, `perform`, `ask`, `link_up`, `link_down`, `device_line`, the socket handler, the 5 s ticker |
| hook process | buddy-hook (191) | one request, its own deadline (25 s) | connect, ask, read one reply line, decide, fall through in silence |
| bridge machine and drive loop | buddy-bridge-core (840), buddy-bridge-shell (950), buddy-bridge (188) | `Fsm {state, attempt, encryption_failures}`, the pending action, the subscribed stream; BluerCentral's device handle | `Fsm::on`, `backoff`, `DriveLoop::step`, `on_run`, `emit`, `absorb`, locate, connect, pair, remove, subscribe |
| stick | buddy-shell (2103), firmware buddy (541), the menu of buddy-core | the last snapshot, which prompt id was answered, the screen, the menu's cursor, the page and the reset confirmation over it, the passkey, the bond flag, the species, the framer's buffer | `apply`, `press`, `answer`, `act_on`, `perform`, `power`, `view`, the NimBLE callbacks, `feed`, `notify` |
| wire format and framing | buddy-wire (1770) | the framer's buffer | parse, frame, unframe |

How they interact: the hook blocks on a Unix socket; the socket task sends an
`Input` to the actor's unbounded mailbox and awaits a oneshot. The actor folds
one input at a time into the pure coordinator and performs the effects it
returns: lines to the outbound channel, replies to oneshots. `DriveLoop` pumps
that channel to the stick in MTU-sized writes and feeds received lines back to
the mailbox, and announces each link up and down. A ticker makes the daemon
repeat its snapshot, which is also the only retransmission. On the stick a
snapshot replaces the prompt on the glass; a press is notified once.

What is hard: four queues (mailbox, outbound channel, air, notifications) and
the interleavings of their ends; link events that queue behind other inputs;
three copies of "who waits" (oneshots, pending map, ledger) and two more of "what
is asked" (the snapshot, the answered latch); a hook that gives up silently; a
daemon that dies with hooks blocked; lines lost or cut short; ids that start
again; failures whose cause cannot be seen (an absent stick and a stale key look
alike); counters that outlive what they count. Each is a hazard in
`PROJECT.json`, at its line.

What makes each part correct:

- ledger: counts and prompt agree, also at saturation; no completion is lost
  inside the daemon; no token is credited that was not spent.
- daemon: whatever is shown can be answered, exactly the pending hooks wait,
  nothing survives a dead link, no snapshot takes a live approval off the glass.
- loop: a verdict is the owner's own word about that call or it is silence; a
  call is not asked twice; nobody is stranded; a call is answered in time.
- stick: a prompt is decided once per showing whatever else the device is doing,
  what covers the glass is always about the menu entry it came from, and nothing
  that hides the glass stays for good.
- bridge: the machine and the loop never fall out of step, nothing runs without
  its handle, a bond is given up only at the third failure of a paired link, none
  of them counted twice, and the link comes back.

### The device apps and their platform (modelled)

| component | crates | state it keeps | operations |
|---|---|---|---|
| input | platform-input (1151) | per button the debounce, the hold that fired, the pending click | `Buttons::poll`, `Debounce`, `Cadence`, `Recognizer` |
| pomodoro | pomodoro-core (747), pomodoro-shell (648) | phase, status, the instant it resumed, the banked time, completed focuses | `step` on each event, `cycle`, `command_for`, the jingles |
| buzzer and power watch | platform-runtime (2848, with the display) | the melodies requested, the VBUS debounce | `play`, `buzzer_loop`, `watch_once` |
| display, rotation, backlight | platform-runtime, platform-core (1677), firmware adapters (1293) | the picture last painted, the settler's candidate, the rail and the lit flag, the panel's orientation | `render_loop`, `RotationSettler::update`, `BacklightSwitch::set`, `set_rotation` |
| soil probe | plant-core (1104), plant-shell (762), the earth unit's adapter | the shared slot: the last outcome and when it was taken | the gated read, `to_percent`, publish, the view with its age |
| native API | esphome-api (7206, of which 4122 generated) | per connection the phase and the subscription | `handle` of every message |
| API server | esphome-server (521) | the running flag, the count of active connections, per connection the idle time and what was last broadcast | `serve`, `pump`, `broadcast_changes`, `shutdown` |
| health | platform-health (1199) | the alarm's state and the set of acknowledged faults | `assess`, `Alarm::step`, `acknowledge`, the acknowledgement set |

How they interact: the pomodoro's input thread polls the buttons, folds each
gesture into the shared timer with one clock reading per cycle, and blocks on the
buzzer's owner for every jingle; the power watch blocks on the same owner for its
chimes. The display thread reads the app's state, the settled rotation and the
backlight flag, each written by a thread of its own, and paints when the picture
differs from the one it remembers. The server has a thread that accepts and one
per connection; they share the flag and the count, and read the slot which the
sampler's thread publishes to. The health crate is a pure fold: whoever calls it
brings the evidence, the clock and the button.

What is hard: a thread that waits for a melody is deaf and works with an old
clock; three values read at three moments make one picture; a panel that fails in
the middle of a turn; slots counted by one thread and given back by others;
clients that stall in a frame or subscribe out of turn; a shutdown that waits for
threads which wait for clients; a value that goes stale without an event; a press
that must silence one fault and no other.

What makes each part correct:

- pomodoro: each press becomes one gesture, a hold is a hold, no event gives time
  back to a phase, the buttons are never dead for good.
- glass: what the thread remembers painting is what is on the panel; the picture
  turns only when the board has settled; a lit glass catches up with the app.
- server: slots never leak and the cap holds; a subscriber is told what changed
  and believed to know only what it was sent; a wedged client is dropped; a
  heard shutdown ends it all and leaves nothing behind.
- health: the worst fault is named; what was silenced stays silent and what was
  not is heard.

### The rest (not modelled, or in part)

platform-display (3414), firmware-core (425) but for saturation,
platform-numerics, platform-audio, platform-bench, golden-screens: what the apps
draw, sound and measure with. buddy-core (1875) but for its menu, species and
token latch, buddy-creature (446), buddy-display (4954): the buddy's moods and
drawing. The views of the pomodoro (771) and the plant monitor (1146). host-monitor
(1311 + 806 + 898 + 219), orientation (1046 + 686 + 1142), generative-art (some
6700 in ten crates), led-driver (391): the other apps. board-support (649), net
(190) and the firmware binaries: hardware and composition.

## 2. Modules

| module | models | state |
|---|---|---|
| `Ledger` | `ledger.rs`, `gating.rs`, the token latch of `stats.rs`, as operators on a ledger record | none |
| `LedgerMachine` | a ledger under every call its API offers, with a token source that restarts at any total | `ledger`, `packet`, `total`, `spent`, `leapt` |
| `Daemon` | coordinator and actor, in an environment that may present any input | `bonded`, `promptSeq`, `pending`, `ledger`, `waiters`, `linkOut`, `effects`, `asked` |
| `PermissionSpec` | what the loop promises a tool call, abstractly | `asked`, `said`, `outcome` |
| `PermissionLoop` | `Daemon` closed with hooks, mailbox, link, stick, owner and faults | Daemon's, and the queues, glass, hooks |
| `BridgeFsm` | `fsm.rs`, `backoff.rs`, `DriveLoop`, `BluerCentral`, with BlueZ and the stick as the world | `fsm`, `action`, `tx`, `up`, handles, bonds |
| `ApprovalPanel` | what the stick promises of a prompt, abstractly | `prompt`, `decided`, `answer` |
| `BuddyDevice` | `DeviceState` and the threads around it: `state.rs`, `nav.rs`, `menu.rs`, `input.rs`, the callbacks of the firmware's `main.rs` | the fields of DeviceState, `effect`, `peer`, `bonds`, `stored` |
| `Gestures` | `debounce.rs`, `cadence.rs`, `recognizer.rs`, as operators on a recognizer record | none |
| `PomodoroTimer` | `pomodoro-core`: `step`, its phases and its clock, as operators | none |
| `Pomodoro` | the input thread over both, the power watch and the buzzer's owner | `front`, `timer`, `todo`, `lag`, `melodies`, `watch` |
| `Rotation` | `rotation.rs`, `imu.rs`: the up axis of a reading and the settler, as operators | none |
| `Glass` | the render loop, the IMU's feeder, the backlight switch and the panel adapter | `settler`, `rail`, `lit`, `next`, `glass`, `pixels`, `scan`, `showing` |
| `SoilProbe` | a count classified, calibrated, stamped and judged by its age, as operators | none |
| `NativeApi` | `connection.rs`: what a message is answered with and what it changes, as operators | none |
| `ApiServer` | `server.rs` over both, with clients, sampler and shutdown | `running`, `active`, `door`, and per connection `place`, `conn`, `last`, `idle`, `parts` |
| `Alarm` | `alarm.rs`, `ack.rs`: the alarm under any verdicts | `state`, `acked` |
| `Health` | `verdict.rs`, `fault.rs` and the evidence, over the alarm | `boot`, `heap`, `observed` |
| `MCDaemon`, `MCPermissionLoop`, `MCGlass`, `MCHealth` | instances for TLC | |
| `LedgerProofs`, `PermissionLoopProofs` (the daemon and the loop), `BridgeFsmProofs`, `BuddyDeviceProofs`, `PomodoroProofs`, `GlassProofs`, `ApiServerProofs`, `HealthProofs` | lemmas, theorems and proofs | |

Data is abstracted to what the properties tell apart. A hook process, its HookId
and its tool call are one element of `Hooks`; a prompt is a record `[id, call]`,
where `call` stands for the tool name and hint the owner reads. `req_{n}` is the
number n. A session that has no entry in the map has `seen = FALSE`. u8::MAX and
u32::MAX are the constants `CountMax` and `TokenMax`. Lines are records with a
kind.

**Daemon.** A handler of the coordinator returns a `Vec<Effect>`; its model
leaves the lines and replies in `effects`, and the actor's `Step...` actions
apply them to `waiters` in the order the code does (register the oneshot, fold,
perform). `EmitFrom` is `emit_snapshot`, including the clearing of the pulse
inside `synthesize`. Every input is one action: `StepHook` covers both the
unbonded refusal and the minted prompt, `StepDeviceLine` a line that does not
parse, one with an unknown id, and an answer. `on_session_event` is public on the
coordinator but no input of the actor calls it; the model keeps it, so that
`Daemon` covers that API too, and `PermissionLoop` does not use it. The open
environment may send any response id, even one never minted; it alternates link
events, which `DriveLoop` guarantees and `DaemonIsDriven` checks for the loop.

**PermissionLoop.** One FIFO `mailbox` feeds the actor. `downlink` joins the
outbound channel, the writes and the air; `uplink` the notifications and the
reassembler. `ChannelIsCurrent` captures that the actor may still hold the
sender of a link that has dropped, whose lines vanish. A drop or a failed write
may leave a fragment in the stick's framer (`torn`), which swallows the next
line: the framer is not reset on a new link. A press is recorded in the history
variable `said`, with the call the glass showed. `DaemonCrashes` is the death of
the process: its sockets close, so a hook that waits reads EOF or the reply that
was already written. `Faults` names which mishaps an instance allows: "drop",
"lose" (a write), "reboot" (of the stick), "refuse" (a notify), "crash".

**BridgeFsm.** `On(event)` is `Fsm::on`, arm for arm: AgentMissing first, then
the edges, then encryption failures, then the catch-all. Each `Step...` action
performs the pending operation against the world (is the stick `present`, does
BlueZ hold a bond, does the stick hold its half) and feeds the outcome to `On`.
`StaleOrBluer` is the mapping of an error on a paired link to EncryptionFailed.
An attempt that ought to work may still fail as one of `MaxMishaps` mishaps, and
one that ought to fail does. `evidence` is history: the failures of a paired link
since a link last worked, or since failures last cost a bond.

**BuddyDevice.** `Press` is the claim order of `DeviceState::press`, each claim an
operator of its own; what it returns to the input thread is in `effect` until
`Perform`, since the lock is released in between. A prompt is its id, since the
device knows a prompt by nothing else; the passkey and the battery are whether
there is one and whether it is critical. `ShownPrompt` is what `view` and the
compositor would paint now; what the last frame painted is left out, since no press
reads it. The deletion of bonds and the write to NVS may fail, which the code logs and
forgets. A disconnect's two lock-protected steps are one action: between them
only the peer cell and the passkey differ. Pairing itself belongs to NimBLE and
is external: a passkey is requested of, and authentication completes with, a
central that is connected. `HonoursThePanel` maps `DeviceState.answered` to
"this showing is decided". `PermissionLoop`'s stick is the same prompt and latch
with the rest of the device left out, which this refinement justifies.

**Pomodoro.** A unit of time is one poll period, and no time passes before every
thread that is not waiting for the buzzer has done its cycle. The code keeps
instants and subtracts them from the clock; the model keeps the differences,
capped where they are compared: `held`, `steady`, `pending` of a recognizer,
`span` of the timer, and `lag`, how old the one clock reading of the cycle is when
an event is folded with it. `HandleEvent` is `SharedTimer::apply` with the `sound`
that follows, after which the thread waits until its melody has left `melodies`.
The front button is followed sample by sample; the side button, which runs the
same recognizer, clicks when it likes. `up`, `ended`, `deaf` and `owed` are
history. `FocusCount` keeps the completed focuses by what they decide.

**Glass.** `at` is where the display thread is in its cycle. State, rotation and
flag are read in separate actions, because other threads write them in between.
`Turn` and `ClearTurned` are the two transfers of `set_rotation`, of which the
first leaves `pixels` a wreck: what is in the controller's memory loses its
meaning. A transfer that fails leaves what it had done and ends the cycle; a
failed clear or paint sets the history variable `marred`. `FeedRotation` is the
settler's `update` with a reading in mg through `IsAtRest` and `UpAxis`, whose
arithmetic is the code's. A picture is the state, the creature's frame and the
rotation; a creature's frame is left out of the picture where the code renders a
still state. `SwitchRail` and `SwitchFlag` are the two writes of
`BacklightSwitch::set`.

**ApiServer.** `door` is where the accept thread is, `place[c]` where connection c
is; `held` is accepted but not yet counted. The check against the cap and the
increment are separate actions, as are the end of a pump and the release of its
slot by the guard. `Frame` is a message decoded, handled and answered; the client's
message is chosen when it is read. `Part` is a segment that completes no frame.
`TimesOut` is a read timeout: the idle limit, then `broadcast_changes`. `Drops`
joins every way a pump ends early: hang-up, a frame that is none, a failed write.
A wedged client neither sends nor drains. `last` is `last_broadcast`, seeded with
the states read for any SubscribeStates, answered or not; `told` is history, what
was put on the wire. A state is what `StateMessage` makes of the slot: a value, or
missing, when there is no reading, a faulty one or one too old.

**Alarm and Health.** `Evaluates` is `Alarm::step`. What it returns to be sounded
is read off the state: a chirp leaves the alarm a whole cadence from the next, and
nothing else does. `acked` is the fixed array of slots as a sequence, oldest
first. `silence` is history: how recently each fault was silenced, counted in
other faults silenced since. `Assessed` folds the candidates in the code's order
(crash, heap, the components) with `Worse`. The caller is the environment:
components beat and give up, the heap is read, the clock runs, somebody presses.

## 3. Runs

| run | cfg | checks | distinct states |
|---|---|---|---|
| `ledger` | MCLedgerMachine | NeverOverCredits | 1,068,806 |
| `daemon` | MCDaemon | ShownPromptIsAnswerable, EveryWaiterHasOnePrompt, NothingPendsUnbonded, CountAgreesWithPrompt, CompletionIsEmitted, SerialApprovalsStayUp, SerialGlassShowsTheNewest | 12,280 |
| `loop` | MCLoop | GlassNamesItsCall, SerialNeverAsksTwice, KeepsPromise, DaemonIsDriven, AnsweredBeforeDeadline | 165,673 |
| `loop_restart` | MCLoopRestart | NoHookIsStranded, EveryVerdictWasPressed | 1,142,888 |
| `loop_reused_id` | MCLoopReusedId | VerdictIsAuthentic, violated | |
| `bridge` | MCBridgeFsm | TypeOK, EachStateAwaitsItsOperation, OperationsAreReady, BondTakesEvidence, FirstRetryIsPrompt, LinkComesBack | 11,554 |
| `device` | MCDevice | OverlayIsTheCursorsEntry, PasskeyNeedsAPeer, HonoursThePanel | 127,680 |
| `device_glass` | MCDeviceGlass | AnswersThePromptOnTheGlass, violated | |
| `pomodoro` | MCPomodoro | EveryPressIsReportedOnce, HoldsAreHeldUnlessDeaf, CountdownOnlyFalls, InputIsNeverShutOut | 316,534 |
| `glass` | MCGlass | MemoryIsThePicture, TurnsAreSettled, GlassCatchesUp | 772,352 |
| `server` | MCServer | SlotsAreCounted, NothingIsAssumedSent, DrainedIsDrained, KnockEndsTheServer, WedgedClientsAreReaped, SubscribersCatchUp | 121,844 |
| `health` | MCHealth | NamesTheWorst, SilencedStaysSilent, UnsilencedIsHeard | 28,880 |

What they show:

- **ledger.** Whatever the order of observations and restarts of the token
  source, the credited sum never exceeds what was spent, because the first total
  is adopted and a smaller one re-baselines. A restart may come at any total. One
  ahead of the last reading looks like spending to the latch, which has nothing
  but the totals to go by (`stats.rs:113-122` names no such case), so the property
  allows for what restarts have leapt ahead by (`leapt`), and for no more; for a
  source that never leaps it is the plain inequality.
- **daemon.** The three records of who waits never disagree, in any order of
  inputs, with two calls of one session in flight. A completion that has
  happened, with the link up or down, is kept until a step puts it on a line.
  `SerialApprovalsStayUp` and `SerialGlassShowsTheNewest` hold of every behaviour
  up to the first moment at which a session has two calls in flight: every
  waiting hook's prompt is live in the ledger, a snapshot with no prompt is sent
  only when nobody waits, and one with a prompt shows the newest. The assumption
  is needed (7).
- **loop.** The loop with drops, lost lines and stick reboots implements
  `PermissionSpec` (`KeepsPromise`): a hook that exits with a verdict has been
  answered by its owner, about that call. `DaemonIsDriven` shows that the loop
  is an instance of `Daemon`'s environment, so everything checked and proved of
  `Daemon` holds inside it. `SerialNeverAsksTwice` is about the answered latch:
  while no session has two calls in flight, the glass never offers the owner a
  call already decided. With one call in each of two sessions the premise always
  holds in this run; that it is needed is said in 7. Under the fairness of
  section 5 no call waits for its own deadline (`AnsweredBeforeDeadline`): a lost
  line is repaired by the keepalive, a dropped link answers Unbonded.
- **loop_restart.** With the daemon dying and coming back, no hook blocks with
  nobody left to answer it. `VerdictIsAuthentic` does not hold here (see 7);
  `EveryVerdictWasPressed` is what remains true: a verdict needs a press.
- **bridge.** Safety of the machine as driven, and `LinkComesBack`: once the
  stick stays in reach the link comes up, unless a missing agent has stopped it.
  `BondTakesEvidence` holds the threshold to its count: a link that worked and a
  bond given up both start it over, and neither a rejected scan nor a plain drop
  adds to it. What a failure of a paired link proves is another matter: an absent
  stick that BlueZ still locates adds to it too (section 7, the good bond).
- **device.** Every button in every state, with snapshots, commands, pairing,
  the low battery and power cycles in between. The stick implements
  `ApprovalPanel`; overlays nest; a passkey does not outlive its central.
- **pomodoro.** Every press the debounce accepts is accounted for by exactly one
  gesture, though melodies delay the polls. A reported hold is a press that has
  not ended, unless a melody kept the thread from looking while it lasted.
  Pausing, resuming and events folded with a clock reading as old as two melodies
  never give time back. Whoever uses the buzzer and whether melodies play or
  fail, the input thread returns to its buttons.
- **glass.** The suppression of unchanged pictures is sound: what the thread
  remembers is on the panel, the way up it was painted. The picture turns only to
  what every reading of the last SettleMs asked for. Once app, board and switch
  rest, a lit glass comes to show the state the right way up. A failed paint
  exempts the picture it spoilt (7).
- **server.** The count is the number of served connections whatever ended them.
  What the pump believes a subscriber knows it was sent. A returned `serve` leaves
  no thread, slot or client. A shutdown whose knock is heard ends it, whatever the
  clients do; a wedged client loses its slot; a subscriber that is quiet long
  enough learns the state, that there is none included.
- **health.** The verdict names the worst fault, ties by how long it has stood and
  then by place. No fault among the AckCapacity silenced last is heard, however
  others come and go; and as long as the worst fault is not one of those, it is
  heard again and again.

The type invariants of the daemon, the stick, the pomodoro, the glass, the server
and the alarm are theorems and are not run again; the same goes for
`CountsNest`, `ClockReadingIsFresh`, `UnchangedIsNotRepainted` and
`CreatureStartsOver`.

`PROJECT.json` also holds one mutant of the code per property: a plausible bug
written as an operator just before the definition it changes, marked `Mutant` in
the modules, and used by no other definition.

## 4. Bounds

- `Hooks`, `Sessions`: three calls in two sessions for `Daemon` (two calls of one
  session and one of another, so cross-session and same-session routing both
  occur); two calls for the loop, in two sessions or one as the property needs.
  Every property relates at most two calls.
- `CountMax = 1` in `daemon` makes the counts saturate with two sessions;
  `TokenMax = 2` with three tokens spent makes the sum saturate.
- A hook is minted once, which bounds prompt ids and raise orders.
- `MaxFaults` bounds the faults of a behaviour: one of any kind in `loop`,
  two in `loop_restart`, so that a crash may meet a drop or
  another crash. `MaxQueue = 1` stops the ticker while a line is queued, and no
  second tick is queued behind a first: a second snapshot repeats the first.
- `AttemptMax = 8` saturates the counters after the backoff has reached its
  ceiling (at 7 failures); `MaxMishaps = 5` lets the threshold of three be
  reached by mishaps alone, and a key go stale besides; failures for a standing reason are unbounded.
- `MaxRaises = 1` bounds the prompts of the bare ledger; ids are told apart only
  by the daemon's runs, where they matter. `MaxSpent = 3` lets the sum saturate
  (`TokenMax = 2`) and be added to again; `MaxLeapt = 1` is one leap ahead, and
  restarts at or below the last total are unbounded.
- `PromptIds`: two prompts, so that one may replace the other; `SpeciesCount = 2`
  and a host command with the index 255, the sentinel outside the registry. Menu,
  screens and buttons are whole; no bound limits the length of a behaviour.

- `pomodoro`: debounce 2, hold 4 and double click 2 polls (the code's are of the
  same order: a hold is longer than the other two), durations 3, 2 and 2, every
  second focus a long break, melodies of 2. A jingle is as long as a debounce and
  half a hold, so a poll may be missed at any point of a press; in the code a hold
  takes 600 ms and the longest jingle lasts 580. `SpanCap = 11` is the longest
  duration and the longest wait of a cycle together, beyond which a timer has long
  finished.
- `glass`: four poses (two settled, flat, diagonal), two anchors, one of them
  moving, two values, two frames, `SettleMs = 2`, one fault at any place. The
  thresholds are the code's, in mg.
- `server`: two connections and a cap of one, so that one is refused; an idle
  limit of two timeouts (90 in the code), a frame in two pieces, a reading stale
  after one period (3 in the code), a probe that is measured or under range. What
  a connection may do does not depend on how long it takes to reach its limit.
- `health`: two components with deadlines 0 and 1, so that one stalls before the
  other; ages beyond the last deadline are kept by rank, which is all that the
  ranking reads. `AckCapacity = 2` (8 in the code), so that a third silence pushes
  the first out.

Deadlock is checked for the ledger, the daemon, the stick, the pomodoro, the glass,
the server and the health, which always accept an input or a tick.
The loop stops when every hook is done and faults are spent, and the bridge
process ends on FailFast, so those configurations say `CHECK_DEADLOCK FALSE`.

## 5. Fairness

`LoopSpec` and `Spec` assume none. `DiligentSpec` assumes weak fairness of what
the code keeps running: the actor's task (`run` loops on its mailbox), the
ticker, `DriveLoop` (reconnects for ever, pumps and absorbs while up), the
stick's receive callback, the restart of the process, a blocked hook's read; and
of the owner, who answers what the glass asks. Nothing is assumed of the hook's
deadline or of faults, and the faults of a behaviour are finitely many. The
property says that the deadline is not needed, not that 25 seconds suffice.
It is stated for one call of a session at a time, since two in flight lose a
prompt (see 7).

`FairSpec` of the bridge assumes that the operation `DriveLoop` awaits returns
(weak fairness of the disjunction, not of each operation: the loop awaits one at
a time). A scan has a window (`SCAN_WINDOW`); a connect, a pairing or a subscription that
never returned would hold the loop, and that BlueZ answers each is an assumption
about it.
Mishaps are finitely many; without that bound a link may fail for ever.

`Pomodoro`, `Glass` and `ApiServer` assume weak fairness of the threads the code
starts and never stops: the input thread and the power watch with the clock that
lets them sleep; the display thread, and the second write of a backlight switch
once begun; the accept thread and each connection's thread, whose read ends, if
not in a frame, then in its timeout. Nothing is assumed of fingers, apps, boards,
clients, sampler or shutdown. `Health` assumes that its caller goes on assessing
and that its clock runs, which is how the crate is meant to be used. The
properties state their own premises: a wedged client, a state at rest, a
subscriber that is quiet again and again, a fault that stays the worst.

## 6. Proofs

`tlapm` checks every leaf; nothing is assumed but the named ASSUMEs of the
modules (finite sets of sessions and connections, widths and times at least one,
`SessionOf` a function, None apart from prompts, answers, replies, pending
entries, ages and gestures, registry and host indices in a byte, a span cap past
every duration), and, where a theorem says so, that the constant `Faults` leaves
out a kind of fault.

`LedgerProofs`: `CreditsAreSpent` needs more than the inequality: `Covered` says
that what the latch would credit if it looked now was spent too, or leapt over by
a restart; a restart at a higher total adds to both sides alike, one at a lower
total only lowers the left. `CountsAlwaysNest`
needs `EntriesExist`: a session that has done anything has an entry, so that the
running and the waiting are among those counted.

Part 1 of `PermissionLoopProofs`, the daemon, begins with what a raise, a resolve and a lifecycle event do to the
sessions' prompts; that the newest prompt exists whenever a session pends, by
taking a maximal element of a finite set; and that the count of a packet is zero
exactly if no prompt rides with it. `TypeCorrect` is inductive by itself. The
three bookkeeping properties are not: an answer could hit a recycled id, and a
new hook could already wait. `Bookkeeping` adds that every id in use was minted
before `promptSeq` and that every waiter has asked; with these the conjunction is
inductive, and the three theorems follow. `CountAndPromptAgree` goes by
`SnapshotsMatchLedger`, which relates a line to the ledger the step left.
`ApprovalsStayUp` says that an approval is filed under its request's session, so
that a new call of a session never finds another of that session pending.
`GlassIsShownTheNewest` rests on `RaisedInOrder`: raise orders and ids agree, so
that the ledger's newest is the coordinator's. `CompletionsAreEmitted` follows
the pulse through each handler.

Part 2, the loop, has three inductive invariants, each resting on the one before.

1. `DrivenInv`, under any faults. `LoopTypeOK` gives the four queues their types.
   `Alternates` says that the link events left in the mailbox alternate, from the
   link the daemon holds to the one the bridge has, and `HookInputsAreNew` that a
   queued hook is new to the daemon and queued once: together, that the mailbox
   presents only what `Daemon`'s environment may. So `TheDaemonIsDriven` refines
   the open module step by step, and `TheLoopKeepsItsApprovalsUp` brings its
   theorems into the loop. A crash is no step of `Daemon`, but its invariants
   survive one (`TheBooksAgreeThroughCrashes`). `NobodyIsStranded` and
   `VerdictsArePressed` also hold through crashes; the second needs that every
   decision on the air, in the mailbox or in a hook's socket was pressed.
2. `PromiseInv`, if the daemon does not crash. `Mentions` are the prompts that
   are anywhere: pending, on the downlink, on the glass. `MentionsAgree` says that
   two of them with one id are about one call, `AnswersAreAuthentic` that an
   answer on its way to a pending id is the owner's word about that id's call, and
   `RepliesAreAuthentic` the same of a hook's socket. `TheGlassNamesItsCall` and
   `VerdictsAreAuthentic` follow, and with them the refinement
   (`ThePromiseIsKept`), one step per action. The run `loop_reused_id` shows that
   the hypothesis is needed.
3. `FreshInv`, if the daemon does not crash, no notify is refused, and no session
   has two calls in flight. What is on the glass (place 0) and on its way to it is
   one sequence. A decided call can only be shown where the latch holds its id,
   with nothing else before it (`DecidedIsAnswered`); one that still pends has its
   answer on the way (`DecidedIsInFlight`), and answers to what pends travel in the
   order of their ids (`AnswersInOrder`), so that no snapshot shows again what a
   newer answer left behind. A prompt gives way to an older one, or to none, only
   once it is settled (`ReplacedIsSettled`). These are about the link the daemon
   holds (`Live`); over any other nothing is on its way. TLC checked `FreshInv`
   with three hooks before it was proved. `TheGlassNeverAsksTwice` follows. A
   refused notify is excluded because the latch is set before the notify: that
   answer never travels, and the call is asked about again after a reboot.

`BridgeFsmProofs`: `Inductive` joins the machine's shape, `EachStateAwaitsItsOperation`,
`OperationsAreReady` and `NoFalseCount` (the counter never exceeds the
failures since a link last worked or a bond was last given up for them). `OnLeads` says once what `Fsm::on` does for
any event in any state; `FedStep` and one step per action do the rest. The
action property `BondTakesEvidence` follows from `NoFalseCount`. `BridgeTypes` has
the counters saturate and, by `BackoffInBand`, every delay between 250 ms and 30 s.
`FirstRetriesArePrompt` adds `RunsFresh`: whoever runs has just had its counters
reset. `EveryStepComesCloser` measures how far the link is: `Detours` counts how
often the loop must still start over (the failures a stale bond has to its name
before it is given up, a pairing that will be rejected), `Leg` the operations left
on the way. With the stick in reach and no mishap every step leaves less.
`LinkAlwaysComesBack` is the liveness property: the detours are four at most and
the legs seven, so temporal logic can count them down without an induction.

`BuddyDeviceProofs`: `DeviceTypeCorrect`, by four parts of the state that move
together. `OverlaysNest` is inductive given the types; the step that needs care
is the choice of Unpair, which cannot happen from under a page because the page
claims the side button first (`PressKeepsNesting`). `PasskeysHaveAPeer` goes
callback by callback. `DeviceHonoursThePanel` is the refinement, step by step: a
press that answers is a decision, a snapshot a telling, performing an answer
hands it over, and everything else stutters.

`PomodoroProofs`: the types, one equation over the recognizer that accounts for
presses, the shape of a cycle's event list, and the bound on what the rest of a
cycle may still wait. `CountdownsOnlyFall` uses the bound: a clock reading is
never older than a phase can bear. `HoldsAreHeldUnlessTheThreadWasDeaf` adds that
a thread that was not deaf has seen every sample of a press.

`GlassProofs`: `NoiseNeverTurns` is about the arithmetic alone: readings closer
than the margin that name a way up name the same. `MemoryIsAlwaysThePicture` is
inductive once it says, for each place of the cycle, what the panel holds.
`TurnsAreAlwaysSettled` relates the settler's candidate to the history of
readings. `GlassAlwaysCatchesUp` is the liveness property: at rest the cycle goes
round its six places, what it has read is `Current` from the next look on, the end
of a cycle has `CaughtUp`, and that stays, because a panel that shows the picture is
already turned its way (`Aligned`) and is only painted over with the same scene.

`ApiServerProofs`: `Inv` says who holds a slot at each place of the accept thread
and of a pump; cardinalities are moved one element at a time.
`MoistureIsAPercentage` holds for any calibration, backwards ones included.
`SubscribersAlwaysCatchUp` is the liveness property itself: a timed-out read leaves
no subscriber behind (`TimeoutsInform`), and `NothingIsAssumedSent` is what makes
the pump's comparison one with what the client knows. Of the other two the part
that fairness has nothing to do with is proved: `PatienceAlwaysRunsOut` (nobody's step
gives a wedged client more time, each of its thread's takes some),
`StoppedServersWindDown` (each thread's steps after the flag fell run out), and
`KnocksEndAccepting`, the accept thread's half of the shutdown.

`HealthProofs`: `AckedInOrder` says that the entries of the set stand in the order
of their silences, so the one that makes room is the one silenced longest ago;
`SilenceIsKept` and `MemoryIsThePromise` follow. They are theorems of the alarm
under any verdicts, and `BoardImplementsAlarm` brings them to the whole board.
`VerdictNamesTheWorst` is about the fold of the evidence, for any number of
components. `FoldExists` shows that the recursive function is defined,
`RankingIsAnOrder` that the ranking is a strict order whose equals rank alike, and
`WorseNamesTheWorst` is the step. Both inductions go by the least counterexample
(`LeastOf`, from the library's well-foundedness of the naturals), which needs no
operator parameter. `AgesStayNumbers` keeps the ages natural numbers.

Liveness. `tlapm` cannot compute ENABLED, so the three theorems that need fairness
state it as WF means it, with the states in which the action has nothing to do
written out: `LoopRuns`, `DisplayRuns` and `SwitchRuns`, `AcceptRuns`. TLC confirmed
on the models' instances that ENABLED holds outside those states, so that FairSpec
implies each. `MishapsEnd` and `FaultsEnd` say that the bounded counters stop
growing, which needs an induction over their bound. `SubscribersAlwaysCatchUp` needs
neither.

Left to TLC: the rest of liveness. `UnsilencedIsHeard` counts down a cadence,
`WedgedClientsAreReaped` an idle limit, `InputIsNeverShutOut` a melody,
`AnsweredBeforeDeadline` the queues, and `KnockEndsTheServer` waits for all
connections; for every value of the constants each is an induction over temporal
formulas, which needs an operator parameter. Every invariant and every other action
property that a run checks is also a theorem, and so are the refinements.

## 7. What the models found

Two runs end in a violation of what the repository's own documents say.

1. `loop_reused_id`: prompt ids start at `req_0` in every process, and the glass
   keeps its prompt over a disconnect: a press on the old `req_0` decides the new
   one, another call.
2. `device_glass`: a press decides a pending prompt whether or not the glass shows
   it. The approval band is the home screen's; a menu, a page or the reset
   confirmation covers it, and a passkey or the low battery's clock replaces it.
   An owner who presses A to confirm the reset, or to move the cursor, allows a
   tool call they have not seen. `state.rs:284` says "Answer the prompt on the
   glass".

### Known divergences

Met while modelling, modelled as the code has them, and without a run of their
own.

- Parallel calls: the ledger keeps one pending prompt per session, so when two
  calls of one session are in flight and one is answered, the next snapshot has no
  prompt though a hook waits (`coordinator.rs:144`). `gating.rs:18-20` says that an
  emitted packet can never silently clear a live approval, and
  `permission_loop.feature:58` that resolving one keeps the other.
- The late answer: the same line with one call at a time. A hook that gives up
  leaves its prompt pending; the owner's late answer to it resolves the session,
  and with it the prompt of the session's next call.
  `kb/guides/buddy-permission-hook.md:227` says a prompt survives "until a button or
  a link-drop clears it".
- The call asked twice: the first of these, seen by the owner. Two calls of two
  sessions are decided and both answers are on their way when the first session
  asks once more; the new prompt takes the glass, and the latch forgets the second
  call. The first answer then resolves its session, the new prompt goes, and the
  next snapshot shows the second call again, as unanswered, until its own answer
  is taken. The latch is there "so a second press does not answer it twice"
  (`state.rs:78`). It takes three hooks, and is why `SerialNeverAsksTwice` has its
  premise; a hook that gave up still counts, since the daemon holds its call.
- The good bond: any failure of a paired link counts towards the removal of its
  bond, also when both ends still hold it and the stick has only gone out of reach
  since it was located; neither a scan nor a plain disconnect clears the count.
  `bridge.feature:9-10` says "never merely because the stick is switched off", and
  `fsm.rs:33-34` that an absent device reconnects "with its bond intact".
- The deaf hold: a press that ends while the input thread waits for a jingle is
  seen released only at the next poll, by which time the hold may have run out
  (`debounce.rs:80`): a click becomes a Reset. `gesture.rs` says that a hold is
  reported "while the button is still down".
- The spoilt picture: `display.rs:46` says that after a failed render "the next
  cycle repaints regardless". If the state has gone back to the one remembered by
  then, nothing is repainted, and the spoilt picture stands until the next change.
  A failed clear also leaves the panel's `showing` behind what the controller scans
  (`panel.rs:352`), so that a board turned back is drawn the wrong way round.
- The talkative subscriber: `server.rs:20-22` says that a new reading reaches Home
  Assistant without the client asking. Changes are broadcast on a read timeout
  only, so a client that sends something every second is not told.
- The slow shutdown: `server.rs:122-126` says that connections notice within
  `read_timeout`. A write to a client that does not drain blocks up to
  `idle_timeout` first. A knock that fails leaves `serve` in accept until somebody
  connects.
- The crashed board: after a boot from a crash the verdict is never Healthy, so
  acknowledgements are never cleared, and one press mutes a fault for the rest of
  the boot, which is what `alarm.rs:87` says recovery prevents.

Smaller ones: `state.rs:46` speaks of heartbeats every ten seconds, the ticker's
period is five (`buddy-bridge/src/main.rs:35`); the guide says a killed daemon lets
the hook ride its deadline, while the closed socket makes it fall through at once.
A refused notify is lost by design (`input.rs` says why), which the model confirms
harmless for safety. `command.rs` says every command is acked; no code of the
firmware calls `dispatch`, and no code of the daemon calls `observe_tokens`.
`encryption_failures` survives the removal of a bond on the rejected-pairing edge,
so a bond made afterwards inherits the failures of the one before it. A click is
resolved when it is folded while the glass is painted at the display loop's
cadence, so a prompt that arrives after the last frame may be decided by a click
meant for the one still painted.

## 8. Not modelled

Drawing, animation, audio and numerics are data with no protocol. Most firmware
adapters are hardware I/O behind the ports of platform-core. JSON, protobuf, MTU
chunking and the passkey dialogue move no state that a property tells apart.
Wall-clock time is left out of the buddy: the deadline, the keepalive and the
backoff may elapse whenever they are armed, which covers every ratio of their
periods.

The host monitor's poller, the orientation filter, the generative art and the LED
driver have no module. Within the modelled components the stick's link window,
statistics and labels, the framer's byte limit and discard mode, the persona
layers, the frame meter and the stop flags of the runtime, the field values of the
API's replies, the trend and the advice of the plant monitor are missing.
`PROJECT.json` lists each component with its reason.

Behaviour that is modelled and that no property is about: the one snapshot that
carried a completion pulse may be lost on the air; the page shows the bond flag
as the last connection left it after the bonds are deleted; a species whose NVS
write fails is gone after a power cycle; a second hasty click on A, after a prompt
took the first, confirms the reset; a prompt replaced by a newer one of its
session stays in the coordinator's map until the link drops.

## 9. Plan

Written so far, in this order: `Ledger`, `Daemon`, `PermissionSpec`,
`PermissionLoop`, `BridgeFsm`, `LedgerMachine`, `ApprovalPanel`, `BuddyDevice`,
then `Gestures`, `PomodoroTimer` and `Pomodoro`, `Rotation` and `Glass`,
`SoilProbe`, `NativeApi` and `ApiServer`, `Alarm` and `Health`, each with its
proofs. Next, most important first:

1. `HostPoller`: the host monitor's staleness and retry policy.
2. `LineFraming`: the device's framer and the host's reassembler as functions on
   sequences, against a reference splitter, with the byte limit and the discard
   mode.
3. `Persona`: the one-shot layer, the nap counter and the link window against a
   clock, composed with `BuddyDevice`.
4. Proofs: what those modules promise, and of the models that have theorems the
   action properties no run has room for: that a press never reaches a prompt it
   was not made for while the stick shows it (`BuddyDevice`), and what a reaped
   connection leaves behind (`ApiServer`).

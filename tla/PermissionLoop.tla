--------------------------- MODULE PermissionLoop ---------------------------
(***************************************************************************)
(* The whole permission loop: hook processes, the daemon's mailbox and     *)
(* actor, the bridged BLE link and the stick with its owner.               *)
(*                                                                         *)
(*   hook --socket--> mailbox --actor--> downlink --radio--> glass         *)
(*   hook <--reply--- actor <--mailbox-- uplink <--notify--- button        *)
(*                                                                         *)
(* `Daemon` supplies the actor's steps; here each of them takes its input  *)
(* from the head of one FIFO mailbox and its lines and replies go          *)
(* somewhere.  Faults is the set of things that may go wrong, MaxFaults    *)
(* how often any of them may.                                              *)
(***************************************************************************)
EXTENDS Daemon

CONSTANTS
  Faults,      \* subset of {"drop", "lose", "reboot", "refuse", "crash"}
  MaxFaults,   \* bound: faults in a behaviour
  MaxQueue     \* bound: no keepalive is queued behind this many lines

ASSUME FaultsAssumption ==
  /\ Faults \subseteq {"drop", "lose", "reboot", "refuse", "crash"}
  /\ MaxFaults \in Nat
  /\ MaxQueue \in Nat
\* Nothing to read yet is not something to read.
ASSUME SilenceAssumption == None \notin Replies \cup {"EOF"}

VARIABLES
  daemonUp,    \* whether the bridge process runs
  mailbox,     \* the actor's unbounded channel of inputs
  linkUp,      \* whether DriveLoop is pumping a subscribed link
  downlink,    \* lines on their way to the stick, in order
  uplink,      \* responses on their way from the stick, in order
  glass,       \* DeviceState.snapshot.prompt
  answered,    \* DeviceState.answered
  torn,        \* whether the stick's framer holds a fragment of a lost line
  hook,        \* each hook process: "new", "waiting" or "done"
  reply,       \* what each hook's socket has to read: a reply, "EOF" or None
  outcome,     \* what each hook printed: "none" until it exits
  said,        \* history: what the owner decided, pairs <<call, decision>>
  faults       \* faults so far

linkVars   == <<linkUp, downlink, uplink>>
deviceVars == <<glass, answered, torn>>
hookVars   == <<hook, reply, outcome>>
loopVars   == <<daemonVars, daemonUp, mailbox, linkVars, deviceVars, hookVars, said, faults>>

HookInput(h)          == [kind |-> "hook", hook |-> h]
LinkUpInput           == [kind |-> "linkUp"]
LinkDownInput         == [kind |-> "linkDown"]
DeviceInput(response) == [kind |-> "deviceLine", response |-> response]
KeepaliveInput        == [kind |-> "keepalive"]

LoopInit ==
  /\ ActorInit
  /\ daemonUp = TRUE /\ mailbox = << >>
  /\ linkUp = FALSE /\ downlink = << >> /\ uplink = << >>
  /\ glass = None /\ answered = None /\ torn = FALSE
  /\ hook = [h \in Hooks |-> "new"]
  /\ reply = [h \in Hooks |-> None]
  /\ outcome = [h \in Hooks |-> "none"]
  /\ said = {}
  /\ faults = 0

\* A fault of this kind may still happen.
MayFail(kind) == kind \in Faults /\ faults < MaxFaults
Fails(kind)   == MayFail(kind) /\ faults' = faults + 1

-----------------------------------------------------------------------------
(* The hook process: connect, write one request, block on one reply line.  *)

\* With the daemon down the connect is refused and the hook is silent at once.
HookAsks(h) ==
  /\ hook[h] = "new"
  /\ IF daemonUp
     THEN /\ hook' = [hook EXCEPT ![h] = "waiting"]
          /\ mailbox' = Append(mailbox, HookInput(h))
          /\ UNCHANGED outcome
     ELSE /\ hook' = [hook EXCEPT ![h] = "done"]
          /\ outcome' = [outcome EXCEPT ![h] = "silent"]
          /\ UNCHANGED mailbox
  /\ UNCHANGED <<daemonVars, daemonUp, linkVars, deviceVars, reply, said, faults>>

\* One tool call of a session in flight at a time.
HookAsksAlone(h) ==
  /\ \A other \in Hooks : SessionOf[other] = SessionOf[h] => hook[other] # "waiting"
  /\ HookAsks(h)

\* Mutant: a reply that decides nothing is taken for consent.
FailsOpen(line) == IF line = "Deny" THEN "deny" ELSE "allow"

\* to_outcome, then decide: only a decided reply is printed.
Verdict(line) == CASE line = "Allow" -> "allow"
                   [] line = "Deny"  -> "deny"
                   [] OTHER          -> "silent"

HookReads(h) ==
  /\ hook[h] = "waiting"
  /\ reply[h] # None
  /\ hook' = [hook EXCEPT ![h] = "done"]
  /\ outcome' = [outcome EXCEPT ![h] = Verdict(reply[h])]
  /\ UNCHANGED <<daemonVars, daemonUp, mailbox, linkVars, deviceVars, reply, said, faults>>

\* The hook's own deadline.  Nobody tells the daemon.
HookTimesOut(h) ==
  /\ hook[h] = "waiting"
  /\ hook' = [hook EXCEPT ![h] = "done"]
  /\ outcome' = [outcome EXCEPT ![h] = "silent"]
  /\ UNCHANGED <<daemonVars, daemonUp, mailbox, linkVars, deviceVars, reply, said, faults>>

-----------------------------------------------------------------------------
(* The actor, taking the head of its mailbox.                              *)

\* The sender the actor holds is the live link's own only when no link event is
\* still queued behind: an older one's receiver is gone and its lines vanish.
ChannelIsCurrent(queued) ==
  /\ linkUp
  /\ \A i \in DOMAIN queued : queued[i] \notin {LinkUpInput, LinkDownInput}

Heads(kind) == daemonUp /\ mailbox # << >> /\ Head(mailbox).kind = kind

\* perform: lines to the channel, replies to the oneshots.
Performs ==
  /\ mailbox' = Tail(mailbox)
  /\ downlink' = downlink \o SentLines(linkOut' /\ ChannelIsCurrent(mailbox'))
  /\ reply' = [h \in Hooks |-> IF h \in Answered /\ hook[h] = "waiting"
                               THEN effects'.replies[h] ELSE reply[h]]
  /\ UNCHANGED <<daemonUp, linkUp, uplink, deviceVars, hook, outcome, said, faults>>

ActorTakesLinkUp    == Heads("linkUp")     /\ StepLinkUp   /\ Performs
ActorTakesLinkDown  == Heads("linkDown")   /\ StepLinkDown /\ Performs
ActorTakesKeepalive == Heads("keepalive")  /\ StepKeepalive /\ Performs
ActorTakesHook      == Heads("hook")       /\ StepHook(Head(mailbox).hook) /\ Performs
ActorTakesResponse  == Heads("deviceLine") /\ StepDeviceLine(Head(mailbox).response) /\ Performs

ActorTakes ==
  \/ ActorTakesLinkUp
  \/ ActorTakesLinkDown
  \/ ActorTakesKeepalive
  \/ ActorTakesHook
  \/ ActorTakesResponse

\* The ticker.  A tick still queued makes another one redundant, and a backlog
\* of MaxQueue lines bounds the model.
KeepaliveTicks ==
  /\ daemonUp
  /\ Len(downlink) < MaxQueue
  /\ \A i \in DOMAIN mailbox : mailbox[i] # KeepaliveInput
  /\ mailbox' = Append(mailbox, KeepaliveInput)
  /\ UNCHANGED <<daemonVars, daemonUp, linkVars, deviceVars, hookVars, said, faults>>

-----------------------------------------------------------------------------
(* The link: DriveLoop's on_run.                                           *)

\* Mutant: a link that is up is announced again.
ConnectsTwice ==
  /\ daemonUp
  /\ linkUp' = TRUE
  /\ mailbox' = Append(mailbox, LinkUpInput)
  /\ UNCHANGED <<daemonVars, daemonUp, downlink, uplink, deviceVars, hookVars, said, faults>>

\* on_up: a fresh channel, announced to the actor.
BridgeConnects ==
  /\ daemonUp /\ ~linkUp
  /\ linkUp' = TRUE
  /\ mailbox' = Append(mailbox, LinkUpInput)
  /\ UNCHANGED <<daemonVars, daemonUp, downlink, uplink, deviceVars, hookVars, said, faults>>

\* What a line cut short leaves in the stick's framer, which outlives the link.
CutShort == torn' \in (IF downlink = << >> THEN {torn} ELSE {torn, TRUE})

\* The TX stream ends: what was in flight is gone, and on_down is announced.
LinkDrops ==
  /\ linkUp
  /\ Fails("drop")
  /\ linkUp' = FALSE /\ downlink' = << >> /\ uplink' = << >>
  /\ mailbox' = Append(mailbox, LinkDownInput)
  /\ CutShort
  /\ UNCHANGED <<daemonVars, daemonUp, glass, answered, hookVars, said>>

\* absorb: one whole line from the stick.
BridgeAbsorbs ==
  /\ linkUp /\ uplink # << >>
  /\ mailbox' = Append(mailbox, DeviceInput(Head(uplink)))
  /\ uplink' = Tail(uplink)
  /\ UNCHANGED <<daemonVars, daemonUp, linkUp, downlink, deviceVars, hookVars, said, faults>>

\* emit: a failed write abandons the line, and whatever pieces of it went out
\* stay in the stick's framer.
BridgeLosesLine ==
  /\ linkUp /\ downlink # << >>
  /\ Fails("lose")
  /\ CutShort
  /\ downlink' = Tail(downlink)
  /\ UNCHANGED <<daemonVars, daemonUp, mailbox, linkUp, uplink, glass, answered, hookVars, said>>

-----------------------------------------------------------------------------
(* The stick.                                                              *)

IdOf(prompt) == IF prompt = None THEN None ELSE prompt.id

\* Mutant: every snapshot makes the glass answerable again.
ApplyForgetsAnswer(line) ==
  IF line.kind # "snapshot"
  THEN UNCHANGED <<glass, answered>>
  ELSE glass' = line.packet.prompt /\ answered' = None

\* DeviceState::apply: only a snapshot touches the prompt, and a change of id
\* makes the glass answerable again.
Apply(line) ==
  IF line.kind # "snapshot"
  THEN UNCHANGED <<glass, answered>>
  ELSE /\ glass' = line.packet.prompt
       /\ answered' = IF IdOf(glass') = IdOf(glass) THEN answered ELSE None

\* A line glued onto a fragment does not parse and is dropped.
DeviceReceives ==
  /\ linkUp /\ downlink # << >>
  /\ downlink' = Tail(downlink)
  /\ IF torn
     THEN torn' = FALSE /\ UNCHANGED <<glass, answered>>
     ELSE Apply(Head(downlink)) /\ UNCHANGED torn
  /\ UNCHANGED <<daemonVars, daemonUp, mailbox, linkUp, uplink, hookVars, said, faults>>

Unanswered == glass # None /\ answered # glass.id

\* The owner presses A ("once") or B ("deny").  The response is notified once,
\* and lost when no central is connected or the stack refuses it.
Press(decision) ==
  /\ Unanswered
  /\ answered' = glass.id
  /\ said' = said \cup {<<glass.call, decision>>}
  /\ UNCHANGED <<daemonVars, daemonUp, mailbox, linkUp, downlink, glass, torn, hookVars>>

Notifies(decision) ==
  /\ uplink' = IF linkUp THEN Append(uplink, [id |-> glass.id, decision |-> decision]) ELSE uplink
  /\ UNCHANGED faults

OwnerAnswers(decision) == Press(decision) /\ Notifies(decision)
OwnerIsRefused(decision) == Press(decision) /\ linkUp /\ Fails("refuse") /\ UNCHANGED uplink

\* DeviceState::new; the link goes with it.
StickReboots ==
  /\ Fails("reboot")
  /\ glass' = None /\ answered' = None /\ torn' = FALSE
  /\ linkUp' = FALSE /\ downlink' = << >> /\ uplink' = << >>
  /\ mailbox' = IF linkUp THEN Append(mailbox, LinkDownInput) ELSE mailbox
  /\ UNCHANGED <<daemonVars, daemonUp, hookVars, said>>

-----------------------------------------------------------------------------
(* The bridge process dies and is started again: the actor, its mailbox    *)
(* and the link go together; a reply already written stays readable.       *)

DaemonCrashes ==
  /\ daemonUp
  /\ Fails("crash")
  /\ daemonUp' = FALSE
  /\ mailbox' = << >>
  /\ linkUp' = FALSE /\ downlink' = << >> /\ uplink' = << >>
  /\ CutShort
  /\ reply' \in {r \in [Hooks -> Replies \cup {"EOF", None}] :
                   \A h \in Hooks : r[h] \in (IF hook[h] = "waiting"
                                              THEN {"EOF"} \cup ({reply[h]} \ {None})
                                              ELSE {reply[h]})}
  /\ bonded' = FALSE /\ promptSeq' = 0 /\ pending' = NoPending
  /\ ledger' = NewLedger /\ effects' = NoEffects
  /\ waiters' = {} /\ linkOut' = FALSE
  /\ UNCHANGED <<asked, glass, answered, hook, outcome, said>>

DaemonStarts ==
  /\ ~daemonUp
  /\ daemonUp' = TRUE
  /\ UNCHANGED <<daemonVars, mailbox, linkVars, deviceVars, hookVars, said, faults>>

-----------------------------------------------------------------------------
(* The loop.                                                               *)

Protocol ==
  \/ \E h \in Hooks : HookReads(h) \/ HookTimesOut(h)
  \/ ActorTakes
  \/ KeepaliveTicks
  \/ BridgeConnects
  \/ BridgeAbsorbs
  \/ DeviceReceives
  \/ \E decision \in Decisions : OwnerAnswers(decision)

Mishaps ==
  \/ LinkDrops
  \/ BridgeLosesLine
  \/ \E decision \in Decisions : OwnerIsRefused(decision)
  \/ StickReboots
  \/ DaemonCrashes
  \/ DaemonStarts

LoopNext   == Protocol \/ Mishaps \/ \E h \in Hooks : HookAsks(h)
SerialLoop == Protocol \/ Mishaps \/ \E h \in Hooks : HookAsksAlone(h)

LoopSpec       == LoopInit /\ [][LoopNext]_loopVars
SerialLoopSpec == LoopInit /\ [][SerialLoop]_loopVars

\* What runs keeps running: the actor's task, the ticker, DriveLoop, the stick's
\* receive callback, a hook blocked on its socket, and an owner who answers what
\* the glass asks.  Nothing is assumed of the hook's deadline or of faults.
Diligent ==
  /\ WF_loopVars(ActorTakes)
  /\ WF_loopVars(KeepaliveTicks)
  /\ WF_loopVars(BridgeConnects)
  /\ WF_loopVars(BridgeAbsorbs)
  /\ WF_loopVars(DeviceReceives)
  /\ WF_loopVars(DaemonStarts)
  /\ WF_loopVars(\E decision \in Decisions : OwnerAnswers(decision))
  /\ \A h \in Hooks : WF_loopVars(HookReads(h))

DiligentSpec == SerialLoopSpec /\ Diligent

-----------------------------------------------------------------------------
(* Properties.                                                             *)

\* A verdict is the owner's word about this call (ipc.rs: `Allow` is "The owner
\* approved on the stick").
VerdictIsAuthentic ==
  \A h \in Hooks : /\ outcome[h] = "allow" => <<h, "once">> \in said
                   /\ outcome[h] = "deny"  => <<h, "deny">> \in said

\* The loop keeps the promise of PermissionSpec.
Promise == INSTANCE PermissionSpec WITH
  Calls <- Hooks, asked <- {h \in Hooks : hook[h] # "new"}
KeepsPromise == Promise!Spec

\* The daemon inside the loop only ever meets inputs that the open module Daemon
\* allows its environment, so what is shown of Daemon holds here.
DaemonIsDriven == Spec

\* An id on the glass that the daemon still pends is about the very call the
\* owner reads there, across drops, reboots and reconnects.
GlassNamesItsCall ==
  glass # None /\ glass.id \in DOMAIN pending => pending[glass.id].hook = glass.call

NeverAsksTwice ==
  Unanswered => \A decision \in Decisions : <<glass.call, decision>> \notin said

\* As long as no session has two calls in flight, the glass never asks again about
\* a call its owner has decided, whatever was shown, dropped or lost in between.
SerialNeverAsksTwice == []OneCallPerSession => []NeverAsksTwice

\* No hook is left hanging with nobody to answer it: one that blocks without a
\* reply is still queued to the daemon or pending there, through restarts too.
NoHookIsStranded ==
  \A h \in Hooks : hook[h] = "waiting" /\ reply[h] = None =>
    \/ \E i \in DOMAIN mailbox : mailbox[i] = HookInput(h)
    \/ \E id \in DOMAIN pending : pending[id].hook = h

\* No verdict comes from nowhere: whatever restarted, was lost or was refused, an
\* exit with a verdict follows that decision by the owner about some call.
EveryVerdictWasPressed ==
  \A h \in Hooks :
    /\ outcome[h] = "allow" => \E call \in Hooks : <<call, "once">> \in said
    /\ outcome[h] = "deny"  => \E call \in Hooks : <<call, "deny">> \in said

\* No call waits for its deadline: while the owner answers what the glass asks,
\* every hook gets its reply, whatever is dropped or lost on the way.
AnsweredBeforeDeadline ==
  \A h \in Hooks : hook[h] = "waiting" ~> hook[h] = "done"
=============================================================================

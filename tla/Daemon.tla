------------------------------- MODULE Daemon -------------------------------
(***************************************************************************)
(* The permission daemon: the pure Coordinator of buddy-daemon-core and    *)
(* the single-owner actor of buddy-daemon-shell that folds one input at a  *)
(* time into it and performs the effects it returns.                       *)
(*                                                                         *)
(* This module is the daemon alone, in an environment that may present any *)
(* input the edges can produce; PermissionLoop closes it with the hooks,   *)
(* the radio link and the stick.  A handler leaves what it asks for in     *)
(* `effects`, as the code returns a Vec<Effect>: the lines for the link,   *)
(* in order, and the replies to waiting hooks.                             *)
(***************************************************************************)
EXTENDS Ledger, Sequences, Functions

CONSTANTS
  Hooks,       \* one per tool call: a hook process, its HookId and its request
  SessionOf    \* the session_id each hook's request carries

ASSUME SessionOfAssumption == SessionOf \in [Hooks -> Sessions]
\* An absent prompt is not a prompt, nor an absent answer an answer.
ASSUME NoneAssumption ==
  /\ None \notin [id : Nat, call : Hooks]
  /\ None \notin [seq : Nat, prompt : [id : Nat, call : Hooks]]
  /\ None \notin [id : Nat, decision : {"once", "deny"}]

VARIABLES
  bonded,      \* Coordinator.bonded
  promptSeq,   \* Coordinator.prompt_seq: the next prompt id, `req_{n}`
  pending,     \* Coordinator.pending: prompt id -> [hook, session]
  ledger,      \* Coordinator.ledger
  waiters,     \* the actor's oneshots: hooks still owed a reply
  linkOut,     \* whether the actor holds an outbound channel
  effects,     \* what the last fold returned
  asked        \* hooks that have reached the daemon (a HookId is minted once)

coordinatorVars == <<bonded, promptSeq, pending, ledger, effects>>
daemonVars      == <<bonded, promptSeq, pending, ledger, waiters, linkOut, effects, asked>>

Decisions == {"once", "deny"}
Replies   == {"Allow", "Deny", "Unbonded"}
Prompts   == [id : Nat, call : Hooks]
Responses == [id : Nat, decision : Decisions]

TimeLine            == [kind |-> "time"]
OwnerLine           == [kind |-> "owner"]
SnapshotLine(packet) == [kind |-> "snapshot", packet |-> packet]

NoReplies == [h \in {} |-> "Unbonded"]
NoPending == [id \in {} |-> None]
Effects(lines, replies) == [lines |-> lines, replies |-> replies]
NoEffects == Effects(<< >>, NoReplies)

\* HashMap::insert.
Insert(map, key, value) ==
  [k \in DOMAIN map \cup {key} |-> IF k = key THEN value ELSE map[k]]

-----------------------------------------------------------------------------
(* The coordinator.                                                        *)

CoordinatorInit ==
  /\ bonded = FALSE
  /\ promptSeq = 0
  /\ pending = NoPending
  /\ ledger = NewLedger
  /\ effects = NoEffects

\* emit_snapshot: synthesize (which clears the pulse), gate, serialize.
EmitFrom(l, before, replies) ==
  /\ ledger'  = AfterSynthesis(l)
  /\ effects' = Effects(Append(before, SnapshotLine(GatedSnapshot(l))), replies)

\* Mutant: the snapshot is synthesized and thrown away while unbonded.
SynthesizeAnyway(l) ==
  IF bonded
  THEN EmitFrom(l, << >>, NoReplies)
  ELSE ledger' = AfterSynthesis(l) /\ effects' = NoEffects

EmitIfBonded(l) ==
  IF bonded
  THEN EmitFrom(l, << >>, NoReplies)
  ELSE ledger' = l /\ effects' = NoEffects

OnLinkUp ==
  /\ bonded' = TRUE
  /\ EmitFrom(ledger, <<TimeLine, OwnerLine>>, NoReplies)
  /\ UNCHANGED <<promptSeq, pending>>

\* Mutants: the drain forgets the ledger, the replies, or that ids stay spent.
DrainKeepsPrompts ==
  /\ bonded' = FALSE
  /\ pending' = NoPending
  /\ effects' = Effects(<< >>, [h \in {d.hook : d \in Range(pending)} |-> "Unbonded"])
  /\ UNCHANGED <<promptSeq, ledger>>

DrainForgetsReplies ==
  /\ bonded' = FALSE
  /\ pending' = NoPending
  /\ ledger' = [ledger EXCEPT !.sessions =
                  [s \in Sessions |-> [@[s] EXCEPT !.pending = None]]]
  /\ effects' = NoEffects
  /\ UNCHANGED promptSeq

DrainRestartsIds ==
  LET drained == Range(pending)
  IN /\ bonded' = FALSE
     /\ pending' = NoPending
     /\ ledger' = [ledger EXCEPT !.sessions =
                     [s \in Sessions |-> IF s \in {d.session : d \in drained}
                                         THEN [@[s] EXCEPT !.seen = TRUE, !.pending = None]
                                         ELSE @[s]]]
     /\ effects' = Effects(<< >>, [h \in {d.hook : d \in drained} |-> "Unbonded"])
     /\ promptSeq' = 0

\* Every pending approval is answered Unbonded and its session resolved; no
\* line is emitted.
OnLinkDown ==
  LET drained  == Range(pending)
      sessions == {d.session : d \in drained}
      hooks    == {d.hook : d \in drained}
  IN /\ bonded'  = FALSE
     /\ pending' = NoPending
     /\ ledger'  = [ledger EXCEPT !.sessions =
                      [s \in Sessions |-> IF s \in sessions
                                          THEN [@[s] EXCEPT !.seen = TRUE, !.pending = None]
                                          ELSE @[s]]]
     /\ effects' = Effects(<< >>, [h \in hooks |-> "Unbonded"])
     /\ UNCHANGED promptSeq

OnHook(h) ==
  LET s      == SessionOf[h]
      prompt == [id |-> promptSeq, call |-> h]
  IN IF ~bonded
     THEN /\ effects' = Effects(<< >>, [x \in {h} |-> "Unbonded"])
          /\ UNCHANGED <<bonded, promptSeq, pending, ledger>>
     ELSE /\ promptSeq' = promptSeq + 1
          /\ pending'   = Insert(pending, promptSeq, [hook |-> h, session |-> s])
          /\ EmitFrom(Record(ledger, s, AwaitingApproval(prompt)), << >>, NoReplies)
          /\ UNCHANGED bonded

ReplyFor(decision) == IF decision = "once" THEN "Allow" ELSE "Deny"

\* `response` is None for a line that does not parse as a permission response.
OnDeviceLine(response) ==
  IF response = None \/ response.id \notin DOMAIN pending
  THEN /\ effects' = NoEffects
       /\ UNCHANGED <<bonded, promptSeq, pending, ledger>>
  ELSE LET answered == pending[response.id]
       IN /\ pending' = Restrict(pending, DOMAIN pending \ {response.id})
          /\ EmitFrom(Record(ledger, answered.session, Resolved), << >>,
                      [h \in {answered.hook} |-> ReplyFor(response.decision)])
          /\ UNCHANGED <<bonded, promptSeq>>

\* The approval variants are refused at this door.
OnSessionEvent(s, event) ==
  /\ EmitIfBonded(IF event \in LifecycleEvents THEN Record(ledger, s, event) ELSE ledger)
  /\ UNCHANGED <<bonded, promptSeq, pending>>

\* Mutant: the tick only keeps the radio awake.
KeepaliveIsSilent ==
  /\ effects' = NoEffects
  /\ UNCHANGED <<bonded, promptSeq, pending, ledger>>

OnKeepalive ==
  /\ EmitIfBonded(ledger)
  /\ UNCHANGED <<bonded, promptSeq, pending>>

-----------------------------------------------------------------------------
(* The actor: `step`, which registers what the input carries, folds it and *)
(* performs the effects in order.                                          *)

ActorInit ==
  /\ CoordinatorInit
  /\ waiters = {}
  /\ linkOut = FALSE
  /\ asked = {}

\* The lines that reach a channel, and the oneshots that are resolved.
SentLines(out) == IF out THEN effects'.lines ELSE << >>
Answered       == DOMAIN effects'.replies

StepLinkUp ==
  /\ linkOut' = TRUE
  /\ OnLinkUp
  /\ waiters' = waiters \ Answered
  /\ UNCHANGED asked

\* Mutant: the channel of the link that went is kept.
LinkDownKeepsChannel ==
  /\ OnLinkDown
  /\ waiters' = waiters \ Answered
  /\ UNCHANGED <<linkOut, asked>>

StepLinkDown ==
  /\ OnLinkDown
  /\ waiters' = waiters \ Answered
  /\ linkOut' = FALSE
  /\ UNCHANGED asked

\* Mutant: the oneshot is registered after the effects are performed.
RegisterLate(h) ==
  /\ OnHook(h)
  /\ waiters' = (waiters \ Answered) \cup {h}
  /\ asked' = asked \cup {h}
  /\ UNCHANGED linkOut

StepHook(h) ==
  /\ OnHook(h)
  /\ waiters' = (waiters \cup {h}) \ Answered
  /\ asked' = asked \cup {h}
  /\ UNCHANGED linkOut

StepDeviceLine(response) ==
  /\ OnDeviceLine(response)
  /\ waiters' = waiters \ Answered
  /\ UNCHANGED <<linkOut, asked>>

StepKeepalive ==
  /\ OnKeepalive
  /\ waiters' = waiters \ Answered
  /\ UNCHANGED <<linkOut, asked>>

\* `on_session_event` is the coordinator's, called by no input of the actor.
StepSessionEvent(s, event) ==
  /\ OnSessionEvent(s, event)
  /\ UNCHANGED <<waiters, linkOut, asked>>

-----------------------------------------------------------------------------
(* The environment: the link alternates (DriveLoop announces `up` then      *)
(* `down`), a hook is minted once, a device line may answer any id.         *)

HookArrives(h) == h \notin asked /\ StepHook(h)

LinkComesUp   == ~bonded /\ StepLinkUp
LinkGoesDown  == bonded /\ StepLinkDown
DeviceSpeaks  ==
  \E response \in [id : 0 .. promptSeq, decision : Decisions] \cup {None} :
    StepDeviceLine(response)
SessionEvents == LifecycleEvents \cup {Resolved, AwaitingApproval([id |-> promptSeq, call |-> None])}
SessionSpeaks == \E s \in Sessions, event \in SessionEvents : StepSessionEvent(s, event)

EnvironmentNext ==
  \/ LinkComesUp
  \/ LinkGoesDown
  \/ DeviceSpeaks
  \/ StepKeepalive
  \/ SessionSpeaks

Next == EnvironmentNext \/ \E h \in Hooks : HookArrives(h)
Spec == ActorInit /\ [][Next]_daemonVars

-----------------------------------------------------------------------------
(* Properties.                                                             *)

LedgerType == LedgersOver(Prompts)

\* Every variable of the daemon has the type its Rust declaration gives it.
TypeOK ==
  /\ bonded \in BOOLEAN
  /\ promptSeq \in Nat
  /\ DOMAIN pending \subseteq Nat
  /\ pending \in [DOMAIN pending -> [hook : Hooks, session : Sessions]]
  /\ ledger \in LedgerType
  /\ waiters \subseteq Hooks
  /\ linkOut \in BOOLEAN
  /\ asked \subseteq Hooks
  /\ DOMAIN effects = {"lines", "replies"}
  /\ DOMAIN effects.replies \subseteq Hooks
  /\ effects.replies \in [DOMAIN effects.replies -> Replies]

\* Whatever prompt the ledger shows for a session, the coordinator still knows
\* its id and will route an answer to the hook that raised it: an owner's press
\* on what the glass shows is never answered with "unknown id".
ShownPromptIsAnswerable ==
  \A s \in Waiting(ledger) :
    LET prompt == ledger.sessions[s].pending.prompt
    IN /\ prompt.id \in DOMAIN pending
       /\ pending[prompt.id] = [hook |-> prompt.call, session |-> s]

\* The actor's oneshots and the coordinator's pending map are kept by two
\* pieces of code and name exactly the same hooks, each under one prompt id: no
\* hook is dropped without a reply and none is owed two.
EveryWaiterHasOnePrompt ==
  /\ waiters = {pending[id].hook : id \in DOMAIN pending}
  /\ \A i, j \in DOMAIN pending : pending[i].hook = pending[j].hook => i = j

\* While the link is down nobody waits and no prompt survives in the ledger, so
\* nothing stale resurfaces in the next handshake.
NothingPendsUnbonded ==
  ~bonded => waiters = {} /\ Waiting(ledger) = {} /\ ~linkOut

\* The inductive strengthening of the three: ids in use were minted, and a hook
\* that waits has asked, so the next hook and the next id are fresh.
IdsWereMinted   == \A id \in DOMAIN pending : id < promptSeq
WaitersHaveAsked == waiters \subseteq asked

Bookkeeping ==
  /\ IdsWereMinted
  /\ WaitersHaveAsked
  /\ ShownPromptIsAnswerable
  /\ EveryWaiterHasOnePrompt
  /\ NothingPendsUnbonded

\* `waiting` counts exactly what the glass can show: in every emitted snapshot
\* the count is zero iff the prompt is absent (ledger.rs: "holds if and only if").
CountAgreesWithPrompt ==
  \A i \in DOMAIN effects.lines :
    LET line == effects.lines[i]
    IN line.kind = "snapshot" => (line.packet.waiting = 0 <=> line.packet.prompt = None)

\* Some line carries the completion pulse.
Pulsed(lines) ==
  \E i \in DOMAIN lines : lines[i].kind = "snapshot" /\ lines[i].packet.completed

\* A completion is never lost inside the daemon: one that has happened, with the
\* link up or down, is held until a step puts `completed` on a line.
CompletionIsEmitted ==
  [][ \/ ledger.completedPulse
      \/ \E s \in Sessions : StepSessionEvent(s, Completed)
      => ledger'.completedPulse \/ Pulsed(effects'.lines) ]_daemonVars

\* A client may have several tool calls of a session in flight; the ledger keeps
\* one prompt per session.
OneCallPerSession == \A g, h \in waiters : SessionOf[g] = SessionOf[h] => g = h

EveryWaiterIsShown ==
  \A id \in DOMAIN pending :
    LET shown == ledger.sessions[pending[id].session].pending
    IN shown # None /\ shown.prompt.id = id

\* The session an approval is filed under is the one its request carried.
FiledUnderItsSession == \A id \in DOMAIN pending : pending[id].session = SessionOf[pending[id].hook]

NoBareSnapshot ==
  \A i \in DOMAIN effects.lines :
    effects.lines[i].kind = "snapshot" /\ effects.lines[i].packet.prompt = None
      => waiters = {}

GlassShowsTheNewest ==
  \A i \in DOMAIN effects.lines :
    effects.lines[i].kind = "snapshot" /\ effects.lines[i].packet.prompt # None
      => \A id \in DOMAIN pending : id =< effects.lines[i].packet.prompt.id

\* As long as no session has two calls in flight, every waiting hook's own prompt
\* is live in the ledger, and no snapshot without a prompt leaves the daemon while
\* a hook waits: the device would take the approval off the glass (gating.rs).
SerialApprovalsStayUp == []OneCallPerSession => [](EveryWaiterIsShown /\ NoBareSnapshot)

\* As long as no session has two calls in flight, the prompt a snapshot carries is
\* the newest one still waiting.
SerialGlassShowsTheNewest == []OneCallPerSession => []GlassShowsTheNewest
=============================================================================

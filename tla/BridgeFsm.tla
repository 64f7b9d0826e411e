------------------------------ MODULE BridgeFsm ------------------------------
(***************************************************************************)
(* How the bridge finds, pairs with, subscribes to and recovers the stick: *)
(* the Mealy machine of buddy-bridge-core (fsm.rs) driven by DriveLoop     *)
(* against a Central.  Each step performs the pending action and feeds its *)
(* outcome to the machine.                                                 *)
(*                                                                         *)
(* Around it: the stick, which may be out of reach or forget its bonds,    *)
(* and BlueZ, which holds the host's half of the bond.  An attempt fails   *)
(* for a reason these states give, or by a mishap.                         *)
(***************************************************************************)
EXTENDS Integers

CONSTANTS
  AttemptMax,    \* u32::MAX, where the failure counters saturate
  CacheAnswers,  \* whether a scan also reports a device BlueZ merely knows
  MaxMishaps     \* bound: events of the world and transient failures

ASSUME AttemptAssumption == AttemptMax \in Nat /\ AttemptMax >= 7
ASSUME WorldAssumption   == CacheAnswers \in BOOLEAN /\ MaxMishaps \in Nat

VARIABLES
  fsm,        \* Fsm: state, attempt, encryptionFailures
  action,     \* DriveLoop.action: what is performed next
  tx,         \* DriveLoop.tx: whether it holds a subscribed stream
  up,         \* whether on_run is pumping: on_up announced, on_down not yet
  device,     \* BluerCentral.device: whether it holds a handle
  wasPaired,  \* BluerCentral.was_paired_at_connect
  present,    \* the stick is on, and in range
  known,      \* BlueZ has the device in its cache
  hostBond,   \* BlueZ holds a key for the stick
  stickBond,  \* the stick holds the key that matches it
  evidence,   \* history: failures of a paired link since a link last worked or a bond
              \* was last given up for them
  mishaps     \* mishaps so far

loopVars  == <<fsm, action, tx, up>>
stackVars == <<device, wasPaired, known, hostBond>>
vars      == <<loopVars, stackVars, present, stickBond, evidence, mishaps>>

States == {"Disconnected", "Locating", "Connecting", "Pairing", "Repairing",
           "Encrypted", "Subscribed"}
Operations == {"Locate", "Connect", "Pair", "RemoveDeviceThenReacquire", "Subscribe",
               "Run", "FailFast"}

RebondAfterEncryptionFailures == 3

(***************************************************************************)
(* backoff.rs, in milliseconds: 250 doubled per failure, at most 30 000.   *)
(***************************************************************************)
Base == 250
Longest == 30000
\* 1 << shift.
PowerOfTwo == [shift \in 0 .. 7 |->
  CASE shift = 0 -> 1  [] shift = 1 -> 2  [] shift = 2 -> 4  [] shift = 3 -> 8
    [] shift = 4 -> 16 [] shift = 5 -> 32 [] shift = 6 -> 64 [] shift = 7 -> 128]

\* Mutant: the ceiling is forgotten.
BackoffUnclamped(attempt) == Base * PowerOfTwo[IF attempt < 7 THEN attempt ELSE 7]

Backoff(attempt) ==
  LET shift  == IF attempt < 7 THEN attempt ELSE 7
      millis == Base * PowerOfTwo[shift]
  IN IF millis < Longest THEN millis ELSE Longest

Do(operation)  == [kind |-> operation]
Sleep(millis)  == [kind |-> "Backoff", millis |-> millis]

-----------------------------------------------------------------------------
(* The machine: Fsm::on.                                                   *)

\* Mutant: a recovered device is connected to without being located.
EdgesPastLocate ==
  { <<"Disconnected", "BackoffElapsed",            "Locating",   "Locate">>,
    <<"Locating",     "Located",                   "Connecting", "Connect">>,
    <<"Connecting",   "ConnectedFresh",            "Pairing",    "Pair">>,
    <<"Connecting",   "ConnectedPaired",           "Encrypted",  "Subscribe">>,
    <<"Pairing",      "LinkEncrypted",             "Encrypted",  "Subscribe">>,
    <<"Pairing",      "PairRejectedAlreadyPaired", "Repairing",  "RemoveDeviceThenReacquire">>,
    <<"Repairing",    "Reacquired",                "Connecting", "Connect">>,
    <<"Encrypted",    "NotifySubscribed",          "Subscribed", "Run">> }

\* The edges that only move on: in a state, on an event, to a state, doing.
Edges ==
  { <<"Disconnected", "BackoffElapsed",            "Locating",   "Locate">>,
    <<"Locating",     "Located",                   "Connecting", "Connect">>,
    <<"Connecting",   "ConnectedFresh",            "Pairing",    "Pair">>,
    <<"Connecting",   "ConnectedPaired",           "Encrypted",  "Subscribe">>,
    <<"Pairing",      "LinkEncrypted",             "Encrypted",  "Subscribe">>,
    <<"Pairing",      "PairRejectedAlreadyPaired", "Repairing",  "RemoveDeviceThenReacquire">>,
    <<"Repairing",    "Reacquired",                "Locating",   "Locate">>,
    <<"Encrypted",    "NotifySubscribed",          "Subscribed", "Run">> }

Expects(event)     == \E edge \in Edges : edge[1] = fsm.state /\ edge[2] = event
LooksStale(event)  == event = "EncryptionFailed"
                        /\ fsm.state \in {"Connecting", "Pairing", "Encrypted"}

Bump(count) == IF count < AttemptMax THEN count + 1 ELSE count

\* fail_to_backoff, with the encryption-failure count it goes with.
FailToBackoff(failures) ==
  /\ action' = Sleep(Backoff(fsm.attempt))
  /\ fsm' = [state |-> "Disconnected", attempt |-> Bump(fsm.attempt),
             encryptionFailures |-> failures]

\* Mutant: the failures that cost one bond are held against the next.
RecoversKeepingCount ==
  LET failures == Bump(fsm.encryptionFailures)
  IN IF failures < RebondAfterEncryptionFailures
     THEN FailToBackoff(failures)
     ELSE /\ action' = Do("RemoveDeviceThenReacquire")
          /\ fsm' = [fsm EXCEPT !.state = "Repairing", !.encryptionFailures = failures]

\* Mutant: the recovery leaves the machine where it was.
RecoversInPlace ==
  LET failures == Bump(fsm.encryptionFailures)
  IN IF failures < RebondAfterEncryptionFailures
     THEN FailToBackoff(failures)
     ELSE /\ action' = Do("RemoveDeviceThenReacquire")
          /\ fsm' = [fsm EXCEPT !.encryptionFailures = 0]

OnEncryptionFailure ==
  LET failures == Bump(fsm.encryptionFailures)
  IN IF failures < RebondAfterEncryptionFailures
     THEN FailToBackoff(failures)
     ELSE /\ action' = Do("RemoveDeviceThenReacquire")
          /\ fsm' = [fsm EXCEPT !.state = "Repairing", !.encryptionFailures = 0]

\* Mutant: a subscription forgets the failures of the link, not the attempts.
EnterKeepsAttempt(edge) ==
  /\ action' = Do(edge[4])
  /\ fsm' = [fsm EXCEPT !.state = edge[3],
                        !.encryptionFailures = IF edge[2] = "NotifySubscribed" THEN 0 ELSE @]

Enter(edge) ==
  /\ action' = Do(edge[4])
  /\ fsm' = IF edge[2] = "NotifySubscribed"
            THEN [state |-> edge[3], attempt |-> 0, encryptionFailures |-> 0]
            ELSE [fsm EXCEPT !.state = edge[3]]

On(event) ==
  \/ /\ event = "AgentMissing"
     /\ action' = Do("FailFast")
     /\ fsm' = [fsm EXCEPT !.state = "Disconnected"]
  \/ LooksStale(event) /\ OnEncryptionFailure
  \/ \E edge \in Edges : edge[1] = fsm.state /\ edge[2] = event /\ Enter(edge)
  \/ /\ event # "AgentMissing" /\ ~LooksStale(event) /\ ~Expects(event)
     /\ FailToBackoff(fsm.encryptionFailures)

-----------------------------------------------------------------------------
(* DriveLoop::step: perform the pending action on the Central.             *)

Init ==
  /\ fsm = [state |-> "Locating", attempt |-> 0, encryptionFailures |-> 0]
  /\ action = Do("Locate")
  /\ tx = FALSE /\ up = FALSE
  /\ device = FALSE /\ wasPaired = FALSE
  /\ present \in BOOLEAN
  /\ hostBond \in BOOLEAN /\ known = hostBond
  /\ stickBond \in BOOLEAN /\ (stickBond => hostBond)
  /\ evidence = 0 /\ mishaps = 0

Mishap == mishaps < MaxMishaps /\ mishaps' = mishaps + 1

\* A failure has its reason in the world, or is one of the bounded mishaps.
FailsUnless(working) ==
  IF working THEN Mishap ELSE UNCHANGED mishaps

\* Mutant: a stale key is taken for a drop.
NeverStale(paired) == "Disconnected"

\* The threshold's decision to give a bond up.
GivesUp == action'.kind = "RemoveDeviceThenReacquire" /\ action.kind \in {"Connect", "Subscribe"}

\* stale_or_bluer: on a link that was paired, a failure reads as a stale key.
StaleOrBluer(paired) == IF paired THEN "EncryptionFailed" ELSE "Disconnected"

Witness(event) ==
  IF event = "EncryptionFailed"
  THEN evidence' = IF GivesUp THEN 0 ELSE evidence + 1
  ELSE UNCHANGED evidence

\* Both ends hold the same key, and the stick answers.
LinkWorks == present /\ hostBond /\ stickBond

StepBackoff ==
  /\ action.kind = "Backoff"
  /\ On("BackoffElapsed")
  /\ UNCHANGED <<tx, up, stackVars, present, stickBond, evidence, mishaps>>

StepLocate ==
  /\ action.kind = "Locate"
  /\ \/ /\ present \/ (CacheAnswers /\ known)
        /\ device' = TRUE /\ known' = TRUE
        /\ On("Located")
        /\ UNCHANGED mishaps
     \/ /\ FailsUnless(present)
        /\ On("NotFound")
        /\ UNCHANGED <<device, known>>
  /\ UNCHANGED <<tx, up, wasPaired, hostBond, present, stickBond, evidence>>

\* The bond is sampled before connecting.  A stale key may be found out here or
\* only when subscribing; any other failure is a GATT or D-Bus error.
StepConnect ==
  /\ action.kind = "Connect"
  /\ device
  /\ wasPaired' = hostBond
  /\ \/ /\ present
        /\ On(IF hostBond THEN "ConnectedPaired" ELSE "ConnectedFresh")
        /\ UNCHANGED <<evidence, mishaps>>
     \/ /\ FailsUnless(present /\ (hostBond => stickBond))
        /\ On(StaleOrBluer(hostBond))
        /\ Witness(StaleOrBluer(hostBond))
     \/ /\ Mishap
        /\ On("Disconnected")
        /\ UNCHANGED evidence
  /\ UNCHANGED <<tx, up, device, known, hostBond, present, stickBond>>

StepPair ==
  /\ action.kind = "Pair"
  /\ device
  /\ \/ /\ hostBond
        /\ On("PairRejectedAlreadyPaired")
        /\ UNCHANGED <<hostBond, stickBond, evidence, mishaps>>
     \/ /\ ~hostBond /\ present
        /\ hostBond' = TRUE /\ stickBond' = TRUE
        /\ On("LinkEncrypted")
        /\ UNCHANGED <<evidence, mishaps>>
     \/ /\ ~hostBond
        /\ FailsUnless(present)
        /\ On("Disconnected")
        /\ UNCHANGED <<hostBond, stickBond, evidence>>
  /\ UNCHANGED <<tx, up, device, wasPaired, known, present>>

\* The Central's contract also allows a missing agent, on connect and on pair.
StepAgentMissing ==
  /\ action.kind \in {"Connect", "Pair"}
  /\ Mishap
  /\ On("AgentMissing")
  /\ UNCHANGED <<tx, up, stackVars, present, stickBond, evidence>>

\* remove_device evicts the device, key and all, and the handle with it.
StepRemove ==
  /\ action.kind = "RemoveDeviceThenReacquire"
  /\ \/ /\ hostBond' = FALSE /\ known' = FALSE /\ device' = FALSE
        /\ stickBond' = FALSE
        /\ On("Reacquired")
        /\ UNCHANGED mishaps
     \/ /\ Mishap
        /\ On("Disconnected")
        /\ UNCHANGED <<hostBond, known, device, stickBond>>
  /\ UNCHANGED <<tx, up, wasPaired, present, evidence>>

StepSubscribe ==
  /\ action.kind = "Subscribe"
  /\ device
  /\ \/ /\ LinkWorks
        /\ tx' = TRUE
        /\ On("NotifySubscribed")
        /\ evidence' = 0
        /\ UNCHANGED mishaps
     \/ /\ FailsUnless(LinkWorks)
        /\ On(StaleOrBluer(wasPaired))
        /\ Witness(StaleOrBluer(wasPaired))
        /\ UNCHANGED tx
  /\ UNCHANGED <<up, stackVars, present, stickBond>>

\* on_run takes the stream (or panics), announces the link and pumps it ...
StepRunBegins ==
  /\ action.kind = "Run" /\ ~up /\ tx
  /\ tx' = FALSE /\ up' = TRUE
  /\ UNCHANGED <<fsm, action, stackVars, present, stickBond, evidence, mishaps>>

\* ... until it ends.
StepRunEnds ==
  /\ action.kind = "Run" /\ up
  /\ FailsUnless(LinkWorks)
  /\ up' = FALSE
  /\ On("Disconnected")
  /\ UNCHANGED <<tx, stackVars, present, stickBond, evidence>>

Step ==
  \/ StepBackoff \/ StepLocate \/ StepConnect \/ StepPair \/ StepAgentMissing
  \/ StepRemove \/ StepSubscribe \/ StepRunBegins \/ StepRunEnds

-----------------------------------------------------------------------------
(* The world.                                                              *)

StickLeaves ==
  /\ present /\ Mishap
  /\ present' = FALSE
  /\ UNCHANGED <<loopVars, stackVars, stickBond, evidence>>

StickReturns ==
  /\ ~present
  /\ present' = TRUE
  /\ UNCHANGED <<loopVars, stackVars, stickBond, evidence, mishaps>>

\* The reset overlay's delete_all_bonds.
StickForgetsBonds ==
  /\ stickBond /\ Mishap
  /\ stickBond' = FALSE
  /\ UNCHANGED <<loopVars, stackVars, present, evidence>>

\* `bluetoothctl remove`, by hand.
HostForgets ==
  /\ hostBond /\ Mishap
  /\ hostBond' = FALSE /\ known' = FALSE /\ stickBond' = FALSE
  /\ UNCHANGED <<loopVars, device, wasPaired, present, evidence>>

\* `bluetoothctl pair`, by hand.
HostPairs ==
  /\ present /\ ~hostBond /\ Mishap
  /\ hostBond' = TRUE /\ known' = TRUE /\ stickBond' = TRUE
  /\ UNCHANGED <<loopVars, device, wasPaired, present, evidence>>

World == StickLeaves \/ StickReturns \/ StickForgetsBonds \/ HostForgets \/ HostPairs

Next == Step \/ World

Spec == Init /\ [][Next]_vars

\* The loop never rests: each operation it awaits returns.  Nothing is assumed
\* of the world, whose mishaps are finitely many.
FairSpec == Spec /\ WF_vars(Step)

-----------------------------------------------------------------------------
(* Properties.                                                             *)

\* Every variable has the type its Rust declaration gives it.
TypeOK ==
  /\ fsm \in [state : States, attempt : 0 .. AttemptMax, encryptionFailures : 0 .. AttemptMax]
  /\ action \in [kind : Operations] \cup [kind : {"Backoff"}, millis : Base .. Longest]
  /\ \A flag \in {tx, up, device, wasPaired, present, known, hostBond, stickBond} : flag \in BOOLEAN
  /\ evidence \in Nat /\ mishaps \in Nat

\* The operation a state awaits.
Awaits(state) ==
  CASE state = "Disconnected" -> {"Backoff", "FailFast"}
    [] state = "Locating"     -> {"Locate"}
    [] state = "Connecting"   -> {"Connect"}
    [] state = "Pairing"      -> {"Pair"}
    [] state = "Repairing"    -> {"RemoveDeviceThenReacquire"}
    [] state = "Encrypted"    -> {"Subscribe"}
    [] state = "Subscribed"   -> {"Run"}

\* "Each state awaits exactly one transport operation" (fsm.rs): the machine and
\* the loop's pending action never fall out of step, whatever event came when.
EachStateAwaitsItsOperation == action.kind \in Awaits(fsm.state)

\* No operation is performed without what it needs: a device handle that locate
\* resolved and no removal invalidated, and for Run the stream of a subscription
\* (drive_loop.rs expects it and would panic).
OperationsAreReady ==
  /\ action.kind \in {"Connect", "Pair", "Subscribe", "Run"} => device
  /\ action.kind = "Run" => (up <=> ~tx)
  /\ action.kind # "Run" => ~up /\ ~tx

\* A bond is given up on evidence only: the failure that does it is the third of a
\* paired link, and none of the three is from before a link worked or has already
\* cost a bond.  A rejected scan, a plain drop or a missing agent is none of them.
BondTakesEvidence == [][GivesUp => evidence + 1 >= RebondAfterEncryptionFailures]_vars

\* A link that worked is retried almost at once: the backoff earned before it
\* came up is forgotten.
FirstRetryIsPrompt == [][up /\ ~up' => action' = Sleep(Base)]_vars

\* Whatever went wrong (a drop, a stale key, a lost bond, a failed recovery), once
\* the stick stays in reach the link comes up, unless the agent is missing.
LinkComesBack == <>[]present => <>[](up \/ action.kind = "FailFast")
=============================================================================

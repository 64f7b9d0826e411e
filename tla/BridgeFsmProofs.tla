--------------------------- MODULE BridgeFsmProofs ---------------------------
(***************************************************************************)
(* Theorems about BridgeFsm.                                               *)
(*                                                                         *)
(* The inductive invariant is the shape of the machine, the agreement of   *)
(* its state with the loop's pending action, the readiness of what that    *)
(* action needs, and that the machine never counts more failures than      *)
(* there were.                                                             *)
(***************************************************************************)
EXTENDS BridgeFsm, TLAPS

\* The machine's own types, and those of what the steps set beside it.
Machines == [state : States, attempt : Nat, encryptionFailures : Nat]

Shape ==
  /\ fsm \in Machines
  /\ tx \in BOOLEAN /\ up \in BOOLEAN
  /\ evidence \in Nat

\* No failure is counted that did not happen since the link last worked.
NoFalseCount == fsm.encryptionFailures =< evidence

\* The inductive invariant of the machine, the loop and what the loop holds.
Inductive ==
  /\ Shape
  /\ EachStateAwaitsItsOperation
  /\ OperationsAreReady
  /\ NoFalseCount

\* Initially the loop locates with nothing in hand.
LEMMA InductiveInit == Init => Inductive
<1> SUFFICES ASSUME Init PROVE Inductive
  OBVIOUS
<1>1. fsm.state = "Locating" /\ action.kind = "Locate" /\ fsm.encryptionFailures = 0
  BY DEF Init, Do
<1>2. Shape
  BY DEF Init, Shape, Machines, States
<1>3. EachStateAwaitsItsOperation
  BY <1>1 DEF EachStateAwaitsItsOperation, Awaits
<1>4. OperationsAreReady
  BY <1>1 DEF Init, OperationsAreReady
<1>5. NoFalseCount
  BY <1>1 DEF Init, NoFalseCount
<1> QED
  BY <1>2, <1>3, <1>4, <1>5 DEF Inductive

\* What fail_to_backoff leaves behind.
LEMMA FailToBackoffEffect ==
  ASSUME fsm \in Machines, NEW failures \in Nat, FailToBackoff(failures)
  PROVE  /\ fsm' \in Machines
         /\ fsm'.state = "Disconnected" /\ action'.kind = "Backoff"
         /\ fsm'.encryptionFailures = failures
<1>1. Bump(fsm.attempt) \in Nat
  BY AttemptAssumption DEF Bump, Machines
<1>2. fsm' = [state |-> "Disconnected", attempt |-> Bump(fsm.attempt),
              encryptionFailures |-> failures]
  BY DEF FailToBackoff
<1>3. action'.kind = "Backoff"
  BY DEF FailToBackoff, Sleep
<1> QED
  BY <1>1, <1>2, <1>3 DEF Machines, States

\* What one edge of the machine does.
LEMMA EnterEffect ==
  ASSUME fsm \in Machines, NEW edge \in Edges, Enter(edge)
  PROVE  /\ fsm' \in Machines
         /\ fsm'.state = edge[3] /\ action'.kind = edge[4]
         /\ fsm'.encryptionFailures =
              IF edge[2] = "NotifySubscribed" THEN 0 ELSE fsm.encryptionFailures
         /\ action'.kind \in Awaits(fsm'.state)
<1>1. edge[3] \in States
  BY DEF Edges, States
<1>2. edge[4] \in Awaits(edge[3])
  BY DEF Edges, Awaits
<1>3. action'.kind = edge[4]
  BY DEF Enter, Do
<1>4. CASE edge[2] = "NotifySubscribed"
  <2>1. fsm' = [state |-> edge[3], attempt |-> 0, encryptionFailures |-> 0]
    BY <1>4 DEF Enter
  <2> QED
    BY <1>1, <1>2, <1>3, <1>4, <2>1 DEF Machines
<1>5. CASE edge[2] # "NotifySubscribed"
  <2>1. fsm' = [fsm EXCEPT !.state = edge[3]]
    BY <1>5 DEF Enter
  <2> QED
    BY <1>1, <1>2, <1>3, <1>5, <2>1 DEF Machines
<1> QED
  BY <1>4, <1>5

\* What a failure that looks stale leads to: a retry, or below no fewer than the
\* threshold's count of them, the end of the bond.
LEMMA EncryptionFailureEffect ==
  ASSUME fsm \in Machines, OnEncryptionFailure
  PROVE  /\ fsm' \in Machines
         /\ action'.kind \in Awaits(fsm'.state)
         /\ fsm'.encryptionFailures =< fsm.encryptionFailures + 1
         /\ \/ action'.kind = "Backoff"
            \/ /\ action'.kind = "RemoveDeviceThenReacquire"
               /\ RebondAfterEncryptionFailures =< fsm.encryptionFailures + 1
               /\ fsm'.encryptionFailures = 0
<1> DEFINE failures == Bump(fsm.encryptionFailures)
<1>1. failures \in Nat /\ failures =< fsm.encryptionFailures + 1
  BY AttemptAssumption DEF Bump, Machines
<1>2. CASE failures < RebondAfterEncryptionFailures
  <2>1. FailToBackoff(failures)
    BY <1>2 DEF OnEncryptionFailure
  <2> HIDE DEF failures
  <2> QED
    BY <1>1, <2>1, FailToBackoffEffect DEF Awaits
<1>3. CASE ~(failures < RebondAfterEncryptionFailures)
  <2>1. /\ action' = Do("RemoveDeviceThenReacquire")
        /\ fsm' = [fsm EXCEPT !.state = "Repairing", !.encryptionFailures = 0]
    BY <1>3 DEF OnEncryptionFailure
  <2>2. action'.kind = "RemoveDeviceThenReacquire"
    BY <2>1 DEF Do
  <2>3. fsm' \in Machines /\ fsm'.state = "Repairing" /\ fsm'.encryptionFailures = 0
    BY <2>1 DEF Machines, States
  <2>4. RebondAfterEncryptionFailures =< fsm.encryptionFailures + 1
    BY <1>1, <1>3 DEF RebondAfterEncryptionFailures, Machines
  <2> HIDE DEF failures
  <2> QED
    BY <2>2, <2>3, <2>4 DEF Awaits, Machines
<1> QED
  BY <1>2, <1>3

\* What Fsm::on does, whatever the event: state and action stay in step, the count
\* grows only with a failure, and each action that needs something in hand is the
\* answer to the event that put it there.
Leads(event) ==
  /\ fsm' \in Machines
  /\ EachStateAwaitsItsOperation'
  /\ fsm'.encryptionFailures =<
       IF event = "EncryptionFailed" THEN fsm.encryptionFailures + 1 ELSE fsm.encryptionFailures
  /\ event = "NotifySubscribed" /\ fsm.state = "Encrypted" => fsm'.encryptionFailures = 0
  /\ event = "EncryptionFailed" /\ action'.kind = "RemoveDeviceThenReacquire" =>
       fsm'.encryptionFailures = 0
  /\ action'.kind = "Connect"   => event = "Located"
  /\ action'.kind = "Pair"      => event = "ConnectedFresh"
  /\ action'.kind = "Subscribe" => event \in {"ConnectedPaired", "LinkEncrypted"}
  /\ action'.kind = "Run"       => event = "NotifySubscribed"
  /\ action'.kind = "RemoveDeviceThenReacquire" =>
       \/ event = "PairRejectedAlreadyPaired"
       \/ /\ event = "EncryptionFailed"
          /\ RebondAfterEncryptionFailures =< fsm.encryptionFailures + 1

\* Fsm::on leads there from any state, on any event.
LEMMA OnLeads ==
  ASSUME fsm \in Machines, NEW event, On(event)
  PROVE  Leads(event)
<1> USE DEF Leads, EachStateAwaitsItsOperation
<1>0. fsm.encryptionFailures \in Nat
  BY DEF Machines
<1>1. CASE event = "AgentMissing" /\ action' = Do("FailFast")
             /\ fsm' = [fsm EXCEPT !.state = "Disconnected"]
  <2>1. fsm' \in Machines /\ fsm'.state = "Disconnected"
          /\ fsm'.encryptionFailures = fsm.encryptionFailures
    BY <1>1 DEF Machines, States
  <2>2. action'.kind = "FailFast"
    BY <1>1 DEF Do
  <2> QED
    BY <1>0, <1>1, <2>1, <2>2 DEF Awaits
<1>2. CASE LooksStale(event) /\ OnEncryptionFailure
  <2>1. event = "EncryptionFailed"
    BY <1>2 DEF LooksStale
  <2> QED
    BY <1>2, <2>1, EncryptionFailureEffect
<1>3. CASE \E edge \in Edges : edge[1] = fsm.state /\ edge[2] = event /\ Enter(edge)
  <2>1. PICK edge \in Edges : edge[1] = fsm.state /\ edge[2] = event /\ Enter(edge)
    BY <1>3
  <2>2. /\ fsm' \in Machines
        /\ action'.kind \in Awaits(fsm'.state)
        /\ action'.kind = edge[4]
        /\ fsm'.encryptionFailures =
             IF event = "NotifySubscribed" THEN 0 ELSE fsm.encryptionFailures
    BY <2>1, EnterEffect
  <2>3. /\ edge[4] = "Connect"   => event = "Located"
        /\ edge[4] = "Pair"      => event = "ConnectedFresh"
        /\ edge[4] = "Subscribe" => event \in {"ConnectedPaired", "LinkEncrypted"}
        /\ edge[4] = "Run"       => event = "NotifySubscribed"
        /\ edge[4] = "RemoveDeviceThenReacquire" => event = "PairRejectedAlreadyPaired"
        /\ event # "EncryptionFailed"
    BY <2>1 DEF Edges
  <2> QED
    BY <1>0, <2>2, <2>3
<1>4. CASE /\ event # "AgentMissing" /\ ~LooksStale(event) /\ ~Expects(event)
           /\ FailToBackoff(fsm.encryptionFailures)
  <2>1. /\ fsm' \in Machines
        /\ fsm'.state = "Disconnected" /\ action'.kind = "Backoff"
        /\ fsm'.encryptionFailures = fsm.encryptionFailures
    BY <1>0, <1>4, FailToBackoffEffect
  <2>2. ~(event = "NotifySubscribed" /\ fsm.state = "Encrypted")
    BY <1>4 DEF Expects, Edges
  <2> QED
    BY <1>0, <2>1, <2>2 DEF Awaits
<1> QED
  BY <1>1, <1>2, <1>3, <1>4 DEF On

\* A step that feeds the machine an event keeps the invariant, given that it has
\* what the next action needs and counts the failure it reports.
LEMMA FedStep ==
  ASSUME Inductive, NEW event, On(event),
         up' = FALSE,
         event = "NotifySubscribed" => tx' = TRUE /\ fsm.state = "Encrypted",
         event # "NotifySubscribed" => tx' = FALSE,
         evidence' \in Nat,
         event \notin {"NotifySubscribed", "EncryptionFailed"} => evidence' = evidence,
         event = "EncryptionFailed" => evidence' = IF GivesUp THEN 0 ELSE evidence + 1,
         event \in {"Located", "ConnectedFresh", "ConnectedPaired", "LinkEncrypted",
                   "NotifySubscribed"} => device'
  PROVE  Inductive'
<1>1. Leads(event)
  BY OnLeads DEF Inductive, Shape
<1>2. Shape'
  BY <1>1 DEF Leads, Shape
<1>3. EachStateAwaitsItsOperation'
  BY <1>1 DEF Leads
<1>4. NoFalseCount'
  BY <1>1 DEF Leads, GivesUp, NoFalseCount, Inductive, Shape, Machines
<1>5. ASSUME event = "NotifySubscribed" PROVE action'.kind = "Run"
  <2>1. PICK edge \in Edges : edge[1] = fsm.state /\ edge[2] = event /\ Enter(edge)
    BY <1>5 DEF On, LooksStale, Expects, Edges
  <2>2. edge[4] = "Run"
    BY <1>5, <2>1 DEF Edges
  <2> QED
    BY <2>1, <2>2, EnterEffect DEF Inductive, Shape
<1>6. OperationsAreReady'
  <2>1. CASE event = "NotifySubscribed"
    BY <1>5, <2>1 DEF OperationsAreReady
  <2>2. CASE event # "NotifySubscribed"
    BY <1>1, <2>2 DEF Leads, OperationsAreReady
  <2> QED
    BY <2>1, <2>2
<1> QED
  BY <1>2, <1>3, <1>4, <1>6 DEF Inductive

\* The pending action tells the machine's state.
LEMMA ActionTellsState ==
  ASSUME Inductive
  PROVE  /\ action.kind = "Subscribe" => fsm.state = "Encrypted"
         /\ action.kind # "Run" => ~up /\ ~tx
         /\ evidence \in Nat /\ up \in BOOLEAN /\ tx \in BOOLEAN
  BY DEF Inductive, Shape, Machines, States, EachStateAwaitsItsOperation, Awaits,
         OperationsAreReady

\* Every step of the loop and of the world keeps the invariant.
LEMMA InductiveStep == Inductive /\ [Next]_vars => Inductive'
<1> SUFFICES ASSUME Inductive, [Next]_vars PROVE Inductive'
  OBVIOUS
<1>0. /\ action.kind = "Subscribe" => fsm.state = "Encrypted"
      /\ action.kind # "Run" => up = FALSE /\ tx = FALSE
      /\ evidence \in Nat
  BY ActionTellsState
<1> USE DEF stackVars, Witness, StaleOrBluer
<1>1. CASE StepBackoff
  BY <1>0, <1>1, FedStep DEF StepBackoff
<1>2. CASE StepLocate
  <2>1. CASE On("Located") /\ device' = TRUE
    BY <1>0, <1>2, <2>1, FedStep DEF StepLocate
  <2>2. CASE On("NotFound")
    BY <1>0, <1>2, <2>2, FedStep DEF StepLocate
  <2> QED
    BY <1>2, <2>1, <2>2 DEF StepLocate
<1>3. CASE StepConnect
  <2>1. \E event \in {"ConnectedPaired", "ConnectedFresh", "Disconnected", "EncryptionFailed"} :
          /\ On(event)
          /\ event = "EncryptionFailed" => evidence' = IF GivesUp THEN 0 ELSE evidence + 1
          /\ event # "EncryptionFailed" => evidence' = evidence
    <3>1. CASE hostBond = TRUE
      BY <1>3, <3>1 DEF StepConnect
    <3>2. CASE hostBond # TRUE
      BY <1>3, <3>2 DEF StepConnect
    <3> QED
      BY <3>1, <3>2
  <2>2. device' /\ up' = FALSE /\ tx' = FALSE
    BY <1>0, <1>3 DEF StepConnect
  <2>3. PICK event \in {"ConnectedPaired", "ConnectedFresh", "Disconnected", "EncryptionFailed"} :
          /\ On(event)
          /\ event = "EncryptionFailed" => evidence' = IF GivesUp THEN 0 ELSE evidence + 1
          /\ event # "EncryptionFailed" => evidence' = evidence
    BY <2>1
  <2>4. event # "NotifySubscribed" /\ evidence' \in Nat
    BY <1>0, <2>3
  <2> QED
    BY <1>0, <2>2, <2>3, <2>4, FedStep
<1>4. CASE StepPair
  <2>1. PICK event \in {"PairRejectedAlreadyPaired", "LinkEncrypted", "Disconnected"} : On(event)
    BY <1>4 DEF StepPair
  <2>2. evidence' = evidence /\ up' = FALSE /\ tx' = FALSE /\ device' /\ Inductive
    BY <1>0, <1>4 DEF StepPair
  <2> QED
    BY <1>0, <2>1, <2>2, FedStep
<1>5. CASE StepAgentMissing
  BY <1>0, <1>5, FedStep DEF StepAgentMissing
<1>6. CASE StepRemove
  <2>1. PICK event \in {"Reacquired", "Disconnected"} : On(event)
    BY <1>6 DEF StepRemove
  <2>2. evidence' = evidence /\ up' = FALSE /\ tx' = FALSE
    BY <1>0, <1>6 DEF StepRemove
  <2> QED
    BY <1>0, <2>1, <2>2, FedStep
<1>7. CASE StepSubscribe
  <2>1. \/ On("NotifySubscribed") /\ tx' = TRUE /\ evidence' = 0
        \/ On("EncryptionFailed") /\ tx' = FALSE /\ evidence' = (IF GivesUp THEN 0 ELSE evidence + 1)
        \/ On("Disconnected") /\ tx' = FALSE /\ evidence' = evidence
    <3>1. CASE wasPaired = TRUE
      BY <1>0, <1>7, <3>1 DEF StepSubscribe
    <3>2. CASE wasPaired # TRUE
      BY <1>0, <1>7, <3>2 DEF StepSubscribe
    <3> QED
      BY <3>1, <3>2
  <2>2. device' /\ up' = FALSE /\ fsm.state = "Encrypted"
    BY <1>0, <1>7 DEF StepSubscribe
  <2>3. CASE On("NotifySubscribed") /\ tx' = TRUE /\ evidence' = 0
    BY <2>2, <2>3, FedStep
  <2>4. CASE On("EncryptionFailed") /\ tx' = FALSE /\ evidence' = (IF GivesUp THEN 0 ELSE evidence + 1)
    <3>1. evidence' \in Nat
      BY <1>0, <2>4
    <3> QED
      BY <2>2, <2>4, <3>1, FedStep
  <2>5. CASE On("Disconnected") /\ tx' = FALSE /\ evidence' = evidence
    BY <1>0, <2>2, <2>5, FedStep
  <2> QED
    BY <2>1, <2>3, <2>4, <2>5
<1>8. CASE StepRunBegins
  BY <1>8 DEF StepRunBegins, Inductive, Shape, EachStateAwaitsItsOperation, OperationsAreReady,
              NoFalseCount
<1>9. CASE StepRunEnds
  <2>1. tx = FALSE
    BY <1>9 DEF StepRunEnds, Inductive, Shape, OperationsAreReady
  <2> QED
    BY <1>0, <1>9, <2>1, FedStep DEF StepRunEnds
<1>10. CASE World \/ UNCHANGED vars
  <2>1. UNCHANGED <<fsm, action, tx, up, device, evidence>>
    BY <1>10 DEF World, vars, loopVars, StickLeaves, StickReturns, StickForgetsBonds,
                 HostForgets, HostPairs
  <2> QED
    BY <2>1 DEF Inductive, Shape, EachStateAwaitsItsOperation, OperationsAreReady, NoFalseCount
<1> QED
  BY <1>1, <1>2, <1>3, <1>4, <1>5, <1>6, <1>7, <1>8, <1>9, <1>10 DEF Next, Step

\* The invariant holds throughout.
LEMMA InductiveAlways == Spec => []Inductive
  BY InductiveInit, InductiveStep, PTL DEF Spec

\* Whatever event comes in whatever state, the machine and the loop's pending
\* action never fall out of step.
THEOREM StepsStayInStep == Spec => []EachStateAwaitsItsOperation
  BY InductiveAlways, PTL DEF Inductive

\* No operation runs without the handle or the stream it needs, so the `expect` of
\* on_run is never reached with nothing to take.
THEOREM OperationsFindWhatTheyNeed == Spec => []OperationsAreReady
  BY InductiveAlways, PTL DEF Inductive

\* The threshold gives a bond up only at that many failures of a paired link, none of
\* them from before a link last worked, nor one that has already cost a bond.
THEOREM BondsTakeEvidence == Spec => BondTakesEvidence
<1>1. Inductive /\ [Next]_vars => [GivesUp => evidence + 1 >= RebondAfterEncryptionFailures]_vars
  <2> SUFFICES ASSUME Inductive, Next, GivesUp
               PROVE  evidence + 1 >= RebondAfterEncryptionFailures
    BY DEF vars
  <2>1. fsm \in Machines /\ evidence \in Nat /\ fsm.encryptionFailures =< evidence
    BY DEF Inductive, Shape, NoFalseCount
  <2>2. action.kind \in {"Connect", "Subscribe"} /\ action'.kind = "RemoveDeviceThenReacquire"
    BY DEF GivesUp
  <2>3. CASE World \/ StepRunBegins
    BY <2>2, <2>3 DEF World, StepRunBegins, loopVars, StickLeaves, StickReturns,
                      StickForgetsBonds, HostForgets, HostPairs
  <2>4. CASE StepConnect \/ StepSubscribe \/ StepAgentMissing
    <3>1. PICK event \in {"ConnectedPaired", "ConnectedFresh", "EncryptionFailed",
                          "NotifySubscribed", "Disconnected", "AgentMissing"} : On(event)
      BY <2>4 DEF StepConnect, StepSubscribe, StepAgentMissing, StaleOrBluer
    <3>2. Leads(event)
      BY <2>1, <3>1, OnLeads
    <3> QED
      BY <2>1, <2>2, <3>2 DEF Leads, Machines, RebondAfterEncryptionFailures
  <2> QED
    BY <2>2, <2>3, <2>4
    DEF Next, Step, StepBackoff, StepLocate, StepPair, StepRemove, StepRunEnds
<1> QED
  BY <1>1, InductiveAlways, PTL DEF Spec, BondTakesEvidence

-----------------------------------------------------------------------------
(* The types, and the backoff.                                             *)

\* The delay stays within the documented band for any count, and the first retry
\* waits for the base delay.
LEMMA BackoffInBand ==
  /\ \A attempt \in Nat : Backoff(attempt) \in Base .. Longest
  /\ Backoff(0) = Base
<1>1. ASSUME NEW attempt \in Nat PROVE Backoff(attempt) \in Base .. Longest
  <2> DEFINE shift == IF attempt < 7 THEN attempt ELSE 7
  <2>1. shift \in 0 .. 7
    OBVIOUS
  <2>2. PowerOfTwo[shift] \in 1 .. 128
    BY <2>1 DEF PowerOfTwo
  <2>3. Backoff(attempt) =
          IF Base * PowerOfTwo[shift] < Longest THEN Base * PowerOfTwo[shift] ELSE Longest
    BY DEF Backoff
  <2>4. ASSUME NEW power \in 1 .. 128
        PROVE  (IF Base * power < Longest THEN Base * power ELSE Longest) \in Base .. Longest
    BY DEF Base, Longest
  <2> HIDE DEF shift
  <2> QED
    BY <2>2, <2>3, <2>4
<1>2. Backoff(0) = Base
  BY DEF Backoff, PowerOfTwo, Base, Longest
<1> QED
  BY <1>1, <1>2

Actions == [kind : Operations] \cup [kind : {"Backoff"}, millis : Base .. Longest]

\* What the machine and its pending action range over.
MachineTypes ==
  /\ fsm \in [state : States, attempt : 0 .. AttemptMax, encryptionFailures : 0 .. AttemptMax]
  /\ action \in Actions

\* Every operation is an action.
LEMMA DoTypes == ASSUME NEW operation \in Operations PROVE Do(operation) \in Actions
  BY DEF Do, Actions

\* A failure's backoff has its types.
LEMMA FailToBackoffTypes ==
  ASSUME MachineTypes, NEW failures \in 0 .. AttemptMax, FailToBackoff(failures)
  PROVE  MachineTypes'
<1>1. fsm.attempt \in 0 .. AttemptMax /\ Bump(fsm.attempt) \in 0 .. AttemptMax
  BY AttemptAssumption DEF MachineTypes, Bump
<1>2. Backoff(fsm.attempt) \in Base .. Longest
  BY <1>1, BackoffInBand
<1>3. action' \in Actions
  BY <1>2 DEF FailToBackoff, Sleep, Actions
<1>4. "Disconnected" \in States
  BY DEF States
<1> QED
  BY <1>1, <1>3, <1>4 DEF FailToBackoff, MachineTypes

\* Fsm::on keeps the types, on any event.
LEMMA OnTypes ==
  ASSUME MachineTypes, NEW event, On(event)
  PROVE  MachineTypes'
<1>0. fsm.encryptionFailures \in 0 .. AttemptMax /\ 0 \in 0 .. AttemptMax
  BY AttemptAssumption DEF MachineTypes
<1>1. CASE action' = Do("FailFast") /\ fsm' = [fsm EXCEPT !.state = "Disconnected"]
  <2>1. "FailFast" \in Operations /\ "Disconnected" \in States
    BY DEF Operations, States
  <2> QED
    BY <1>1, <2>1, DoTypes DEF MachineTypes
<1>2. CASE OnEncryptionFailure
  <2> DEFINE failures == Bump(fsm.encryptionFailures)
  <2>1. failures \in 0 .. AttemptMax
    BY <1>0, AttemptAssumption DEF Bump
  <2>2. CASE FailToBackoff(failures)
    <3> HIDE DEF failures
    <3> QED BY <2>1, <2>2, FailToBackoffTypes
  <2>3. CASE /\ action' = Do("RemoveDeviceThenReacquire")
             /\ fsm' = [fsm EXCEPT !.state = "Repairing", !.encryptionFailures = 0]
    <3>1. "RemoveDeviceThenReacquire" \in Operations /\ "Repairing" \in States
      BY DEF Operations, States
    <3> QED
      BY <1>0, <2>3, <3>1, DoTypes DEF MachineTypes
  <2> QED
    BY <1>2, <2>2, <2>3 DEF OnEncryptionFailure
<1>3. CASE \E edge \in Edges : Enter(edge)
  <2>1. PICK edge \in Edges : Enter(edge)
    BY <1>3
  <2>2. edge[3] \in States /\ edge[4] \in Operations
    BY DEF Edges, States, Operations
  <2>3. fsm' = [state |-> edge[3], attempt |-> 0, encryptionFailures |-> 0]
          \/ fsm' = [fsm EXCEPT !.state = edge[3]]
    BY <2>1 DEF Enter
  <2>4. action' \in Actions
    BY <2>1, <2>2, DoTypes DEF Enter
  <2> QED
    BY <1>0, <2>2, <2>3, <2>4 DEF MachineTypes
<1>4. CASE FailToBackoff(fsm.encryptionFailures)
  BY <1>0, <1>4, FailToBackoffTypes
<1> QED
  BY <1>1, <1>2, <1>3, <1>4 DEF On

\* The types of what the loop and the stack hold beside the machine.
FlagTypes ==
  /\ tx \in BOOLEAN /\ up \in BOOLEAN /\ device \in BOOLEAN /\ wasPaired \in BOOLEAN
  /\ present \in BOOLEAN /\ known \in BOOLEAN /\ hostBond \in BOOLEAN /\ stickBond \in BOOLEAN
  /\ evidence \in Nat /\ mishaps \in Nat

\* The two halves are the type invariant.
LEMMA TypesSplit == TypeOK <=> MachineTypes /\ FlagTypes
  BY DEF TypeOK, MachineTypes, FlagTypes, Actions

\* No step of the loop or of the world leaves the types.
LEMMA TypesStep == TypeOK /\ [Next]_vars => TypeOK'
<1> SUFFICES ASSUME MachineTypes, FlagTypes, [Next]_vars PROVE MachineTypes' /\ FlagTypes'
  <2>1. TypeOK' <=> MachineTypes' /\ FlagTypes'
    BY DEF TypeOK, MachineTypes, FlagTypes, Actions
  <2> QED
    BY <2>1, TypesSplit
<1>m. Mishap => mishaps' \in Nat
  BY DEF Mishap, FlagTypes
<1>f. ASSUME NEW working, FailsUnless(working) PROVE mishaps' \in Nat
  BY <1>m, <1>f DEF FailsUnless, FlagTypes
<1>w. ASSUME NEW event, Witness(event) PROVE evidence' \in Nat
  BY <1>w DEF Witness, FlagTypes
<1>1. MachineTypes'
  <2>1. CASE \E event : On(event)
    BY <2>1, OnTypes
  <2>2. CASE UNCHANGED <<fsm, action>>
    BY <2>2 DEF MachineTypes
  <2> QED
    BY <2>1, <2>2
    DEF Next, Step, World, vars, loopVars, StepBackoff, StepLocate, StepConnect, StepPair,
        StepAgentMissing, StepRemove, StepSubscribe, StepRunBegins, StepRunEnds,
        StickLeaves, StickReturns, StickForgetsBonds, HostForgets, HostPairs
<1>2. FlagTypes'
  <2> USE <1>m, <1>f, <1>w DEF FlagTypes, stackVars
  <2>1. CASE StepBackoff
    BY <2>1 DEF StepBackoff
  <2>2. CASE StepLocate
    BY <2>2 DEF StepLocate
  <2>3. CASE StepConnect
    BY <2>3 DEF StepConnect
  <2>4. CASE StepPair
    BY <2>4 DEF StepPair
  <2>5. CASE StepAgentMissing
    BY <2>5 DEF StepAgentMissing
  <2>6. CASE StepRemove
    BY <2>6 DEF StepRemove
  <2>7. CASE StepSubscribe
    <3>1. tx' \in BOOLEAN
      BY <2>7 DEF StepSubscribe
    <3>2. evidence' \in Nat /\ mishaps' \in Nat
      BY <2>7 DEF StepSubscribe
    <3>3. UNCHANGED <<up, stackVars, present, stickBond>>
      BY <2>7 DEF StepSubscribe
    <3> QED
      BY <3>1, <3>2, <3>3
  <2>8. CASE StepRunBegins
    BY <2>8 DEF StepRunBegins
  <2>9. CASE StepRunEnds
    BY <2>9 DEF StepRunEnds
  <2>10. CASE World
    BY <2>10 DEF World, loopVars, StickLeaves, StickReturns, StickForgetsBonds,
                 HostForgets, HostPairs
  <2>11. CASE UNCHANGED vars
    BY <2>11 DEF vars, loopVars
  <2> QED
    BY <2>1, <2>2, <2>3, <2>4, <2>5, <2>6, <2>7, <2>8, <2>9, <2>10, <2>11 DEF Next, Step
<1> QED
  BY <1>1, <1>2

\* The types hold of the machine, the loop, the stack and the world throughout: the
\* counters saturate, and no delay leaves the documented band.
THEOREM BridgeTypes == Spec => []TypeOK
<1>1. Init => TypeOK
  <2> SUFFICES ASSUME Init PROVE MachineTypes /\ FlagTypes
    BY TypesSplit
  <2>1. Do("Locate") \in Actions
    BY DoTypes DEF Operations
  <2>2. MachineTypes
    BY <2>1, AttemptAssumption DEF Init, MachineTypes, States
  <2>3. FlagTypes
    BY DEF Init, FlagTypes
  <2> QED
    BY <2>2, <2>3
<1> QED
  BY <1>1, TypesStep, PTL DEF Spec

\* A link that runs has forgotten the failures before it.
RunsFresh == action.kind = "Run" => fsm.attempt = 0

\* The machine says Run on a subscription only, which resets its counters.
LEMMA RunResets ==
  ASSUME fsm \in Machines, NEW event, On(event)
  PROVE  RunsFresh'
<1> SUFFICES ASSUME action'.kind = "Run" PROVE fsm'.attempt = 0
  BY DEF RunsFresh
<1>1. PICK edge \in Edges : Enter(edge) /\ edge[4] = "Run"
  <2>1. ~(action' = Do("FailFast"))
    BY DEF Do
  <2>2. ~OnEncryptionFailure
    BY EncryptionFailureEffect
  <2>3. ~FailToBackoff(fsm.encryptionFailures)
    BY FailToBackoffEffect DEF Machines
  <2>4. PICK edge \in Edges : Enter(edge)
    BY <2>1, <2>2, <2>3 DEF On
  <2> QED
    BY <2>4, EnterEffect
<1>2. edge[2] = "NotifySubscribed"
  BY <1>1 DEF Edges
<1> QED
  BY <1>1, <1>2 DEF Enter

\* A dropped link is retried after the base delay, however many failures went
\* before the link came up.
THEOREM FirstRetriesArePrompt == Spec => FirstRetryIsPrompt
<1>1. Init => RunsFresh
  BY DEF Init, RunsFresh
<1>2. Inductive /\ RunsFresh /\ [Next]_vars => RunsFresh'
  <2> SUFFICES ASSUME Inductive, RunsFresh, [Next]_vars PROVE RunsFresh'
    OBVIOUS
  <2>1. CASE \E event : On(event)
    BY <2>1, RunResets DEF Inductive, Shape
  <2>2. CASE UNCHANGED <<fsm, action>>
    BY <2>2 DEF RunsFresh
  <2> QED
    BY <2>1, <2>2
    DEF Next, Step, World, vars, loopVars, StepBackoff, StepLocate, StepConnect, StepPair,
        StepAgentMissing, StepRemove, StepSubscribe, StepRunBegins, StepRunEnds,
        StickLeaves, StickReturns, StickForgetsBonds, HostForgets, HostPairs
<1>3. Inductive /\ RunsFresh /\ [Next]_vars => [up /\ ~up' => action' = Sleep(Base)]_vars
  <2> SUFFICES ASSUME Inductive, RunsFresh, Next, up, ~up' PROVE action' = Sleep(Base)
    OBVIOUS
  <2>1. StepRunEnds
    BY DEF Next, Step, World, loopVars, StepBackoff, StepLocate, StepConnect, StepPair,
           StepAgentMissing, StepRemove, StepSubscribe, StepRunBegins,
           StickLeaves, StickReturns, StickForgetsBonds, HostForgets, HostPairs
  <2>2. action.kind = "Run" /\ On("Disconnected")
    BY <2>1 DEF StepRunEnds
  <2>3. FailToBackoff(fsm.encryptionFailures)
    <3>1. fsm.state = "Subscribed"
      BY <2>2 DEF Inductive, Shape, Machines, States, EachStateAwaitsItsOperation, Awaits
    <3> QED
      BY <2>2, <3>1 DEF On, LooksStale, Edges
  <2> QED
    BY <2>2, <2>3, BackoffInBand DEF FailToBackoff, RunsFresh
<1> QED
  BY <1>1, <1>2, <1>3, InductiveAlways, PTL DEF Spec, FirstRetryIsPrompt

-----------------------------------------------------------------------------
(* How far the link is: what LinkComesBack rests on.                       *)

\* The host would encrypt with a key the stick has not.
Stale == hostBond /\ ~stickBond

\* The failures a stale bond still has to its name before it is given up.
Patience == IF Stale THEN RebondAfterEncryptionFailures - fsm.encryptionFailures ELSE 0

\* How often the loop still has to start over ...
Detours ==
  CASE action.kind \in {"Backoff", "Locate", "Connect"} -> Patience
    [] action.kind = "Pair"      -> IF hostBond THEN 1 ELSE 0
    [] action.kind = "Subscribe" -> IF Stale /\ wasPaired THEN Patience
                                    ELSE IF LinkWorks THEN 0 ELSE Patience + 1
    [] action.kind = "Run"       -> IF LinkWorks THEN 0 ELSE Patience + 1
    [] OTHER                     -> 0

\* ... and how many operations are before it on the way from there to the link.
Leg ==
  CASE action.kind = "RemoveDeviceThenReacquire" -> 7
    [] action.kind = "Backoff"                   -> 6
    [] action.kind = "Locate"                    -> 5
    [] action.kind = "Connect"                   -> 4
    [] action.kind = "Pair"                      -> 3
    [] action.kind = "Subscribe"                 -> 2
    [] action.kind = "Run"                       -> IF up THEN 0 ELSE 1
    [] OTHER                                     -> 0

Distance == 8 * Detours + Leg

\* While the stick is in reach and no mishap happens, every step of the loop brings
\* the link closer: no failure, stale bond or rejected pairing is retried in vain.
ComesCloser ==
  [][Step /\ present /\ UNCHANGED mishaps => Distance' < Distance]_vars

\* What the distance rests on: the stick has no key the host has not, the count
\* stays below the threshold, and a link that runs has cleared it.
Hopeful ==
  /\ stickBond => hostBond
  /\ fsm.encryptionFailures < RebondAfterEncryptionFailures
  /\ action.kind = "Run" => fsm.encryptionFailures = 0

\* The edge of a state on an event is the one taken.
LEMMA EdgeTaken ==
  ASSUME fsm \in Machines, NEW edge \in Edges, fsm.state = edge[1], On(edge[2])
  PROVE  /\ action'.kind = edge[4]
         /\ fsm'.encryptionFailures =
              IF edge[2] = "NotifySubscribed" THEN 0 ELSE fsm.encryptionFailures
<1>1. edge[2] # "AgentMissing" /\ ~LooksStale(edge[2]) /\ Expects(edge[2])
  BY DEF Edges, LooksStale, Expects
<1>2. PICK taken \in Edges : taken[1] = edge[1] /\ taken[2] = edge[2] /\ Enter(taken)
  BY <1>1 DEF On
<1>3. taken[4] = edge[4]
  BY <1>2 DEF Edges
<1> QED
  BY <1>2, <1>3, EnterEffect

\* A plain failure leads to a backoff and leaves the count alone.
LEMMA DropTaken ==
  ASSUME fsm \in Machines, On("Disconnected")
  PROVE  action'.kind = "Backoff" /\ fsm'.encryptionFailures = fsm.encryptionFailures
<1>1. FailToBackoff(fsm.encryptionFailures)
  BY DEF On, LooksStale, Edges
<1> QED
  BY <1>1, FailToBackoffEffect DEF Machines

\* A failure that looks stale is counted, or is the last one.
LEMMA StaleTaken ==
  ASSUME fsm \in Machines, fsm.encryptionFailures < RebondAfterEncryptionFailures,
         fsm.state \in {"Connecting", "Pairing", "Encrypted"}, On("EncryptionFailed")
  PROVE  \/ /\ action'.kind = "Backoff"
            /\ fsm'.encryptionFailures = fsm.encryptionFailures + 1
            /\ fsm.encryptionFailures + 1 < RebondAfterEncryptionFailures
         \/ /\ action'.kind = "RemoveDeviceThenReacquire"
            /\ fsm'.encryptionFailures = 0
            /\ fsm.encryptionFailures + 1 = RebondAfterEncryptionFailures
<1> DEFINE failures == fsm.encryptionFailures + 1
<1>1. failures \in Nat /\ Bump(fsm.encryptionFailures) = failures
  BY AttemptAssumption DEF Bump, Machines, RebondAfterEncryptionFailures
<1>2. OnEncryptionFailure
  BY DEF On, LooksStale, Edges
<1>3. CASE failures < RebondAfterEncryptionFailures
  <2>1. FailToBackoff(failures)
    BY <1>1, <1>2, <1>3 DEF OnEncryptionFailure
  <2> HIDE DEF failures
  <2>2. action'.kind = "Backoff" /\ fsm'.encryptionFailures = failures
    BY <1>1, <2>1, FailToBackoffEffect
  <2> QED
    BY <1>3, <2>2 DEF failures
<1>4. CASE ~(failures < RebondAfterEncryptionFailures)
  <2>1. /\ action' = Do("RemoveDeviceThenReacquire")
        /\ fsm' = [fsm EXCEPT !.state = "Repairing", !.encryptionFailures = 0]
    BY <1>1, <1>2, <1>4 DEF OnEncryptionFailure
  <2>2. failures = RebondAfterEncryptionFailures
    BY <1>4 DEF RebondAfterEncryptionFailures, Machines
  <2> QED
    BY <2>1, <2>2 DEF Do, Machines
<1> QED
  BY <1>3, <1>4

\* Whatever the event, the count stays below the threshold, and Run clears it.
LEMMA OnStaysHopeful ==
  ASSUME fsm \in Machines, fsm.encryptionFailures < RebondAfterEncryptionFailures,
         NEW event, On(event)
  PROVE  /\ fsm'.encryptionFailures < RebondAfterEncryptionFailures
         /\ action'.kind = "Run" => fsm'.encryptionFailures = 0
<1>1. Leads(event)
  BY OnLeads
<1>2. CASE event = "EncryptionFailed" /\ LooksStale(event)
  BY <1>2, StaleTaken DEF LooksStale, RebondAfterEncryptionFailures
<1>3. CASE event = "AgentMissing"
  <2>1. fsm'.encryptionFailures =< fsm.encryptionFailures /\ action'.kind # "Run"
    BY <1>1, <1>3 DEF Leads
  <2> QED
    BY <1>1, <2>1 DEF Leads, Machines, RebondAfterEncryptionFailures
<1>4. CASE \E edge \in Edges : edge[1] = fsm.state /\ edge[2] = event
  <2>1. PICK edge \in Edges : edge[1] = fsm.state /\ edge[2] = event
    BY <1>4
  <2>2. edge[4] = "Run" => edge[2] = "NotifySubscribed"
    BY DEF Edges
  <2> QED
    BY <2>1, <2>2, EdgeTaken DEF RebondAfterEncryptionFailures
<1>5. CASE /\ event # "AgentMissing" /\ ~LooksStale(event)
           /\ ~ \E edge \in Edges : edge[1] = fsm.state /\ edge[2] = event
  <2>1. FailToBackoff(fsm.encryptionFailures)
    BY <1>5 DEF On
  <2> QED
    BY <2>1, FailToBackoffEffect DEF Machines
<1> QED
  BY <1>2, <1>3, <1>4, <1>5 DEF LooksStale

\* It stays so through every step of the loop and of the world.
LEMMA HopefulStep ==
  TypeOK /\ Inductive /\ Hopeful /\ [Next]_vars => Hopeful'
<1> SUFFICES ASSUME FlagTypes, Inductive, Hopeful, [Next]_vars PROVE Hopeful'
  BY TypesSplit
<1>1. fsm'.encryptionFailures < RebondAfterEncryptionFailures
        /\ (action'.kind = "Run" => fsm'.encryptionFailures = 0)
  <2>1. CASE \E event : On(event)
    BY <2>1, OnStaysHopeful DEF Inductive, Shape, Hopeful
  <2>2. CASE UNCHANGED <<fsm, action>>
    BY <2>2 DEF Hopeful
  <2> QED
    BY <2>1, <2>2
    DEF Next, Step, World, vars, loopVars, StepBackoff, StepLocate, StepConnect, StepPair,
        StepAgentMissing, StepRemove, StepSubscribe, StepRunBegins, StepRunEnds,
        StickLeaves, StickReturns, StickForgetsBonds, HostForgets, HostPairs
<1>2. stickBond' => hostBond'
  BY DEF Hopeful, FlagTypes, Next, Step, World, vars, loopVars, stackVars, StepBackoff,
         StepLocate, StepConnect, StepPair, StepAgentMissing, StepRemove, StepSubscribe,
         StepRunBegins, StepRunEnds, StickLeaves, StickReturns, StickForgetsBonds,
         HostForgets, HostPairs
<1> QED
  BY <1>1, <1>2 DEF Hopeful

\* Fewer detours, or as many and a shorter way, is closer.
LEMMA Closer ==
  ASSUME Detours \in Nat, Detours' \in Nat, Leg \in 0 .. 7, Leg' \in 0 .. 7,
         Detours' < Detours \/ (Detours' =< Detours /\ Leg' < Leg)
  PROVE  Distance' < Distance
<1>1. ASSUME NEW d \in Nat, NEW e \in Nat, NEW l \in 0 .. 7, NEW m \in 0 .. 7,
             e < d \/ (e =< d /\ m < l)
      PROVE  8 * e + m < 8 * d + l
  BY <1>1
<1>2. Distance = 8 * Detours + Leg /\ Distance' = 8 * Detours' + Leg'
  BY DEF Distance
<1> QED
  BY <1>1, <1>2

\* The distance is a number, and its legs fit below a detour.
LEMMA DistanceTypes ==
  ASSUME Inductive, Hopeful
  PROVE  Patience \in Nat /\ Detours \in Nat /\ Leg \in 0 .. 7
<1>1. Patience \in Nat
  BY DEF Inductive, Shape, Machines, Hopeful, Patience, RebondAfterEncryptionFailures
<1>2. Detours \in Nat
  BY <1>1 DEF Detours
<1>3. Leg \in 0 .. 7
  BY DEF Leg
<1> QED
  BY <1>1, <1>2, <1>3

\* Only a link that is up is no distance away, unless a missing agent has stopped
\* the loop.
LEMMA AtNoDistance ==
  ASSUME Inductive, Hopeful, Distance = 0
  PROVE  up \/ action.kind = "FailFast"
<1>1. Leg = 0
  BY DistanceTypes DEF Distance
<1>2. action.kind \in Awaits(fsm.state) /\ fsm.state \in States
  BY DEF Inductive, Shape, Machines, EachStateAwaitsItsOperation
<1> QED
  BY <1>1, <1>2 DEF Leg, Awaits, States

\* Each step of the loop, with the stick in reach and nothing going wrong, is one
\* leg of the way, or the end of a detour.
LEMMA StepComesCloser ==
  ASSUME FlagTypes, Inductive, Hopeful, Inductive', Hopeful',
         Step, present, mishaps' = mishaps
  PROVE  Distance' < Distance
<1>n. /\ Detours \in Nat /\ Detours' \in Nat /\ Leg \in 0 .. 7 /\ Leg' \in 0 .. 7
      /\ Patience \in Nat /\ Patience' \in Nat
  <2>1. (Patience \in Nat /\ Detours \in Nat /\ Leg \in 0 .. 7)'
    <3>1. (Inductive /\ Hopeful => Patience \in Nat /\ Detours \in Nat /\ Leg \in 0 .. 7)'
      BY DistanceTypes, PTL
    <3> QED BY <3>1
  <2> QED BY <2>1, DistanceTypes
<1>m. ~Mishap /\ \A working \in BOOLEAN : FailsUnless(working) => ~working
  BY DEF Mishap, FailsUnless, FlagTypes
<1>f. fsm \in Machines /\ fsm.encryptionFailures \in Nat
        /\ fsm.encryptionFailures < RebondAfterEncryptionFailures
  BY DEF Inductive, Shape, Machines, Hopeful
<1>s. action.kind \in Awaits(fsm.state) /\ fsm.state \in States
  BY <1>f DEF Inductive, EachStateAwaitsItsOperation, Machines
<1>d. ASSUME Detours' < Detours \/ (Detours' =< Detours /\ Leg' < Leg)
      PROVE  Distance' < Distance
  BY <1>n, <1>d, Closer
<1> USE DEF stackVars
<1>1. CASE StepBackoff
  <2>1. fsm.state = "Disconnected" /\ On("BackoffElapsed") /\ action.kind = "Backoff"
    BY <1>1, <1>s DEF StepBackoff, States, Awaits
  <2>2. <<"Disconnected", "BackoffElapsed", "Locating", "Locate">> \in Edges
    BY DEF Edges
  <2>3. action'.kind = "Locate" /\ fsm'.encryptionFailures = fsm.encryptionFailures
    BY <1>f, <2>1, <2>2, EdgeTaken
  <2>4. Patience' = Patience
    BY <1>1, <2>3 DEF StepBackoff, Patience, Stale
  <2>5. Detours' = Detours /\ Leg' < Leg
    BY <2>1, <2>3, <2>4 DEF Detours, Leg
  <2> QED BY <1>n, <1>d, <2>5
<1>2. CASE StepLocate
  <2>1. fsm.state = "Locating" /\ On("Located") /\ action.kind = "Locate"
    BY <1>2, <1>m, <1>s DEF StepLocate, States, Awaits, FlagTypes
  <2>2. <<"Locating", "Located", "Connecting", "Connect">> \in Edges
    BY DEF Edges
  <2>3. action'.kind = "Connect" /\ fsm'.encryptionFailures = fsm.encryptionFailures
    BY <1>f, <2>1, <2>2, EdgeTaken
  <2>4. Patience' = Patience
    BY <1>2, <2>3 DEF StepLocate, Patience, Stale
  <2>5. Detours' = Detours /\ Leg' < Leg
    BY <2>1, <2>3, <2>4 DEF Detours, Leg
  <2> QED BY <1>n, <1>d, <2>5
<1>3. CASE StepConnect
  <2>1. /\ fsm.state = "Connecting" /\ action.kind = "Connect"
        /\ UNCHANGED <<hostBond, stickBond, present>> /\ wasPaired' = hostBond
    BY <1>3, <1>s DEF StepConnect, States, Awaits
  <2>2. Detours = Patience /\ Leg = 4
    BY <2>1 DEF Detours, Leg
  <2>3. \/ hostBond /\ On("ConnectedPaired")
        \/ ~hostBond /\ On("ConnectedFresh")
        \/ Stale /\ On("EncryptionFailed")
    BY <1>3, <1>m DEF StepConnect, StaleOrBluer, Stale, FlagTypes, FailsUnless, Mishap
  <2>4. CASE hostBond /\ On("ConnectedPaired")
    <3>1. <<"Connecting", "ConnectedPaired", "Encrypted", "Subscribe">> \in Edges
      BY DEF Edges
    <3>2. action'.kind = "Subscribe" /\ fsm'.encryptionFailures = fsm.encryptionFailures
      BY <1>f, <2>1, <2>4, <3>1, EdgeTaken
    <3>3. Detours' = Patience /\ Leg' = 2
      BY <2>1, <2>4, <3>2 DEF Detours, Leg, Patience, Stale, LinkWorks
    <3> QED BY <1>n, <1>d, <2>2, <3>3
  <2>5. CASE ~hostBond /\ On("ConnectedFresh")
    <3>1. <<"Connecting", "ConnectedFresh", "Pairing", "Pair">> \in Edges
      BY DEF Edges
    <3>2. action'.kind = "Pair"
      BY <1>f, <2>1, <2>5, <3>1, EdgeTaken
    <3>3. Detours' = 0 /\ Leg' = 3
      BY <2>1, <2>5, <3>2 DEF Detours, Leg
    <3> QED BY <1>n, <1>d, <2>2, <3>3
  <2>6. CASE Stale /\ On("EncryptionFailed")
    <3>1. \/ action'.kind = "Backoff" /\ Patience' < Patience
          \/ action'.kind = "RemoveDeviceThenReacquire"
      BY <1>f, <2>1, <2>6, StaleTaken DEF Patience, Stale, RebondAfterEncryptionFailures
    <3>2. Detours' < Patience
      BY <1>f, <2>6, <3>1 DEF Detours, Patience, RebondAfterEncryptionFailures
    <3> QED BY <1>d, <2>2, <3>2
  <2> QED BY <2>3, <2>4, <2>5, <2>6
<1>4. CASE StepPair
  <2>1. fsm.state = "Pairing" /\ action.kind = "Pair" /\ present' = present
    BY <1>4, <1>s DEF StepPair, States, Awaits
  <2>2. \/ hostBond /\ On("PairRejectedAlreadyPaired") /\ UNCHANGED <<hostBond, stickBond>>
        \/ ~hostBond /\ On("LinkEncrypted") /\ hostBond' /\ stickBond'
    BY <1>4, <1>m DEF StepPair, FlagTypes
  <2>3. CASE hostBond /\ On("PairRejectedAlreadyPaired")
    <3>1. <<"Pairing", "PairRejectedAlreadyPaired", "Repairing", "RemoveDeviceThenReacquire">> \in Edges
      BY DEF Edges
    <3>2. action'.kind = "RemoveDeviceThenReacquire"
      BY <1>f, <2>1, <2>3, <3>1, EdgeTaken
    <3>3. Detours = 1 /\ Detours' = 0
      BY <2>1, <2>3, <3>2 DEF Detours
    <3> QED BY <1>d, <3>3
  <2>4. CASE ~hostBond /\ On("LinkEncrypted") /\ hostBond' /\ stickBond'
    <3>1. <<"Pairing", "LinkEncrypted", "Encrypted", "Subscribe">> \in Edges
      BY DEF Edges
    <3>2. action'.kind = "Subscribe"
      BY <1>f, <2>1, <2>4, <3>1, EdgeTaken
    <3>3. Detours' = 0 /\ Leg' = 2 /\ Leg = 3
      BY <2>1, <2>4, <3>2 DEF Detours, Leg, Stale, LinkWorks
    <3> QED BY <1>n, <1>d, <3>3
  <2> QED BY <2>2, <2>3, <2>4
<1>5. CASE StepAgentMissing
  BY <1>5, <1>m DEF StepAgentMissing
<1>6. CASE StepRemove
  <2>1. /\ fsm.state = "Repairing" /\ action.kind = "RemoveDeviceThenReacquire"
        /\ On("Reacquired") /\ ~hostBond'
    BY <1>6, <1>m, <1>s DEF StepRemove, States, Awaits
  <2>2. <<"Repairing", "Reacquired", "Locating", "Locate">> \in Edges
    BY DEF Edges
  <2>3. action'.kind = "Locate"
    BY <1>f, <2>1, <2>2, EdgeTaken
  <2>4. Detours' = 0 /\ Leg' = 5 /\ Leg = 7
    BY <2>1, <2>3 DEF Detours, Leg, Patience, Stale
  <2> QED BY <1>n, <1>d, <2>4
<1>7. CASE StepSubscribe
  <2>1. /\ fsm.state = "Encrypted" /\ action.kind = "Subscribe" /\ ~up /\ up' = up
        /\ UNCHANGED <<hostBond, stickBond, present, wasPaired>>
    BY <1>7, <1>s DEF StepSubscribe, States, Awaits, Inductive, OperationsAreReady
  <2>2. \/ LinkWorks /\ On("NotifySubscribed")
        \/ ~LinkWorks /\ wasPaired /\ On("EncryptionFailed")
        \/ ~LinkWorks /\ ~wasPaired /\ On("Disconnected")
    BY <1>7, <1>m DEF StepSubscribe, StaleOrBluer, LinkWorks, FlagTypes
  <2>3. CASE LinkWorks /\ On("NotifySubscribed")
    <3>1. <<"Encrypted", "NotifySubscribed", "Subscribed", "Run">> \in Edges
      BY DEF Edges
    <3>2. action'.kind = "Run"
      BY <1>f, <2>1, <2>3, <3>1, EdgeTaken
    <3>3. Detours' = 0 /\ Leg' = 1 /\ Leg = 2
      BY <2>1, <2>3, <3>2 DEF Detours, Leg, LinkWorks
    <3> QED BY <1>n, <1>d, <3>3
  <2>4. CASE ~LinkWorks /\ wasPaired /\ On("EncryptionFailed")
    <3>1. Detours = IF Stale THEN Patience ELSE Patience + 1
      BY <2>1, <2>4 DEF Detours
    <3>2. \/ action'.kind = "Backoff" /\ fsm'.encryptionFailures = fsm.encryptionFailures + 1
          \/ action'.kind = "RemoveDeviceThenReacquire"
      BY <1>f, <2>1, <2>4, StaleTaken
    <3>3. Detours' < Detours
      BY <1>f, <1>n, <2>1, <3>1, <3>2 DEF Detours, Patience, Stale, RebondAfterEncryptionFailures
    <3> QED BY <1>d, <3>3
  <2>5. CASE ~LinkWorks /\ ~wasPaired /\ On("Disconnected")
    <3>1. action'.kind = "Backoff" /\ fsm'.encryptionFailures = fsm.encryptionFailures
      BY <1>f, <2>5, DropTaken
    <3>2. Detours = Patience + 1 /\ Detours' = Patience
      BY <2>1, <2>5, <3>1 DEF Detours, Patience, Stale
    <3> QED BY <1>n, <1>d, <3>2
  <2> QED BY <2>2, <2>3, <2>4, <2>5
<1>8. CASE StepRunBegins
  <2>1. Detours' = Detours /\ Leg = 1 /\ Leg' = 0
    BY <1>8 DEF StepRunBegins, Detours, Leg, LinkWorks, Patience, Stale
  <2> QED BY <1>n, <1>d, <2>1
<1>9. CASE StepRunEnds
  <2>1. /\ action.kind = "Run" /\ ~LinkWorks /\ On("Disconnected")
        /\ UNCHANGED <<hostBond, stickBond, present>>
    BY <1>9, <1>m DEF StepRunEnds, LinkWorks, FlagTypes
  <2>2. action'.kind = "Backoff" /\ fsm'.encryptionFailures = fsm.encryptionFailures
    BY <1>f, <2>1, DropTaken
  <2>3. Detours = Patience + 1 /\ Detours' = Patience
    BY <2>1, <2>2 DEF Detours, Patience, Stale
  <2> QED BY <1>n, <1>d, <2>3
<1> QED
  BY <1>1, <1>2, <1>3, <1>4, <1>5, <1>6, <1>7, <1>8, <1>9 DEF Step

\* Every step of the loop brings the link closer while the stick is in reach and
\* nothing goes wrong.  The distance is a natural number, and zero only where the
\* link is up, so it is up within as many steps.
THEOREM EveryStepComesCloser ==
  Spec => /\ ComesCloser
          /\ [](Distance \in Nat /\ (Distance = 0 => up \/ action.kind = "FailFast"))
<1>1. Init => Hopeful
  BY DEF Init, Hopeful, Do, RebondAfterEncryptionFailures
<1>2. Inductive /\ Hopeful => Distance \in Nat /\ (Distance = 0 => up \/ action.kind = "FailFast")
  BY DistanceTypes, AtNoDistance DEF Distance
<1>3. /\ TypeOK /\ Inductive /\ Hopeful /\ [Next]_vars
      /\ TypeOK' /\ Inductive' /\ Hopeful'
      => [Step /\ present /\ UNCHANGED mishaps => Distance' < Distance]_vars
  BY StepComesCloser, TypesSplit
<1> QED
  BY <1>1, <1>2, <1>3, HopefulStep, InductiveAlways, BridgeTypes, PTL DEF Spec, ComesCloser

-----------------------------------------------------------------------------
(* The link comes back.  What fairness says of the loop is written out here,  *)
(* with the states in which it may wait in place of ENABLED.                  *)

\* The loop takes a step again and again, but for a link that is up, or a missing
\* agent that has stopped it.
LoopRuns == []<>(up \/ action.kind = "FailFast") \/ []<><<Step>>_vars

\* The mishaps come to an end (MaxMishaps bounds them).
MishapsEnd == <>[][mishaps' = mishaps]_vars

Sound == TypeOK /\ Inductive /\ Hopeful

LEMMA SoundHolds == Spec => []Sound
<1>1. Init => Hopeful
  BY DEF Init, Hopeful, Do, RebondAfterEncryptionFailures
<1> QED
  BY <1>1, HopefulStep, InductiveAlways, BridgeTypes, PTL DEF Spec, Sound

\* A stale bond is given up after three failures, so there are four detours at most.
LEMMA FewDetours == ASSUME Sound PROVE Detours \in 0 .. 4 /\ Leg \in 0 .. 7
<1>1. fsm.encryptionFailures \in Nat /\ Patience \in 0 .. 3
  BY DEF Sound, Inductive, Shape, Machines, Hopeful, Patience, RebondAfterEncryptionFailures
<1>2. Detours \in 0 .. 4
  BY <1>1 DEF Detours
<1> QED
  BY <1>2, DistanceTypes DEF Sound

\* With the stick in reach and nothing going wrong, only the loop moves, and each
\* of its steps spends a detour, or a leg of the present one.
LEMMA QuietSteps ==
  ASSUME Sound, Sound', [Next]_vars, present, present', mishaps' = mishaps
  PROVE  \/ UNCHANGED <<vars, Detours, Leg>>
         \/ Detours' < Detours
         \/ Detours' = Detours /\ Leg' < Leg
<1>1. ~World
  BY TypesSplit DEF World, StickLeaves, StickReturns, StickForgetsBonds, HostForgets,
                    HostPairs, Mishap, Sound, FlagTypes
<1>2. CASE Step
  <2>1. Distance' < Distance
    BY <1>2, StepComesCloser, TypesSplit DEF Sound
  <2>2. Detours \in 0 .. 4 /\ Leg \in 0 .. 7
    BY FewDetours
  <2>3. Detours' \in 0 .. 4 /\ Leg' \in 0 .. 7
    <3>1. (Sound => Detours \in 0 .. 4 /\ Leg \in 0 .. 7)'
      BY FewDetours, PTL
    <3> QED
      BY <3>1
  <2>4. 8 * Detours' + Leg' < 8 * Detours + Leg
    BY <2>1 DEF Distance
  <2>5. ASSUME NEW d \in 0 .. 4, NEW e \in 0 .. 4, NEW l \in 0 .. 7, NEW m \in 0 .. 7,
               8 * e + m < 8 * d + l
        PROVE  e < d \/ (e = d /\ m < l)
    BY <2>5
  <2> QED
    BY <2>2, <2>3, <2>4, <2>5
<1>3. CASE UNCHANGED vars
  BY <1>3 DEF vars, loopVars, stackVars, Detours, Leg, Patience, Stale, LinkWorks
<1> QED
  BY <1>1, <1>2, <1>3 DEF Next

\* Once the stick stays in reach and the mishaps have come to an end, the link comes
\* up and stays up, whatever the loop was doing and whatever keys each end held.
THEOREM LinkAlwaysComesBack ==
  Spec /\ LoopRuns /\ MishapsEnd => LinkComesBack
<1> DEFINE Arrived == up \/ action.kind = "FailFast"
           Quiet   == Sound /\ Sound' /\ [Next]_vars /\ present /\ present' /\ mishaps' = mishaps
           Returns == Detours' < Detours
<1>1. Quiet => /\ Detours \in 0 .. 4 /\ Detours' \in 0 .. 4
               /\ Leg \in 0 .. 7 /\ Leg' \in 0 .. 7
  <2>1. (Sound => Detours \in 0 .. 4 /\ Leg \in 0 .. 7)'
    BY FewDetours, PTL
  <2> QED
    BY <2>1, FewDetours
<1>2. Quiet => \/ UNCHANGED <<vars, Detours, Leg>>
               \/ Detours' < Detours
               \/ Detours' = Detours /\ Leg' < Leg
  BY QuietSteps
<1>3. ASSUME NEW d \in 0 .. 4, NEW e \in 0 .. 4, e =< d
      PROVE  /\ d =< 4
             /\ d =< 3 => e =< 3
             /\ d =< 2 => e =< 2
             /\ d =< 1 => e =< 1
             /\ d =< 0 => e =< 0
             /\ e < d => /\ d =< 4 => e =< 3
                         /\ d =< 3 => e =< 2
                         /\ d =< 2 => e =< 1
                         /\ d =< 1 => e =< 0
                         /\ ~(d =< 0)
  BY <1>3
<1>4. ASSUME NEW l \in 0 .. 7, NEW m \in 0 .. 7, m =< l
      PROVE  /\ l =< 7
             /\ l =< 6 => m =< 6
             /\ l =< 5 => m =< 5
             /\ l =< 4 => m =< 4
             /\ l =< 3 => m =< 3
             /\ l =< 2 => m =< 2
             /\ l =< 1 => m =< 1
             /\ l =< 0 => m =< 0
             /\ m < l => /\ l =< 7 => m =< 6
                         /\ l =< 6 => m =< 5
                         /\ l =< 5 => m =< 4
                         /\ l =< 4 => m =< 3
                         /\ l =< 3 => m =< 2
                         /\ l =< 2 => m =< 1
                         /\ l =< 1 => m =< 0
                         /\ ~(l =< 0)
  BY <1>4
<1> HIDE DEF Quiet
\* The detours never grow, and whoever returns has one less ...
<1>5. Quiet => /\ Detours =< 4
               /\ Detours =< 3 => (Detours =< 3)'
               /\ Detours =< 2 => (Detours =< 2)'
               /\ Detours =< 1 => (Detours =< 1)'
               /\ Detours =< 0 => (Detours =< 0)'
               /\ Returns => /\ Detours =< 4 => (Detours =< 3)'
                             /\ Detours =< 3 => (Detours =< 2)'
                             /\ Detours =< 2 => (Detours =< 1)'
                             /\ Detours =< 1 => (Detours =< 0)'
                             /\ ~(Detours =< 0)
  <2>1. Quiet => Detours' =< Detours
    BY <1>1, <1>2
  <2> QED
    BY <1>1, <1>3, <2>1
\* ... and between returns the legs never grow, and a step leaves one less.
<1>6. Quiet /\ ~Returns =>
               /\ Leg =< 7
               /\ Leg =< 6 => (Leg =< 6)'
               /\ Leg =< 5 => (Leg =< 5)'
               /\ Leg =< 4 => (Leg =< 4)'
               /\ Leg =< 3 => (Leg =< 3)'
               /\ Leg =< 2 => (Leg =< 2)'
               /\ Leg =< 1 => (Leg =< 1)'
               /\ Leg =< 0 => (Leg =< 0)'
  <2>1. Quiet /\ ~Returns => Leg' =< Leg
    BY <1>1, <1>2
  <2> QED
    BY <1>1, <1>4, <2>1
<1>7. Quiet /\ ~Returns /\ ~UNCHANGED vars =>
               /\ Leg =< 7 => (Leg =< 6)'
               /\ Leg =< 6 => (Leg =< 5)'
               /\ Leg =< 5 => (Leg =< 4)'
               /\ Leg =< 4 => (Leg =< 3)'
               /\ Leg =< 3 => (Leg =< 2)'
               /\ Leg =< 2 => (Leg =< 1)'
               /\ Leg =< 1 => (Leg =< 0)'
               /\ ~(Leg =< 0)
  <2>1. Quiet /\ ~Returns /\ ~UNCHANGED vars => Leg' < Leg /\ Leg' =< Leg
    BY <1>1, <1>2
  <2> QED
    BY <1>1, <1>4, <2>1
<1>8. <<Step>>_vars => ~UNCHANGED vars
  OBVIOUS
<1>9. UNCHANGED vars /\ Arrived => Arrived'
  BY DEF vars, loopVars
<1>10. Sound /\ Sound' /\ [Next]_vars /\ present /\ present' /\ [mishaps' = mishaps]_vars => Quiet
  BY DEF Quiet, vars
<1> HIDE DEF Arrived, Returns
<1> QED
  BY <1>5, <1>6, <1>7, <1>8, <1>9, <1>10, SoundHolds, PTL
  DEF Spec, LoopRuns, MishapsEnd, LinkComesBack, Arrived
=============================================================================

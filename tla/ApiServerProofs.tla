---------------------------- MODULE ApiServerProofs ----------------------------
(***************************************************************************)
(* What ApiServer promises for every number of connections, every cap, every *)
(* idle limit and every calibration.                                        *)
(***************************************************************************)
EXTENDS ApiServer, FiniteSetTheorems, TLAPS

-----------------------------------------------------------------------------
(* The probe.                                                               *)

(* Whatever the calibration, and whichever way its span runs, a count maps    *)
(* to a percentage (to_percent's clamp and its degenerate case).             *)
THEOREM MoistureIsAPercentage ==
  ASSUME NEW raw \in 0 .. MaxReading
  PROVE  ToPercent(raw) \in 0 .. 100
<1>1. CASE WetRaw = DryRaw
  BY <1>1 DEF ToPercent
<1>2. CASE WetRaw # DryRaw
  <2> DEFINE n == (raw - DryRaw) * 100
             d == WetRaw - DryRaw
             q == Magnitude(n) \div Magnitude(d)
  <2>1. /\ n \in Int /\ d \in Int /\ d # 0
    BY <1>2, SoilAssumption
  <2>2. Magnitude(n) \in Nat /\ Magnitude(d) \in Nat /\ Magnitude(d) > 0
    BY <2>1 DEF Magnitude
  <2>3. q \in Int
    BY <2>2
  <2>4. Quotient(n, d) \in Int
    BY <2>3 DEF Quotient
  <2>5. Clamped(Quotient(n, d)) \in 0 .. 100
    BY <2>4 DEF Clamped
  <2>6. QED
    BY <2>5, <1>2 DEF ToPercent
<1>3. QED
  BY <1>1, <1>2

LEMMA SamplesAreOutcomes ==
  /\ Unread \in Outcome
  /\ \A raw \in Raws : Sampled(raw) \in Outcome
<1>1. Unread \in Outcome
  BY DEF Unread, Faulty, Outcome, ProbeFaults
<1>2. ASSUME NEW raw \in Raws
      PROVE  Sampled(raw) \in Outcome
  <2>1. raw \in 0 .. MaxReading
    BY ServerAssumption
  <2>2. ToPercent(raw) \in 0 .. 100
    BY <2>1, MoistureIsAPercentage
  <2>3. Measured(ToPercent(raw)) \in Outcome
    BY <2>2 DEF Measured, Outcome
  <2>4. Faulty("UnderRange") \in Outcome /\ Faulty("OverRange") \in Outcome
    BY DEF Faulty, Outcome, ProbeFaults
  <2>5. QED
    BY <2>3, <2>4 DEF Sampled
<1>3. QED
  BY <1>1, <1>2

LEMMA ReadingTypes ==
  /\ NoReading \in Reading
  /\ \A outcome \in Outcome : Published(outcome) \in Reading
  /\ \A r \in Reading : Aged(r) \in Reading
  /\ \A r \in Reading : StateMessage(r) \in Told
<1>1. NoReading \in Reading
  BY SamplesAreOutcomes, SoilAssumption DEF NoReading, Reading
<1>2. \A outcome \in Outcome : Published(outcome) \in Reading
  BY SoilAssumption DEF Published, Reading
<1>3. ASSUME NEW r \in Reading
      PROVE  Aged(r) \in Reading
  <2>1. CASE r.age > MaxAge
    BY <2>1 DEF Aged
  <2>2. CASE ~(r.age > MaxAge)
    <3>1. r.age + 1 \in 0 .. MaxAge + 1
      BY <2>2, SoilAssumption DEF Reading
    <3>2. [r EXCEPT !.age = r.age + 1] \in Reading
      BY <3>1 DEF Reading
    <3>3. QED
      BY <3>2, <2>2 DEF Aged
  <2>3. QED
    BY <2>1, <2>2
<1>4. ASSUME NEW r \in Reading
      PROVE  StateMessage(r) \in Told
  <2>1. r.outcome.percent \in 0 .. 100
    BY DEF Reading, Outcome
  <2>2. Missing \in Told
    BY DEF Missing, Told, SensorState
  <2>3. QED
    BY <2>1, <2>2 DEF StateMessage, Told, SensorState
<1>5. QED
  BY <1>1, <1>2, <1>3, <1>4

LEMMA ConnectionTypes ==
  /\ NewConnection \in Connection
  /\ \A k \in Connection, m \in Inbound : Moved(k, m) \in Connection
<1>1. NewConnection \in Connection
  BY DEF NewConnection, Connection, Phase
<1>2. ASSUME NEW k \in Connection, NEW m \in Inbound
      PROVE  Moved(k, m) \in Connection
  <2>1. /\ [k EXCEPT !.phase = "Active"] \in Connection
        /\ [k EXCEPT !.phase = "Closed"] \in Connection
        /\ [k EXCEPT !.subscribed = TRUE] \in Connection
    BY DEF Connection, Phase
  <2>2. QED
    BY <2>1 DEF Moved
<1>3. QED
  BY <1>1, <1>2

(* A subscription survives only as one the connection answered: outside an    *)
(* active phase nothing is subscribed, and an unsubscribed or unanswered       *)
(* request changes no subscription (handle's SubscribeStates arm).           *)
LEMMA SubscriptionsAreAnswered ==
  ASSUME NEW k \in Connection, NEW m \in Inbound,
         k.phase # "Closed",
         k.subscribed => k.phase # "AwaitingHello"
  PROVE  /\ Moved(k, m).subscribed => Moved(k, m).phase # "AwaitingHello"
         /\ Moved(k, m).subscribed /\ m = "SubscribeStates"
              => StateReply \in Replies(k, m)
         /\ m # "SubscribeStates" => /\ Moved(k, m).subscribed = k.subscribed
                                     /\ StateReply \notin Replies(k, m)
<1>1. k.phase \in {"AwaitingHello", "Active"}
  BY DEF Connection, Phase
<1>2. CASE m = "SubscribeStates"
  <2>1. CASE k.phase = "Active"
    BY <1>2, <2>1 DEF Moved, Replies, Connection
  <2>2. CASE k.phase # "Active"
    BY <1>1, <1>2, <2>2 DEF Moved, Replies, Connection
  <2>3. QED
    BY <2>1, <2>2
<1>3. CASE m # "SubscribeStates"
  <2>1. /\ Moved(k, m).subscribed = k.subscribed
        /\ Moved(k, m).phase \in {k.phase, "Active", "Closed"}
    BY <1>3 DEF Moved, Connection
  <2>2. StateReply \notin Replies(k, m)
    BY <1>3 DEF Replies, StateReply
  <2>3. QED
    BY <1>3, <2>1, <2>2
<1>4. QED
  BY <1>2, <1>3

-----------------------------------------------------------------------------
(* The state machine's types.                                               *)

LEMMA InitTypes == Init => TypeOK
<1> SUFFICES ASSUME Init PROVE TypeOK
  OBVIOUS
<1>1. reading \in Reading
  BY ReadingTypes DEF Init
<1>2. conn \in [Conns -> Connection]
  BY ConnectionTypes DEF Init
<1>3. Untold \in Told
  BY DEF Untold, Told, SensorState
<1>4. /\ last \in [Conns -> Told]
      /\ told \in [Conns -> Told]
  BY <1>3 DEF Init
<1>5. idle \in [Conns -> 0 .. IdleLimit - 1] /\ parts \in [Conns -> 0 .. MaxParts]
  BY ServerAssumption DEF Init
<1>6. place \in [Conns -> {"away", "queued", "held"} \cup Served]
      /\ wedged \in [Conns -> BOOLEAN]
  BY DEF Init
<1>7. QED
  BY <1>1, <1>2, <1>4, <1>5, <1>6 DEF Init, TypeOK

(* The slot count only goes down where a slot is held, so it stays natural.   *)
ServingSet == {c \in Conns : Serving(c)}

Slots == active = Cardinality(ServingSet) + (IF door = "spawning" THEN 1 ELSE 0)

LEMMA ServingIsFinite ==
  /\ IsFiniteSet(ServingSet)
  /\ Cardinality(ServingSet) \in Nat
<1>1. IsFiniteSet(ServingSet)
  BY FS_Subset, ServerAssumption DEF ServingSet
<1>2. QED
  BY <1>1, FS_CardinalityType

\* The accept thread holds what it accepted; what is not served starts fresh.
Handed ==
  /\ \A c \in Conns : guest = c => place[c] = "held"
  /\ door \in {"checked", "spawning"} => guest \in Conns
  /\ door = "accepted" /\ guest = NoGuest => ~running
  /\ door \in {"accepting", "joining", "done"} => guest = NoGuest
  /\ knock \/ stopper = "stored" => ~running

Fresh ==
  \A c \in Conns : /\ ~Serving(c) => conn[c] = NewConnection
                   /\ place[c] \in Pumped => conn[c].phase # "Closed"
                   /\ conn[c].subscribed => conn[c].phase # "AwaitingHello"

Capped  == active <= MaxConnections
Drained == door = "done" => \A c \in Conns : place[c] = "away"

Inv == TypeOK /\ Slots /\ Handed /\ Fresh /\ NothingIsAssumedSent
         /\ Capped /\ Drained

LEMMA ReleaseFindsASlot ==
  ASSUME Inv, NEW c \in Conns, place[c] = "leaving"
  PROVE  active - 1 \in Nat
<1>1. c \in ServingSet
  BY DEF ServingSet, Serving, Served
<1>2. Cardinality(ServingSet) # 0
  BY <1>1, ServingIsFinite, FS_EmptySet
<1>3. active >= Cardinality(ServingSet) /\ active \in Nat
  BY ServingIsFinite DEF Inv, Slots, ServingSet, TypeOK
<1>4. QED
  BY <1>2, <1>3, ServingIsFinite

LEMMA SpawnFindsASlot ==
  ASSUME Inv, door = "spawning"
  PROVE  active - 1 \in Nat
<1>1. active = Cardinality(ServingSet) + 1
  BY DEF Inv, Slots, ServingSet
<1>2. QED
  BY <1>1, ServingIsFinite

(* Every step keeps every variable in its type.                             *)
LEMMA NextTypes == Inv /\ [Next]_serverVars => TypeOK'
<1> SUFFICES ASSUME Inv, [Next]_serverVars PROVE TypeOK'
  OBVIOUS
<1> USE ServerAssumption, SoilAssumption DEF doorVars, stopVars, pumpVars
<1>0. TypeOK
  BY DEF Inv
<1>1. ASSUME NEW raw \in Raws, Publishes(Sampled(raw)) PROVE TypeOK'
  <2>1. reading' \in Reading
    BY <1>1, SamplesAreOutcomes, ReadingTypes DEF Publishes
  <2>2. QED
    BY <1>0, <1>1, <2>1 DEF TypeOK, Publishes
<1>2. CASE Publishes(Unread)
  <2>1. reading' \in Reading
    BY <1>2, SamplesAreOutcomes, ReadingTypes DEF Publishes
  <2>2. QED
    BY <1>0, <1>2, <2>1 DEF TypeOK, Publishes
<1>3. CASE Ages
  <2>1. reading' \in Reading
    BY <1>0, <1>3, ReadingTypes DEF Ages, TypeOK
  <2>2. QED
    BY <1>0, <1>3, <2>1 DEF TypeOK, Ages
<1>4. CASE Shutdown \/ Knocks \/ KnockFails
  BY <1>0, <1>4 DEF TypeOK, Shutdown, Knocks, KnockFails
<1>5. ASSUME NEW c \in Conns, Connects(c) \/ Wedges(c) PROVE TypeOK'
  BY <1>0, <1>5 DEF TypeOK, Connects, Wedges, Served
<1>6. ASSUME NEW c \in Conns, Accept(c) PROVE TypeOK'
  BY <1>0, <1>6 DEF TypeOK, Accept
<1>7. CASE AcceptKnock
  BY <1>0, <1>7 DEF TypeOK, AcceptKnock
<1>8. CASE StopAccepting \/ SeeRunning \/ Reject
  BY <1>0, <1>8 DEF TypeOK, StopAccepting, SeeRunning, Reject, GuestLeaves
<1>9. CASE Admit
  BY <1>0, <1>9 DEF TypeOK, Admit
<1>10. CASE Spawn
  <2>1. place' \in [Conns -> {"away", "queued", "held"} \cup Served]
    BY <1>0, <1>10 DEF TypeOK, Spawn, Served
  <2>2. QED
    BY <1>0, <1>10, <2>1 DEF TypeOK, Spawn
<1>11. CASE SpawnFails
  <2>1. active' \in Nat
    BY <1>11, SpawnFindsASlot DEF SpawnFails
  <2>2. QED
    BY <1>0, <1>11, <2>1 DEF TypeOK, SpawnFails, GuestLeaves
<1>12. CASE Done
  BY <1>0, <1>12 DEF TypeOK, Done
<1>13. ASSUME NEW c \in Conns, LoopTop(c) \/ Part(c) \/ Drops(c) PROVE TypeOK'
  BY <1>0, <1>13 DEF TypeOK, LoopTop, Part, Drops, Served
<1>14. ASSUME NEW c \in Conns, NEW m \in Inbound, Frame(c, m) PROVE TypeOK'
  <2>1. conn' \in [Conns -> Connection]
    BY <1>0, <1>14, ConnectionTypes DEF TypeOK, Frame
  <2>2. StateMessage(reading) \in Told
    BY <1>0, ReadingTypes DEF TypeOK
  <2>3. Heard(c, Replies(conn[c], m)) \in Told
    BY <1>0, <2>2 DEF Heard, TypeOK
  <2>4. told' \in [Conns -> Told] /\ last' \in [Conns -> Told]
    BY <1>0, <1>14, <2>2, <2>3 DEF TypeOK, Frame
  <2>5. place' \in [Conns -> {"away", "queued", "held"} \cup Served]
    BY <1>0, <1>14 DEF TypeOK, Frame, Served
  <2>6. idle' \in [Conns -> 0 .. IdleLimit - 1] /\ parts' \in [Conns -> 0 .. MaxParts]
    BY <1>0, <1>14 DEF TypeOK, Frame
  <2>7. QED
    BY <1>0, <1>14, <2>1, <2>4, <2>5, <2>6 DEF TypeOK, Frame
<1>15. ASSUME NEW c \in Conns, TimesOut(c) PROVE TypeOK'
  <2>1. StateMessage(reading) \in Told
    BY <1>0, ReadingTypes DEF TypeOK
  <2>2. Heard(c, BroadcastStates(conn[c])) \in Told
    BY <1>0, <2>1 DEF Heard, TypeOK
  <2>3. told' \in [Conns -> Told] /\ last' \in [Conns -> Told]
    BY <1>0, <1>15, <2>1, <2>2 DEF TypeOK, TimesOut
  <2>4. place' \in [Conns -> {"away", "queued", "held"} \cup Served]
    BY <1>0, <1>15 DEF TypeOK, TimesOut, Served
  <2>5. idle' \in [Conns -> 0 .. IdleLimit - 1]
    BY <1>0, <1>15 DEF TypeOK, TimesOut
  <2>6. QED
    BY <1>0, <1>15, <2>3, <2>4, <2>5 DEF TypeOK, TimesOut
<1>16. ASSUME NEW c \in Conns, Release(c) PROVE TypeOK'
  <2>1. active' \in Nat
    BY <1>16, ReleaseFindsASlot DEF Release
  <2>2. Untold \in Told
    BY DEF Untold, Told, SensorState
  <2>3. conn' \in [Conns -> Connection]
    BY <1>0, <1>16, ConnectionTypes DEF TypeOK, Release
  <2>4. QED
    BY <1>0, <1>16, <2>1, <2>2, <2>3 DEF TypeOK, Release
<1>17. CASE UNCHANGED serverVars
  BY <1>0, <1>17 DEF TypeOK, serverVars
<1>18. QED
  BY <1>1, <1>2, <1>3, <1>4, <1>5, <1>6, <1>7, <1>8, <1>9, <1>10, <1>11, <1>12,
     <1>13, <1>14, <1>15, <1>16, <1>17 DEF Next, Environment, Serve, Pump

-----------------------------------------------------------------------------
(* Who holds what: the guest, the fresh connections, the drained server.      *)

LEMMA NextHanded == Inv /\ [Next]_serverVars => Handed'
<1> SUFFICES ASSUME Inv, [Next]_serverVars PROVE Handed'
  OBVIOUS
<1> USE ServerAssumption DEF doorVars, stopVars, pumpVars
<1>0. TypeOK /\ Handed
  BY DEF Inv
<1>1. CASE \/ \E raw \in Raws : Publishes(Sampled(raw))
           \/ Publishes(Unread) \/ Ages \/ UNCHANGED serverVars
  BY <1>0, <1>1 DEF Handed, Publishes, Ages, serverVars
<1>2. CASE Shutdown \/ Knocks \/ KnockFails
  BY <1>0, <1>2 DEF Handed, Shutdown, Knocks, KnockFails
<1>3. ASSUME NEW c \in Conns, Connects(c) \/ Wedges(c) PROVE Handed'
  BY <1>0, <1>3 DEF Handed, TypeOK, Connects, Wedges
<1>4. ASSUME NEW c \in Conns, Accept(c) PROVE Handed'
  BY <1>0, <1>4 DEF Handed, TypeOK, Accept
<1>5. CASE AcceptKnock
  BY <1>0, <1>5 DEF Handed, TypeOK, AcceptKnock
<1>6. CASE StopAccepting \/ SeeRunning \/ Reject
  BY <1>0, <1>6 DEF Handed, TypeOK, StopAccepting, SeeRunning, Reject, GuestLeaves
<1>7. CASE Admit
  BY <1>0, <1>7 DEF Handed, TypeOK, Admit
<1>8. CASE Spawn \/ SpawnFails
  BY <1>0, <1>8 DEF Handed, TypeOK, Spawn, SpawnFails, GuestLeaves
<1>9. CASE Done
  BY <1>0, <1>9 DEF Handed, TypeOK, Done
<1>10. ASSUME NEW c \in Conns,
              LoopTop(c) \/ Part(c) \/ TimesOut(c) \/ Drops(c) \/ Release(c)
       PROVE  Handed'
  BY <1>0, <1>10 DEF Handed, TypeOK, LoopTop, Part, TimesOut, Drops, Release
<1>11. ASSUME NEW c \in Conns, NEW m \in Inbound, Frame(c, m) PROVE Handed'
  BY <1>0, <1>11 DEF Handed, TypeOK, Frame
<1>12. QED
  BY <1>1, <1>2, <1>3, <1>4, <1>5, <1>6, <1>7, <1>8, <1>9, <1>10, <1>11
     DEF Next, Environment, Serve, Pump

LEMMA NextFresh ==
  Inv /\ [Next]_serverVars => Fresh' /\ NothingIsAssumedSent'
<1> SUFFICES ASSUME Inv, [Next]_serverVars
             PROVE  Fresh' /\ NothingIsAssumedSent'
  OBVIOUS
<1> USE ServerAssumption DEF doorVars, stopVars, pumpVars
<1>0. TypeOK /\ Handed /\ Fresh /\ NothingIsAssumedSent
  BY DEF Inv
<1> DEFINE Same == UNCHANGED <<conn, told, last>>
<1>a. ASSUME Same, \A c \in Conns : Serving(c)' => Serving(c),
             \A c \in Conns : (place[c] \in Pumped)' => place[c] \in Pumped,
             \A c \in Conns : Serving(c) => Serving(c)'
      PROVE  Fresh' /\ NothingIsAssumedSent'
  BY <1>0, <1>a DEF Fresh, NothingIsAssumedSent
<1>1. CASE \/ \E raw \in Raws : Publishes(Sampled(raw))
           \/ Publishes(Unread) \/ Ages \/ UNCHANGED serverVars
           \/ Shutdown \/ Knocks \/ KnockFails \/ AcceptKnock
           \/ SeeRunning \/ Admit
  <2>1. UNCHANGED <<place, conn, told, last>>
    BY <1>1 DEF Publishes, Ages, serverVars, Shutdown, Knocks, KnockFails,
                AcceptKnock, SeeRunning, Admit
  <2>2. QED
    BY <2>1, <1>a DEF Serving
<1>3. ASSUME NEW c \in Conns,
             Connects(c) \/ Wedges(c) \/ Accept(c) \/ Part(c) \/ LoopTop(c)
               \/ Drops(c)
      PROVE  Fresh' /\ NothingIsAssumedSent'
  <2>1. Same
    BY <1>3 DEF Connects, Wedges, Accept, Part, LoopTop, Drops
  <2>2. \A d \in Conns : /\ Serving(d)' <=> Serving(d)
                         /\ (place[d] \in Pumped)' => place[d] \in Pumped
    BY <1>0, <1>3 DEF Connects, Wedges, Accept, Part, LoopTop, Drops, TypeOK,
                      Serving, Served, Pumped
  <2>3. QED
    BY <2>1, <2>2, <1>a
<1>4. CASE StopAccepting \/ Reject \/ SpawnFails \/ Done
  <2>1. Same
    BY <1>4 DEF StopAccepting, Reject, SpawnFails, Done
  <2>2. \A d \in Conns : /\ Serving(d)' <=> Serving(d)
                         /\ (place[d] \in Pumped)' => place[d] \in Pumped
    BY <1>0, <1>4 DEF StopAccepting, Reject, SpawnFails, Done, GuestLeaves,
                      TypeOK, Handed, Serving, Served, Pumped
  <2>3. QED
    BY <2>1, <2>2, <1>a
<1>5. CASE Spawn
  <2>1. Same
    BY <1>5 DEF Spawn
  <2>2. guest \in Conns /\ place[guest] = "held"
    BY <1>0, <1>5 DEF Spawn, Handed
  <2>3. conn[guest] = NewConnection
    BY <1>0, <2>2 DEF Fresh, Serving, Served
  <2>4. conn[guest].phase = "AwaitingHello" /\ ~conn[guest].subscribed
    BY <2>3 DEF NewConnection
  <2>5. ASSUME NEW d \in Conns, d # guest PROVE place'[d] = place[d]
    BY <1>0, <1>5, <2>5 DEF Spawn, TypeOK
  <2>6. place'[guest] = "top"
    BY <1>0, <1>5, <2>2 DEF Spawn, TypeOK
  <2>7. QED
    BY <1>0, <2>1, <2>2, <2>4, <2>5, <2>6
       DEF Fresh, NothingIsAssumedSent, Serving, Served, Pumped
<1>6. ASSUME NEW c \in Conns, NEW m \in Inbound, Frame(c, m)
      PROVE  Fresh' /\ NothingIsAssumedSent'
  <2> DEFINE k == conn[c]
             k2 == Moved(k, m)
             state == StateMessage(reading)
  <2>1. place[c] = "reading"
    BY <1>6 DEF Frame
  <2>2. k \in Connection /\ k.phase # "Closed"
        /\ (k.subscribed => k.phase # "AwaitingHello")
    BY <1>0, <2>1 DEF Fresh, TypeOK, Pumped
  <2>3. /\ k2.subscribed => k2.phase # "AwaitingHello"
        /\ k2.subscribed /\ m = "SubscribeStates" => StateReply \in Replies(k, m)
        /\ m # "SubscribeStates" => /\ k2.subscribed = k.subscribed
                                    /\ StateReply \notin Replies(k, m)
    BY <2>2, SubscriptionsAreAnswered
  <2>4. conn' = [conn EXCEPT ![c] = k2]
        /\ told' = [told EXCEPT ![c] = Heard(c, Replies(k, m))]
        /\ last' = [last EXCEPT ![c] = IF m = "SubscribeStates" THEN state ELSE last[c]]
        /\ place' = [place EXCEPT ![c] = IF k2.phase = "Closed" THEN "leaving" ELSE "top"]
    BY <1>6 DEF Frame
  <2>5. conn'[c] = k2 /\ told'[c] = Heard(c, Replies(k, m))
        /\ last'[c] = (IF m = "SubscribeStates" THEN state ELSE last[c])
        /\ place'[c] = (IF k2.phase = "Closed" THEN "leaving" ELSE "top")
    BY <1>0, <2>4 DEF TypeOK
  <2>6. ASSUME NEW d \in Conns, d # c
        PROVE  /\ conn'[d] = conn[d] /\ told'[d] = told[d]
               /\ last'[d] = last[d] /\ place'[d] = place[d]
    BY <1>0, <2>4, <2>6 DEF TypeOK
  <2>7. k2.subscribed => told'[c] = last'[c]
    <3>1. CASE m = "SubscribeStates"
      BY <2>3, <2>5, <3>1 DEF Heard
    <3>2. CASE m # "SubscribeStates"
      BY <1>0, <2>3, <2>5, <3>2 DEF Heard, NothingIsAssumedSent
    <3>3. QED
      BY <3>1, <3>2
  <2> HIDE DEF k, k2, state
  <2>8. NothingIsAssumedSent'
    BY <1>0, <2>5, <2>6, <2>7 DEF NothingIsAssumedSent
  <2>9. ASSUME NEW d \in Conns
        PROVE  /\ Serving(d)' <=> Serving(d)
               /\ (place[d] \in Pumped)' => conn'[d].phase # "Closed"
               /\ conn'[d].subscribed => conn'[d].phase # "AwaitingHello"
    <3>1. CASE d = c
      BY <2>1, <2>3, <2>5, <3>1 DEF Serving, Served, Pumped
    <3>2. CASE d # c
      BY <1>0, <2>6, <3>2 DEF Fresh, Serving
    <3>3. QED
      BY <3>1, <3>2
  <2>10. ASSUME NEW d \in Conns, ~Serving(d)'
         PROVE  conn'[d] = NewConnection
    <3>1. ~Serving(d) /\ d # c
      BY <2>1, <2>9, <2>10 DEF Serving, Served
    <3>2. QED
      BY <1>0, <2>6, <3>1 DEF Fresh
  <2>11. Fresh'
    BY <2>9, <2>10 DEF Fresh
  <2>12. QED
    BY <2>8, <2>11
<1>7. ASSUME NEW c \in Conns, TimesOut(c)
      PROVE  Fresh' /\ NothingIsAssumedSent'
  <2>1. conn' = conn
    BY <1>7 DEF TimesOut
  <2>2. \A d \in Conns : /\ Serving(d)' <=> Serving(d)
                         /\ (place[d] \in Pumped)' => place[d] \in Pumped
    BY <1>0, <1>7 DEF TimesOut, TypeOK, Serving, Served, Pumped
  <2>3. Fresh'
    BY <1>0, <2>1, <2>2 DEF Fresh
  <2>4. ASSUME NEW d \in Conns, d # c
        PROVE  told'[d] = told[d] /\ last'[d] = last[d]
    BY <1>0, <1>7, <2>4 DEF TimesOut, TypeOK
  <2>5. conn[c].subscribed => conn[c].phase = "Active"
    BY <1>0, <1>7 DEF Fresh, TimesOut, Pumped, TypeOK, Connection, Phase
  <2>6. conn[c].subscribed => StateReply \in BroadcastStates(conn[c])
    BY <2>5 DEF BroadcastStates
  <2>7. conn[c].subscribed => told'[c] = last'[c]
    BY <1>0, <1>7, <2>6 DEF TimesOut, TypeOK, Heard, NothingIsAssumedSent
  <2>8. QED
    BY <1>0, <2>1, <2>3, <2>4, <2>7 DEF NothingIsAssumedSent
<1>8. ASSUME NEW c \in Conns, Release(c)
      PROVE  Fresh' /\ NothingIsAssumedSent'
  <2>1. conn'[c] = NewConnection /\ place'[c] = "away" /\ told'[c] = Untold
        /\ last'[c] = Untold
    BY <1>0, <1>8 DEF Release, TypeOK
  <2>2. ASSUME NEW d \in Conns, d # c
        PROVE  /\ conn'[d] = conn[d] /\ told'[d] = told[d]
               /\ last'[d] = last[d] /\ place'[d] = place[d]
    BY <1>0, <1>8, <2>2 DEF Release, TypeOK
  <2>3. QED
    BY <1>0, <2>1, <2>2
       DEF Fresh, NothingIsAssumedSent, NewConnection, Serving, Served, Pumped
<1>9. QED
  BY <1>1, <1>3, <1>4, <1>5, <1>6, <1>7, <1>8 DEF Next, Environment, Serve, Pump

LEMMA NextDrained == Inv /\ [Next]_serverVars => Capped' /\ Drained'
<1> SUFFICES ASSUME Inv, [Next]_serverVars PROVE Capped' /\ Drained'
  OBVIOUS
<1> USE ServerAssumption DEF doorVars, stopVars, pumpVars
<1>0. TypeOK /\ Capped /\ Drained
  BY DEF Inv
<1>1. CASE Environment
  BY <1>0, <1>1 DEF Environment, Publishes, Ages, Shutdown, Knocks, KnockFails,
                    Connects, Wedges, Capped, Drained, TypeOK
<1>2. CASE Serve
  BY <1>0, <1>2 DEF Serve, Accept, AcceptKnock, StopAccepting, SeeRunning, Reject,
                    Admit, Spawn, SpawnFails, Done, Capped, Drained, TypeOK
<1>3. ASSUME NEW c \in Conns, Pump(c) PROVE Capped' /\ Drained'
  <2>1. door # "done" /\ door' = door
    BY <1>0, <1>3 DEF Pump, LoopTop, Frame, Part, TimesOut, Drops, Release, Drained
  <2>2. active' = active \/ active' = active - 1
    BY <1>3 DEF Pump, LoopTop, Frame, Part, TimesOut, Drops, Release
  <2>3. QED
    BY <1>0, <2>1, <2>2 DEF Capped, Drained, TypeOK
<1>4. CASE UNCHANGED serverVars
  BY <1>0, <1>4 DEF serverVars, Capped, Drained
<1>5. QED
  BY <1>1, <1>2, <1>3, <1>4 DEF Next

-----------------------------------------------------------------------------
(* The slots: one step at a time, at most one connection begins or ends.      *)

LEMMA NextSlots == Inv /\ [Next]_serverVars => Slots'
<1> SUFFICES ASSUME Inv, [Next]_serverVars PROVE Slots'
  OBVIOUS
<1> USE ServerAssumption DEF doorVars, stopVars, pumpVars
<1> DEFINE Pending == IF door = "spawning" THEN 1 ELSE 0
<1>0. TypeOK /\ Handed /\ active = Cardinality(ServingSet) + Pending
  BY DEF Inv, Slots, ServingSet
<1>a. SUFFICES active' = Cardinality(ServingSet') + Pending'
  BY DEF Slots, ServingSet
<1>b. IsFiniteSet(ServingSet) /\ Cardinality(ServingSet) \in Nat
  BY ServingIsFinite
<1>1. CASE \/ \E raw \in Raws : Publishes(Sampled(raw))
           \/ Publishes(Unread) \/ Ages \/ UNCHANGED serverVars
           \/ Shutdown \/ Knocks \/ KnockFails \/ AcceptKnock
           \/ SeeRunning
  <2>1. place' = place /\ active' = active /\ Pending' = Pending
    BY <1>1 DEF Publishes, Ages, serverVars, Shutdown, Knocks, KnockFails,
                AcceptKnock, SeeRunning
  <2>2. ServingSet' = ServingSet
    BY <2>1 DEF ServingSet, Serving
  <2>3. QED
    BY <1>0, <2>1, <2>2
<1>2. ASSUME NEW c \in Conns,
             Connects(c) \/ Wedges(c) \/ Accept(c) \/ Part(c) \/ LoopTop(c)
               \/ Drops(c) \/ TimesOut(c)
      PROVE  active' = Cardinality(ServingSet') + Pending'
  <2>1. active' = active /\ Pending' = Pending
    BY <1>2 DEF Connects, Wedges, Accept, Part, LoopTop, Drops, TimesOut
  <2>2. \A d \in Conns : Serving(d)' <=> Serving(d)
    BY <1>0, <1>2 DEF Connects, Wedges, Accept, Part, LoopTop, Drops, TimesOut,
                      TypeOK, Serving, Served, Pumped
  <2>3. ServingSet' = ServingSet
    BY <2>2 DEF ServingSet
  <2>4. QED
    BY <1>0, <2>1, <2>3
<1>3. ASSUME NEW c \in Conns, NEW m \in Inbound, Frame(c, m)
      PROVE  active' = Cardinality(ServingSet') + Pending'
  <2>1. active' = active /\ Pending' = Pending
    BY <1>3 DEF Frame
  <2>2. \A d \in Conns : Serving(d)' <=> Serving(d)
    BY <1>0, <1>3 DEF Frame, TypeOK, Serving, Served
  <2>3. ServingSet' = ServingSet
    BY <2>2 DEF ServingSet
  <2>4. QED
    BY <1>0, <2>1, <2>3
<1>4. CASE StopAccepting \/ Reject \/ SpawnFails \/ Done
  <2>1. \A d \in Conns : Serving(d)' <=> Serving(d)
    BY <1>0, <1>4 DEF StopAccepting, Reject, SpawnFails, Done, GuestLeaves,
                      TypeOK, Handed, Serving, Served
  <2>2. ServingSet' = ServingSet
    BY <2>1 DEF ServingSet
  <2>3. CASE SpawnFails
    BY <1>0, <1>b, <2>2, <2>3 DEF SpawnFails
  <2>4. CASE StopAccepting \/ Reject \/ Done
    BY <1>0, <2>2, <2>4 DEF StopAccepting, Reject, Done
  <2>5. QED
    BY <1>4, <2>3, <2>4
<1>5. CASE Admit
  <2>1. place' = place /\ active' = active + 1
        /\ door = "checked" /\ door' = "spawning"
    BY <1>5 DEF Admit
  <2>2. ServingSet' = ServingSet
    BY <2>1 DEF ServingSet, Serving
  <2>3. QED
    BY <1>0, <1>b, <2>1, <2>2
<1>6. CASE Spawn
  <2>1. guest \in Conns /\ place[guest] = "held"
    BY <1>0, <1>6 DEF Spawn, Handed
  <2>2. guest \notin ServingSet
    BY <2>1 DEF ServingSet, Serving, Served
  <2>3. ServingSet' = ServingSet \cup {guest}
    BY <1>0, <1>6, <2>1 DEF Spawn, TypeOK, ServingSet, Serving, Served
  <2>4. Cardinality(ServingSet') = Cardinality(ServingSet) + 1
    BY <1>b, <2>2, <2>3, FS_AddElement
  <2>5. active' = active /\ door = "spawning" /\ door' = "accepting"
    BY <1>6 DEF Spawn
  <2>6. QED
    BY <1>0, <1>b, <2>4, <2>5
<1>7. ASSUME NEW c \in Conns, Release(c)
      PROVE  active' = Cardinality(ServingSet') + Pending'
  <2>1. c \in ServingSet
    BY <1>7 DEF Release, ServingSet, Serving, Served
  <2>2. ServingSet' = ServingSet \ {c}
    BY <1>0, <1>7 DEF Release, TypeOK, ServingSet, Serving, Served
  <2>3. Cardinality(ServingSet') = Cardinality(ServingSet) - 1
    BY <1>b, <2>1, <2>2, FS_RemoveElement
  <2>4. active' = active - 1 /\ door' = door
    BY <1>7 DEF Release
  <2>5. QED
    BY <1>0, <1>b, <2>3, <2>4
<1>8. QED
  BY <1>1, <1>2, <1>3, <1>4, <1>5, <1>6, <1>7 DEF Next, Environment, Serve, Pump

LEMMA InitInv == Init => Inv
<1> SUFFICES ASSUME Init PROVE Inv
  OBVIOUS
<1>1. TypeOK
  BY InitTypes
<1>2. ServingSet = {}
  BY DEF Init, ServingSet, Serving, Served
<1>3. Slots
  BY <1>2, FS_EmptySet DEF Init, Slots, ServingSet
<1>4. Handed
  BY ServerAssumption DEF Init, Handed
<1>5. Fresh /\ NothingIsAssumedSent
  BY DEF Init, Fresh, NothingIsAssumedSent, NewConnection, Serving, Served, Pumped
<1>6. Capped /\ Drained
  BY ServerAssumption DEF Init, Capped, Drained
<1>7. QED
  BY <1>1, <1>3, <1>4, <1>5, <1>6 DEF Inv

LEMMA NextInv == Inv /\ [Next]_serverVars => Inv'
BY NextTypes, NextHanded, NextFresh, NextDrained, NextSlots DEF Inv

(* The inductive invariant: the slots and the types, with what the accept      *)
(* thread holds, what a connection that is not served looks like, the cap and   *)
(* the emptiness of a server that has returned.                              *)
THEOREM ServerInvariant == Spec => []Inv
<1>1. QED
  BY InitInv, NextInv, PTL DEF Spec

(* Every variable keeps its type; in particular no slot count goes below       *)
(* zero, however threads end and spawns fail.                                *)
THEOREM ServerTypes == Spec => []TypeOK
<1>1. Inv => TypeOK
  BY DEF Inv
<1>2. QED
  BY <1>1, ServerInvariant, PTL

(* The count of active connections is the number being served, and within the  *)
(* cap, for every cap and any number of clients.                             *)
THEOREM SlotsAreAlwaysCounted == Spec => []SlotsAreCounted
<1>1. Inv => SlotsAreCounted
  BY DEF Inv, Slots, Capped, SlotsAreCounted, ServingSet
<1>2. QED
  BY <1>1, ServerInvariant, PTL

(* A subscriber has been sent exactly what its pump remembers.                *)
THEOREM NothingIsEverAssumedSent == Spec => []NothingIsAssumedSent
<1>1. Inv => NothingIsAssumedSent
  BY DEF Inv
<1>2. QED
  BY <1>1, ServerInvariant, PTL

(* A server that has returned serves nobody, holds no slot, keeps no client.  *)
THEOREM ReturnedServersAreDrained == Spec => []DrainedIsDrained
<1>1. Inv => DrainedIsDrained
  <2> SUFFICES ASSUME Inv, door = "done" PROVE DrainedIsDrained
    BY DEF DrainedIsDrained
  <2>1. \A c \in Conns : place[c] = "away"
    BY DEF Inv, Drained
  <2>2. ServingSet = {}
    BY <2>1 DEF ServingSet, Serving, Served
  <2>3. active = 0
    BY <2>2, FS_EmptySet DEF Inv, Slots, ServingSet
  <2>4. QED
    BY <2>1, <2>3 DEF DrainedIsDrained
<1>2. QED
  BY <1>1, ServerInvariant, PTL

-----------------------------------------------------------------------------
(* A timed-out read tells the client whatever it did not know.               *)
LEMMA TimeoutsInform ==
  ASSUME Inv, NEW c \in Conns, TimesOut(c)
  PROVE  ~Behind(c)'
<1> USE DEF pumpVars, stopVars, doorVars
<1>1. /\ place \in [Conns -> {"away", "queued", "held"} \cup Served]
      /\ told \in [Conns -> Told] /\ last \in [Conns -> Told]
  BY DEF Inv, TypeOK
<1>2. CASE place' = [place EXCEPT ![c] = "leaving"]
  BY <1>1, <1>2 DEF Behind, Pumped
<1>3. CASE place' = [place EXCEPT ![c] = "top"] /\ conn[c].subscribed
           /\ StateMessage(reading) # last[c]
  <2>1. conn[c].phase = "Active"
    BY <1>3 DEF Inv, TypeOK, Fresh, Pumped, TimesOut, Connection, Phase
  <2>2. StateReply \in BroadcastStates(conn[c])
    BY <1>3, <2>1 DEF BroadcastStates
  <2>3. told'[c] = StateMessage(reading)
    BY <1>1, <1>3, <2>2 DEF TimesOut, Heard
  <2>4. QED
    BY <2>3 DEF Behind, TimesOut
<1>4. CASE StateMessage(reading) = last[c]
  <2>1. conn[c].subscribed => told[c] = last[c]
    BY DEF Inv, NothingIsAssumedSent
  <2>2. conn' = conn /\ reading' = reading /\ told' = told
    BY <1>4 DEF TimesOut
  <2>3. QED
    BY <1>4, <2>1, <2>2 DEF Behind
<1>5. CASE ~conn[c].subscribed
  BY <1>5 DEF Behind, TimesOut
<1>6. QED
  BY <1>2, <1>3, <1>4, <1>5 DEF TimesOut

LEMMA CatchesUp ==
  ASSUME NEW c \in Conns
  PROVE  Spec => ([]<><<TimesOut(c)>>_serverVars => (Behind(c) ~> ~Behind(c)))
<1>1. Inv /\ <<TimesOut(c)>>_serverVars => ~Behind(c)'
  BY TimeoutsInform
<1>2. QED
  BY <1>1, ServerInvariant, PTL

(* A subscriber whose reads time out again and again always learns what the    *)
(* probe says, and that it has gone quiet, for any number of clients and any   *)
(* calibration (broadcast_changes against what last_broadcast remembers).     *)
THEOREM SubscribersAlwaysCatchUp == Spec => SubscribersCatchUp
<1>1. QED
  BY CatchesUp DEF SubscribersCatchUp

-----------------------------------------------------------------------------
(* What the two other liveness properties rest on: each thread's own steps run  *)
(* out, and no other's bring them back.                                      *)

\* What a wedged client's pump may still do before its slot is free.
Patience(c) ==
  CASE place[c] = "top"     -> 2 * (IdleLimit - idle[c]) + 1
    [] place[c] = "reading" -> 2 * (IdleLimit - idle[c])
    [] place[c] = "leaving" -> 1
    [] OTHER                -> 0

PatienceRunsOut ==
  [][\A c \in Conns :
       wedged[c] /\ Serving(c) => /\ Patience(c)' <= Patience(c)
                                  /\ Pump(c) => Patience(c)' < Patience(c)]_serverVars

\* What a connection's thread may still do once it has been told to stop ...
Stops(c) ==
  CASE place[c] = "reading" -> 3 + (MaxParts - parts[c])
    [] place[c] = "top"     -> 2
    [] place[c] = "leaving" -> 1
    [] OTHER                -> 0

\* ... and the accept thread.
Doors ==
  CASE door = "checked"   -> 5
    [] door = "spawning"  -> 4
    [] door = "accepting" -> 3
    [] door = "accepted"  -> 2
    [] door = "joining"   -> 1
    [] OTHER              -> 0

\* Only the connection admitted before the flag fell can still be spawned.
WindsDown ==
  [][~running =>
       /\ ~running'
       /\ Doors' <= Doors
       /\ Serve => Doors' < Doors
       /\ \A c \in Conns : /\ Stops(c)' <= Stops(c) \/ (c = guest /\ Spawn)
                           /\ Pump(c) => Stops(c)' < Stops(c)]_serverVars

LEMMA PumpComesCloser ==
  ASSUME TypeOK, NEW c \in Conns, Pump(c)
  PROVE  /\ wedged[c] => Patience(c)' < Patience(c)
         /\ ~running => Stops(c)' < Stops(c)
<1> USE ServerAssumption DEF pumpVars, stopVars, doorVars
<1>0. /\ place \in [Conns -> {"away", "queued", "held"} \cup Served]
      /\ idle \in [Conns -> 0 .. IdleLimit - 1]
      /\ parts \in [Conns -> 0 .. MaxParts]
  BY DEF TypeOK
<1>1. CASE LoopTop(c)
  BY <1>0, <1>1 DEF LoopTop, Patience, Stops
<1>2. ASSUME NEW m \in Inbound, Frame(c, m)
      PROVE  /\ wedged[c] => Patience(c)' < Patience(c)
             /\ ~running => Stops(c)' < Stops(c)
  <2>1. place'[c] \in {"leaving", "top"}
    BY <1>0, <1>2 DEF Frame
  <2>2. place[c] = "reading" /\ ~wedged[c] /\ parts[c] <= MaxParts
    BY <1>0, <1>2 DEF Frame
  <2>3. QED
    BY <1>0, <2>1, <2>2 DEF Stops
<1>3. CASE Part(c)
  BY <1>0, <1>3 DEF Part, Stops
<1>4. CASE TimesOut(c)
  BY <1>0, <1>4 DEF TimesOut, Patience, Stops
<1>5. CASE Drops(c)
  BY <1>0, <1>5 DEF Drops, Patience, Stops
<1>6. CASE Release(c)
  BY <1>0, <1>6 DEF Release, Patience, Stops
<1>7. QED
  BY <1>1, <1>2, <1>3, <1>4, <1>5, <1>6 DEF Pump

\* Another connection's pump, and the probe, leave this one where it is.
LEMMA PumpsKeepApart ==
  ASSUME TypeOK, NEW c \in Conns, NEW d \in Conns, c # d, Pump(d)
  PROVE  /\ place'[c] = place[c] /\ idle'[c] = idle[c] /\ parts'[c] = parts[c]
<1> USE DEF pumpVars, stopVars, doorVars
<1>0. /\ place \in [Conns -> {"away", "queued", "held"} \cup Served]
      /\ idle \in [Conns -> 0 .. IdleLimit - 1]
      /\ parts \in [Conns -> 0 .. MaxParts]
  BY DEF TypeOK
<1>1. QED
  BY <1>0 DEF Pump, LoopTop, Frame, Part, TimesOut, Drops, Release

\* The environment and the accept thread put nobody back to work but by Spawn.
LEMMA OthersSpawn ==
  ASSUME TypeOK, Handed, NEW c \in Conns,
         Environment \/ Serve \/ UNCHANGED serverVars
  PROVE  /\ idle' = idle /\ parts' = parts
         /\ \/ place'[c] = place[c]
            \/ place[c] \notin Served /\ place'[c] \notin Served
            \/ place'[c] = "away"
            \/ c = guest /\ Spawn /\ place[c] \notin Served
<1> USE DEF pumpVars, stopVars, doorVars
<1>0. place \in [Conns -> {"away", "queued", "held"} \cup Served]
  BY DEF TypeOK
<1>1. CASE Environment
  BY <1>0, <1>1 DEF Environment, Publishes, Ages, Shutdown, Knocks, KnockFails,
                    Connects, Wedges, Served
<1>2. CASE \E d \in Conns : Accept(d)
  BY <1>0, <1>2 DEF Accept, Served
<1>3. CASE AcceptKnock \/ SeeRunning \/ Admit
  BY <1>3 DEF AcceptKnock, SeeRunning, Admit
<1>4. CASE StopAccepting \/ Reject \/ SpawnFails
  BY <1>0, <1>4 DEF StopAccepting, Reject, SpawnFails, GuestLeaves
<1>5. CASE Spawn
  BY <1>0, <1>5 DEF Spawn, Handed, Served
<1>6. CASE Done
  BY <1>0, <1>6 DEF Done
<1>7. CASE UNCHANGED serverVars
  BY <1>7 DEF serverVars
<1>8. QED
  BY <1>1, <1>2, <1>3, <1>4, <1>5, <1>6, <1>7 DEF Serve

\* A thread's distance grows only when the accept thread spawns it.
LEMMA OnlySpawnsReset ==
  ASSUME TypeOK, TypeOK', Handed, [Next]_serverVars, NEW c \in Conns
  PROVE  /\ wedged[c] /\ Serving(c) => Patience(c)' <= Patience(c)
         /\ ~running => Stops(c)' <= Stops(c) \/ (c = guest /\ Spawn)
<1> USE ServerAssumption
<1>0. /\ place[c] \in {"away", "queued", "held"} \cup Served
      /\ idle[c] \in 0 .. IdleLimit - 1
      /\ parts[c] \in 0 .. MaxParts
  BY DEF TypeOK
<1>1. Patience(c) \in Nat /\ Stops(c) \in Nat
  BY <1>0 DEF Patience, Stops
<1>2. /\ place'[c] \in {"away", "queued", "held"} \cup Served
      /\ idle'[c] \in 0 .. IdleLimit - 1
      /\ parts'[c] \in 0 .. MaxParts
  BY DEF TypeOK
<1>3. Patience(c)' \in Nat /\ Stops(c)' \in Nat
  BY <1>2 DEF Patience, Stops
<1>4. CASE Pump(c)
  BY <1>1, <1>3, <1>4, PumpComesCloser
<1>5. ASSUME NEW d \in Conns, c # d, Pump(d)
      PROVE  Patience(c)' = Patience(c) /\ Stops(c)' = Stops(c)
  BY <1>5, PumpsKeepApart DEF Patience, Stops
<1>6. CASE Environment \/ Serve \/ UNCHANGED serverVars
  <2>1. idle' = idle /\ parts' = parts
    BY <1>6, OthersSpawn
  <2>2. CASE place'[c] = place[c]
    BY <1>1, <2>1, <2>2 DEF Patience, Stops
  <2>3. CASE place'[c] = "away" \/ (place[c] \notin Served /\ place'[c] \notin Served)
    <3>1. Patience(c)' = 0 /\ Stops(c)' = 0
      BY <2>3 DEF Patience, Stops, Served
    <3>2. QED
      BY <1>1, <3>1
  <2>4. CASE c = guest /\ Spawn /\ place[c] \notin Served
    BY <2>4 DEF Serving
  <2>5. QED
    BY <1>6, <2>2, <2>3, <2>4, OthersSpawn
<1>7. QED
  BY <1>1, <1>4, <1>5, <1>6 DEF Next

LEMMA DoorsClose ==
  ASSUME TypeOK, [Next]_serverVars, ~running
  PROVE  /\ ~running'
         /\ Doors' <= Doors
         /\ Serve => Doors' < Doors
<1> USE DEF pumpVars, stopVars, doorVars
<1>1. CASE Serve
  <2>1. ~running'
    BY <1>1 DEF Serve, Accept, AcceptKnock, StopAccepting, SeeRunning, Reject, Admit,
                Spawn, SpawnFails, Done
  <2>2. /\ Doors \in Nat /\ Doors' \in Nat
    BY DEF Doors
  <2>3. Doors' < Doors
    BY <1>1 DEF Serve, Accept, AcceptKnock, StopAccepting, SeeRunning, Reject, Admit,
                Spawn, SpawnFails, Done, Doors
  <2>4. QED
    BY <2>1, <2>2, <2>3
<1>2. CASE Environment \/ (\E c \in Conns : Pump(c)) \/ UNCHANGED serverVars
  <2>1. door' = door /\ ~running'
    BY <1>2 DEF Environment, Publishes, Ages, Connects, Wedges, Shutdown, Knocks,
                KnockFails, Pump, LoopTop, Frame, Part, TimesOut, Drops, Release,
                serverVars
  <2>2. Doors' = Doors /\ Doors \in Nat
    BY <2>1 DEF Doors
  <2>3. QED
    BY <1>1, <2>1, <2>2
<1>3. QED
  BY <1>1, <1>2 DEF Next

(* A client that has stopped sending and draining holds its slot for at most   *)
(* two steps of its thread a second of the idle limit: no step of anyone's      *)
(* gives it more, and each of its thread's takes one (the idle limit, for any   *)
(* limit; the safety core of WedgedClientsAreReaped).                        *)
THEOREM PatienceAlwaysRunsOut == Spec => PatienceRunsOut
<1>1. Inv /\ [Next]_serverVars
        => \A c \in Conns :
             wedged[c] /\ Serving(c) => /\ Patience(c)' <= Patience(c)
                                        /\ Pump(c) => Patience(c)' < Patience(c)
  BY NextTypes, OnlySpawnsReset, PumpComesCloser DEF Inv
<1>2. QED
  BY <1>1, ServerInvariant, PTL DEF Spec, PatienceRunsOut

(* After a shutdown the flag stays down, every step of the accept thread brings *)
(* it closer to its return and every step of a connection's thread closer to its *)
(* end, whatever the clients send; only a connection admitted before the flag   *)
(* fell may still be spawned (the safety core of KnockEndsTheServer).         *)
THEOREM StoppedServersWindDown == Spec => WindsDown
<1>1. Inv /\ [Next]_serverVars
        => (~running =>
              /\ ~running'
              /\ Doors' <= Doors
              /\ Serve => Doors' < Doors
              /\ \A c \in Conns : /\ Stops(c)' <= Stops(c) \/ (c = guest /\ Spawn)
                                  /\ Pump(c) => Stops(c)' < Stops(c))
  BY NextTypes, OnlySpawnsReset, PumpComesCloser, DoorsClose DEF Inv
<1>2. QED
  BY <1>1, ServerInvariant, PTL DEF Spec, WindsDown

-----------------------------------------------------------------------------
(* Half of KnockEndsTheServer: the accept thread leaves its loop.  What fairness *)
(* says of it is written out, with the places where it may wait for ENABLED.  *)

AcceptRuns ==
  []<>((door = "accepting" /\ ~knock) \/ door \in {"joining", "done"})
    \/ []<><<Serve>>_serverVars

(* A knock that reaches the listener, or any client that comes before it, takes *)
(* the accept thread out of its loop, wherever in it the shutdown found it and  *)
(* whatever clients connect meanwhile.                                       *)
THEOREM KnocksEndAccepting ==
  Spec /\ AcceptRuns => (knock ~> door \in {"joining", "done"})
<1> DEFINE Stopped == Inv /\ ~running
           Out     == door \in {"joining", "done"}
<1>1. Inv /\ knock => ~running
  BY DEF Inv, Handed
<1>2. Inv => \/ door = "checked" \/ door = "spawning" \/ door = "accepting"
             \/ door = "accepted" \/ Out
  BY DEF Inv, TypeOK
<1>3. Stopped /\ [Next]_serverVars =>
        /\ ~running'
        /\ door = "checked"   => (door = "checked")'   \/ (door = "spawning")'
                                                       \/ (door = "accepting")'
        /\ door = "spawning"  => (door = "spawning")'  \/ (door = "accepting")'
        /\ door = "accepting" => (door = "accepting")' \/ (door = "accepted")'
        /\ door = "accepted"  => (door = "accepted")'  \/ Out'
        /\ knock => knock' \/ (door = "accepted")' \/ Out'
  <2> SUFFICES ASSUME Stopped, [Next]_serverVars
               PROVE  /\ ~running'
                      /\ door = "checked"   => door' \in {"checked", "spawning", "accepting"}
                      /\ door = "spawning"  => door' \in {"spawning", "accepting"}
                      /\ door = "accepting" => door' \in {"accepting", "accepted"}
                      /\ door = "accepted"  => door' = "accepted" \/ Out'
                      /\ knock => knock' \/ door' = "accepted" \/ Out'
    OBVIOUS
  <2> USE DEF doorVars, stopVars, pumpVars
  <2>1. CASE Serve
    BY <2>1 DEF Serve, Accept, AcceptKnock, StopAccepting, SeeRunning, Reject, Admit,
                Spawn, SpawnFails, Done
  <2>2. CASE Shutdown \/ KnockFails
    BY <2>2 DEF Shutdown, KnockFails
  <2>3. CASE Knocks
    <3>1. door' = door /\ ~running' /\ (door # "done" => knock')
      BY <2>3 DEF Knocks
    <3> QED
      BY <3>1, <1>2
  <2>4. CASE UNCHANGED <<running, knock, door>>
    BY <2>4
  <2> QED
    BY <2>1, <2>2, <2>3, <2>4 DEF Next, Environment, Publishes, Ages, Connects, Wedges, Pump,
       LoopTop, Frame, Part, TimesOut, Drops, Release, serverVars
<1>4. Stopped /\ [Next]_serverVars /\ <<Serve>>_serverVars =>
        /\ door = "checked"   => (door = "spawning")' \/ (door = "accepting")'
        /\ door = "spawning"  => (door = "accepting")'
        /\ door = "accepting" => (door = "accepted")'
        /\ door = "accepted"  => Out'
  BY DEF Serve, Accept, AcceptKnock, StopAccepting, SeeRunning, Reject, Admit, Spawn,
         SpawnFails, Done
<1> HIDE DEF Out
<1>5. ((door = "accepting" /\ ~knock) \/ door \in {"joining", "done"})
        <=> ((door = "accepting" /\ ~knock) \/ Out)
  BY DEF Out
<1>6. /\ door = "accepting" => ~(door = "checked") /\ ~(door = "spawning") /\ ~(door = "accepted")
      /\ Out => ~(door = "accepting")
  BY DEF Out
<1> QED
  BY <1>1, <1>2, <1>3, <1>4, <1>5, <1>6, ServerInvariant, PTL DEF Spec, AcceptRuns, Out
================================================================================

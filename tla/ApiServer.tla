------------------------------- MODULE ApiServer -------------------------------
(***************************************************************************)
(* The plant monitor's native-API server (esphome-server/server.rs) serving  *)
(* the soil probe's state.  One thread accepts connections and counts them    *)
(* against a cap; each connection has a thread that reads frames, answers     *)
(* them, and on a quiet second tells a subscriber what has changed.  A        *)
(* shutdown clears a flag and knocks at the listener.  Meanwhile the sampler  *)
(* publishes readings, or dies and lets the last one age.                    *)
(*                                                                         *)
(* What a client sends is chosen when the server reads it.  Which of the      *)
(* connections waiting in the listener is accepted first is left open.  A     *)
(* failed accept is retried and changes nothing; reaping the handles of       *)
(* finished threads changes nothing that is kept here.                       *)
(***************************************************************************)
EXTENDS SoilProbe, NativeApi, FiniteSets

CONSTANTS
  Conns,           \* the connections that may exist at once
  NoGuest,         \* the accept thread holds no client's connection
  MaxConnections,  \* max_connections (2 in the code)
  IdleLimit,       \* idle_timeout / read_timeout (90 in the code)
  MaxParts,        \* bound: into how many segments a frame may be split
  Raws             \* the counts the probe may give

ASSUME ServerAssumption ==
  /\ IsFiniteSet(Conns)
  /\ NoGuest \notin Conns
  /\ MaxConnections \in Nat
  /\ IdleLimit \in Nat \ {0}
  /\ MaxParts \in Nat
  /\ Raws \subseteq 0 .. MaxReading

VARIABLES
  reading,   \* SharedMoisture
  running,   \* the server's flag
  stopper,   \* where a ServerHandle.shutdown is
  knock,     \* its throwaway connection waits in the listener
  active,    \* the count of served connections
  door,      \* where the accept thread is
  guest,     \* the connection it has accepted
  place,     \* where each connection is
  conn,      \* the pump's Connection
  last,      \* last_broadcast
  idle,      \* the pump's idle time, in read timeouts
  parts,     \* the segments of an unfinished frame in the pump's buffer
  told,      \* the last state the client was sent on this connection
  wedged     \* the client has stopped sending and draining

doorVars == <<door, guest>>
stopVars == <<running, stopper, knock>>
pumpVars == <<conn, last, idle, parts, told, wedged>>
serverVars == <<reading, stopVars, active, doorVars, place, pumpVars>>

Served == {"top", "reading", "leaving"}
Pumped == {"top", "reading"}
Serving(c) == place[c] \in Served
\* No state message is a missing value of 100: nothing has been sent.
Untold == [missing |-> TRUE, state |-> 100]
Told   == SensorState

TypeOK ==
  /\ reading \in Reading
  /\ running \in BOOLEAN /\ knock \in BOOLEAN
  /\ stopper \in {"idle", "stored"}
  /\ active \in Nat
  /\ door \in {"accepting", "accepted", "checked", "spawning", "joining", "done"}
  /\ guest \in Conns \cup {NoGuest}
  /\ place \in [Conns -> {"away", "queued", "held"} \cup Served]
  /\ conn \in [Conns -> Connection]
  /\ last \in [Conns -> Told]
  /\ idle \in [Conns -> 0 .. IdleLimit - 1]
  /\ parts \in [Conns -> 0 .. MaxParts]
  /\ told \in [Conns -> Told]
  /\ wedged \in [Conns -> BOOLEAN]

Init ==
  /\ reading = NoReading
  /\ running = TRUE /\ stopper = "idle" /\ knock = FALSE
  /\ active = 0
  /\ door = "accepting" /\ guest = NoGuest
  /\ place = [c \in Conns |-> "away"]
  /\ conn = [c \in Conns |-> NewConnection]
  /\ last = [c \in Conns |-> Untold]
  /\ idle = [c \in Conns |-> 0]
  /\ parts = [c \in Conns |-> 0]
  /\ told = [c \in Conns |-> Untold]
  /\ wedged = [c \in Conns |-> FALSE]

-----------------------------------------------------------------------------
(* The probe, and the clients.                                              *)

Publishes(outcome) ==
  /\ reading' = Published(outcome)
  /\ UNCHANGED <<stopVars, active, doorVars, place, pumpVars>>

Ages ==
  /\ reading.taken
  /\ reading.age <= MaxAge
  /\ reading' = Aged(reading)
  /\ UNCHANGED <<stopVars, active, doorVars, place, pumpVars>>

Connects(c) ==
  /\ place[c] = "away"
  /\ door # "done"
  /\ place' = [place EXCEPT ![c] = "queued"]
  /\ UNCHANGED <<reading, stopVars, active, doorVars, pumpVars>>

Wedges(c) ==
  /\ place[c] \in Pumped
  /\ ~wedged[c]
  /\ wedged' = [wedged EXCEPT ![c] = TRUE]
  /\ UNCHANGED <<reading, stopVars, active, doorVars, place, conn, last, idle,
                 parts, told>>

-----------------------------------------------------------------------------
(* ServerHandle.shutdown: the flag, then the knock, which is best effort.     *)

Shutdown ==
  /\ stopper = "idle"
  /\ running' = FALSE
  /\ stopper' = "stored"
  /\ UNCHANGED <<reading, knock, active, doorVars, place, pumpVars>>

Knocks ==
  /\ stopper = "stored"
  /\ stopper' = "idle"
  /\ knock' = (door # "done")
  /\ UNCHANGED <<reading, running, active, doorVars, place, pumpVars>>

KnockFails ==
  /\ stopper = "stored"
  /\ stopper' = "idle"
  /\ UNCHANGED <<reading, running, knock, active, doorVars, place, pumpVars>>

-----------------------------------------------------------------------------
(* Server.serve, the accept thread.                                         *)

Accept(c) ==
  /\ door = "accepting"
  /\ place[c] = "queued"
  /\ door' = "accepted" /\ guest' = c
  /\ place' = [place EXCEPT ![c] = "held"]
  /\ UNCHANGED <<reading, stopVars, active, pumpVars>>

AcceptKnock ==
  /\ door = "accepting"
  /\ knock
  /\ knock' = FALSE
  /\ door' = "accepted"
  /\ UNCHANGED <<reading, running, stopper, active, guest, place, pumpVars>>

\* The connection the accept thread holds is closed.
GuestLeaves ==
  /\ guest' = NoGuest
  /\ place' = [c \in Conns |-> IF c = guest THEN "away" ELSE place[c]]

StopAccepting ==
  /\ door = "accepted"
  /\ ~running
  /\ door' = "joining"
  /\ GuestLeaves
  /\ UNCHANGED <<reading, stopVars, active, pumpVars>>

SeeRunning ==
  /\ door = "accepted"
  /\ running
  /\ door' = "checked"
  /\ UNCHANGED <<reading, stopVars, active, guest, place, pumpVars>>

Reject ==
  /\ door = "checked"
  /\ active >= MaxConnections
  /\ door' = "accepting"
  /\ GuestLeaves
  /\ UNCHANGED <<reading, stopVars, active, pumpVars>>

Admit ==
  /\ door = "checked"
  /\ active < MaxConnections
  /\ active' = active + 1
  /\ door' = "spawning"
  /\ UNCHANGED <<reading, stopVars, guest, place, pumpVars>>

\* The connection's thread begins in pump, with everything new.
Spawn ==
  /\ door = "spawning"
  /\ door' = "accepting" /\ guest' = NoGuest
  /\ place' = [c \in Conns |-> IF c = guest THEN "top" ELSE place[c]]
  /\ UNCHANGED <<reading, stopVars, active, pumpVars>>

\* Mutant: a spawn that fails keeps its slot.
SpawnFailsKeepsSlot ==
  /\ door = "spawning"
  /\ door' = "accepting"
  /\ GuestLeaves
  /\ UNCHANGED <<reading, stopVars, active, pumpVars>>

SpawnFails ==
  /\ door = "spawning"
  /\ active' = active - 1
  /\ door' = "accepting"
  /\ GuestLeaves
  /\ UNCHANGED <<reading, stopVars, pumpVars>>

\* Mutant: serve returns without joining the threads.
ReturnsUnjoined ==
  /\ door = "joining"
  /\ door' = "done"
  /\ knock' = FALSE
  /\ place' = [c \in Conns |-> IF Serving(c) THEN place[c] ELSE "away"]
  /\ UNCHANGED <<reading, running, stopper, active, guest, pumpVars>>

\* Every thread has been joined; the listener closes on whoever still waits.
Done ==
  /\ door = "joining"
  /\ \A c \in Conns : ~Serving(c)
  /\ door' = "done"
  /\ knock' = FALSE
  /\ place' = [c \in Conns |-> "away"]
  /\ UNCHANGED <<reading, running, stopper, active, guest, pumpVars>>

-----------------------------------------------------------------------------
(* pump, one thread per connection.                                         *)

\* Mutant: the pump does not look at the flag.
LoopTopBlind(c) ==
  /\ place[c] = "top"
  /\ place' = [place EXCEPT ![c] = "reading"]
  /\ UNCHANGED <<reading, stopVars, active, doorVars, pumpVars>>

LoopTop(c) ==
  /\ place[c] = "top"
  /\ place' = [place EXCEPT ![c] = IF running THEN "reading" ELSE "leaving"]
  /\ UNCHANGED <<reading, stopVars, active, doorVars, pumpVars>>

Heard(c, replies) ==
  IF StateReply \in replies THEN StateMessage(reading) ELSE told[c]

\* A frame is complete, decoded, answered, and the answer written.
Frame(c, inbound) ==
  /\ place[c] = "reading"
  /\ ~wedged[c]
  /\ idle' = [idle EXCEPT ![c] = 0]
  /\ parts' = [parts EXCEPT ![c] = 0]
  /\ conn' = [conn EXCEPT ![c] = Moved(conn[c], inbound)]
  /\ told' = [told EXCEPT ![c] = Heard(c, Replies(conn[c], inbound))]
  /\ last' = [last EXCEPT ![c] = IF inbound = "SubscribeStates"
                                 THEN StateMessage(reading) ELSE @]
  /\ place' = [place EXCEPT ![c] = IF Moved(conn[c], inbound).phase = "Closed"
                                   THEN "leaving" ELSE "top"]
  /\ UNCHANGED <<reading, stopVars, active, doorVars, wedged>>

\* A segment that completes no frame: read_frame reads on.
Part(c) ==
  /\ place[c] = "reading"
  /\ ~wedged[c]
  /\ parts[c] < MaxParts
  /\ parts' = [parts EXCEPT ![c] = @ + 1]
  /\ UNCHANGED <<reading, stopVars, active, doorVars, place, conn, last, idle,
                 told, wedged>>

\* Mutant: a state that could be sent counts as activity.
TimesOutAlive(c) ==
  /\ place[c] = "reading"
  /\ UNCHANGED <<reading, stopVars, active, doorVars, conn, parts, wedged>>
  /\ \/ /\ idle[c] + 1 >= IdleLimit
        /\ place' = [place EXCEPT ![c] = "leaving"]
        /\ UNCHANGED <<idle, told, last>>
     \/ /\ idle[c] + 1 < IdleLimit
        /\ place' = [place EXCEPT ![c] = "top"]
        /\ IF conn[c].subscribed /\ StateMessage(reading) # last[c]
           THEN /\ told' = [told EXCEPT ![c] = Heard(c, BroadcastStates(conn[c]))]
                /\ last' = [last EXCEPT ![c] = StateMessage(reading)]
                /\ idle' = [idle EXCEPT ![c] = 0]
           ELSE /\ idle' = [idle EXCEPT ![c] = @ + 1]
                /\ UNCHANGED <<told, last>>

\* Mutant: only a value is a change.
TimesOutOnValues(c) ==
  /\ place[c] = "reading"
  /\ UNCHANGED <<reading, stopVars, active, doorVars, conn, parts, wedged>>
  /\ \/ /\ idle[c] + 1 >= IdleLimit
        /\ place' = [place EXCEPT ![c] = "leaving"]
        /\ UNCHANGED <<idle, told, last>>
     \/ /\ idle[c] + 1 < IdleLimit
        /\ idle' = [idle EXCEPT ![c] = @ + 1]
        /\ place' = [place EXCEPT ![c] = "top"]
        /\ IF conn[c].subscribed /\ ~StateMessage(reading).missing
              /\ StateMessage(reading) # last[c]
           THEN /\ told' = [told EXCEPT ![c] = Heard(c, BroadcastStates(conn[c]))]
                /\ last' = [last EXCEPT ![c] = StateMessage(reading)]
           ELSE UNCHANGED <<told, last>>

\* The read timed out: the idle limit, then broadcast_changes.
TimesOut(c) ==
  /\ place[c] = "reading"
  /\ UNCHANGED <<reading, stopVars, active, doorVars, conn, parts, wedged>>
  /\ \/ /\ idle[c] + 1 >= IdleLimit
        /\ place' = [place EXCEPT ![c] = "leaving"]
        /\ UNCHANGED <<idle, told, last>>
     \/ /\ idle[c] + 1 < IdleLimit
        /\ idle' = [idle EXCEPT ![c] = @ + 1]
        /\ place' = [place EXCEPT ![c] = "top"]
        /\ IF conn[c].subscribed /\ StateMessage(reading) # last[c]
           THEN /\ told' = [told EXCEPT ![c] = Heard(c, BroadcastStates(conn[c]))]
                /\ last' = [last EXCEPT ![c] = StateMessage(reading)]
           ELSE UNCHANGED <<told, last>>

\* The client hung up, a frame was none, or a write failed or timed out.
Drops(c) ==
  /\ place[c] = "reading"
  /\ wedged[c] => conn[c].subscribed /\ StateMessage(reading) # last[c]
  /\ place' = [place EXCEPT ![c] = "leaving"]
  /\ UNCHANGED <<reading, stopVars, active, doorVars, pumpVars>>

\* The thread ends: its socket is closed, then SlotGuard gives the slot back.
Release(c) ==
  /\ place[c] = "leaving"
  /\ place' = [place EXCEPT ![c] = "away"]
  /\ active' = active - 1
  /\ conn' = [conn EXCEPT ![c] = NewConnection]
  /\ last' = [last EXCEPT ![c] = Untold]
  /\ idle' = [idle EXCEPT ![c] = 0]
  /\ parts' = [parts EXCEPT ![c] = 0]
  /\ told' = [told EXCEPT ![c] = Untold]
  /\ wedged' = [wedged EXCEPT ![c] = FALSE]
  /\ UNCHANGED <<reading, stopVars, doorVars>>

-----------------------------------------------------------------------------
Environment ==
  \/ \E raw \in Raws : Publishes(Sampled(raw))
  \/ Publishes(Unread)
  \/ Ages
  \/ Shutdown \/ Knocks \/ KnockFails
  \/ \E c \in Conns : Connects(c) \/ Wedges(c)

Serve ==
  \/ \E c \in Conns : Accept(c)
  \/ AcceptKnock
  \/ StopAccepting \/ SeeRunning \/ Reject \/ Admit \/ Spawn \/ SpawnFails
  \/ Done

Pump(c) ==
  \/ LoopTop(c)
  \/ \E inbound \in Inbound : Frame(c, inbound)
  \/ Part(c) \/ TimesOut(c) \/ Drops(c)
  \/ Release(c)

Next == Environment \/ Serve \/ \E c \in Conns : Pump(c)
Spec == Init /\ [][Next]_serverVars

\* The accept thread and the connections' threads run: a read ends, if not in a
\* frame then in its timeout.  Clients, sampler and shutdown owe nothing.
FairSpec == Spec /\ WF_serverVars(Serve) /\ \A c \in Conns : WF_serverVars(Pump(c))

-----------------------------------------------------------------------------
(* Every connection being served, and the one about to be, holds one slot,    *)
(* whatever ended the others, and however accepts race with threads that end, *)
(* no more than max_connections are served at once (fetch_add against         *)
(* SlotGuard and the failed spawn).                                          *)
SlotsAreCounted ==
  /\ active = Cardinality({c \in Conns : Serving(c)})
              + (IF door = "spawning" THEN 1 ELSE 0)
  /\ active <= MaxConnections

(* What the pump believes a subscriber knows is what that subscriber was      *)
(* sent: a subscription that came before Hello, and was not answered, is not  *)
(* taken for one (last_broadcast against connection.rs's handle).            *)
NothingIsAssumedSent ==
  \A c \in Conns : conn[c].subscribed => told[c] = last[c]

(* When serve returns, no thread serves, no slot is taken and no client is    *)
(* left waiting (serve joins what it spawned).                               *)
DrainedIsDrained ==
  door = "done" => /\ \A c \in Conns : place[c] = "away"
                   /\ active = 0

(* A shutdown whose knock reached the listener makes serve return, whatever   *)
(* the clients do.                                                          *)
KnockEndsTheServer == knock ~> door = "done"

(* A client that stops sending and draining, in the middle of a frame or not, *)
(* loses its slot (the idle limit).                                          *)
WedgedClientsAreReaped ==
  \A c \in Conns : wedged[c] /\ Serving(c) ~> ~Serving(c)

Behind(c) ==
  place[c] \in Pumped /\ conn[c].subscribed /\ told[c] # StateMessage(reading)

(* A subscriber that is quiet for a second again and again learns what the    *)
(* probe says, and that it says nothing any more (broadcast_changes).         *)
SubscribersCatchUp ==
  \A c \in Conns :
    []<><<TimesOut(c)>>_serverVars => (Behind(c) ~> ~Behind(c))
================================================================================

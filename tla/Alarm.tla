--------------------------------- MODULE Alarm ---------------------------------
(***************************************************************************)
(* The health alarm of platform-health (alarm.rs) with its memory of what    *)
(* the operator has acknowledged (ack.rs): given one verdict after another,  *)
(* when to chirp.  A verdict is the key of the fault it names (fault.rs), or *)
(* Healthy; `Health` computes it from the evidence.                          *)
(*                                                                         *)
(* A unit of time is the period at which the board is assessed.  What `step` *)
(* returns to be sounded is read off the state: a chirp always leaves the    *)
(* alarm a whole cadence from the next one, and nothing else does.           *)
(***************************************************************************)
EXTENDS Integers, Sequences

CONSTANTS
  Registered,   \* how many components are registered
  Board,        \* stands for the component of a fault that is the board's
  Healthy,      \* the verdict when nothing is wrong
  AckCapacity,  \* ACK_CAPACITY (8 in the code)
  Cadence       \* cadence_ms; a cadence of zero would chirp at every step

Components == 1 .. Registered

\* FaultKey: the kind, and the component for the kinds that have one.
FaultKey ==
  [kind : {"Crashed", "Starved"}, component : {Board}]
    \cup [kind : {"Reported", "Stalled"}, component : Components]

ASSUME AlarmAssumption ==
  /\ Registered \in Nat
  /\ AckCapacity \in Nat \ {0}
  /\ Cadence \in Nat \ {0}
  /\ Healthy \notin FaultKey

VARIABLES
  state,    \* AlarmState
  acked,    \* AckSet, the oldest acknowledgement first
  silence   \* history: n of the fault silenced n-th last since the board was
            \* healthy, up to AckCapacity, and 0 of the others

alarmVars == <<state, acked, silence>>

Silent             == [mode |-> "Silent", key |-> Healthy, due |-> 0]
Sounding(key, due) == [mode |-> "Sounding", key |-> key, due |-> due]
Acknowledged(key)  == [mode |-> "Acknowledged", key |-> key, due |-> 0]

AlarmState ==
  {Silent} \cup {Acknowledged(key) : key \in FaultKey}
    \cup {Sounding(key, due) : key \in FaultKey, due \in 0 .. Cadence}

Unsilenced == [key \in FaultKey |-> 0]

AlarmInit ==
  /\ state = Silent
  /\ acked = <<>>
  /\ silence = Unsilenced

IsAcked(key) == \E i \in DOMAIN acked : acked[i] = key

\* Mutant: the newest entry makes room, instead of the oldest.
InsertedLifo(key) ==
  IF IsAcked(key) THEN acked
  ELSE Append(IF Len(acked) = AckCapacity THEN SubSeq(acked, 1, AckCapacity - 1) ELSE acked, key)

\* AckSet.insert: the oldest entry makes room.
Inserted(key) ==
  IF IsAcked(key) THEN acked
  ELSE Append(IF Len(acked) = AckCapacity THEN Tail(acked) ELSE acked, key)

\* Mutant: recovery only ends the noise.
RecoversDeaf ==
  /\ state' = Silent
  /\ silence' = Unsilenced
  /\ UNCHANGED acked

\* Alarm.recovered: recovery forgets every acknowledgement.
Recovers ==
  /\ state' = Silent
  /\ acked' = <<>>
  /\ silence' = Unsilenced

BetweenChirps(key) == state.mode = "Sounding" /\ state.key = key /\ state.due > 0

\* Alarm.step.
Evaluates(verdict) ==
  \/ verdict = Healthy /\ Recovers
  \/ /\ verdict \in FaultKey
     /\ \/ IsAcked(verdict) /\ state' = Acknowledged(verdict)
        \/ ~IsAcked(verdict) /\ BetweenChirps(verdict) /\ UNCHANGED state
        \/ ~IsAcked(verdict) /\ ~BetweenChirps(verdict) /\ state' = Sounding(verdict, Cadence)
     /\ UNCHANGED <<acked, silence>>

SilencedNow(key) ==
  IF silence[key] # 0 THEN silence
  ELSE [k \in FaultKey |->
          IF k = key THEN 1
          ELSE IF silence[k] \in {0, AckCapacity} THEN 0 ELSE silence[k] + 1]

\* Alarm.acknowledge: from Silent there is nothing to silence.
Acknowledges ==
  /\ state.mode # "Silent"
  /\ state' = Acknowledged(state.key)
  /\ acked' = Inserted(state.key)
  /\ silence' = SilencedNow(state.key)

Waits ==
  /\ state' = [state EXCEPT !.due = IF @ = 0 THEN 0 ELSE @ - 1]
  /\ UNCHANGED <<acked, silence>>

AlarmNext ==
  \/ \E verdict \in FaultKey \cup {Healthy} : Evaluates(verdict)
  \/ Acknowledges
  \/ Waits

AlarmSpec == AlarmInit /\ [][AlarmNext]_alarmVars

-----------------------------------------------------------------------------

AlarmTypeOK ==
  /\ state \in AlarmState
  /\ acked \in Seq(FaultKey) /\ Len(acked) <= AckCapacity
  /\ silence \in [FaultKey -> 0 .. AckCapacity]

Chirping == state.mode = "Sounding" /\ state.due = Cadence

\* What the operator has silenced stays silent until the board is healthy, however
\* often other faults outrank it, take its place and go: only the oldest of more
\* than AckCapacity silences makes room (ack.rs, alarm.rs R17).
SilencedStaysSilent ==
  [][Chirping' /\ state' # state => silence[state'.key] = 0]_alarmVars
================================================================================

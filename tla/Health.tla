--------------------------------- MODULE Health ---------------------------------
(***************************************************************************)
(* The board's health (platform-health): what the registered components,     *)
(* the boot and the heap give as evidence, the one fault `assess` names       *)
(* (verdict.rs), and the alarm that sounds it.                               *)
(*                                                                         *)
(* The evidence is collected by the caller, and here it changes as it likes. *)
(* Of an age beyond every deadline only its place among the others is kept.  *)
(***************************************************************************)
EXTENDS Alarm, FiniteSets

CONSTANTS
  Deadline,    \* deadline_ms of each component
  Readings,    \* what the free heap may read
  HeapFloor    \* heap_floor_bytes

ASSUME HealthAssumption ==
  /\ Deadline \in [Components -> Nat]
  /\ Readings \subseteq Nat
  /\ HeapFloor \in Nat

VARIABLES
  boot,      \* BootVerdict
  heap,      \* the last heap reading, or Unread
  observed   \* what each component last did, and how long ago

evidence   == <<boot, heap, observed>>
healthVars == <<evidence, alarmVars>>

Unread == -1

Init ==
  /\ boot \in {"Clean", "Crashed"}
  /\ heap = Unread
  /\ observed = [c \in Components |-> [did |-> "nothing", age |-> 0]]
  /\ AlarmInit

-----------------------------------------------------------------------------
(* assess.                                                                 *)

Fault(kind, component, standing) ==
  [key |-> [kind |-> kind, component |-> component], standing |-> standing]

\* component_fault: one that gave up is not also examined for silence, and one
\* never heard from is stalled whatever its deadline.
ComponentFault(c) ==
  LET entry == observed[c]
  IN CASE entry.did = "gave_up" -> Fault("Reported", c, entry.age)
       [] entry.did = "nothing" \/ (entry.did = "beat" /\ entry.age > Deadline[c]) ->
            Fault("Stalled", c, entry.age)
       [] OTHER -> Healthy

\* The faults in the order they are folded; Healthy where there is none.  The
\* board's two are each the only one of its kind: how long they have stood never
\* matters.
Candidate(i) ==
  CASE i = 1 /\ boot = "Crashed" -> Fault("Crashed", Board, 0)
    [] i = 2 /\ heap # Unread /\ heap < HeapFloor -> Fault("Starved", Board, 0)
    [] i > 2 -> ComponentFault(i - 2)
    [] OTHER -> Healthy

Severity == [Stalled |-> 1, Reported |-> 2, Starved |-> 3, Crashed |-> 4]

Outranks(candidate, incumbent) ==
  LET rank(fault) == Severity[fault.key.kind]
  IN \/ rank(candidate) > rank(incumbent)
     \/ rank(candidate) = rank(incumbent) /\ candidate.standing > incumbent.standing

\* Mutant: a later equal takes over.
WorseOrEqual(best, candidate) ==
  IF candidate = Healthy \/ (best # Healthy /\ Outranks(best, candidate))
  THEN best ELSE candidate

Worse(best, candidate) ==
  IF candidate = Healthy \/ (best # Healthy /\ ~Outranks(candidate, best))
  THEN best ELSE candidate

Last == Registered + 2

Assessed ==
  LET worst[i \in 0 .. Last] == IF i = 0 THEN Healthy ELSE Worse(worst[i - 1], Candidate(i))
  IN worst[Last]

Verdict == LET fault == Assessed IN IF fault = Healthy THEN Healthy ELSE fault.key

-----------------------------------------------------------------------------
(* The evidence.                                                           *)

\* A component that is heard from after it gave up has started afresh.
Does(c, what) ==
  /\ observed' = [observed EXCEPT ![c] = [did |-> what, age |-> 0]]
  /\ UNCHANGED <<boot, heap, alarmVars>>

Beats(c)   == Does(c, "beat")
GivesUp(c) == Does(c, "gave_up")

ReadsHeap(free) ==
  /\ heap' = free
  /\ UNCHANGED <<boot, observed, alarmVars>>

Late == CHOOSE n \in {Deadline[c] : c \in Components} \cup {0} :
          \A c \in Components : Deadline[c] <= n

\* Everybody a unit older; past the last deadline, by rank.
Older(ages, age) ==
  IF age < Late THEN age + 1
  ELSE Late + 1 + Cardinality({other \in ages : Late <= other /\ other < age})

TimePasses ==
  /\ LET ages == {observed[c].age : c \in Components}
     IN observed' = [c \in Components |-> [observed[c] EXCEPT !.age = Older(ages, @)]]
  /\ Waits
  /\ UNCHANGED <<boot, heap>>

Assess == Evaluates(Verdict) /\ UNCHANGED evidence
Press  == Acknowledges /\ UNCHANGED evidence

Next ==
  \/ \E c \in Components : Beats(c) \/ GivesUp(c)
  \/ \E free \in Readings : ReadsHeap(free)
  \/ TimePasses
  \/ Assess
  \/ Press

Spec == Init /\ [][Next]_healthVars

\* The caller goes on assessing, and its clock runs.
FairSpec == Spec /\ WF_healthVars(Assess) /\ WF_healthVars(TimePasses)

-----------------------------------------------------------------------------

\* `assess` names the worst fault there is: none outranks it, and of its equals
\* it is the first in the evidence (verdict.rs, the ranking and its tie-breaks).
NamesTheWorst ==
  LET fault == Assessed
      found == {i \in 1 .. Last : Candidate(i) # Healthy}
  IN IF found = {} THEN fault = Healthy
     ELSE \E i \in found :
            /\ fault = Candidate(i)
            /\ \A j \in found : /\ ~Outranks(Candidate(j), fault)
                                /\ j < i => Outranks(fault, Candidate(j))

\* As long as the worst fault is one that nobody has silenced since the board was
\* last healthy, it is heard again and again: no press before a recovery, on
\* another fault or long since pushed out mutes it (alarm.rs R16, R17b).
UnsilencedIsHeard ==
  <>[](LET verdict == Verdict IN verdict # Healthy /\ silence[verdict] = 0) => []<>Chirping
================================================================================

------------------------------- MODULE SoilProbe -------------------------------
(***************************************************************************)
(* The soil probe's reading, from the raw count to what Home Assistant is    *)
(* told: the ADC's count is classified (firmware-core/saturation.rs, the      *)
(* earth unit's adapter), calibrated (plant-core/moisture.rs), stamped into   *)
(* the shared slot (plant-shell) and judged by its age whenever somebody      *)
(* looks (plant-core/freshness.rs).                                          *)
(*                                                                         *)
(* A unit of age is one sampling period.                                     *)
(***************************************************************************)
EXTENDS Integers

CONSTANTS
  DryRaw, WetRaw,  \* the calibration: the counts of dry and of saturated soil
  MaxReading,      \* the ADC's full scale (4095 in the code)
  MaxAge           \* staleness_periods (3 in the code)

ASSUME SoilAssumption ==
  /\ MaxReading \in Nat
  /\ DryRaw \in 0 .. MaxReading /\ WetRaw \in 0 .. MaxReading
  /\ MaxAge \in Nat

Magnitude(n) == IF n < 0 THEN -n ELSE n

\* Rust's integer division rounds towards zero.
Quotient(n, d) ==
  LET q == Magnitude(n) \div Magnitude(d)
  IN  IF (n < 0) = (d < 0) THEN q ELSE -q

Clamped(p) == IF p < 0 THEN 0 ELSE IF p > 100 THEN 100 ELSE p

ToPercent(raw) ==
  IF WetRaw = DryRaw THEN 0
  ELSE Clamped(Quotient((raw - DryRaw) * 100, WetRaw - DryRaw))

ProbeFaults == {"OverRange", "UnderRange", "Unreadable"}
Outcome     == [fault : ProbeFaults \cup {"none"}, percent : 0 .. 100]

Measured(percent) == [fault |-> "none", percent |-> percent]
Faulty(fault)     == [fault |-> fault, percent |-> 0]

\* gated_read, unsaturated, step over the one mean the adapter returns.  A rail
\* that does not switch and a conversion that fails are both Unreadable.
Unread == Faulty("Unreadable")
Sampled(raw) ==
  IF raw = 0 THEN Faulty("UnderRange")
  ELSE IF raw >= MaxReading THEN Faulty("OverRange")
  ELSE Measured(ToPercent(raw))

\* SharedMoisture's slot.  Ages past MaxAge are all the same to a reader.
Reading   == [taken : BOOLEAN, outcome : Outcome, age : 0 .. MaxAge + 1]
NoReading == [taken |-> FALSE, outcome |-> Unread, age |-> 0]
Published(outcome) == [taken |-> TRUE, outcome |-> outcome, age |-> 0]
Aged(reading) ==
  IF reading.age > MaxAge THEN reading ELSE [reading EXCEPT !.age = @ + 1]

Observe(reading) ==
  IF ~reading.taken THEN "NeverSampled"
  ELSE IF reading.age > MaxAge THEN "Stale"
  ELSE IF reading.outcome.fault # "none" THEN "Faulted"
  ELSE "Fresh"

\* SensorEntity.state_message_for: a sensor with no fresh value is missing.
SensorState == [missing : BOOLEAN, state : 0 .. 100]
Missing     == [missing |-> TRUE, state |-> 0]
StateMessage(reading) ==
  IF Observe(reading) = "Fresh"
  THEN [missing |-> FALSE, state |-> reading.outcome.percent]
  ELSE Missing
================================================================================

------------------------------ MODULE Bandwidth ------------------------------
(***************************************************************************)
(* The question tools/bench/bench_bandwidth.c and bench_regulator.c put    *)
(* together: how many vessels does a link hold once a regulator stands in  *)
(* front of each sensor.  The budget is drawn up from a formula, the rate  *)
(* the regulators are supposed to publish at; what travels is what the     *)
(* regulators, of Regulator, really let through.                           *)
(*                                                                         *)
(* The vessels are alike, so one regulator stands for all of them.         *)
(***************************************************************************)
EXTENDS Regulator, LinkBudget

CONSTANTS
  Link,           \* links: capacity in bits per second, overhead in percent
  Budget,         \* shares of a link, in percent
  Payload,        \* bytes per packet of the regulated sensor
  Vessels,        \* vessel counts a profile may carry
  Others          \* the unregulated streams a profile may carry besides

Stream == [payload : Nat, hz : Nat, vessels : Nat]

ASSUME BandwidthAssumption ==
  /\ Link \subseteq [capacity : Nat, overhead : Nat]
  /\ Budget \subseteq Nat /\ Payload \subseteq Nat /\ Vessels \subseteq Nat
  /\ Others \subseteq Seq(Stream)

(* The quotient's last digit does not add up to a publication within a     *)
(* run: a double has 53 digits, so at 100 Hz it does after 2^46 samples.   *)
ASSUME PrecisionAssumption == \A hz \in Rate : MaxSamples * hz < One

VARIABLES link, budget, profile

bandwidthVars == <<vars, link, budget, profile>>

(* The rate a regulated stream is entered in the budget with.              *)
PublishedHz == IF sensorHz <= publishHz THEN sensorHz ELSE publishHz

BandwidthInit ==
  /\ Init
  /\ link \in Link /\ budget \in Budget
  /\ \E bytes \in Payload, v \in Vessels, others \in Others :
       profile = <<[payload |-> bytes, hz |-> PublishedHz, vessels |-> v]>> \o others

BandwidthNext == Next /\ UNCHANGED <<link, budget, profile>>

BandwidthSpec == BandwidthInit /\ [][BandwidthNext]_bandwidthVars

-----------------------------------------------------------------------------

Fleet == MaxVessels(link, profile, budget)

(* fdt_link_max_vessels and fdt_link_utilization agree: the fleet it       *)
(* answers is within the budget and one vessel more is not, whatever       *)
(* vessel count the profile carried.                                       *)
LargestFleet ==
  budget > 0 /\ link.capacity > 0 =>
    /\ OccupiesAtMost(link, ForVessels(profile, Fleet), budget)
    /\ Fleet < UintMax => ~OccupiesAtMost(link, ForVessels(profile, Fleet + 1), budget)

(* The bits one vessel has sent, times the sensor's rate: sampled          *)
(* readings take sampled / sensorHz seconds.                               *)
Sent ==
  profile[1].payload * 8 * published * sensorHz
    + sampled * SumBps(ForVessels(Tail(profile), 1))

(* The budget is kept by the fleet as it runs: however many samples were   *)
(* offered so far, the vessels it allows have never sent more than the     *)
(* share of the link they were given.                                      *)
FleetKeepsItsBudget ==
  Fleet < UintMax =>
    Fleet * Sent * (100 + link.overhead) <= link.capacity * budget * sampled
=============================================================================

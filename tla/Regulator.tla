------------------------------ MODULE Regulator ------------------------------
(***************************************************************************)
(* The bandwidth regulator (src/regulator.c), which lets through as many   *)
(* of a sensor's samples as the twin's rate needs.                         *)
(*                                                                         *)
(* The accumulator is a double.  Here it is a fixed-point number: One      *)
(* stands for 1.0, and the division of fdt_reg_init rounds either way.     *)
(* The double's further rounding at each addition is left out.  lastGap    *)
(* and gaps are history: the samples withheld since the last one let       *)
(* through, and the lengths such gaps have had between two let through.    *)
(*                                                                         *)
(* An operator named for a slip (RemainderForfeited, ...) is the one after *)
(* it with that slip made; nothing uses it.                                *)
(***************************************************************************)
EXTENDS Integers

CONSTANTS
  One,            \* 1.0 in fixed point
  Rate,           \* the rates, in hertz, sensors and publication may have
  MaxSamples      \* bound: samples offered

ASSUME RegulatorAssumption ==
  /\ One \in Nat \ {0}
  /\ Rate \subseteq Nat \ {0}
  /\ MaxSamples \in Nat

VARIABLES
  sensorHz, publishHz, step,
  acc, sampled, published, dropped,
  lastGap, gaps

rates == <<sensorHz, publishHz, step>>
vars == <<rates, acc, sampled, published, dropped, lastGap, gaps>>

(* publish_hz / sensor_hz, to the last digit.                              *)
Quotient(p, s) == {(p * One) \div s, (p * One + s - 1) \div s}

(* fdt_reg_init.                                                           *)
Init ==
  /\ sensorHz \in Rate /\ publishHz \in Rate
  /\ step \in Quotient(publishHz, sensorHz)
  /\ acc = 0
  /\ sampled = 0 /\ published = 0 /\ dropped = 0
  /\ lastGap = 0 /\ gaps = {}

(* Whether a credit pays for a publication.                                *)
AdmitsFirstOfEachSecond(credit) == sampled % sensorHz < publishHz
Admits(credit) == credit >= One

(* What is left of it then.  A whole one more, which a sensor slower than  *)
(* the twin leaves, is not saved up.                                       *)
RemainderForfeited(credit) == 0
Remainder(credit) == IF credit - One >= One THEN 0 ELSE credit - One

(* fdt_reg_admit, answering 1 and answering 0.                             *)
Publish ==
  /\ Admits(acc + step)
  /\ acc' = Remainder(acc + step)
  /\ sampled' = sampled + 1
  /\ published' = published + 1
  /\ gaps' = IF published = 0 THEN gaps ELSE gaps \cup {lastGap}
  /\ lastGap' = 0
  /\ UNCHANGED <<rates, dropped>>

Withhold ==
  /\ ~Admits(acc + step)
  /\ acc' = acc + step
  /\ sampled' = sampled + 1
  /\ dropped' = dropped + 1
  /\ lastGap' = lastGap + 1
  /\ UNCHANGED <<rates, published, gaps>>

Next == sampled < MaxSamples /\ (Publish \/ Withhold)

Spec == Init /\ [][Next]_vars

-----------------------------------------------------------------------------

TypeOK ==
  /\ sensorHz \in Nat \ {0} /\ publishHz \in Nat \ {0} /\ step \in Nat
  /\ acc \in 0 .. One - 1
  /\ sampled \in Nat /\ published \in Nat /\ dropped \in Nat
  /\ lastGap \in Nat /\ gaps \subseteq Nat

(* Decimating: the sensor is faster than the twin.                         *)
Decimating == step < One

(* No credit is lost and none is made up: every sample's credit either     *)
(* went into a publication or is still there.  It is what keeps the        *)
(* published rate from drifting however long the regulator runs.           *)
CreditBalances ==
  /\ sampled = published + dropped
  /\ Decimating => published * One + acc = sampled * step

(* regulator.h: "A sensor slower than the DT is never decimated".          *)
SlowSensorUntouched == step >= One => published = sampled

(* The samples let through are what the two rates say, to within one and   *)
(* the rounding of the quotient: a sensor that is faster is held to the    *)
(* twin's rate and not below it.                                           *)
RateKept ==
  Decimating =>
    LET excess == (published * sensorHz - sampled * publishHz) * One IN
    /\ excess <= sampled * sensorHz
    /\ -excess < sensorHz * One + sampled * sensorHz

(* "Decimation is regular, not bursty" (tests/test_regulator.c): any two   *)
(* gaps between publications differ by at most one sample.                 *)
EvenSpacing == \A a, b \in gaps : a - b <= 1

(* regulator.h: fdt_reg_saved_ratio is "dropped / sampled, in [0, 1)".     *)
SavedRatioBelowOne == sampled > 0 => dropped < sampled
=============================================================================

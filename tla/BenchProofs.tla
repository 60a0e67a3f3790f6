------------------------------ MODULE BenchProofs ------------------------------
(***************************************************************************)
(* What the benches and the parts of the library they measure keep: the    *)
(* regulator, for every pair of rates and every precision of its           *)
(* accumulator; the files of the campaign, for any order of the benches    *)
(* and any number of campaigns; the CPU bench, for any controllers and     *)
(* whatever they do; the fleet a link holds, for any link and profile; and *)
(* the charts, for any figures an axis has steps for: their bars do not    *)
(* overlap and nothing is drawn outside their frames.                      *)
(***************************************************************************)
EXTENDS Bandwidth, Campaign, SequenceTheorems, FiniteSetTheorems, WellFoundedInduction,
        TLAPS

-----------------------------------------------------------------------------
(* The regulator.                                                          *)

QuotientOK == step \in Quotient(publishHz, sensorHz)

RegInv == TypeOK /\ CreditBalances /\ SlowSensorUntouched /\ QuotientOK

(* A rounded quotient is a natural number less than one unit off.          *)
LEMMA QuotientBounds ==
  ASSUME NEW p \in Nat \ {0}, NEW s \in Nat \ {0}, NEW x \in Quotient(p, s)
  PROVE  /\ x \in Nat
         /\ x * s - p * One < s
         /\ p * One - x * s < s
<1>1. One \in Nat \ {0} BY RegulatorAssumption
<1>2. p * One \in Nat BY <1>1
<1>3. CASE x = (p * One) \div s
  <2>1. \A a \in Nat : /\ a \div s \in Nat
                       /\ (a \div s) * s <= a
                       /\ a - (a \div s) * s < s
    OBVIOUS
  <2> QED BY <1>2, <1>3, <2>1
<1>4. CASE x = (p * One + s - 1) \div s
  <2>1. \A a \in Nat : /\ (a + s - 1) \div s \in Nat
                       /\ ((a + s - 1) \div s) * s - a < s
                       /\ a <= ((a + s - 1) \div s) * s
    OBVIOUS
  <2> QED BY <1>2, <1>4, <2>1
<1> QED BY <1>3, <1>4 DEF Quotient

LEMMA RegulatorInit == Init => RegInv
<1> SUFFICES ASSUME Init PROVE RegInv
  OBVIOUS
<1>1. sensorHz \in Nat \ {0} /\ publishHz \in Nat \ {0} /\ One \in Nat \ {0}
  BY RegulatorAssumption DEF Init
<1>2. step \in Nat
  BY <1>1, QuotientBounds DEF Init
<1>3. TypeOK
  BY <1>1, <1>2 DEF Init, TypeOK
<1>4. CreditBalances /\ SlowSensorUntouched
  <2>1. 0 * One = 0 /\ 0 * step = 0 BY <1>1, <1>2
  <2> QED BY <1>1, <1>2, <2>1 DEF Init, CreditBalances, SlowSensorUntouched
<1> QED BY <1>3, <1>4 DEF Init, RegInv, QuotientOK

(* A sample lets a publication through or adds its credit.                 *)
LEMMA RegulatorStep == RegInv /\ [Next]_vars => RegInv'
<1> SUFFICES ASSUME RegInv, [Next]_vars PROVE RegInv'
  OBVIOUS
<1> USE RegulatorAssumption
<1>1. CASE Publish
  <2>1. UNCHANGED <<rates, dropped>> /\ sampled' = sampled + 1 /\ published' = published + 1
    BY <1>1 DEF Publish
  <2>2. acc' = Remainder(acc + step) /\ acc + step >= One
    BY <1>1 DEF Publish, Admits
  <2>3. TypeOK'
    <3>1. acc' \in 0 .. One - 1
      BY <2>2 DEF Remainder, RegInv, TypeOK
    <3>2. lastGap' \in Nat /\ gaps' \subseteq Nat
      BY <1>1 DEF Publish, RegInv, TypeOK
    <3> QED BY <2>1, <3>1, <3>2 DEF RegInv, TypeOK, rates
  <2>4. CreditBalances'
    <3>1. ASSUME step < One PROVE published' * One + acc' = sampled' * step
      <4>1. acc' = acc + step - One
        BY <2>2, <3>1 DEF Remainder, RegInv, TypeOK
      <4>2. published * One + acc = sampled * step
        BY <3>1 DEF RegInv, CreditBalances, Decimating
      <4>3. (published + 1) * One = published * One + One
        BY DEF RegInv, TypeOK
      <4>4. (sampled + 1) * step = sampled * step + step
        BY DEF RegInv, TypeOK
      <4>5. published * One \in Int /\ sampled * step \in Int
        BY DEF RegInv, TypeOK
      <4> QED BY <2>1, <4>1, <4>2, <4>3, <4>4, <4>5 DEF RegInv, TypeOK
    <3>2. sampled' = published' + dropped'
      BY <2>1 DEF RegInv, TypeOK, CreditBalances
    <3> QED BY <2>1, <3>1, <3>2 DEF CreditBalances, Decimating, rates
  <2>5. SlowSensorUntouched'
    BY <2>1 DEF SlowSensorUntouched, RegInv, rates
  <2> QED BY <2>1, <2>3, <2>4, <2>5 DEF RegInv, QuotientOK, Quotient, rates
<1>2. CASE Withhold
  <2>1. UNCHANGED <<rates, published, gaps>> /\ sampled' = sampled + 1 /\ dropped' = dropped + 1
    BY <1>2 DEF Withhold
  <2>2. acc' = acc + step /\ acc + step < One
    BY <1>2 DEF Withhold, Admits, RegInv, TypeOK
  <2>3. TypeOK'
    <3>1. lastGap' \in Nat
      BY <1>2 DEF Withhold, RegInv, TypeOK
    <3> QED BY <2>1, <2>2, <3>1 DEF RegInv, TypeOK, rates
  <2>4. CreditBalances'
    <3>1. ASSUME step < One PROVE published' * One + acc' = sampled' * step
      <4>1. published * One + acc = sampled * step
        BY <3>1 DEF RegInv, CreditBalances, Decimating
      <4>2. (sampled + 1) * step = sampled * step + step
        BY DEF RegInv, TypeOK
      <4>3. published * One \in Int /\ sampled * step \in Int
        BY DEF RegInv, TypeOK
      <4> QED BY <2>1, <2>2, <4>1, <4>2, <4>3 DEF RegInv, TypeOK
    <3>2. sampled' = published' + dropped'
      BY <2>1 DEF RegInv, TypeOK, CreditBalances
    <3> QED BY <2>1, <3>1, <3>2 DEF CreditBalances, Decimating, rates
  <2>5. SlowSensorUntouched'
    BY <2>1, <2>2 DEF SlowSensorUntouched, RegInv, TypeOK, rates
  <2> QED BY <2>1, <2>3, <2>4, <2>5 DEF RegInv, QuotientOK, Quotient, rates
<1>3. CASE UNCHANGED vars
  BY <1>3 DEF vars, rates, RegInv, TypeOK, CreditBalances, Decimating,
              SlowSensorUntouched, QuotientOK, Quotient
<1> QED BY <1>1, <1>2, <1>3 DEF Next

LEMMA RegulatorInvariant == Spec => []RegInv
<1> QED BY RegulatorInit, RegulatorStep, PTL DEF Spec

(* The accumulator stays in [0, 1), as regulator.h has it: the one         *)
(* subtraction of fdt_reg_admit and its clamp are enough at any rates.     *)
THEOREM RegulatorTypeCorrect == Spec => []TypeOK
<1>1. RegInv => TypeOK BY DEF RegInv
<1> QED BY RegulatorInvariant, <1>1, PTL

(* However long the regulator runs, no publication credit is lost or made  *)
(* up, and every sample offered was published or counted dropped.          *)
THEOREM RegulatorCreditBalances == Spec => []CreditBalances
<1>1. RegInv => CreditBalances BY DEF RegInv
<1> QED BY RegulatorInvariant, <1>1, PTL

(* A sensor at the twin's rate or below it never loses a sample.           *)
THEOREM RegulatorSlowSensorUntouched == Spec => []SlowSensorUntouched
<1>1. RegInv => SlowSensorUntouched BY DEF RegInv
<1> QED BY RegulatorInvariant, <1>1, PTL

(* The published rate follows the rate asked for, to within one sample and *)
(* the rounding of the quotient, at any time.                              *)
THEOREM RegulatorRateKept == Spec => []RateKept
<1>1. RegInv => RateKept
  <2> SUFFICES ASSUME RegInv, Decimating PROVE RateKept
    BY DEF RateKept
  <2> DEFINE s == sensorHz  p == publishHz  n == sampled  m == published
  <2>1. /\ s \in Nat \ {0} /\ p \in Nat \ {0} /\ One \in Nat \ {0}
        /\ step \in Nat /\ n \in Nat /\ m \in Nat /\ acc \in 0 .. One - 1
    BY RegulatorAssumption DEF RegInv, TypeOK
  <2>2. step * s - p * One < s /\ p * One - step * s < s
    BY <2>1, QuotientBounds DEF RegInv, QuotientOK
  <2>3. m * One + acc = n * step
    BY DEF RegInv, CreditBalances
  <2>4. (m * s - n * p) * One = n * (step * s - p * One) - acc * s
    <3>1. (m * s - n * p) * One = (m * One) * s - n * (p * One)
      BY <2>1
    <3>2. m * One = n * step - acc
      <4>1. m * One \in Int /\ n * step \in Int BY <2>1
      <4> QED BY <2>1, <2>3, <4>1
    <3>3. (n * step - acc) * s = n * (step * s) - acc * s
      BY <2>1
    <3>4. n * (step * s - p * One) = n * (step * s) - n * (p * One)
      BY <2>1
    <3>5. n * (step * s) \in Int /\ n * (p * One) \in Int /\ acc * s \in Int
      BY <2>1
    <3> QED BY <3>1, <3>2, <3>3, <3>4, <3>5
  <2>5. n * (step * s - p * One) <= n * s /\ -(n * (step * s - p * One)) <= n * s
    <3>1. step * s - p * One \in Int
      BY <2>1
    <3>2. \A d \in Int : d < s /\ -d < s => n * d <= n * s /\ -(n * d) <= n * s
      BY <2>1
    <3> QED BY <2>1, <2>2, <3>1, <3>2
  <2>6. acc * s >= 0 /\ acc * s < One * s /\ One * s = s * One
    BY <2>1
  <2>7. n * (step * s - p * One) \in Int /\ acc * s \in Int /\ s * One \in Int /\ n * s \in Int
    BY <2>1
  <2> HIDE DEF s, p, n, m
  <2>8. /\ (m * s - n * p) * One <= n * s
        /\ -((m * s - n * p) * One) < s * One + n * s
    BY <2>4, <2>5, <2>6, <2>7
  <2> QED BY <2>8 DEF RateKept, s, p, n, m
<1> QED BY RegulatorInvariant, <1>1, PTL

-----------------------------------------------------------------------------
(* The spacing.  What is left over after a publication is less than one    *)
(* sample's credit, so every gap spends between One - step and One of it.  *)

GapSpendsTheCredit ==
  /\ step >= One => lastGap = 0 /\ gaps \subseteq {0}
  /\ step < One =>
       /\ published > 0 => lastGap * step <= acc /\ acc < (lastGap + 1) * step
       /\ \A g \in gaps : g * step < One /\ One < (g + 2) * step

(* Multiplication by a credit keeps the order.                             *)
LEMMA CreditGrows ==
  ASSUME NEW a \in Nat, NEW b \in Nat, NEW m \in Nat, a <= b
  PROVE  a * m <= b * m
<1>1. PICK d \in Nat : b = a + d
  <2>1. b - a \in Nat /\ b = a + (b - a)
    OBVIOUS
  <2> QED BY <2>1
<1>2. \A x, y, z \in Nat : (x + y) * z = x * z + y * z /\ x * z \in Nat
  OBVIOUS
<1>3. b * m = a * m + d * m /\ a * m \in Nat /\ d * m \in Nat
  BY <1>1, <1>2
<1> QED BY <1>3

LEMMA SpacingInit == Init => GapSpendsTheCredit
<1> QED BY DEF Init, GapSpendsTheCredit

LEMMA SpacingStep ==
  RegInv /\ GapSpendsTheCredit /\ [Next]_vars => GapSpendsTheCredit'
<1> SUFFICES ASSUME RegInv, GapSpendsTheCredit, [Next]_vars PROVE GapSpendsTheCredit'
  OBVIOUS
<1> USE RegulatorAssumption
<1>1. /\ One \in Nat \ {0} /\ step \in Nat /\ acc \in 0 .. One - 1 /\ published \in Nat
      /\ lastGap \in Nat /\ gaps \subseteq Nat
  BY DEF RegInv, TypeOK
<1>2. /\ 0 * step = 0 /\ (0 + 1) * step = step /\ lastGap * step \in Nat
      /\ (lastGap + 1) * step = lastGap * step + step
      /\ (lastGap + 2) * step = lastGap * step + step + step
      /\ (lastGap + 1 + 1) * step = lastGap * step + step + step
  BY <1>1
<1>3. CASE Publish
  <2>1. /\ acc' = Remainder(acc + step) /\ acc + step >= One /\ published' = published + 1
        /\ gaps' = IF published = 0 THEN gaps ELSE gaps \cup {lastGap}
        /\ lastGap' = 0 /\ step' = step
    BY <1>3 DEF Publish, Admits, rates
  <2>2. CASE step >= One
    BY <1>1, <2>1, <2>2 DEF GapSpendsTheCredit
  <2>3. CASE step < One
    <3>1. acc' = acc + step - One
      BY <1>1, <2>1, <2>3 DEF Remainder
    <3>2. lastGap' * step' <= acc' /\ acc' < (lastGap' + 1) * step'
      BY <1>1, <1>2, <2>1, <3>1
    <3>3. published # 0 => lastGap * step < One /\ One < (lastGap + 2) * step
      BY <1>1, <1>2, <2>1, <2>3 DEF GapSpendsTheCredit
    <3>4. \A g \in gaps' : g * step' < One /\ One < (g + 2) * step'
      BY <2>1, <2>3, <3>3 DEF GapSpendsTheCredit
    <3> QED BY <1>1, <2>1, <2>3, <3>2, <3>4 DEF GapSpendsTheCredit
  <2> QED BY <1>1, <2>2, <2>3
<1>4. CASE Withhold
  <2>1. /\ acc' = acc + step /\ acc + step < One /\ lastGap' = lastGap + 1
        /\ UNCHANGED <<step, published, gaps>>
    BY <1>1, <1>4 DEF Withhold, Admits, rates
  <2>2. step < One
    BY <1>1, <2>1
  <2>3. published' > 0 => lastGap' * step' <= acc' /\ acc' < (lastGap' + 1) * step'
    BY <1>1, <1>2, <2>1, <2>2 DEF GapSpendsTheCredit
  <2> QED BY <1>1, <2>1, <2>2, <2>3 DEF GapSpendsTheCredit
<1>5. CASE UNCHANGED vars
  BY <1>5 DEF vars, rates, GapSpendsTheCredit
<1> QED BY <1>3, <1>4, <1>5 DEF Next

(* "Decimation is regular, not bursty": at any pair of rates and after any *)
(* number of samples, two gaps differ by one sample at most.               *)
THEOREM RegulatorEvenSpacing == Spec => []EvenSpacing
<1>1. RegInv /\ GapSpendsTheCredit => EvenSpacing
  <2> SUFFICES ASSUME RegInv, GapSpendsTheCredit, NEW a \in gaps, NEW b \in gaps
               PROVE  a - b <= 1
    BY DEF EvenSpacing
  <2>1. One \in Nat \ {0} /\ step \in Nat /\ a \in Nat /\ b \in Nat
    BY RegulatorAssumption DEF RegInv, TypeOK
  <2>2. CASE step >= One
    BY <2>2 DEF GapSpendsTheCredit
  <2>3. CASE step < One
    <3>1. a * step < One /\ One < (b + 2) * step
      BY <2>3 DEF GapSpendsTheCredit
    <3>2. ASSUME b + 2 <= a PROVE FALSE
      <4>1. (b + 2) * step <= a * step
        BY <2>1, <3>2, CreditGrows
      <4>2. (b + 2) * step \in Nat /\ a * step \in Nat
        BY <2>1
      <4> QED BY <2>1, <3>1, <4>1, <4>2
    <3> QED BY <2>1, <3>2
  <2> QED BY <2>1, <2>2, <2>3
<1> QED BY RegulatorInvariant, SpacingInit, SpacingStep, <1>1, PTL DEF Spec

-----------------------------------------------------------------------------
(* The CPU bench.                                                          *)

LEMMA OneMore ==
  ASSUME NEW s, s \in Seq(ToSet(s)), NEW e
  PROVE  /\ Append(s, e) \in Seq(ToSet(Append(s, e)))
         /\ Len(Append(s, e)) = Len(s) + 1 /\ Append(s, e) # <<>>
<1> DEFINE T == ToSet(s) \cup {e}
           t == Append(s, e)
<1>1. s \in Seq(T)
  <2>1. ToSet(s) \subseteq T OBVIOUS
  <2> QED BY <2>1, SeqMonotonic, Zenon
<1>2. /\ t \in Seq(T) /\ Len(t) = Len(s) + 1 BY <1>1, AppendProperties
<1>3. Len(s) \in Nat BY LenProperties
<1> HIDE DEF t, T
<1>4. t \in Seq(ToSet(t))
  <2>1. DOMAIN t = 1 .. Len(t) /\ Len(t) \in Nat BY <1>2, LenProperties
  <2>2. t \in [1 .. Len(t) -> ToSet(t)] BY <1>2, <2>1 DEF ToSet
  <2> QED BY <2>1, <2>2
<1>5. t # <<>> BY <1>2, <1>3
<1> QED BY <1>2, <1>4, <1>5 DEF t

LEMMA CpuInitInv == CpuInit => CpuInv
<1> SUFFICES ASSUME CpuInit PROVE CpuInv OBVIOUS
<1>1. /\ runs \in Seq(ToSet(runs)) /\ cpu \in Seq(ToSet(cpu)) /\ got \in Seq(Nat)
      /\ Len(cpu) = Len(got)
  BY DEF CpuInit
<1> QED BY <1>1 DEF CpuInit, CpuInv, VerdictsFromEveryWorld

LEMMA RestartsAtInit == CpuRestart => CpuInv'
<1> SUFFICES ASSUME CpuRestart PROVE CpuInv' OBVIOUS
<1>1. /\ runs' \in Seq(ToSet(runs')) /\ cpu' \in Seq(ToSet(cpu')) /\ got' \in Seq(Nat)
      /\ Len(cpu') = Len(got')
  BY DEF CpuRestart
<1> QED BY <1>1 DEF CpuRestart, CpuInv, VerdictsFromEveryWorld

LEMMA EndWorldKeeps ==
  ASSUME CpuInv, EndWorld PROVE CpuInv'
<1>1. /\ runs \in Seq(ToSet(runs)) /\ cpu \in Seq(ToSet(cpu)) /\ got \in Seq(Nat)
      /\ Len(cpu) = Len(got) /\ (ok <=> \A w \in DOMAIN got : got[w] > 0)
      /\ verdict = "none"
  BY DEF CpuInv, EndWorld
<1>2. /\ \E e : cpu' = Append(cpu, e)
      /\ got' = Append(got, Len(runs)) /\ runs' = <<>>
      /\ ok' <=> ok /\ runs # <<>>
      /\ cpuPhase' \in {"verdict", "end"} => Len(cpu') = Worlds
      /\ verdict' = verdict
  <2>1. CASE runs = <<>> BY <2>1 DEF EndWorld, Failed
  <2>2. CASE runs # <<>> BY <2>2 DEF EndWorld
  <2> QED BY <2>1, <2>2
<1>3. cpu' \in Seq(ToSet(cpu')) /\ Len(cpu') = Len(cpu) + 1
  <2>1. PICK e : cpu' = Append(cpu, e) BY <1>2
  <2> QED BY <1>1, <2>1, OneMore
<1>4. Len(runs) \in Nat /\ (runs # <<>> <=> Len(runs) > 0)
  BY <1>1, LenProperties, EmptySeq
<1>5. got' \in Seq(Nat) /\ Len(got') = Len(got) + 1
  BY <1>1, <1>2, <1>4, AppendProperties
<1>6. ok' <=> \A w \in DOMAIN got' : got'[w] > 0
  <2>1. /\ DOMAIN got = 1 .. Len(got) /\ DOMAIN got' = 1 .. Len(got) + 1 /\ Len(got) \in Nat
        /\ \A w \in 1 .. Len(got) : got'[w] = got[w]
        /\ got'[Len(got) + 1] = Len(runs)
    BY <1>1, <1>2, <1>4, <1>5, AppendProperties, LenProperties
  <2>2. (\A w \in DOMAIN got' : got'[w] > 0)
          <=> (\A w \in DOMAIN got : got[w] > 0) /\ Len(runs) > 0
    BY <2>1
  <2> QED BY <1>1, <1>2, <1>4, <2>2
<1>7. runs' \in Seq(ToSet(runs')) BY <1>2
<1> QED BY <1>1, <1>2, <1>3, <1>5, <1>6, <1>7 DEF CpuInv, VerdictsFromEveryWorld

LEMMA CpuStep == CpuInv /\ [CpuNext]_cpuVars => CpuInv'
<1> SUFFICES ASSUME CpuInv, [CpuNext]_cpuVars PROVE CpuInv' OBVIOUS
<1>1. ASSUME UNCHANGED <<runs, cpu, got, ok, verdict>>,
             cpuPhase' \in {"verdict", "end"} => cpuPhase = cpuPhase',
             verdict # "none" => cpuPhase' = cpuPhase
      PROVE  CpuInv'
  BY <1>1 DEF CpuInv, VerdictsFromEveryWorld
<1>2. CASE \E p \in Process : Consume(p) \/ Die(p)
  BY <1>1, <1>2 DEF Consume, Die, Running
<1>3. CASE \E c \in Controllers : StartController(c)
  BY <1>1, <1>3 DEF StartController
<1>4. CASE Fork \/ ForkFails \/ FirstSample
  BY <1>1, <1>4 DEF Fork, ForkFails, FirstSample, CpuInv
<1>5. CASE SecondSample
  <2>1. runs' \in Seq(ToSet(runs'))
    BY <1>5, OneMore DEF SecondSample, CpuInv
  <2> QED BY <1>5, <2>1 DEF SecondSample, CpuInv, VerdictsFromEveryWorld
<1>6. CASE EndWorld BY <1>6, EndWorldKeeps
<1>7. CASE Verdicts
  <2>1. UNCHANGED <<runs, cpu, got, ok>> /\ cpuPhase = "verdict" /\ cpuPhase' = "end"
    BY <1>7 DEF Verdicts
  <2>2. Len(got) = Worlds /\ DOMAIN got = 1 .. Len(got) BY <2>1, LenProperties DEF CpuInv
  <2>3. VerdictsFromEveryWorld'
    BY <1>7, <2>1, <2>2 DEF Verdicts, CpuInv, VerdictsFromEveryWorld
  <2> QED BY <2>1, <2>3 DEF CpuInv
<1>8. CASE UNCHANGED cpuVars
  BY <1>1, <1>8 DEF cpuVars
<1> QED BY <1>2, <1>3, <1>4, <1>5, <1>6, <1>7, <1>8 DEF CpuNext

-----------------------------------------------------------------------------
(* The benches and their artefacts.                                        *)

BenchNames == {"bandwidth", "jitter", "latency", "regulator", "scale", "webots_cpu"}

LEMMA BenchesAreNamed ==
  /\ Benches \in Seq(BenchNames) /\ Len(Benches) \in Nat \ {0}
  /\ DOMAIN Benches = 1 .. Len(Benches)
  /\ Stem = {Benches[i] : i \in DOMAIN Benches} /\ Stem \subseteq BenchNames
  /\ \A i, j \in DOMAIN Benches : Benches[i] = Benches[j] => i = j
  /\ Benches[Len(Benches)] = "webots_cpu"
<1>1. Benches \in Seq(BenchNames) /\ Benches # <<>> BY CampaignAssumption DEF BenchNames
<1>2. Len(Benches) \in Nat \ {0} /\ DOMAIN Benches = 1 .. Len(Benches)
  BY <1>1, LenProperties, EmptySeq
<1>3. \A i \in DOMAIN Benches : Benches[i] \in BenchNames BY <1>1, <1>2, ElementOfSeq
<1>4. Stem = {Benches[i] : i \in DOMAIN Benches} BY DEF Stem, ToSet
<1>5. \A i, j \in DOMAIN Benches : Benches[i] = Benches[j] => i = j
  BY CampaignAssumption DEF IsInjective
<1>6. Benches[Len(Benches)] = "webots_cpu" BY CampaignAssumption DEF Last
<1> QED BY <1>1, <1>2, <1>3, <1>4, <1>5, <1>6

LEMMA ArtefactsListed ==
  ASSUME NEW s
  PROVE  /\ Artefacts(s) \in Seq(ToSet(Artefacts(s)))
         /\ <<"svg", s>> \in ToSet(Artefacts(s))
         /\ s \in DOMAIN Second => <<"svg", Second[s]>> \in ToSet(Artefacts(s))
         /\ \A a \in ToSet(Artefacts(s)) :
              \/ a = <<"svg", s>> \/ a = <<"csv", s>>
              \/ s \in DOMAIN Second /\ a = <<"svg", Second[s]>>
<1>1. CASE s \in DOMAIN Second
  <2>1. Artefacts(s) = <<<<"svg", s>>, <<"csv", s>>, <<"svg", Second[s]>>>>
    BY <1>1 DEF Artefacts
  <2> QED BY <1>1, <2>1 DEF ToSet
<1>2. CASE s \notin DOMAIN Second
  <2>1. Artefacts(s) = <<<<"svg", s>>, <<"csv", s>>>>
    BY <1>2 DEF Artefacts
  <2> QED BY <1>2, <2>1 DEF ToSet
<1> QED BY <1>1, <1>2

(* No artefact is written twice by a bench, or by two benches.             *)
LEMMA ArtefactsOnce ==
  ASSUME NEW s \in BenchNames, NEW i \in DOMAIN Artefacts(s), NEW j \in DOMAIN Artefacts(s),
         Artefacts(s)[i] = Artefacts(s)[j]
  PROVE  i = j
<1>1. \A u \in DOMAIN Second : Second[u] \notin BenchNames
  BY DEF Second, BenchNames
<1>2. CASE s \in DOMAIN Second
  <2>1. Artefacts(s) = <<<<"svg", s>>, <<"csv", s>>, <<"svg", Second[s]>>>>
    BY <1>2 DEF Artefacts
  <2>2. Second[s] # s BY <1>1, <1>2
  <2> HIDE DEF Second
  <2> QED BY <2>1, <2>2
<1>3. CASE s \notin DOMAIN Second
  <2>1. Artefacts(s) = <<<<"svg", s>>, <<"csv", s>>>>
    BY <1>3 DEF Artefacts
  <2> QED BY <2>1
<1> QED BY <1>2, <1>3

LEMMA ArtefactsApart ==
  ASSUME NEW s \in BenchNames, NEW t \in BenchNames, s # t
  PROVE  ToSet(Artefacts(s)) \cap ToSet(Artefacts(t)) = {}
<1>1. \A u \in DOMAIN Second : Second[u] \notin BenchNames
  BY DEF Second, BenchNames
<1>2. \A u, v \in DOMAIN Second : u # v => Second[u] # Second[v]
  BY DEF Second
<1>3. ASSUME NEW a \in ToSet(Artefacts(s)), a \in ToSet(Artefacts(t)) PROVE FALSE
  <2>1. \/ a = <<"svg", s>> \/ a = <<"csv", s>>
        \/ s \in DOMAIN Second /\ a = <<"svg", Second[s]>>
    BY ArtefactsListed
  <2>2. \/ a = <<"svg", t>> \/ a = <<"csv", t>>
        \/ t \in DOMAIN Second /\ a = <<"svg", Second[t]>>
    BY <1>3, ArtefactsListed
  <2> HIDE DEF Second
  <2> QED BY <1>1, <1>2, <2>1, <2>2
<1> QED BY <1>3

(* The charts of a bench are among its artefacts.                          *)
LEMMA ChartsAreArtefacts ==
  ASSUME NEW s, NEW c \in ToSet(ChartStems(s))
  PROVE  <<"svg", c>> \in ToSet(Artefacts(s))
<1>1. c = s \/ (s \in DOMAIN Second /\ c = Second[s])
  <2>1. CASE s \in DOMAIN Second BY <2>1 DEF ChartStems, ToSet
  <2>2. CASE s \notin DOMAIN Second BY <2>2 DEF ChartStems, ToSet
  <2> QED BY <2>1, <2>2
<1> QED BY <1>1, ArtefactsListed

LEMMA ArtefactOfStem ==
  ASSUME NEW s \in Stem
  PROVE  /\ ToSet(Artefacts(s)) \subseteq Artefact
         /\ \A i \in DOMAIN Artefacts(s) : Artefacts(s)[i] \in Artefact
BY DEF Artefact, ToSet

-----------------------------------------------------------------------------
(* The campaign.                                                           *)

LEMMA CampaignInitInv == CampaignInit => CampaignInv /\ CpuInv
<1> SUFFICES ASSUME CampaignInit PROVE CampaignInv /\ CpuInv OBVIOUS
<1>1. PICK there \in {0, Nothing} :
        /\ text = [s \in Stem |-> [by |-> there, told |-> there = 0 /\ s # "webots_cpu"]]
        /\ drawn = [a \in Artefact |-> there]
        /\ report = [s \in {t \in Stem : text[t].by # Nothing} |-> Section(s)]
  BY DEF CampaignInit
<1>2. there \in Int /\ there <= 0 BY DEF Nothing
<1>3. FilesOK BY <1>1, <1>2 DEF CampaignInit, FilesOK
<1>4. BenchesInTurn /\ WrittenOrToDo
  BY BenchesAreNamed DEF CampaignInit, BenchesInTurn, WrittenOrToDo
<1>5. VerdictInItsBench BY DEF CampaignInit, CpuInit, VerdictInItsBench
<1>6. TextAndChartsAgree /\ ReportOK
  <2>1. ASSUME NEW s \in Stem, NEW i \in DOMAIN Artefacts(s)
        PROVE  drawn[Artefacts(s)[i]] = there /\ text[s].by = there
    BY <1>1, ArtefactOfStem
  <2>2. \A s \in DOMAIN report :
          /\ s \in Stem /\ text[s].by = there /\ there # Nothing
          /\ report[s].by = there
          /\ report[s].links = {c \in ToSet(ChartStems(s)) : drawn[<<"svg", c>>] # Nothing}
    BY <1>1 DEF Section
  <2>3. ASSUME NEW s \in DOMAIN report, NEW c \in ToSet(ChartStems(s))
        PROVE  c \in report[s].links /\ drawn[<<"svg", c>>] = report[s].by
    <3>1. <<"svg", c>> \in Artefact BY <2>2, ChartsAreArtefacts, ArtefactOfStem
    <3> QED BY <1>1, <2>2, <3>1
  <2>4. ReportOK BY <1>2, <2>2 DEF ReportOK
  <2> HIDE DEF Artefact
  <2> QED BY <1>2, <2>1, <2>2, <2>3, <2>4 DEF TextAndChartsAgree
<1>7. StoppedInOrder
  BY <1>1, <1>2, BenchesAreNamed DEF StoppedInOrder
<1>8. CpuInv BY CpuInitInv DEF CampaignInit
<1> QED BY <1>3, <1>4, <1>5, <1>6, <1>7, <1>8 DEF CampaignInv

(* Where the turn passes to, and what holds there.                         *)
LEMMA TurnKeepsFiles ==
  ASSUME CampaignInv, NEW k, Turn(k), UNCHANGED <<campaign, drawn, report>>,
         \/ k = 0
         \/ /\ k = bench + 1 /\ bench \in 1 .. Len(Benches) - 1
            /\ text'[Current] = [by |-> campaign, told |-> TRUE],
         \A s \in Stem : bench = 0 \/ s # Current => text'[s] = text[s]
  PROVE  BenchesInTurn' /\ WrittenOrToDo' /\ VerdictInItsBench' /\ ReportOK' /\ CpuInv'
<1>1. CpuInv' BY RestartsAtInit DEF Turn
<1>2. VerdictInItsBench' BY DEF Turn, CpuRestart, VerdictInItsBench
<1>3. WrittenOrToDo' /\ ReportOK'
  BY DEF Turn, WrittenOrToDo, ReportOK, CampaignInv
<1>4. BenchesInTurn'
  <2>1. CASE k = 0
    BY <2>1, BenchesAreNamed DEF Turn, BenchesInTurn
  <2>2. CASE /\ k = bench + 1 /\ bench \in 1 .. Len(Benches) - 1
             /\ text'[Current] = [by |-> campaign, told |-> TRUE]
    <3>1. bench' = bench + 1 /\ stage' = "open" /\ bench' \in 1 .. Len(Benches)
      BY <2>2, BenchesAreNamed DEF Turn
    <3>2. \A i \in DOMAIN Benches : i # bench => text'[Benches[i]] = text[Benches[i]]
      BY <2>2, BenchesAreNamed DEF Current
    <3>3. \A i \in DOMAIN Benches :
            i < bench' => text'[Benches[i]] = [by |-> campaign, told |-> TRUE]
      <4> SUFFICES ASSUME NEW i \in DOMAIN Benches, i < bench'
                   PROVE  text'[Benches[i]] = [by |-> campaign, told |-> TRUE]
        OBVIOUS
      <4>1. CASE i = bench BY <2>2, <4>1 DEF Current
      <4>2. CASE i # bench
        <5>1. i < bench /\ bench # 0 BY <2>2, <3>1, <4>2, BenchesAreNamed
        <5> QED BY <3>2, <4>2, <5>1 DEF CampaignInv, BenchesInTurn
      <4> QED BY <4>1, <4>2
    <3>4. \A i \in DOMAIN Benches : i >= bench' => text'[Benches[i]].by < campaign
      <4> SUFFICES ASSUME NEW i \in DOMAIN Benches, i >= bench'
                   PROVE  text'[Benches[i]].by < campaign
        OBVIOUS
      <4>1. i > bench /\ i # bench /\ bench # 0 BY <2>2, <3>1, BenchesAreNamed
      <4> QED BY <3>2, <4>1 DEF CampaignInv, BenchesInTurn
    <3>5. bench' \in DOMAIN Benches /\ Current' = Benches[bench']
      BY <3>1, BenchesAreNamed DEF Current
    <3>6. bench' >= bench' /\ bench' \in 0 .. Len(Benches) /\ bench' # 0
      BY <3>1, BenchesAreNamed
    <3>7. bench' \in DOMAIN Benches /\ bench' \in Int /\ Current' = Benches[bench']
      BY <3>1, BenchesAreNamed DEF Current
    <3>8. text'[Benches[bench']].by < campaign BY <3>4, <3>6, <3>7
    <3>9. \A i \in DOMAIN Benches : i > bench' => text'[Benches[i]].by < campaign
      <4>1. \A i \in DOMAIN Benches : i > bench' => i >= bench' BY <3>7, BenchesAreNamed
      <4> QED BY <4>1, <3>4
    <3>10. campaign' = campaign OBVIOUS
    <3> QED BY <3>1, <3>3, <3>6, <3>7, <3>8, <3>9, <3>10 DEF BenchesInTurn
  <2> QED BY <2>1, <2>2
<1> QED BY <1>1, <1>2, <1>3, <1>4

(* make begins a campaign: whatever there is is of an earlier one.         *)
LEMMA MakeBenchKeeps ==
  ASSUME CampaignInv, CpuInv, MakeBench PROVE CampaignInv' /\ CpuInv'
<1>1. UNCHANGED <<text, drawn, report, cpuVars>> /\ campaign' = campaign + 1
      /\ bench' = 1 /\ stage' = "open" /\ bench = 0
  BY DEF MakeBench, fileVars, Quiet
<1>2. FilesOK' BY <1>1 DEF CampaignInv, FilesOK
<1>3. BenchesInTurn'
  <2>1. \A s \in Stem : text[s].by < campaign + 1
    BY DEF CampaignInv, FilesOK
  <2>2. Current' = Benches[1] /\ 1 \in DOMAIN Benches BY <1>1, BenchesAreNamed DEF Current
  <2>3. \A i \in DOMAIN Benches : Benches[i] \in Stem /\ ~(i < 1) BY BenchesAreNamed
  <2> QED BY <1>1, <2>1, <2>2, <2>3, BenchesAreNamed DEF BenchesInTurn
<1>4. VerdictInItsBench' /\ CpuInv'
  <2>1. verdict = "none" BY <1>1 DEF CampaignInv, VerdictInItsBench, BenchesInTurn
  <2> QED BY <1>1, <2>1 DEF VerdictInItsBench, cpuVars, CpuInv, VerdictsFromEveryWorld
<1>5. WrittenOrToDo' /\ ReportOK' /\ TextAndChartsAgree' /\ StoppedInOrder'
  BY <1>1 DEF CampaignInv, WrittenOrToDo, ReportOK, TextAndChartsAgree, StoppedInOrder
<1> QED BY <1>2, <1>3, <1>4, <1>5 DEF CampaignInv

LEMMA BenchOpensKeeps ==
  ASSUME CampaignInv, CpuInv, BenchOpens PROVE CampaignInv' /\ CpuInv'
<1>1. /\ UNCHANGED <<campaign, bench, drawn, report, cpuVars>>
      /\ stage = "open" /\ stage' = "measure" /\ text' = Opened(Current)
  BY DEF BenchOpens
<1>2. bench \in DOMAIN Benches /\ Current \in Stem /\ Current' = Current
  BY <1>1, BenchesAreNamed DEF CampaignInv, BenchesInTurn, Current
<1>3. /\ text'[Current] = [by |-> campaign, told |-> FALSE]
      /\ \A s \in Stem : s # Current => text'[s] = text[s]
      /\ text' \in [Stem -> [by : Int, told : BOOLEAN]] /\ campaign \in Nat
  BY <1>1, <1>2 DEF Opened, CampaignInv, FilesOK
<1>4. FilesOK' BY <1>1, <1>2, <1>3 DEF CampaignInv, FilesOK
<1>5. \A i \in DOMAIN Benches :
        i # bench => Benches[i] # Current /\ text'[Benches[i]] = text[Benches[i]]
  BY <1>2, <1>3, BenchesAreNamed DEF Current
<1>6. \A i \in DOMAIN Benches :
        /\ i < bench => text'[Benches[i]] = [by |-> campaign, told |-> TRUE]
        /\ i > bench => text'[Benches[i]].by < campaign
  <2>1. \A i \in DOMAIN Benches : i < bench \/ i > bench => i # bench
    BY <1>2, BenchesAreNamed
  <2>2. bench # 0 BY <1>2, BenchesAreNamed
  <2>3. \A i \in DOMAIN Benches :
        /\ i < bench => text[Benches[i]] = [by |-> campaign, told |-> TRUE]
        /\ i > bench => text[Benches[i]].by < campaign
    BY <2>2 DEF CampaignInv, BenchesInTurn
  <2> QED BY <1>5, <2>1, <2>3
<1>7. BenchesInTurn'
  BY <1>1, <1>2, <1>3, <1>6 DEF CampaignInv, BenchesInTurn
<1>8. WrittenOrToDo' /\ ReportOK'
  BY <1>1 DEF WrittenOrToDo, ReportOK, CampaignInv
<1>9. VerdictInItsBench' /\ CpuInv'
  <2>1. verdict = "none" BY <1>1 DEF CampaignInv, VerdictInItsBench
  <2> QED BY <1>1, <2>1 DEF VerdictInItsBench, cpuVars, CpuInv, VerdictsFromEveryWorld
<1>10. TextAndChartsAgree'
  <2>1. ASSUME NEW s \in Stem, NEW i \in DOMAIN Artefacts(s)
        PROVE  /\ drawn[Artefacts(s)[i]] <= text'[s].by
               /\ text'[s].told => drawn[Artefacts(s)[i]] = text'[s].by
    <3>1. CASE s = Current
      <4>1. drawn[Artefacts(s)[i]] <= campaign
        BY <1>2, <3>1, ArtefactOfStem DEF CampaignInv, FilesOK
      <4> QED BY <1>3, <3>1, <4>1
    <3>2. CASE s # Current BY <1>3, <3>2 DEF CampaignInv, TextAndChartsAgree
    <3> QED BY <3>1, <3>2
  <2> QED BY <1>1, <2>1 DEF CampaignInv, TextAndChartsAgree
<1>11. StoppedInOrder'
  <2> SUFFICES ASSUME NEW i \in DOMAIN Benches, NEW j \in DOMAIN Benches,
                      i < j, text'[Benches[j]].by > 0
               PROVE  /\ text'[Benches[i]].by >= text'[Benches[j]].by
                      /\ text'[Benches[i]].by = text'[Benches[j]].by => text'[Benches[i]].told
    BY DEF StoppedInOrder
  <2>1. bench \in Int /\ i \in Int /\ j \in Int BY <1>2, BenchesAreNamed
  <2>2. CASE i = bench
    <3>1. j > bench BY <2>1, <2>2
    <3>2. text'[Benches[i]].by = campaign /\ text'[Benches[j]].by < campaign
      BY <1>3, <1>6, <2>2, <3>1 DEF Current
    <3>3. text'[Benches[j]].by \in Int BY <1>3, BenchesAreNamed
    <3> QED BY <1>3, <3>2, <3>3
  <2>3. CASE j = bench
    <3>1. i < bench BY <2>3
    <3>2. text'[Benches[i]] = [by |-> campaign, told |-> TRUE] BY <1>6, <3>1
    <3>3. text'[Benches[j]].by = campaign BY <1>3, <2>3 DEF Current
    <3> QED BY <1>3, <3>2, <3>3
  <2>4. CASE i # bench /\ j # bench
    BY <1>5, <2>4 DEF CampaignInv, StoppedInOrder
  <2> QED BY <2>2, <2>3, <2>4
<1> QED BY <1>4, <1>7, <1>8, <1>9, <1>10, <1>11 DEF CampaignInv

(* Steps that leave the files alone.                                       *)
LEMMA FilesKept ==
  ASSUME CampaignInv, UNCHANGED <<campaign, text, drawn, report>>
  PROVE  FilesOK' /\ TextAndChartsAgree' /\ StoppedInOrder' /\ ReportOK'
BY DEF CampaignInv, FilesOK, TextAndChartsAgree, StoppedInOrder, ReportOK

(* Steps of the bench that runs, but for its first and its last.           *)
LEMMA SameTurn ==
  ASSUME CampaignInv, UNCHANGED <<campaign, bench, text>>,
         stage \in {"measure", "write"}, stage' \in {"measure", "write"}
  PROVE  /\ BenchesInTurn' /\ bench \in DOMAIN Benches /\ Current \in Stem
         /\ Current' = Current /\ ~text[Current].told /\ text[Current].by = campaign
<1>1. Current' = Current BY DEF Current
<1>2. BenchesInTurn' BY <1>1 DEF CampaignInv, BenchesInTurn
<1>3. bench \in DOMAIN Benches /\ Current \in Stem
  BY BenchesAreNamed DEF CampaignInv, BenchesInTurn, Current
<1>4. text[Current] = [by |-> campaign, told |-> FALSE] BY DEF CampaignInv, BenchesInTurn
<1> QED BY <1>1, <1>2, <1>3, <1>4

(* The CPU bench is the last: nothing comes after it.                      *)
LEMMA WebotsIsLast ==
  ASSUME CampaignInv, bench # 0, Current = "webots_cpu" PROVE Successor = 0
<1>1. bench \in DOMAIN Benches /\ Len(Benches) \in DOMAIN Benches
  BY BenchesAreNamed DEF CampaignInv, BenchesInTurn
<1>2. Benches[bench] = Benches[Len(Benches)] BY BenchesAreNamed DEF Current
<1>3. bench = Len(Benches) BY <1>1, <1>2, BenchesAreNamed
<1> QED BY <1>3 DEF Successor

LEMMA TurnEnds ==
  ASSUME CampaignInv, CpuInv, Turn(0), UNCHANGED <<campaign, fileVars>>
  PROVE  CampaignInv' /\ CpuInv'
<1>1. UNCHANGED <<campaign, text, drawn, report>> BY DEF fileVars
<1>2. FilesOK' /\ TextAndChartsAgree' /\ StoppedInOrder' BY <1>1, FilesKept
<1>3. BenchesInTurn' /\ WrittenOrToDo' /\ VerdictInItsBench' /\ ReportOK' /\ CpuInv'
  BY <1>1, TurnKeepsFiles
<1> QED BY <1>2, <1>3 DEF CampaignInv

(* A bench that is skipped, gives up or dies leaves the files as they are. *)
LEMMA LeavingKeeps ==
  ASSUME CampaignInv, CpuInv, WebotsSkips \/ WebotsGivesUp \/ BenchDies
  PROVE  CampaignInv' /\ CpuInv'
<1>1. CASE WebotsSkips
  <2>1. bench # 0 BY <1>1 DEF WebotsSkips, CampaignInv, BenchesInTurn
  <2>2. Successor = 0 BY <1>1, <2>1, WebotsIsLast DEF WebotsSkips
  <2> QED BY <1>1, <2>2, TurnEnds DEF WebotsSkips
<1>2. CASE WebotsGivesUp
  <2>1. bench # 0 BY <1>2 DEF WebotsGivesUp, CampaignInv, BenchesInTurn
  <2>2. Current = "webots_cpu" BY <1>2 DEF WebotsGivesUp, CampaignInv, VerdictInItsBench
  <2>3. Successor = 0 BY <2>1, <2>2, WebotsIsLast
  <2> QED BY <1>2, <2>3, TurnEnds DEF WebotsGivesUp
<1>3. CASE BenchDies
  BY <1>3, TurnEnds DEF BenchDies, AfterFailure
<1> QED BY <1>1, <1>2, <1>3

LEMMA MeasuringKeeps ==
  ASSUME CampaignInv, CpuInv, BenchMeasures \/ WebotsRuns \/ WebotsMeasured
  PROVE  CampaignInv' /\ CpuInv'
<1>1. /\ UNCHANGED <<campaign, bench, text, drawn, report>>
      /\ stage = "measure" /\ stage' \in {"measure", "write"}
  BY DEF BenchMeasures, WebotsRuns, WebotsMeasured, fileVars
<1>2. FilesOK' /\ TextAndChartsAgree' /\ StoppedInOrder' /\ ReportOK' BY <1>1, FilesKept
<1>3. BenchesInTurn' /\ Current' = Current BY <1>1, SameTurn
<1>4. WrittenOrToDo'
  <2>1. stage' = "write" => todo' = Artefacts(Current)
    BY <1>1 DEF BenchMeasures, WebotsRuns, WebotsMeasured
  <2>2. /\ Artefacts(Current) \in Seq(ToSet(Artefacts(Current)))
        /\ Len(Artefacts(Current)) \in Nat
    BY ArtefactsListed, LenProperties
  <2>3. \A i \in DOMAIN Artefacts(Current) : ~(i <= 0) /\ 0 + i = i
    BY <2>2, LenProperties
  <2> QED BY <1>3, <2>1, <2>2, <2>3 DEF WrittenOrToDo
<1>5. VerdictInItsBench'
  <2>1. CASE BenchMeasures
    <3>1. verdict = "none" /\ verdict' = verdict
      BY <2>1 DEF BenchMeasures, cpuVars, CampaignInv, VerdictInItsBench
    <3> QED BY <3>1 DEF VerdictInItsBench
  <2>2. CASE WebotsRuns BY <2>2, <1>3 DEF WebotsRuns, VerdictInItsBench
  <2>3. CASE WebotsMeasured BY <2>3 DEF WebotsMeasured, CpuRestart, VerdictInItsBench
  <2> QED BY <2>1, <2>2, <2>3
<1>6. CpuInv'
  <2>1. CASE BenchMeasures BY <2>1, CpuStep DEF BenchMeasures
  <2>2. CASE WebotsRuns BY <2>2, CpuStep DEF WebotsRuns
  <2>3. CASE WebotsMeasured BY <2>3, RestartsAtInit DEF WebotsMeasured
  <2> QED BY <2>1, <2>2, <2>3
<1> QED BY <1>2, <1>3, <1>4, <1>5, <1>6 DEF CampaignInv

(* An artefact is written while its bench's text does not yet name it.     *)
LEMMA BenchWritesKeeps ==
  ASSUME CampaignInv, CpuInv, BenchWrites PROVE CampaignInv' /\ CpuInv'
<1> DEFINE mine == ToSet(Artefacts(Current))
<1>1. /\ UNCHANGED <<campaign, bench, stage, text, report, cpuVars>>
      /\ stage = "write" /\ todo # <<>> /\ todo' = Tail(todo)
      /\ drawn' = [drawn EXCEPT ![Head(todo)] = campaign]
  BY DEF BenchWrites
<1>2. BenchesInTurn' /\ Current \in Stem /\ Current' = Current /\ ~text[Current].told
  BY <1>1, SameTurn
<1> DEFINE order == Artefacts(Current)
           written == Len(order) - Len(todo)
<1>3. /\ todo \in Seq(mine) /\ written >= 0
      /\ \A i \in DOMAIN todo : todo[i] = order[written + i]
      /\ \A i \in DOMAIN order : i <= written => drawn[order[i]] = campaign
  BY <1>1 DEF CampaignInv, WrittenOrToDo
<1>0. /\ order \in Seq(mine) /\ Len(order) \in Nat /\ DOMAIN order = 1 .. Len(order)
      /\ \A i \in DOMAIN order : order[i] \in mine
      /\ \A i, j \in DOMAIN order : order[i] = order[j] => i = j
  BY <1>2, ArtefactsListed, ArtefactsOnce, BenchesAreNamed, LenProperties DEF ToSet
<1> HIDE DEF mine, order
<1>4. /\ Head(todo) \in mine /\ Tail(todo) \in Seq(mine) /\ Head(todo) = order[written + 1]
      /\ Len(order) - Len(Tail(todo)) = written + 1 /\ written + 1 \in DOMAIN order
      /\ \A i \in DOMAIN Tail(todo) : Tail(todo)[i] = order[(written + 1) + i]
      /\ written \in Int
  <2>1. Head(todo) \in mine /\ Tail(todo) \in Seq(mine) /\ Len(Tail(todo)) = Len(todo) - 1
        /\ \A i \in 1 .. Len(Tail(todo)) : Tail(todo)[i] = todo[i + 1]
        /\ Head(todo) = todo[1] /\ Len(todo) \in Nat
    BY <1>1, <1>3, HeadTailProperties, LenProperties
  <2>2. DOMAIN todo = 1 .. Len(todo) /\ DOMAIN Tail(todo) = 1 .. Len(Tail(todo)) /\ Len(todo) # 0
    BY <1>1, <1>3, <2>1, LenProperties, EmptySeq
  <2>3. Head(todo) = order[written + 1] BY <1>3, <2>1, <2>2
  <2>4. ASSUME NEW i \in DOMAIN Tail(todo) PROVE Tail(todo)[i] = order[(written + 1) + i]
    <3>1. i \in Nat /\ i + 1 \in DOMAIN todo /\ Tail(todo)[i] = todo[i + 1] BY <2>1, <2>2
    <3>2. todo[i + 1] = order[written + (i + 1)] BY <1>3, <3>1
    <3>3. written + (i + 1) = (written + 1) + i BY <1>0, <2>1, <3>1
    <3> QED BY <3>1, <3>2, <3>3
  <2>5. Len(order) - Len(Tail(todo)) = written + 1 /\ written \in Int
        /\ written + 1 \in DOMAIN order
    BY <1>0, <1>3, <2>1, <2>2
  <2> QED BY <2>1, <2>3, <2>4, <2>5
<1>5. mine \subseteq Artefact BY <1>2, ArtefactOfStem DEF mine
<1> HIDE DEF written
<1>6. campaign \in Nat /\ drawn \in [Artefact -> Int] /\ \A a \in Artefact : drawn[a] <= campaign
  BY DEF CampaignInv, FilesOK
<1>7. /\ drawn' \in [Artefact -> Int] /\ drawn'[Head(todo)] = campaign
      /\ \A a \in Artefact : a # Head(todo) => drawn'[a] = drawn[a]
      /\ \A a \in Artefact : drawn'[a] <= campaign /\ drawn'[a] >= drawn[a]
  BY <1>1, <1>4, <1>5, <1>6
<1>8. FilesOK' BY <1>1, <1>7 DEF CampaignInv, FilesOK
<1>9. WrittenOrToDo'
  <2>1. Artefacts(Current') = order /\ ToSet(order) = mine BY <1>2 DEF mine, order
  <2>2. Len(order) - Len(todo') = written + 1 BY <1>1, <1>4
  <2>3. \A i \in DOMAIN order : i <= written + 1 => drawn'[order[i]] = campaign'
    <3> SUFFICES ASSUME NEW i \in DOMAIN order, i <= written + 1
                 PROVE  drawn'[order[i]] = campaign'
      OBVIOUS
    <3>1. CASE i = written + 1 BY <1>1, <1>4, <1>7, <3>1
    <3>2. CASE i # written + 1
      <4>1. i <= written /\ order[i] # Head(todo) BY <1>0, <1>4, <3>2
      <4> QED BY <1>0, <1>1, <1>3, <1>5, <1>7, <4>1
    <3> QED BY <3>1, <3>2
  <2>4. written + 1 >= 0 BY <1>3, <1>4 DEF written
  <2> QED BY <1>1, <1>4, <2>1, <2>2, <2>3, <2>4 DEF WrittenOrToDo
<1>10. TextAndChartsAgree'
  <2>1. ASSUME NEW s \in Stem
        PROVE  LET a == Artefacts(s) IN
               /\ \A i \in DOMAIN a : drawn'[a[i]] <= text[s].by
               /\ \A i, j \in DOMAIN a : i < j => drawn'[a[j]] <= drawn'[a[i]]
               /\ text[s].told => \A i \in DOMAIN a : drawn'[a[i]] = text[s].by
    <3>1. CASE s = Current
      <4>1. Artefacts(s) = order /\ text[s].by = campaign /\ ~text[s].told
        BY <1>1, <1>2, <3>1, SameTurn DEF order
      <4>2. \A i \in DOMAIN order : order[i] \in Artefact BY <1>0, <1>5
      <4>3. \A i \in DOMAIN order : drawn'[order[i]] <= campaign BY <1>7, <4>2
      <4>4. ASSUME NEW i \in DOMAIN order, NEW j \in DOMAIN order, i < j
            PROVE  drawn'[order[j]] <= drawn'[order[i]]
        <5>1. CASE i <= written + 1
          <6>1. drawn'[order[i]] = campaign
            <7>1. CASE i = written + 1 BY <1>4, <1>7, <7>1
            <7>2. CASE i # written + 1
              <8>1. i <= written /\ order[i] # Head(todo) BY <1>0, <1>4, <5>1, <7>2
              <8> QED BY <1>3, <1>7, <4>2, <8>1
            <7> QED BY <7>1, <7>2
          <6> QED BY <4>3, <6>1
        <5>2. CASE ~(i <= written + 1)
          <6>1. i # written + 1 /\ j # written + 1 BY <1>0, <1>4, <4>4, <5>2
          <6>2. order[i] # Head(todo) /\ order[j] # Head(todo) BY <1>0, <1>4, <6>1
          <6>3. drawn'[order[i]] = drawn[order[i]] /\ drawn'[order[j]] = drawn[order[j]]
            BY <1>7, <4>2, <6>2
          <6>4. drawn[order[j]] <= drawn[order[i]]
            BY <1>2, <4>4 DEF CampaignInv, TextAndChartsAgree, order
          <6> QED BY <6>3, <6>4
        <5> QED BY <5>1, <5>2
      <4> QED BY <4>1, <4>3, <4>4
    <3>2. CASE s # Current
      <4>1. ASSUME NEW i \in DOMAIN Artefacts(s)
            PROVE  drawn'[Artefacts(s)[i]] = drawn[Artefacts(s)[i]]
        <5>1. Artefacts(s)[i] \in ToSet(Artefacts(s)) BY DEF ToSet
        <5>2. Artefacts(s)[i] \notin mine
          BY <1>2, <3>2, <5>1, ArtefactsApart, BenchesAreNamed DEF mine
        <5> QED BY <1>4, <1>7, <5>2, ArtefactOfStem
      <4> QED BY <4>1 DEF CampaignInv, TextAndChartsAgree
    <3> QED BY <3>1, <3>2
  <2>2. ASSUME NEW s \in DOMAIN report, report[s].told, NEW c \in ToSet(ChartStems(s))
        PROVE  c \in report[s].links /\ drawn'[<<"svg", c>>] >= report[s].by
    <3>1. s \in Stem /\ report[s].by \in Int BY DEF CampaignInv, ReportOK
    <3>2. <<"svg", c>> \in Artefact BY <3>1, ChartsAreArtefacts, ArtefactOfStem
    <3>3. c \in report[s].links /\ drawn[<<"svg", c>>] >= report[s].by
      BY <2>2 DEF CampaignInv, TextAndChartsAgree
    <3>4. drawn[<<"svg", c>>] \in Int /\ drawn'[<<"svg", c>>] \in Int
          /\ drawn'[<<"svg", c>>] >= drawn[<<"svg", c>>]
      BY <1>6, <1>7, <3>2
    <3> QED BY <3>1, <3>3, <3>4
  <2> QED BY <1>1, <2>1, <2>2 DEF TextAndChartsAgree
<1>11. ReportOK' /\ StoppedInOrder'
  BY <1>1 DEF CampaignInv, ReportOK, StoppedInOrder
<1>12. VerdictInItsBench'
  BY <1>1, <1>2 DEF CampaignInv, VerdictInItsBench, cpuVars
<1>13. CpuInv' BY <1>1, CpuStep
<1> QED BY <1>2, <1>8, <1>9, <1>10, <1>11, <1>12, <1>13 DEF CampaignInv

(* The text names the artefacts once all of them are written.              *)
LEMMA BenchClosesKeeps ==
  ASSUME CampaignInv, CpuInv, BenchCloses PROVE CampaignInv' /\ CpuInv'
<1>1. /\ UNCHANGED <<campaign, drawn, report>>
      /\ stage = "write" /\ todo = <<>> /\ Turn(Successor) /\ text' = Announced(Current)
  BY DEF BenchCloses
<1>2. bench \in DOMAIN Benches /\ Current \in Stem
      /\ text[Current] = [by |-> campaign, told |-> FALSE]
  BY <1>1, BenchesAreNamed DEF CampaignInv, BenchesInTurn, Current
<1>3. text \in [Stem -> [by : Int, told : BOOLEAN]] /\ campaign \in Nat
      /\ \A s \in Stem : text[s].by <= campaign
  BY DEF CampaignInv, FilesOK
<1>4. /\ text' \in [Stem -> [by : Int, told : BOOLEAN]]
      /\ text'[Current] = [by |-> campaign, told |-> TRUE]
      /\ \A s \in Stem : s # Current => text'[s] = text[s]
  <2>1. text' = [text EXCEPT ![Current] = [by |-> text[Current].by, told |-> TRUE]]
    BY <1>1 DEF Announced
  <2>2. [by |-> text[Current].by, told |-> TRUE] = [by |-> campaign, told |-> TRUE]
    BY <1>2
  <2> QED BY <1>2, <1>3, <2>1, <2>2
<1>5. \A s \in Stem : text'[s].by = text[s].by /\ (text[s].told => text'[s].told)
  BY <1>2, <1>4
<1>6. FilesOK' BY <1>1, <1>3, <1>4, <1>5 DEF CampaignInv, FilesOK
<1>7. BenchesInTurn' /\ WrittenOrToDo' /\ VerdictInItsBench' /\ ReportOK' /\ CpuInv'
  <2>1. \/ Successor = 0
        \/ Successor = bench + 1 /\ bench \in 1 .. Len(Benches) - 1
    BY <1>2, BenchesAreNamed DEF Successor
  <2>2. bench # 0 BY <1>2, BenchesAreNamed
  <2>3. UNCHANGED <<campaign, drawn, report>> BY <1>1
  <2>4. \A s \in Stem : bench = 0 \/ s # Current => text'[s] = text[s] BY <1>4, <2>2
  <2>5. CASE Successor = 0 BY <1>1, <2>3, <2>4, <2>5, TurnKeepsFiles
  <2>6. CASE Successor = bench + 1 /\ bench \in 1 .. Len(Benches) - 1
    BY <1>1, <1>4, <2>3, <2>4, <2>6, TurnKeepsFiles
  <2> QED BY <2>1, <2>5, <2>6
<1>8. TextAndChartsAgree'
  <2>1. ASSUME NEW s \in Stem, text'[s].told, NEW i \in DOMAIN Artefacts(s)
        PROVE  drawn[Artefacts(s)[i]] = text'[s].by
    <3>1. CASE s = Current
      <4> DEFINE order == Artefacts(Current)
      <4>1. /\ Len(todo) = 0 /\ Len(order) \in Nat /\ DOMAIN order = 1 .. Len(order)
            /\ Artefacts(s) = order
        BY <1>1, <3>1, ArtefactsListed, LenProperties
      <4>2. \A k \in DOMAIN order : k <= Len(order) - Len(todo) => drawn[order[k]] = campaign
        BY <1>1 DEF CampaignInv, WrittenOrToDo
      <4> HIDE DEF order
      <4>3. drawn[order[i]] = campaign BY <2>1, <4>1, <4>2
      <4> QED BY <1>4, <3>1, <4>1, <4>3
    <3>2. CASE s # Current
      BY <1>4, <2>1, <3>2 DEF CampaignInv, TextAndChartsAgree
    <3> QED BY <3>1, <3>2
  <2>2. \A s \in Stem : text'[s].by = text[s].by BY <1>5
  <2> QED BY <1>1, <2>1, <2>2 DEF CampaignInv, TextAndChartsAgree
<1>9. StoppedInOrder'
  <2>1. \A i \in DOMAIN Benches : Benches[i] \in Stem BY BenchesAreNamed
  <2> QED BY <1>5, <2>1 DEF CampaignInv, StoppedInOrder
<1> QED BY <1>6, <1>7, <1>8, <1>9 DEF CampaignInv

(* The report is of the texts and the charts that are there.               *)
LEMMA MakeReportKeeps ==
  ASSUME CampaignInv, CpuInv, MakeReport PROVE CampaignInv' /\ CpuInv'
<1>1. /\ UNCHANGED <<campaign, bench, stage, todo, text, drawn, cpuVars>>
      /\ report' = [s \in {t \in Stem : text[t].by # Nothing} |-> Section(s)]
  BY DEF MakeReport
<1>2. FilesOK' BY <1>1 DEF CampaignInv, FilesOK
<1>3. BenchesInTurn' /\ WrittenOrToDo'
  <2>1. Current' = Current BY <1>1 DEF Current
  <2>2. BenchesInTurn' BY <1>1, <2>1 DEF CampaignInv, BenchesInTurn
  <2> QED BY <1>1, <2>1, <2>2 DEF CampaignInv, WrittenOrToDo
<1>4. VerdictInItsBench'
  <2>1. Current' = Current BY <1>1 DEF Current
  <2> QED BY <1>1, <2>1 DEF CampaignInv, VerdictInItsBench, cpuVars
<1>5. \A s \in DOMAIN report' :
        /\ s \in Stem /\ text[s].by # Nothing /\ text[s].by \in Int
        /\ report'[s].by = text[s].by /\ report'[s].told = text[s].told
        /\ report'[s].links = {c \in ToSet(ChartStems(s)) : drawn[<<"svg", c>>] # Nothing}
  BY <1>1 DEF Section, CampaignInv, FilesOK
<1>6. ReportOK' BY <1>5 DEF ReportOK
<1>7. TextAndChartsAgree'
  <2>1. ASSUME NEW s \in DOMAIN report', report'[s].told, NEW c \in ToSet(ChartStems(s))
        PROVE  c \in report'[s].links /\ drawn[<<"svg", c>>] >= report'[s].by
    <3>1. drawn[<<"svg", c>>] = text[s].by
      <4>1. PICK i \in DOMAIN Artefacts(s) : <<"svg", c>> = Artefacts(s)[i]
        BY ChartsAreArtefacts DEF ToSet
      <4> QED BY <1>5, <2>1, <4>1 DEF CampaignInv, TextAndChartsAgree
    <3> QED BY <1>5, <2>1, <3>1
  <2> QED BY <1>1, <2>1 DEF CampaignInv, TextAndChartsAgree
<1>8. StoppedInOrder' BY <1>1 DEF CampaignInv, StoppedInOrder
<1>9. CpuInv' BY <1>1, CpuStep
<1> QED BY <1>2, <1>3, <1>4, <1>6, <1>7, <1>8, <1>9 DEF CampaignInv

LEMMA CampaignStep ==
  CampaignInv /\ CpuInv /\ [CampaignNext]_campaignVars => CampaignInv' /\ CpuInv'
<1> SUFFICES ASSUME CampaignInv, CpuInv, [CampaignNext]_campaignVars
             PROVE  CampaignInv' /\ CpuInv'
  OBVIOUS
<1>1. CASE MakeBench BY <1>1, MakeBenchKeeps
<1>2. CASE BenchOpens BY <1>2, BenchOpensKeeps
<1>3. CASE WebotsSkips \/ WebotsGivesUp \/ BenchDies BY <1>3, LeavingKeeps
<1>4. CASE BenchMeasures \/ WebotsRuns \/ WebotsMeasured BY <1>4, MeasuringKeeps
<1>5. CASE BenchWrites BY <1>5, BenchWritesKeeps
<1>6. CASE BenchCloses BY <1>6, BenchClosesKeeps
<1>7. CASE MakeReport BY <1>7, MakeReportKeeps
<1>8. CASE UNCHANGED campaignVars
  <2>1. UNCHANGED <<campaign, text, drawn, report, bench, stage, todo, cpuVars>>
    BY <1>8 DEF campaignVars, fileVars
  <2>2. FilesOK' /\ TextAndChartsAgree' /\ StoppedInOrder' /\ ReportOK' BY <2>1, FilesKept
  <2>3. Current' = Current BY <2>1 DEF Current
  <2>4. BenchesInTurn' BY <2>1, <2>3 DEF CampaignInv, BenchesInTurn
  <2>5. WrittenOrToDo' BY <2>1, <2>3 DEF CampaignInv, WrittenOrToDo
  <2>6. VerdictInItsBench' BY <2>1, <2>3 DEF CampaignInv, VerdictInItsBench, cpuVars
  <2>7. CpuInv' BY <2>1, CpuStep
  <2> QED BY <2>2, <2>4, <2>5, <2>6, <2>7 DEF CampaignInv
<1> QED BY <1>1, <1>2, <1>3, <1>4, <1>5, <1>6, <1>7, <1>8 DEF CampaignNext

LEMMA CampaignInvariant == CampaignSpec => [](CampaignInv /\ CpuInv)
<1> QED BY CampaignInitInv, CampaignStep, PTL DEF CampaignSpec

(* The published figures are compared, and the increments of the CPU bench *)
(* plotted, exactly if every world of the sweep had a run that counted, in *)
(* every campaign and whatever died in it (bench_webots_cpu.c, main).      *)
THEOREM CampaignVerdictsFromEveryWorld == CampaignSpec => []VerdictsFromEveryWorld
<1>1. CpuInv => VerdictsFromEveryWorld BY DEF CpuInv
<1> QED BY <1>1, CampaignInvariant, PTL

(* Whichever benches died, failed, were skipped or ran again: no chart or  *)
(* table in results/ is newer than its text or than one written before it, *)
(* and one whose text says where its artefacts are, in results/ or in      *)
(* RESULTS.md, is as new as that text (bench_common.h, the benches' last   *)
(* lines, the Makefile's loop, report.c).                                  *)
THEOREM CampaignTextAndChartsAgree == CampaignSpec => []TextAndChartsAgree
<1>1. CampaignInv => TextAndChartsAgree BY DEF CampaignInv
<1> QED BY <1>1, CampaignInvariant, PTL

(* No bench leaves a text of a campaign in which one before it did not     *)
(* finish: make stops at the first that fails (Makefile, bench).           *)
THEOREM CampaignStoppedInOrder == CampaignSpec => []StoppedInOrder
<1>1. CampaignInv => StoppedInOrder BY DEF CampaignInv
<1> QED BY <1>1, CampaignInvariant, PTL

-----------------------------------------------------------------------------
(* Sums over finite sets, taken element by element in the order of pick.   *)

BelowNat == {p \in Nat \X Nat : p[1] < p[2]}

(* Induction, over sets instead of predicates.                             *)
LEMMA SetInduction ==
  ASSUME NEW T, 0 \in T, \A n \in Nat : n \in T => n + 1 \in T
  PROVE  Nat \subseteq T
<1> DEFINE U == Nat \ T
<1>1. SUFFICES ASSUME U # {} PROVE FALSE OBVIOUS
<1>2. IsWellFoundedOn(BelowNat, Nat)
  <2>1. OpToRel(<, Nat) = BelowNat BY DEF OpToRel, BelowNat
  <2> QED BY <2>1, NatLessThanWellFounded
<1>3. PICK m \in U : \A y \in U : ~(<<y, m>> \in BelowNat)
  BY <1>1, <1>2, WFMin, Zenon
<1>4. \A y \in U : ~(y < m) BY <1>3 DEF BelowNat
<1>5. m - 1 \in Nat /\ m - 1 < m /\ (m - 1) + 1 = m OBVIOUS
<1> QED BY <1>4, <1>5

(* A pick of every set but the empty one.                                  *)
Picks(S) == {pick \in [(SUBSET S) \ {{}} -> S] : \A s \in (SUBSET S) \ {{}} : pick[s] \in s}

Without(s, pick) == s \ {pick[s]}

(* What holds of the empty set, and of a set whenever of the set without   *)
(* its pick, holds of every subset of a finite set.                        *)
LEMMA SubsetInduction ==
  ASSUME NEW S, IsFiniteSet(S), NEW pick \in Picks(S), NEW G, {} \in G,
         \A s \in (SUBSET S) \ {{}} : Without(s, pick) \in G => s \in G
  PROVE  SUBSET S \subseteq G
<1> DEFINE T == {n \in Nat : \A s \in SUBSET S : Cardinality(s) = n => s \in G}
<1>1. \A s \in SUBSET S : IsFiniteSet(s) /\ Cardinality(s) \in Nat
  BY FS_Subset, FS_CardinalityType
<1>2. 0 \in T
  <2>1. \A s \in SUBSET S : Cardinality(s) = 0 => s = {} BY <1>1, FS_EmptySet
  <2> QED BY <2>1
<1>3. ASSUME NEW n \in Nat, n \in T PROVE n + 1 \in T
  <2> SUFFICES ASSUME NEW s \in SUBSET S, Cardinality(s) = n + 1 PROVE s \in G
    OBVIOUS
  <2>1. s # {} BY FS_EmptySet
  <2>2. pick[s] \in s BY <2>1 DEF Picks
  <2>3. Cardinality(Without(s, pick)) = n
    <3>1. Cardinality(s \ {pick[s]}) = Cardinality(s) - 1
      BY <1>1, <2>2, FS_RemoveElement
    <3> QED BY <3>1 DEF Without
  <2>4. Without(s, pick) \in SUBSET S BY DEF Without
  <2> QED BY <1>3, <2>1, <2>3, <2>4
<1>4. Nat \subseteq T BY <1>2, <1>3, SetInduction
<1> QED BY <1>1, <1>4

(* One step of the sum: v of the pick and what is left without it.         *)
SumStep(f, v, pick, s) == IF s = {} THEN 0 ELSE f[Without(s, pick)] + v[pick[s]]

IsSum(f, S, pick, v) == f = [s \in SUBSET S |-> SumStep(f, v, pick, s)]

LEMMA SumExists ==
  ASSUME NEW S, IsFiniteSet(S), NEW pick \in Picks(S), NEW v
  PROVE  \E f : IsSum(f, S, pick, v)
<1> DEFINE Small(n) == {s \in SUBSET S : Cardinality(s) <= n}
           Upto(n) == \E f : f = [s \in Small(n) |-> SumStep(f, v, pick, s)]
           T == {n \in Nat : Upto(n)}
<1>1. \A s \in SUBSET S : IsFiniteSet(s) /\ Cardinality(s) \in Nat
  BY FS_Subset, FS_CardinalityType
<1>2. 0 \in T
  <2>1. \A s \in Small(0) : s = {} BY <1>1, FS_EmptySet
  <2>2. [s \in Small(0) |-> 0] = [s \in Small(0) |-> SumStep([r \in Small(0) |-> 0], v, pick, s)]
    BY <2>1 DEF SumStep
  <2> QED BY <2>2
<1>3. ASSUME NEW n \in Nat, n \in T PROVE n + 1 \in T
  <2>1. PICK f : f = [s \in Small(n) |-> SumStep(f, v, pick, s)] BY <1>3
  <2> DEFINE g == [s \in Small(n + 1) |-> SumStep(f, v, pick, s)]
  <2>2. \A s \in Small(n) : s \in Small(n + 1) /\ g[s] = f[s] BY <1>1, <2>1
  <2>3. ASSUME NEW s \in Small(n + 1), s # {} PROVE Without(s, pick) \in Small(n)
    <3>1. pick[s] \in s BY <2>3 DEF Picks
    <3>2. Cardinality(Without(s, pick)) = Cardinality(s) - 1
      BY <1>1, <3>1, FS_RemoveElement DEF Without
    <3> QED BY <1>1, <3>2 DEF Without
  <2>4. \A s \in Small(n + 1) : SumStep(f, v, pick, s) = SumStep(g, v, pick, s)
    <3> HIDE DEF g, Small
    <3> QED BY <2>2, <2>3 DEF SumStep
  <2>5. g = [s \in Small(n + 1) |-> SumStep(g, v, pick, s)] BY <2>4
  <2>6. Upto(n + 1)
    <3> HIDE DEF g
    <3> QED BY <2>5
  <2>7. n + 1 \in Nat OBVIOUS
  <2> HIDE DEF Upto
  <2> QED BY <2>6, <2>7
<1>4. Cardinality(S) \in T
  <2>1. Nat \subseteq T BY <1>2, <1>3, SetInduction
  <2> QED BY <2>1, FS_CardinalityType
<1>5. Small(Cardinality(S)) = SUBSET S BY FS_Subset
<1> QED BY <1>4, <1>5 DEF IsSum

LEMMA SumOf ==
  ASSUME NEW S, NEW pick, NEW v, NEW f, IsSum(f, S, pick, v), NEW s \in SUBSET S
  PROVE  f[s] = SumStep(f, v, pick, s)
BY DEF IsSum

(* A sum of terms each no more than another's, but for one that exceeds it *)
(* by d, exceeds the other sum by no more than d.                          *)
LEMMA SumBelow ==
  ASSUME NEW S, IsFiniteSet(S), NEW pick \in Picks(S), NEW v, NEW w, NEW p, NEW d \in Nat,
         \A x \in S : /\ v[x] \in Int /\ w[x] \in Int
                      /\ v[x] <= w[x] + IF x = p THEN d ELSE 0,
         NEW f, IsSum(f, S, pick, v), NEW g, IsSum(g, S, pick, w)
  PROVE  f[S] \in Int /\ g[S] \in Int /\ f[S] <= g[S] + d
<1> DEFINE G == {s \in SUBSET S : /\ f[s] \in Int /\ g[s] \in Int
                                  /\ f[s] <= g[s] + IF p \in s THEN d ELSE 0}
<1>1. {} \in G
  <2>1. f[{}] = 0 /\ g[{}] = 0 BY SumOf DEF SumStep
  <2> QED BY <2>1
<1>2. ASSUME NEW s \in (SUBSET S) \ {{}}, Without(s, pick) \in G PROVE s \in G
  <2> DEFINE x == pick[s]
             r == Without(s, pick)
  <2>1. x \in s /\ x \in S BY DEF Picks
  <2>2. f[s] = f[r] + v[x] /\ g[s] = g[r] + w[x] BY SumOf DEF SumStep
  <2>3. /\ f[r] \in Int /\ g[r] \in Int /\ f[r] <= g[r] + IF p \in r THEN d ELSE 0
    BY <1>2
  <2>4. p \in s <=> p \in r \/ p = x BY <2>1 DEF Without
  <2>5. p = x => p \notin r BY DEF Without
  <2>6. /\ v[x] \in Int /\ w[x] \in Int /\ v[x] <= w[x] + IF x = p THEN d ELSE 0
    BY <2>1
  <2> HIDE DEF x, r
  <2> QED BY <2>2, <2>3, <2>4, <2>5, <2>6
<1>3. SUBSET S \subseteq G
  <2> HIDE DEF G
  <2> QED BY <1>1, <1>2, SubsetInduction
<1>4. S \in G BY <1>3
<1> QED BY <1>4

(* A sum of terms each c times another's is c times the other sum.         *)
LEMMA SumScaled ==
  ASSUME NEW S, IsFiniteSet(S), NEW pick \in Picks(S), NEW v, NEW w, NEW c \in Nat,
         \A x \in S : w[x] \in Nat /\ v[x] = c * w[x],
         NEW f, IsSum(f, S, pick, v), NEW g, IsSum(g, S, pick, w)
  PROVE  g[S] \in Nat /\ f[S] = c * g[S]
<1> DEFINE G == {s \in SUBSET S : g[s] \in Nat /\ f[s] = c * g[s]}
<1>1. {} \in G
  <2>1. f[{}] = 0 /\ g[{}] = 0 BY SumOf DEF SumStep
  <2> QED BY <2>1
<1>2. ASSUME NEW s \in (SUBSET S) \ {{}}, Without(s, pick) \in G PROVE s \in G
  <2> DEFINE x == pick[s]
             r == Without(s, pick)
  <2>1. x \in s /\ x \in S BY DEF Picks
  <2>2. f[s] = f[r] + v[x] /\ g[s] = g[r] + w[x] BY SumOf DEF SumStep
  <2>3. g[r] \in Nat /\ f[r] = c * g[r] BY <1>2
  <2>4. w[x] \in Nat /\ v[x] = c * w[x] BY <2>1
  <2> HIDE DEF x, r
  <2>5. c * (g[r] + w[x]) = c * g[r] + c * w[x] BY <2>3, <2>4
  <2> QED BY <2>2, <2>3, <2>4, <2>5
<1>3. SUBSET S \subseteq G
  <2> HIDE DEF G
  <2> QED BY <1>1, <1>2, SubsetInduction
<1>4. S \in G BY <1>3
<1> QED BY <1>4

LEMMA SumIsInt ==
  ASSUME NEW S, IsFiniteSet(S), NEW pick \in Picks(S), NEW v, \A x \in S : v[x] \in Int,
         NEW f, IsSum(f, S, pick, v), NEW s \in SUBSET S
  PROVE  f[s] \in Int
<1> DEFINE G == {r \in SUBSET S : f[r] \in Int}
<1>1. {} \in G
  <2>1. f[{}] = SumStep(f, v, pick, {})
    <3>1. {} \in SUBSET S OBVIOUS
    <3> QED BY <3>1, SumOf
  <2> QED BY <2>1 DEF SumStep
<1>2. ASSUME NEW r \in (SUBSET S) \ {{}}, Without(r, pick) \in G PROVE r \in G
  <2>1. pick[r] \in r /\ pick[r] \in S BY DEF Picks
  <2>2. f[r] = f[Without(r, pick)] + v[pick[r]] BY SumOf DEF SumStep
  <2> QED BY <1>2, <2>1, <2>2
<1>3. SUBSET S \subseteq G
  <2> HIDE DEF G
  <2> QED BY <1>1, <1>2, SubsetInduction
<1> QED BY <1>3

-----------------------------------------------------------------------------
(* The library's folds are such sums.                                      *)

AnyOf(S) == [s \in (SUBSET S) \ {{}} |-> CHOOSE x \in s : TRUE]
LastOf(S) == [s \in (SUBSET S) \ {{}} |-> Max(s)]

Ticks(tree) == [p \in Process |-> tree[p].ticks]

LEMMA AnyPicks == ASSUME NEW S PROVE AnyOf(S) \in Picks(S)
<1>1. ASSUME NEW s \in (SUBSET S) \ {{}} PROVE (CHOOSE x \in s : TRUE) \in s
  OBVIOUS
<1> QED BY <1>1 DEF AnyOf, Picks

LEMMA TreeCpuIsSum ==
  ASSUME IsFiniteSet(Process), NEW tree, \A p \in Process : tree[p].ticks \in Int
  PROVE  \E f : IsSum(f, Process, AnyOf(Process), Ticks(tree)) /\ TreeCpu(tree) = f[Process]
<1> DEFINE pick == AnyOf(Process)
           Tree(f) ==
             [s \in SUBSET Process |->
                IF s = {} THEN 0
                ELSE LET x == CHOOSE y \in s : TRUE IN tree[x].ticks + f[s \ {x}]]
<1>1. TreeCpu(tree) = (CHOOSE f : f = Tree(f))[Process]
  BY Zenon DEF TreeCpu, MapThenSumSet, MapThenFoldSet
<1>2. pick \in Picks(Process) BY AnyPicks
<1>3. ASSUME NEW s \in (SUBSET Process) \ {{}}
      PROVE  /\ pick[s] = (CHOOSE y \in s : TRUE) /\ pick[s] \in Process
             /\ Ticks(tree)[pick[s]] = tree[pick[s]].ticks /\ tree[pick[s]].ticks \in Int
             /\ Without(s, pick) = s \ {pick[s]} /\ Without(s, pick) \in SUBSET Process
  <2>1. pick[s] = (CHOOSE y \in s : TRUE) BY DEF AnyOf
  <2>2. pick[s] \in Process BY <1>2 DEF Picks
  <2> QED BY <2>1, <2>2 DEF Ticks, Without
<1> HIDE DEF pick
<1>4. ASSUME NEW f, NEW s \in SUBSET Process
      PROVE  Tree(f)[s] = IF s = {} THEN 0 ELSE tree[pick[s]].ticks + f[Without(s, pick)]
  <2>1. CASE s = {} BY <2>1
  <2>2. CASE s # {}
    <3> DEFINE x == CHOOSE y \in s : TRUE
    <3>1. Tree(f)[s] = tree[x].ticks + f[s \ {x}] BY <2>2
    <3>2. pick[s] = x /\ Without(s, pick) = s \ {x} BY <1>3, <2>2
    <3> HIDE DEF x, Tree
    <3> QED BY <2>2, <3>1, <3>2
  <2> QED BY <2>1, <2>2
<1>5. ASSUME NEW f, \A s \in SUBSET Process : f[s] \in Int, NEW s \in SUBSET Process
      PROVE  SumStep(f, Ticks(tree), pick, s) = Tree(f)[s]
  <2> HIDE DEF Tree
  <2>1. CASE s = {} BY <1>4, <2>1 DEF SumStep
  <2>2. CASE s # {}
    <3>1. f[Without(s, pick)] \in Int BY <1>3, <1>5, <2>2
    <3>2. Tree(f)[s] = tree[pick[s]].ticks + f[Without(s, pick)] BY <1>4, <2>2
    <3>3. SumStep(f, Ticks(tree), pick, s) = f[Without(s, pick)] + tree[pick[s]].ticks
      BY <1>3, <2>2 DEF SumStep
    <3> QED BY <1>3, <2>2, <3>1, <3>2, <3>3
  <2> QED BY <2>1, <2>2
<1>6. ASSUME NEW f, IsSum(f, Process, pick, Ticks(tree)) PROVE f = Tree(f)
  <2>1. \A x \in Process : Ticks(tree)[x] \in Int BY DEF Ticks
  <2>2. \A s \in SUBSET Process : f[s] \in Int BY <1>2, <1>6, <2>1, SumIsInt
  <2>3. \A s \in SUBSET Process : SumStep(f, Ticks(tree), pick, s) = Tree(f)[s]
    BY <1>5, <2>2
  <2>4. f = [s \in SUBSET Process |-> SumStep(f, Ticks(tree), pick, s)] BY <1>6 DEF IsSum
  <2> QED BY <2>3, <2>4
<1>7. ASSUME NEW f, f = Tree(f) PROVE \A s \in SUBSET Process : f[s] \in Int
  <2> DEFINE G == {s \in SUBSET Process : f[s] \in Int}
  <2>1. {} \in G BY <1>7
  <2>2. ASSUME NEW s \in (SUBSET Process) \ {{}}, Without(s, pick) \in G PROVE s \in G
    <3>1. f[s] = Tree(f)[s] BY <1>7
    <3>2. f[s] = tree[pick[s]].ticks + f[Without(s, pick)] BY <1>3, <3>1
    <3> QED BY <1>3, <2>2, <3>2
  <2>3. SUBSET Process \subseteq G
    <3> HIDE DEF G
    <3> QED BY <1>2, <2>1, <2>2, SubsetInduction
  <2> QED BY <2>3
<1>8. ASSUME NEW f, f = Tree(f) PROVE IsSum(f, Process, pick, Ticks(tree))
  <2>1. \A s \in SUBSET Process : f[s] \in Int BY <1>7, <1>8
  <2>2. \A s \in SUBSET Process : SumStep(f, Ticks(tree), pick, s) = Tree(f)[s]
    BY <1>5, <2>1
  <2>3. Tree(f) = [s \in SUBSET Process |-> Tree(f)[s]] OBVIOUS
  <2> QED BY <1>8, <2>2, <2>3 DEF IsSum
<1>9. \E f : f = Tree(f)
  <2>1. PICK f : IsSum(f, Process, pick, Ticks(tree)) BY <1>2, SumExists
  <2> HIDE DEF Tree
  <2> QED BY <1>6, <2>1
<1>10. PICK f : f = Tree(f) /\ TreeCpu(tree) = f[Process]
  <2> DEFINE h == CHOOSE f : f = Tree(f)
  <2>1. h = Tree(h)
    <3> HIDE DEF Tree
    <3> QED BY <1>9, Zenon
  <2> HIDE DEF Tree
  <2> QED BY <1>1, <2>1
<1> QED BY <1>8, <1>10 DEF pick

LEMMA TreeBelow ==
  ASSUME NEW a, NEW b, NEW p, NEW d \in Nat,
         \A x \in Process : /\ a[x].ticks \in Int /\ b[x].ticks \in Int
                            /\ a[x].ticks <= b[x].ticks + IF x = p THEN d ELSE 0
  PROVE  TreeCpu(a) \in Int /\ TreeCpu(b) \in Int /\ TreeCpu(a) <= TreeCpu(b) + d
<1>1. IsFiniteSet(Process)
  BY CpuAssumption, FS_AddElement DEF Process
<1>2. PICK f : IsSum(f, Process, AnyOf(Process), Ticks(a)) /\ TreeCpu(a) = f[Process]
  BY <1>1, TreeCpuIsSum
<1>3. PICK g : IsSum(g, Process, AnyOf(Process), Ticks(b)) /\ TreeCpu(b) = g[Process]
  BY <1>1, TreeCpuIsSum
<1>4. \A x \in Process : /\ Ticks(a)[x] \in Int /\ Ticks(b)[x] \in Int
                         /\ Ticks(a)[x] <= Ticks(b)[x] + IF x = p THEN d ELSE 0
  BY DEF Ticks
<1>5. AnyOf(Process) \in Picks(Process) BY AnyPicks
<1>6. f[Process] \in Int /\ g[Process] \in Int /\ f[Process] <= g[Process] + d
  BY <1>1, <1>2, <1>3, <1>4, <1>5, SumBelow
<1> QED BY <1>2, <1>3, <1>6

LEMMA UpKeepsTicks ==
  ASSUME NEW r \in [up : BOOLEAN, ticks : Nat], NEW b \in BOOLEAN
  PROVE  /\ [r EXCEPT !.up = b] \in [up : BOOLEAN, ticks : Nat]
         /\ [r EXCEPT !.up = b].ticks = r.ticks
OBVIOUS

LEMMA WindowAtStart == (CpuInit => WindowInv) /\ (CpuRestart => WindowInv')
<1>1. CpuInit => WindowInv BY DEF CpuInit, WindowInv, Down
<1>2. CpuRestart => WindowInv' BY DEF CpuRestart, WindowInv, Down
<1> QED BY <1>1, <1>2

LEMMA WindowStep == WindowInv /\ [CpuNext]_cpuVars => WindowInv'
<1> SUFFICES ASSUME WindowInv, [CpuNext]_cpuVars PROVE WindowInv' OBVIOUS
<1>1. proc \in [Process -> [up : BOOLEAN, ticks : Nat]] /\ spent \in Nat /\ c0 \in Int
  BY DEF WindowInv
<1>2. ASSUME NEW p, NEW d \in Nat, UNCHANGED <<c0, cpuPhase>>,
             spent' = spent + IF cpuPhase = "sample" THEN d ELSE 0,
             proc' \in [Process -> [up : BOOLEAN, ticks : Nat]],
             \A x \in Process : proc'[x].ticks <= proc[x].ticks + IF x = p THEN d ELSE 0
      PROVE  WindowInv'
  <2>1. TreeCpu(proc') \in Int /\ TreeCpu(proc) \in Int /\ TreeCpu(proc') <= TreeCpu(proc) + d
    <3>1. \A x \in Process : proc'[x].ticks \in Int /\ proc[x].ticks \in Int BY <1>1, <1>2
    <3> QED BY <1>2, <3>1, TreeBelow
  <2>2. TreeCpu(proc)' = TreeCpu(proc') OBVIOUS
  <2> QED BY <1>1, <1>2, <2>1, <2>2 DEF WindowInv
<1>3. CASE \E p \in Process : Consume(p)
  <2>1. PICK p \in Process : Consume(p) BY <1>3
  <2>2. UNCHANGED <<c0, cpuPhase>> /\ spent' = spent + IF cpuPhase = "sample" THEN 1 ELSE 0
    BY <2>1 DEF Consume
  <2>3. /\ proc' \in [Process -> [up : BOOLEAN, ticks : Nat]]
        /\ \A x \in Process : proc'[x].ticks <= proc[x].ticks + IF x = p THEN 1 ELSE 0
    BY <1>1, <2>1 DEF Consume
  <2> QED BY <1>2, <2>2, <2>3
<1>4. CASE \/ \E p \in Process : Die(p)
           \/ \E c \in Controllers : StartController(c)
           \/ Fork
  <2>1. UNCHANGED <<c0, spent>> /\ (cpuPhase' = cpuPhase \/ cpuPhase' = "warmup")
    BY <1>4 DEF Die, StartController, Fork
  <2>2. /\ proc' \in [Process -> [up : BOOLEAN, ticks : Nat]]
        /\ \A x \in Process : proc'[x].ticks <= proc[x].ticks
    <3>1. ASSUME NEW p \in Process, Die(p)
          PROVE  \A x \in Process :
                   \/ proc'[x] = Down \/ proc'[x] = proc[x]
                   \/ proc'[x] = [proc[x] EXCEPT !.up = FALSE]
      BY <1>1, <3>1 DEF Die
    <3>2. ASSUME NEW p \in Process, proc' = [proc EXCEPT ![p].up = TRUE]
          PROVE  \A x \in Process :
                   proc'[x] = proc[x] \/ proc'[x] = [proc[x] EXCEPT !.up = TRUE]
      BY <1>1, <3>2
    <3>3. proc' = [x \in Process |-> proc'[x]]
      BY <1>1, <1>4 DEF Die, StartController, Fork
    <3>4. \A x \in Process : /\ [proc[x] EXCEPT !.up = FALSE] \in [up : BOOLEAN, ticks : Nat]
                             /\ [proc[x] EXCEPT !.up = TRUE] \in [up : BOOLEAN, ticks : Nat]
                             /\ [proc[x] EXCEPT !.up = FALSE].ticks = proc[x].ticks
                             /\ [proc[x] EXCEPT !.up = TRUE].ticks = proc[x].ticks
      BY <1>1, UpKeepsTicks
    <3>5. \A x \in Process :
            \/ proc'[x] = Down \/ proc'[x] = proc[x]
            \/ proc'[x] = [proc[x] EXCEPT !.up = FALSE]
            \/ proc'[x] = [proc[x] EXCEPT !.up = TRUE]
      BY <1>4, <3>1, <3>2 DEF StartController, Fork, Process
    <3>6. Down \in [up : BOOLEAN, ticks : Nat] /\ Down.ticks = 0 BY DEF Down
    <3>7. \A x \in Process : /\ proc'[x] \in [up : BOOLEAN, ticks : Nat]
                             /\ proc'[x].ticks <= proc[x].ticks
      <4> SUFFICES ASSUME NEW x \in Process
                   PROVE  /\ proc'[x] \in [up : BOOLEAN, ticks : Nat]
                          /\ proc'[x].ticks <= proc[x].ticks
        OBVIOUS
      <4>1. proc[x] \in [up : BOOLEAN, ticks : Nat] /\ proc[x].ticks \in Nat BY <1>1
      <4>2. CASE proc'[x] = Down BY <3>6, <4>1, <4>2
      <4>3. CASE proc'[x] = proc[x] BY <4>1, <4>3
      <4>4. CASE proc'[x] = [proc[x] EXCEPT !.up = FALSE]
        <5> DEFINE r == [proc[x] EXCEPT !.up = FALSE]
        <5>1. proc'[x] = r BY <4>4
        <5>2. r \in [up : BOOLEAN, ticks : Nat] /\ r.ticks = proc[x].ticks BY <3>4
        <5> HIDE DEF r
        <5> QED BY <4>1, <5>1, <5>2
      <4>5. CASE proc'[x] = [proc[x] EXCEPT !.up = TRUE]
        <5> DEFINE r == [proc[x] EXCEPT !.up = TRUE]
        <5>1. proc'[x] = r BY <4>5
        <5>2. r \in [up : BOOLEAN, ticks : Nat] /\ r.ticks = proc[x].ticks BY <3>4
        <5> HIDE DEF r
        <5> QED BY <4>1, <5>1, <5>2
      <4> QED BY <3>5, <4>2, <4>3, <4>4, <4>5
    <3> QED BY <3>3, <3>7
  <2>3. CASE cpuPhase' = cpuPhase
    <3>1. spent' = spent + IF cpuPhase = "sample" THEN 0 ELSE 0 BY <1>1, <2>1
    <3>2. \A x \in Process : proc'[x].ticks <= proc[x].ticks + IF x = Webots THEN 0 ELSE 0
      BY <1>1, <2>2
    <3> QED BY <1>2, <2>1, <2>2, <2>3, <3>1, <3>2
  <2>4. CASE cpuPhase' = "warmup" BY <1>1, <2>1, <2>2, <2>4 DEF WindowInv
  <2> QED BY <2>1, <2>3, <2>4
<1>5. CASE FirstSample
  <2>1. TreeCpu(proc) \in Int
    <3>1. \A x \in Process : /\ proc[x].ticks \in Int
                             /\ proc[x].ticks <= proc[x].ticks + IF x = Webots THEN 0 ELSE 0
      BY <1>1
    <3> QED BY <3>1, TreeBelow
  <2>2. UNCHANGED <<proc, spent>> /\ c0' = TreeCpu(proc)
    BY <1>5 DEF FirstSample, FirstReading
  <2>3. TreeCpu(proc)' = TreeCpu(proc) BY <2>2
  <2> QED BY <1>1, <2>1, <2>2, <2>3 DEF WindowInv
<1>6. CASE SecondSample BY <1>6 DEF SecondSample, WindowInv, Down
<1>7. CASE ForkFails \/ EndWorld \/ Verdicts
  <2>1. UNCHANGED <<proc, spent, c0>> /\ cpuPhase' # "sample"
    BY <1>7 DEF ForkFails, EndWorld, Verdicts
  <2> QED BY <1>1, <2>1 DEF WindowInv
<1>8. CASE UNCHANGED cpuVars
  <2>1. UNCHANGED <<proc, spent, c0, cpuPhase>> BY <1>8 DEF cpuVars
  <2>2. TreeCpu(proc)' = TreeCpu(proc) BY <2>1
  <2> QED BY <1>1, <2>1, <2>2 DEF WindowInv
<1> QED BY <1>3, <1>4, <1>5, <1>6, <1>7, <1>8 DEF CpuNext

-----------------------------------------------------------------------------

(* To the CPU bench a step of the campaign is one of its own or a restart. *)
LEMMA CampaignStepsCpu == [CampaignNext]_campaignVars => [CpuNext]_cpuVars \/ CpuRestart
<1> SUFFICES ASSUME [CampaignNext]_campaignVars PROVE [CpuNext]_cpuVars \/ CpuRestart
  OBVIOUS
<1>1. CASE MakeBench \/ BenchOpens \/ BenchMeasures \/ BenchWrites \/ MakeReport
  BY <1>1 DEF MakeBench, BenchOpens, BenchMeasures, BenchWrites, MakeReport
<1>2. CASE WebotsSkips \/ WebotsMeasured \/ WebotsGivesUp \/ BenchCloses \/ BenchDies
  BY <1>2 DEF WebotsSkips, WebotsMeasured, WebotsGivesUp, BenchCloses, BenchDies, Turn
<1>3. CASE WebotsRuns BY <1>3 DEF WebotsRuns
<1>4. CASE UNCHANGED campaignVars BY <1>4 DEF campaignVars
<1> QED BY <1>1, <1>2, <1>3, <1>4 DEF CampaignNext

LEMMA FigureIsOfTheWindow ==
  ASSUME runs \in Seq(ToSet(runs)), WindowInv, [CpuNext]_cpuVars \/ CpuRestart,
         Len(runs') > Len(runs)
  PROVE  Last(runs') <= spent
<1>1. runs \in Seq(ToSet(runs)) /\ Len(runs) \in Nat BY LenProperties
<1>2. Len(<<>>) = 0 OBVIOUS
<1>3. ~CpuRestart /\ ~EndWorld /\ runs' # runs
  BY <1>1, <1>2 DEF CpuRestart, EndWorld
<1>4. SecondSample
  BY <1>3 DEF CpuNext, cpuVars, Consume, Die, StartController, Fork, ForkFails, FirstSample,
              Verdicts
<1>5. runs' = Append(runs, Figure) /\ cpuPhase = "sample" BY <1>3, <1>4 DEF SecondSample
<1>6. Last(runs') = Figure
  <2>1. runs' \in Seq(ToSet(runs')) /\ Len(runs') = Len(runs) + 1 BY <1>1, <1>5, OneMore
  <2>2. runs'[Len(runs) + 1] = Figure
    <3>1. runs \in Seq(ToSet(runs) \cup {Figure}) BY <1>1, SeqMonotonic, Zenon
    <3> QED BY <1>5, <3>1, AppendProperties
  <2> QED BY <2>1, <2>2 DEF Last
<1> QED BY <1>5, <1>6 DEF WindowInv, Figure

(* A figure never exceeds what WeBots and its controllers consumed in the  *)
(* window, whoever starts or dies between the samples, for any number of   *)
(* controllers (bench_webots_cpu.c, tree_cpu_seconds and measure).         *)
THEOREM CampaignMeasuredAtMostSpent == CampaignSpec => MeasuredAtMostSpent
<1>1. CampaignInit => WindowInv BY WindowAtStart DEF CampaignInit
<1>2. WindowInv /\ [CampaignNext]_campaignVars => WindowInv'
  BY CampaignStepsCpu, WindowStep, WindowAtStart
<1>3. CpuInv /\ WindowInv /\ [CampaignNext]_campaignVars
        => [Len(runs') > Len(runs) => Last(runs') <= spent]_cpuVars
  BY CampaignStepsCpu, FigureIsOfTheWindow DEF CpuInv
<1> QED BY <1>1, <1>2, <1>3, CampaignInvariant, PTL DEF CampaignSpec, MeasuredAtMostSpent

-----------------------------------------------------------------------------
(* The link budget.                                                        *)

(* The largest of a set of indices is one of them.                         *)
LEMMA MaxIsIn ==
  ASSUME NEW n \in Nat, NEW s \in (SUBSET (0 .. n)) \ {{}}
  PROVE  Max(s) \in s /\ \A y \in s : Max(s) >= y
<1> DEFINE T == {n - y : y \in s}
<1>1. IsWellFoundedOn(BelowNat, Nat)
  <2>1. OpToRel(<, Nat) = BelowNat BY DEF OpToRel, BelowNat
  <2> QED BY <2>1, NatLessThanWellFounded
<1>2. T \subseteq Nat /\ T # {} OBVIOUS
<1>3. PICK m \in T : \A y \in T : ~(<<y, m>> \in BelowNat)
  <2> HIDE DEF T
  <2> QED BY <1>1, <1>2, WFMin, Zenon
<1>4. \A y \in T : ~(y < m) BY <1>2, <1>3 DEF BelowNat
<1>5. PICK x \in s : m = n - x BY <1>3
<1>6. \A y \in s : x >= y
  <2> SUFFICES ASSUME NEW y \in s PROVE x >= y OBVIOUS
  <2>1. n - y \in T OBVIOUS
  <2>2. ~(n - y < n - x) BY <1>4, <1>5, <2>1
  <2>3. x \in 0 .. n /\ y \in 0 .. n OBVIOUS
  <2> QED BY <2>2, <2>3
<1> QED BY <1>6 DEF Max

LEMMA LastPicks == ASSUME NEW n \in Nat PROVE LastOf(1 .. n) \in Picks(1 .. n)
<1>1. ASSUME NEW s \in (SUBSET (1 .. n)) \ {{}} PROVE Max(s) \in s
  <2>1. s \in (SUBSET (0 .. n)) \ {{}} OBVIOUS
  <2> QED BY <2>1, MaxIsIn
<1> QED BY <1>1 DEF LastOf, Picks

LEMMA LastOfRange ==
  ASSUME NEW n \in Nat, NEW k \in 1 .. n
  PROVE  LastOf(1 .. n)[1 .. k] = k
<1>1. (1 .. k) \in (SUBSET (0 .. n)) \ {{}} OBVIOUS
<1>2. Max(1 .. k) \in 1 .. k /\ \A y \in 1 .. k : Max(1 .. k) >= y
  BY <1>1, MaxIsIn, Zenon
<1>3. Max(1 .. k) = k BY <1>2
<1> QED BY <1>1, <1>3 DEF LastOf

(* What the streams of a profile cost, added up one after the other.       *)
Costs(streams) == [i \in DOMAIN streams |-> StreamBps(streams[i])]

LEMMA SumBpsIsSum ==
  ASSUME NEW streams, NEW n \in Nat, DOMAIN streams = 1 .. n
  PROVE  \E f : IsSum(f, 1 .. n, LastOf(1 .. n), Costs(streams)) /\ SumBps(streams) = f[1 .. n]
<1> DEFINE pick == LastOf(1 .. n)
           Fold(f) ==
             [s \in SUBSET (1 .. n) |->
                IF s = {} THEN 0
                ELSE LET x == Max(s) IN f[s \ {x}] + StreamBps(streams[x])]
<1>1. SumBps(streams) = (CHOOSE f : f = Fold(f))[1 .. n]
  BY Zenon DEF SumBps, FoldLeft, MapThenFoldSet
<1>2. pick \in Picks(1 .. n) BY LastPicks
<1>3. ASSUME NEW f PROVE IsSum(f, 1 .. n, pick, Costs(streams)) <=> f = Fold(f)
  <2>1. ASSUME NEW s \in SUBSET (1 .. n)
        PROVE  SumStep(f, Costs(streams), pick, s)
                 = IF s = {} THEN 0 ELSE LET x == Max(s) IN f[s \ {x}] + StreamBps(streams[x])
    <3>1. CASE s = {} BY <3>1 DEF SumStep
    <3>2. CASE s # {}
      <4>1. pick[s] = Max(s) /\ pick[s] \in 1 .. n BY <1>2, <3>2 DEF LastOf, Picks
      <4>2. Costs(streams)[pick[s]] = StreamBps(streams[pick[s]]) BY <4>1 DEF Costs
      <4> HIDE DEF pick
      <4>3. SumStep(f, Costs(streams), pick, s) = f[s \ {pick[s]}] + Costs(streams)[pick[s]]
        BY <3>2 DEF SumStep, Without
      <4> QED BY <3>2, <4>1, <4>2, <4>3
    <3> QED BY <3>1, <3>2
  <2> QED BY <2>1 DEF IsSum
<1>4. \E f : f = Fold(f)
  <2>1. IsFiniteSet(1 .. n) BY FS_Interval
  <2> HIDE DEF Fold, pick
  <2>2. PICK f : IsSum(f, 1 .. n, pick, Costs(streams)) BY <1>2, <2>1, SumExists, Zenon
  <2> QED BY <1>3, <2>2
<1>5. PICK f : f = Fold(f) /\ SumBps(streams) = f[1 .. n]
  <2> DEFINE h == CHOOSE f : f = Fold(f)
  <2>1. h = Fold(h)
    <3> HIDE DEF Fold
    <3> QED BY <1>4, Zenon
  <2> HIDE DEF Fold
  <2> QED BY <1>1, <2>1
<1> HIDE DEF Fold
<1> QED BY <1>3, <1>5

(* A profile's cost as the running total the code keeps.                   *)
IsTotal(h, n, v) ==
  /\ h \in [0 .. n -> Nat] /\ h[0] = 0
  /\ \A k \in 1 .. n : h[k] = h[k - 1] + v[k]

LEMMA UptoIn ==
  ASSUME NEW n \in Nat, NEW G, 0 \in G, \A k \in 1 .. n : k - 1 \in G => k \in G
  PROVE  0 .. n \subseteq G
<1> DEFINE T == {k \in Nat : k <= n => k \in G}
<1>1. 0 \in T OBVIOUS
<1>2. ASSUME NEW k \in Nat, k \in T PROVE k + 1 \in T
  <2>1. CASE k + 1 > n BY <2>1
  <2>2. CASE k + 1 <= n
    <3>1. k + 1 \in 1 .. n /\ (k + 1) - 1 = k /\ k \in G BY <1>2, <2>2
    <3> QED BY <3>1
  <2> QED BY <2>1, <2>2
<1>3. Nat \subseteq T
  <2> HIDE DEF T
  <2> QED BY <1>1, <1>2, SetInduction
<1> QED BY <1>3

LEMMA SumBpsIsTotal ==
  ASSUME NEW streams, NEW n \in Nat, DOMAIN streams = 1 .. n,
         \A i \in 1 .. n : StreamBps(streams[i]) \in Nat
  PROVE  \E h : IsTotal(h, n, Costs(streams)) /\ SumBps(streams) = h[n]
<1> DEFINE pick == LastOf(1 .. n)
           v == Costs(streams)
<1>1. PICK f : IsSum(f, 1 .. n, pick, v) /\ SumBps(streams) = f[1 .. n] BY SumBpsIsSum
<1> DEFINE h == [k \in 0 .. n |-> f[1 .. k]]
<1>2. \A i \in 1 .. n : v[i] \in Nat BY DEF Costs
<1>3. h[0] = 0
  <2>1. 1 .. 0 = {} /\ {} \in SUBSET (1 .. n) OBVIOUS
  <2>2. f[{}] = SumStep(f, v, pick, {}) BY <1>1, <2>1, SumOf
  <2> QED BY <2>1, <2>2 DEF SumStep
<1>4. ASSUME NEW k \in 1 .. n PROVE h[k] = h[k - 1] + v[k]
  <2>1. (1 .. k) \in SUBSET (1 .. n) /\ 1 .. k # {} /\ (1 .. k) \ {k} = 1 .. k - 1 OBVIOUS
  <2>2. pick[1 .. k] = k BY LastOfRange
  <2>3. f[1 .. k] = SumStep(f, v, pick, 1 .. k) BY <1>1, <2>1, SumOf
  <2> HIDE DEF pick, v
  <2>4. f[1 .. k] = f[1 .. k - 1] + v[k] BY <2>1, <2>2, <2>3 DEF SumStep, Without
  <2> QED BY <2>4
<1>5. h \in [0 .. n -> Nat]
  <2> DEFINE G == {k \in 0 .. n : h[k] \in Nat}
  <2>1. 0 \in G BY <1>3
  <2>2. ASSUME NEW k \in 1 .. n, k - 1 \in G PROVE k \in G
    <3>1. h[k - 1] \in Nat /\ v[k] \in Nat /\ h[k] = h[k - 1] + v[k] BY <1>2, <1>4, <2>2
    <3> HIDE DEF h, v
    <3> QED BY <3>1
  <2>3. 0 .. n \subseteq G
    <3> HIDE DEF G
    <3> QED BY <2>1, <2>2, UptoIn
  <2> QED BY <2>3
<1>6. SumBps(streams) = h[n] BY <1>1
<1> HIDE DEF h
<1> QED BY <1>3, <1>4, <1>5, <1>6 DEF IsTotal

LEMMA TotalScaled ==
  ASSUME NEW n \in Nat, NEW v, NEW w, NEW c \in Nat,
         NEW h, IsTotal(h, n, v), NEW g, IsTotal(g, n, w),
         \A i \in 1 .. n : w[i] \in Nat /\ v[i] = c * w[i]
  PROVE  h[n] = c * g[n]
<1> DEFINE G == {k \in 0 .. n : h[k] = c * g[k]}
<1>1. 0 \in G BY DEF IsTotal
<1>2. ASSUME NEW k \in 1 .. n, k - 1 \in G PROVE k \in G
  <2>1. h[k] = h[k - 1] + v[k] /\ g[k] = g[k - 1] + w[k] /\ g[k - 1] \in Nat
    BY DEF IsTotal
  <2>2. h[k - 1] = c * g[k - 1] /\ v[k] = c * w[k] /\ w[k] \in Nat BY <1>2
  <2>3. \A a, b \in Nat : c * (a + b) = c * a + c * b OBVIOUS
  <2>4. h[k] = c * g[k] BY <2>1, <2>2, <2>3
  <2> QED BY <2>4
<1>3. 0 .. n \subseteq G
  <2> HIDE DEF G
  <2> QED BY <1>1, <1>2, UptoIn
<1> QED BY <1>3

LEMMA TotalShifted ==
  ASSUME NEW n \in Nat, NEW m, m = n + 1, NEW v, NEW w, v[1] \in Nat,
         NEW h, IsTotal(h, m, v), NEW g, IsTotal(g, n, w),
         \A i \in 1 .. n : w[i] \in Nat /\ v[i + 1] = w[i]
  PROVE  h[m] = v[1] + g[n]
<1> DEFINE G == {k \in 0 .. n : h[k + 1] = v[1] + g[k]}
<1>1. 0 \in G
  <2>1. h[1] = h[1 - 1] + v[1] BY DEF IsTotal
  <2> QED BY <2>1 DEF IsTotal
<1>2. ASSUME NEW k \in 1 .. n, k - 1 \in G PROVE k \in G
  <2>1. g[k] = g[k - 1] + w[k] /\ g[k - 1] \in Nat BY DEF IsTotal
  <2>2. h[k + 1] = h[k] + v[k + 1]
    <3>1. k + 1 \in 1 .. n + 1 /\ (k + 1) - 1 = k OBVIOUS
    <3> QED BY <3>1 DEF IsTotal
  <2>3. h[k] = v[1] + g[k - 1]
    <3>1. (k - 1) + 1 = k OBVIOUS
    <3> QED BY <1>2, <3>1
  <2>4. v[k + 1] = w[k] /\ w[k] \in Nat OBVIOUS
  <2> QED BY <2>1, <2>2, <2>3, <2>4
<1>3. 0 .. n \subseteq G
  <2> HIDE DEF G
  <2> QED BY <1>1, <1>2, UptoIn
<1> QED BY <1>3

(* n vessels cost n times what one costs.                                  *)
LEMMA VesselsScale ==
  ASSUME NEW streams \in Seq(Stream), NEW n \in Nat
  PROVE  /\ SumBps(ForVessels(streams, 1)) \in Nat
         /\ SumBps(ForVessels(streams, n)) = n * SumBps(ForVessels(streams, 1))
<1> DEFINE len == Len(streams)
<1>1. len \in Nat /\ DOMAIN streams = 1 .. len BY LenProperties
<1>2. \A i \in 1 .. len : streams[i] \in Stream BY <1>1, ElementOfSeq
<1> HIDE DEF len
<1>3. ASSUME NEW m \in Nat, NEW i \in 1 .. len
      PROVE  /\ StreamBps(ForVessels(streams, m)[i]) \in Nat
             /\ StreamBps(ForVessels(streams, m)[i])
                  = m * (streams[i].payload * 8 * streams[i].hz)
             /\ streams[i].payload * 8 * streams[i].hz \in Nat
  <2>1. streams[i].payload \in Nat /\ streams[i].hz \in Nat BY <1>2 DEF Stream
  <2>2. ForVessels(streams, m)[i] = [streams[i] EXCEPT !.vessels = m] BY <1>1 DEF ForVessels
  <2>3. StreamBps(ForVessels(streams, m)[i]) = streams[i].payload * 8 * streams[i].hz * m
    BY <1>2, <2>2 DEF Stream, StreamBps
  <2>4. \A a, b \in Nat : a * 8 * b \in Nat /\ a * 8 * b * m \in Nat OBVIOUS
  <2>5. \A a \in Nat : a * m = m * a OBVIOUS
  <2> QED BY <2>1, <2>3, <2>4, <2>5
<1>4. ASSUME NEW m \in Nat
      PROVE  \E h : IsTotal(h, len, Costs(ForVessels(streams, m)))
                    /\ SumBps(ForVessels(streams, m)) = h[len]
  <2>1. DOMAIN ForVessels(streams, m) = 1 .. len BY <1>1 DEF ForVessels
  <2> QED BY <1>1, <1>3, <2>1, SumBpsIsTotal
<1>5. PICK h : IsTotal(h, len, Costs(ForVessels(streams, n)))
               /\ SumBps(ForVessels(streams, n)) = h[len]
  BY <1>4
<1>6. PICK g : IsTotal(g, len, Costs(ForVessels(streams, 1)))
               /\ SumBps(ForVessels(streams, 1)) = g[len]
  BY <1>4
<1>7. \A i \in 1 .. len : /\ Costs(ForVessels(streams, 1))[i] \in Nat
                          /\ Costs(ForVessels(streams, n))[i]
                               = n * Costs(ForVessels(streams, 1))[i]
  <2> SUFFICES ASSUME NEW i \in 1 .. len
               PROVE  /\ Costs(ForVessels(streams, 1))[i] \in Nat
                      /\ Costs(ForVessels(streams, n))[i]
                           = n * Costs(ForVessels(streams, 1))[i]
    OBVIOUS
  <2>1. \A m \in Nat : Costs(ForVessels(streams, m))[i] = StreamBps(ForVessels(streams, m)[i])
    BY <1>1 DEF Costs, ForVessels
  <2> DEFINE bits == streams[i].payload * 8 * streams[i].hz
  <2>2. bits \in Nat /\ StreamBps(ForVessels(streams, 1)[i]) = 1 * bits
        /\ StreamBps(ForVessels(streams, n)[i]) = n * bits
    BY <1>3
  <2> HIDE DEF bits
  <2>3. StreamBps(ForVessels(streams, 1)[i]) = bits BY <2>2
  <2> QED BY <2>1, <2>2, <2>3
<1>8. h[len] = n * g[len] BY <1>1, <1>5, <1>6, <1>7, TotalScaled
<1>9. g[len] \in Nat BY <1>1, <1>6 DEF IsTotal
<1> QED BY <1>5, <1>6, <1>8, <1>9

BudgetTyped ==
  link \in [capacity : Nat, overhead : Nat] /\ budget \in Nat /\ profile \in Seq(Stream)

(* What one vessel of the profile costs.                                   *)
PerVessel == SumBps(ForVessels(profile, 1)) * (100 + link.overhead)

(* The fleet fits, and one vessel more does not.                           *)
LEMMA FleetIsLargest ==
  ASSUME BudgetTyped
  PROVE  /\ Fleet \in Nat /\ PerVessel \in Nat
         /\ Fleet < UintMax => Fleet * PerVessel <= link.capacity * budget
         /\ link.capacity > 0 /\ budget > 0 =>
              /\ Fleet * PerVessel <= link.capacity * budget
              /\ Fleet < UintMax => (Fleet + 1) * PerVessel > link.capacity * budget
<1> DEFINE per == PerVessel  share == link.capacity * budget
<1>1. /\ UintMax \in Nat /\ link.capacity \in Nat /\ link.overhead \in Nat /\ budget \in Nat
      /\ share \in Nat
  BY LinkBudgetAssumption DEF BudgetTyped
<1>2. per \in Nat
  <2>1. SumBps(ForVessels(profile, 1)) \in Nat BY VesselsScale DEF BudgetTyped
  <2> QED BY <1>1, <2>1 DEF PerVessel
<1>3. per = TotalBps(link, ForVessels(profile, 1)) BY DEF PerVessel, TotalBps
<1>4. CASE link.capacity = 0 \/ budget = 0
  <2>1. Fleet = 0 BY <1>1, <1>4 DEF Fleet, MaxVessels
  <2>2. share = 0 BY <1>1, <1>4
  <2> QED BY <1>1, <1>2, <1>4, <2>1, <2>2
<1>5. CASE link.capacity > 0 /\ budget > 0
  <2>1. Fleet = IF per <= 0 THEN UintMax
                ELSE IF share \div per >= UintMax THEN UintMax ELSE share \div per
    BY <1>1, <1>3, <1>5 DEF Fleet, MaxVessels
  <2> HIDE DEF per, share
  <2>2. CASE per = 0 BY <1>1, <2>1, <2>2 DEF per, share
  <2>3. CASE per # 0
    <3> DEFINE fits == share \div per
    <3>1. fits \in Nat /\ fits * per <= share /\ (fits + 1) * per > share
      BY <1>1, <1>2, <2>3
    <3>2. Fleet = IF fits >= UintMax THEN UintMax ELSE fits BY <1>2, <2>1, <2>3
    <3> HIDE DEF fits
    <3>3. Fleet \in Nat /\ Fleet <= fits BY <1>1, <3>1, <3>2
    <3>4. Fleet * per <= fits * per BY <1>2, <3>1, <3>3
    <3>5. Fleet * per <= share BY <1>1, <1>2, <3>1, <3>3, <3>4
    <3>6. Fleet < UintMax => Fleet = fits BY <1>1, <3>1, <3>2
    <3> QED BY <1>1, <1>2, <3>1, <3>3, <3>5, <3>6 DEF per, share
  <2> QED BY <1>2, <2>2, <2>3
<1> QED BY <1>1, <1>4, <1>5

LEMMA FleetLargest == BudgetTyped => LargestFleet
<1> SUFFICES ASSUME BudgetTyped, budget > 0, link.capacity > 0
             PROVE  /\ OccupiesAtMost(link, ForVessels(profile, Fleet), budget)
                    /\ Fleet < UintMax
                         => ~OccupiesAtMost(link, ForVessels(profile, Fleet + 1), budget)
  BY DEF LargestFleet
<1>1. Fleet \in Nat /\ PerVessel \in Nat BY FleetIsLargest
<1>2. ASSUME NEW n \in Nat
      PROVE  TotalBps(link, ForVessels(profile, n)) = n * PerVessel
  <2> DEFINE p == SumBps(ForVessels(profile, 1))
  <2>1. p \in Nat /\ SumBps(ForVessels(profile, n)) = n * p
    BY VesselsScale DEF BudgetTyped
  <2>2. link.overhead \in Nat BY DEF BudgetTyped
  <2>3. TotalBps(link, ForVessels(profile, n)) = (n * p) * (100 + link.overhead)
    BY <2>1 DEF TotalBps
  <2>4. PerVessel = p * (100 + link.overhead) BY DEF PerVessel
  <2> HIDE DEF p
  <2>5. \A q \in Nat : (n * p) * q = n * (p * q) BY <2>1
  <2> QED BY <2>2, <2>3, <2>4, <2>5
<1>3. link.capacity \in Nat /\ budget \in Nat /\ link.capacity * budget = budget * link.capacity
  BY DEF BudgetTyped
<1>4. /\ Fleet * PerVessel <= budget * link.capacity
      /\ Fleet < UintMax => (Fleet + 1) * PerVessel > budget * link.capacity
  BY <1>3, FleetIsLargest
<1>5. (Fleet + 1) * PerVessel \in Nat /\ Fleet + 1 \in Nat /\ budget * link.capacity \in Nat
  BY <1>1, <1>3
<1>6. OccupiesAtMost(link, ForVessels(profile, Fleet), budget)
  BY <1>1, <1>2, <1>4 DEF OccupiesAtMost
<1>7. Fleet < UintMax => ~OccupiesAtMost(link, ForVessels(profile, Fleet + 1), budget)
  BY <1>2, <1>4, <1>5 DEF OccupiesAtMost
<1> QED BY <1>6, <1>7

(* The cost of a profile is its first stream's and the rest's.             *)
LEMMA HeadAndTail ==
  ASSUME NEW streams \in Seq(Stream), streams # <<>>
  PROVE  /\ SumBps(ForVessels(Tail(streams), 1)) \in Nat
         /\ SumBps(ForVessels(streams, 1))
              = streams[1].payload * 8 * streams[1].hz + SumBps(ForVessels(Tail(streams), 1))
<1> DEFINE tail == Tail(streams)  n == Len(tail)
           all == ForVessels(streams, 1)  rest == ForVessels(tail, 1)
<1>1. /\ tail \in Seq(Stream) /\ n \in Nat /\ Len(streams) = n + 1
      /\ \A i \in 1 .. n : tail[i] = streams[i + 1]
  BY HeadTailProperties
<1>2. DOMAIN streams = 1 .. n + 1 /\ DOMAIN tail = 1 .. n BY <1>1, LenProperties
<1>3. DOMAIN all = 1 .. n + 1 /\ DOMAIN rest = 1 .. n BY <1>2 DEF ForVessels
<1>4. \A i \in 1 .. n + 1 : streams[i] \in Stream BY <1>1, ElementOfSeq
<1> HIDE DEF tail, n
<1>5. ASSUME NEW i \in 1 .. n + 1
      PROVE  /\ StreamBps(all[i]) \in Nat
             /\ StreamBps(all[i]) = streams[i].payload * 8 * streams[i].hz
  <2> DEFINE p == streams[i].payload
             h == streams[i].hz
  <2>1. p \in Nat /\ h \in Nat BY <1>4 DEF Stream
  <2>2. all[i] = [streams[i] EXCEPT !.vessels = 1] BY <1>2 DEF ForVessels
  <2>3. StreamBps(all[i]) = p * 8 * h * 1 BY <1>4, <2>2 DEF Stream, StreamBps
  <2> HIDE DEF p, h
  <2>4. \A a, b \in Nat : a * 8 * b \in Nat /\ a * 8 * b * 1 = a * 8 * b OBVIOUS
  <2>5. p * 8 * h \in Nat /\ p * 8 * h * 1 = p * 8 * h BY <2>1, <2>4, Zenon
  <2>6. StreamBps(all[i]) = p * 8 * h BY <2>3, <2>5, Zenon
  <2>7. StreamBps(all[i]) \in Nat BY <2>5, <2>6, Zenon
  <2> QED BY <2>6, <2>7, Zenon DEF p, h
<1>6. ASSUME NEW i \in 1 .. n
      PROVE  i + 1 \in 1 .. n + 1 /\ rest[i] = all[i + 1]
  <2>1. i + 1 \in 1 .. n + 1 BY <1>1
  <2>2. rest[i] = [tail[i] EXCEPT !.vessels = 1] BY <1>2 DEF ForVessels
  <2>3. all[i + 1] = [streams[i + 1] EXCEPT !.vessels = 1] BY <1>2, <2>1 DEF ForVessels
  <2> QED BY <1>1, <2>1, <2>2, <2>3
<1> HIDE DEF all, rest
<1>7. PICK h : IsTotal(h, n + 1, Costs(all)) /\ SumBps(all) = h[n + 1]
  <2>1. n + 1 \in Nat /\ \A i \in 1 .. n + 1 : StreamBps(all[i]) \in Nat BY <1>1, <1>5
  <2> QED BY <1>3, <2>1, SumBpsIsTotal
<1>8. \A i \in 1 .. n : StreamBps(rest[i]) \in Nat BY <1>5, <1>6
<1>9. PICK g : IsTotal(g, n, Costs(rest)) /\ SumBps(rest) = g[n]
  BY <1>1, <1>3, <1>8, SumBpsIsTotal
<1>10. \A i \in 1 .. n : Costs(rest)[i] \in Nat /\ Costs(all)[i + 1] = Costs(rest)[i]
  BY <1>3, <1>6, <1>8 DEF Costs
<1>11. Costs(all)[1] = streams[1].payload * 8 * streams[1].hz /\ Costs(all)[1] \in Nat
  <2>1. 1 \in 1 .. n + 1 BY <1>1
  <2> QED BY <1>3, <1>5, <2>1 DEF Costs
<1>12. h[n + 1] = Costs(all)[1] + g[n]
  <2> DEFINE m == n + 1  v == Costs(all)  w == Costs(rest)
  <2>1. /\ n \in Nat /\ m = n + 1
        /\ IsTotal(h, m, v) /\ IsTotal(g, n, w) /\ v[1] \in Nat
    BY <1>1, <1>7, <1>9, <1>11
  <2>2. \A i \in 1 .. n : w[i] \in Nat /\ v[i + 1] = w[i] BY <1>10
  <2> HIDE DEF m, v, w
  <2>3. h[m] = v[1] + g[n] BY <2>1, <2>2, TotalShifted
  <2> QED BY <2>3 DEF m, v
<1>13. g[n] \in Nat BY <1>1, <1>9 DEF IsTotal
<1> QED BY <1>7, <1>9, <1>11, <1>12, <1>13 DEF all, rest, tail

BudgetInv ==
  /\ RegInv /\ BudgetTyped
  /\ sensorHz \in Rate /\ sampled <= MaxSamples
  /\ profile # <<>> /\ profile[1].hz = PublishedHz

LEMMA BudgetInit == BandwidthInit => BudgetInv
<1> SUFFICES ASSUME BandwidthInit PROVE BudgetInv OBVIOUS
<1>1. RegInv /\ sensorHz \in Rate /\ sampled <= MaxSamples
  BY RegulatorInit, RegulatorAssumption DEF BandwidthInit, Init
<1>2. link \in [capacity : Nat, overhead : Nat] /\ budget \in Nat
  BY BandwidthAssumption DEF BandwidthInit
<1>3. PICK bytes \in Payload, v \in Vessels, others \in Others :
        profile = <<[payload |-> bytes, hz |-> PublishedHz, vessels |-> v]>> \o others
  BY DEF BandwidthInit
<1> DEFINE first == [payload |-> bytes, hz |-> PublishedHz, vessels |-> v]
<1>4. first \in Stream /\ first.hz = PublishedHz
  <2>1. PublishedHz \in Nat BY <1>1 DEF RegInv, TypeOK, PublishedHz
  <2> QED BY <2>1, BandwidthAssumption DEF Stream
<1>5. others \in Seq(Stream) BY BandwidthAssumption
<1> HIDE DEF first
<1>6. <<first>> \in Seq(Stream) /\ Len(<<first>>) = 1 /\ <<first>>[1] = first BY <1>4
<1>7. profile = <<first>> \o others BY <1>3 DEF first
<1>8. /\ profile \in Seq(Stream) /\ Len(profile) = 1 + Len(others) /\ Len(others) \in Nat
      /\ profile[1] = first
  BY <1>5, <1>6, <1>7, ConcatProperties
<1>9. profile # <<>> BY <1>8, EmptySeq
<1> QED BY <1>1, <1>2, <1>4, <1>8, <1>9 DEF BudgetInv, BudgetTyped

LEMMA BudgetStep == BudgetInv /\ [BandwidthNext]_bandwidthVars => BudgetInv'
<1> SUFFICES ASSUME BudgetInv, [BandwidthNext]_bandwidthVars PROVE BudgetInv' OBVIOUS
<1>1. [Next]_vars /\ UNCHANGED <<link, budget, profile>>
  BY DEF BandwidthNext, bandwidthVars
<1>2. RegInv' BY <1>1, RegulatorStep DEF BudgetInv
<1>3. UNCHANGED <<sensorHz, publishHz>> /\ (sampled' = sampled \/ Next)
  BY <1>1 DEF Next, Publish, Withhold, vars, rates
<1>4. sampled' <= MaxSamples
  <2>1. CASE sampled' = sampled BY <2>1 DEF BudgetInv
  <2>2. CASE Next
    <3>1. sampled < MaxSamples /\ sampled' = sampled + 1 /\ sampled \in Nat
      BY <2>2 DEF Next, Publish, Withhold, BudgetInv, RegInv, TypeOK
    <3> QED BY <3>1, RegulatorAssumption
  <2> QED BY <1>3, <2>1, <2>2
<1> QED BY <1>1, <1>2, <1>3, <1>4 DEF BudgetInv, BudgetTyped, PublishedHz

LEMMA BudgetInvariant == BandwidthSpec => []BudgetInv
<1> QED BY BudgetInit, BudgetStep, PTL DEF BandwidthSpec

(* Whatever streams a profile has, the fleet sized for a link fits in its  *)
(* share and one vessel more does not (linkbudget.c, fdt_link_max_vessels  *)
(* against fdt_link_utilization).                                          *)
THEOREM BandwidthLargestFleet == BandwidthSpec => []LargestFleet
<1>1. BudgetInv => LargestFleet BY FleetLargest DEF BudgetInv
<1> QED BY <1>1, BudgetInvariant, PTL

(* A regulator never publishes more than the rate it is budgeted with, as  *)
(* long as the quotient's last digit has not added up to a publication.    *)
LEMMA PublishedAtMostBudgeted ==
  ASSUME BudgetInv
  PROVE  published * sensorHz <= sampled * PublishedHz
<1> DEFINE s == sensorHz  p == publishHz  n == sampled  m == published
<1>1. /\ s \in Nat \ {0} /\ p \in Nat \ {0} /\ One \in Nat \ {0}
      /\ step \in Nat /\ n \in Nat /\ m \in Nat /\ acc \in Nat /\ dropped \in Nat
  BY RegulatorAssumption DEF BudgetInv, RegInv, TypeOK
<1>2. m <= n BY <1>1 DEF BudgetInv, RegInv, CreditBalances
<1>3. CASE s <= p
  <2>1. PublishedHz = s BY <1>3 DEF PublishedHz
  <2>2. \A a, b, c \in Nat : a <= b => a * c <= b * c OBVIOUS
  <2> HIDE DEF s, p, n, m
  <2>3. m * s <= n * s BY <1>1, <1>2, <2>2
  <2> QED BY <2>1, <2>3 DEF s, p, n, m
<1>4. CASE p < s /\ n = 0 BY <1>1, <1>2, <1>4 DEF PublishedHz
<1>5. CASE p < s /\ n > 0
  <2>1. PublishedHz = p BY <1>1, <1>5 DEF PublishedHz
  <2>2. n * s < One
    <3>1. MaxSamples * s < One /\ n <= MaxSamples /\ MaxSamples \in Nat
      BY PrecisionAssumption, RegulatorAssumption DEF BudgetInv
    <3>2. n * s <= MaxSamples * s
      <4>1. \A a, b, c \in Nat : a <= b => a * c <= b * c OBVIOUS
      <4> HIDE DEF s, n
      <4> QED BY <1>1, <3>1, <4>1
    <3>3. n * s \in Nat /\ MaxSamples * s \in Nat BY <1>1, <3>1
    <3> QED BY <1>1, <3>1, <3>2, <3>3
  <2>3. step * s - p * One < s
    BY <1>1, QuotientBounds DEF BudgetInv, RegInv, QuotientOK
  <2>4. step < One
    <3>1. s <= n * s
      <4> HIDE DEF s, p, n, m
      <4>1. \A a, b \in Nat : b > 0 => a <= b * a OBVIOUS
      <4> QED BY <1>1, <1>5, <4>1
    <3> HIDE DEF s, p, n, m
    <3>2. SUFFICES ASSUME step >= One PROVE FALSE BY <1>1
    <3>3. step * s >= One * s
      <4>1. \A a, b, c \in Nat : a <= b => a * c <= b * c OBVIOUS
      <4> QED BY <1>1, <3>2, <4>1
    <3>4. One * s - p * One >= One
      <4>1. One * s - p * One = One * (s - p) BY <1>1
      <4>2. s - p \in Nat /\ s - p >= 1 BY <1>1, <1>5
      <4>3. \A a, b \in Nat : b >= 1 => a * b >= a OBVIOUS
      <4> QED BY <1>1, <4>1, <4>2, <4>3
    <3>5. step * s \in Nat /\ One * s \in Nat /\ p * One \in Nat /\ n * s \in Nat BY <1>1
    <3> QED BY <1>1, <2>2, <2>3, <3>1, <3>3, <3>4, <3>5
  <2>5. m * One + acc = n * step
    BY <2>4 DEF BudgetInv, RegInv, CreditBalances, Decimating
  <2> HIDE DEF s, p, n, m
  <2>6. m * One <= n * step
    <3>1. m * One \in Nat /\ n * step \in Nat BY <1>1
    <3> QED BY <1>1, <2>5, <3>1
  <2>7. (m * s) * One <= n * (step * s)
    <3>1. m * One \in Nat /\ n * step \in Nat BY <1>1
    <3>2. (m * One) * s <= (n * step) * s BY <1>1, <2>6, <3>1
    <3>3. (m * One) * s = (m * s) * One /\ (n * step) * s = n * (step * s) BY <1>1
    <3> QED BY <3>2, <3>3
  <2>8. n * (step * s) <= n * (p * One) + n * s
    <3>1. step * s \in Nat /\ p * One \in Nat BY <1>1
    <3>2. step * s <= p * One + s BY <1>1, <2>3, <3>1
    <3>3. \A a, b \in Nat : a <= b => n * a <= n * b BY <1>1
    <3>4. n * (p * One + s) = n * (p * One) + n * s BY <1>1, <3>1
    <3> QED BY <1>1, <3>1, <3>2, <3>3, <3>4
  <2>9. (m * s) * One < (n * p + 1) * One
    <3>1. n * (p * One) = (n * p) * One /\ (n * p + 1) * One = (n * p) * One + One BY <1>1
    <3>2. /\ (n * p) * One \in Nat /\ n * s \in Nat /\ (m * s) * One \in Nat
          /\ n * (step * s) \in Nat
      BY <1>1
    <3> QED BY <1>1, <2>2, <2>7, <2>8, <3>1, <3>2
  <2>10. m * s <= n * p
    <3>1. m * s \in Nat /\ n * p \in Nat BY <1>1
    <3>2. \A a, b \in Nat : a * One < (b + 1) * One => a <= b BY <1>1
    <3> QED BY <2>9, <3>1, <3>2
  <2> QED BY <2>1, <2>10 DEF s, p, n, m
<1> QED BY <1>1, <1>3, <1>4, <1>5

(* The vessels a link is said to hold never send more than the share they  *)
(* were sized for, however long their regulators have run: whatever their  *)
(* rates, the link and the other streams (regulator.c, linkbudget.c and    *)
(* bench_bandwidth.c, which puts the one in front of the other).           *)
THEOREM BandwidthFleetKeepsItsBudget == BandwidthSpec => []FleetKeepsItsBudget
<1>1. ASSUME BudgetInv, Fleet < UintMax
      PROVE  Fleet * Sent * (100 + link.overhead) <= link.capacity * budget * sampled
  <2> DEFINE first == profile[1].payload * 8
             rest == SumBps(ForVessels(Tail(profile), 1))
             over == 100 + link.overhead
  <2>1. /\ rest \in Nat /\ SumBps(ForVessels(profile, 1)) = first * profile[1].hz + rest
        /\ profile[1].hz = PublishedHz
    BY <1>1, HeadAndTail DEF BudgetInv, BudgetTyped
  <2>2. /\ first \in Nat /\ PublishedHz \in Nat /\ over \in Nat /\ sampled \in Nat
        /\ published \in Nat /\ sensorHz \in Nat /\ link.capacity * budget \in Nat
    <3>1. 1 \in 1 .. Len(profile) BY <1>1, LenProperties, EmptySeq DEF BudgetInv, BudgetTyped
    <3>2. profile[1] \in Stream
      BY <1>1, <3>1, ElementOfSeq DEF BudgetInv, BudgetTyped
    <3>3. profile[1].payload \in Nat BY <3>2 DEF Stream
    <3>4. link.overhead \in Nat /\ link.capacity \in Nat /\ budget \in Nat
      BY <1>1 DEF BudgetInv, BudgetTyped
    <3> QED BY <1>1, <3>3, <3>4 DEF BudgetInv, RegInv, TypeOK, PublishedHz
  <2>3. published * sensorHz <= sampled * PublishedHz BY <1>1, PublishedAtMostBudgeted
  <2>4. Fleet \in Nat /\ Fleet * PerVessel <= link.capacity * budget
    BY <1>1, FleetIsLargest DEF BudgetInv
  <2>5. PerVessel = (first * PublishedHz + rest) * over BY <2>1 DEF PerVessel
  <2>6. Sent = first * published * sensorHz + sampled * rest BY DEF Sent
  <2> HIDE DEF first, rest, over
  <2>7. Sent \in Nat /\ Sent <= sampled * (first * PublishedHz + rest)
    <3>1. first * published * sensorHz = first * (published * sensorHz) BY <2>2
    <3>2. published * sensorHz \in Nat /\ sampled * PublishedHz \in Nat BY <2>2
    <3>3. first * (published * sensorHz) <= first * (sampled * PublishedHz)
      BY <2>2, <2>3, <3>2
    <3>4. first * (sampled * PublishedHz) = sampled * (first * PublishedHz) BY <2>2
    <3>5. sampled * (first * PublishedHz + rest)
            = sampled * (first * PublishedHz) + sampled * rest
      BY <2>1, <2>2
    <3>6. /\ first * (published * sensorHz) \in Nat /\ sampled * rest \in Nat
          /\ sampled * (first * PublishedHz) \in Nat
      BY <2>1, <2>2
    <3> QED BY <2>6, <3>1, <3>3, <3>4, <3>5, <3>6
  <2>8. Fleet * Sent * over <= sampled * (Fleet * PerVessel)
    <3> DEFINE one == first * PublishedHz + rest
    <3>1. one \in Nat BY <2>1, <2>2
    <3>2. PerVessel = one * over /\ Sent <= sampled * one BY <2>5, <2>7
    <3> HIDE DEF one
    <3>3. sampled * one \in Nat /\ Fleet * over \in Nat BY <2>2, <2>4, <3>1
    <3>4. (Fleet * over) * Sent <= (Fleet * over) * (sampled * one)
      <4>1. \A a, b, c \in Nat : a <= b => c * a <= c * b OBVIOUS
      <4> QED BY <2>7, <3>2, <3>3, <4>1
    <3>5. (Fleet * over) * Sent = Fleet * Sent * over BY <2>2, <2>4, <2>7
    <3>6. (Fleet * over) * (sampled * one) = sampled * (Fleet * (one * over))
      BY <2>2, <2>4, <3>1
    <3> QED BY <3>2, <3>4, <3>5, <3>6
  <2>9. sampled * (Fleet * PerVessel) <= sampled * (link.capacity * budget)
    <3>1. Fleet * PerVessel \in Nat
      BY <2>1, <2>2, <2>4, <2>5
    <3> DEFINE a == Fleet * PerVessel  b == link.capacity * budget
    <3>2. a \in Nat /\ b \in Nat /\ a <= b BY <2>2, <2>4, <3>1
    <3> HIDE DEF a, b
    <3>3. sampled * a <= sampled * b BY <2>2, <3>2
    <3> QED BY <3>3 DEF a, b
  <2>10. sampled * (link.capacity * budget) = link.capacity * budget * sampled BY <2>2
  <2>11. /\ Fleet * Sent * over \in Nat /\ sampled * (Fleet * PerVessel) \in Nat
         /\ sampled * (link.capacity * budget) \in Nat
    BY <2>1, <2>2, <2>4, <2>5, <2>7
  <2> QED BY <2>8, <2>9, <2>10, <2>11 DEF over
<1>2. BudgetInv => FleetKeepsItsBudget BY <1>1 DEF FleetKeepsItsBudget
<1> QED BY <1>2, BudgetInvariant, PTL

-----------------------------------------------------------------------------
(* The charts.                                                             *)

LEMMA MinIsLeast ==
  ASSUME NEW s \in (SUBSET Nat) \ {{}}
  PROVE  Min(s) \in s /\ \A y \in s : Min(s) <= y
<1>1. IsWellFoundedOn(BelowNat, Nat)
  <2>1. OpToRel(<, Nat) = BelowNat BY DEF OpToRel, BelowNat
  <2> QED BY <2>1, NatLessThanWellFounded
<1>2. PICK x \in s : \A y \in s : ~(<<y, x>> \in BelowNat) BY <1>1, WFMin, Zenon
<1>3. \A y \in s : x <= y
  <2> SUFFICES ASSUME NEW y \in s PROVE x <= y OBVIOUS
  <2>1. x \in Nat /\ y \in Nat OBVIOUS
  <2>2. ~(<<y, x>> \in BelowNat) BY <1>2
  <2>3. ~(y < x) BY <2>1, <2>2 DEF BelowNat
  <2> QED BY <2>1, <2>3
<1> QED BY <1>3 DEF Min

(* Bars are numbered from the left.                                        *)
Rank(chart, s) == Cardinality({k \in Bars(chart) : k < s})

LEMMA RankBelow ==
  ASSUME NEW chart, NEW n \in Nat, DOMAIN chart.series = 1 .. n
  PROVE  /\ Cardinality(Bars(chart)) \in Nat
         /\ \A s \in Bars(chart) : Rank(chart, s) \in 0 .. Cardinality(Bars(chart)) - 1
<1> DEFINE Below(s) == {k \in Bars(chart) : k < s}
<1>1. Bars(chart) \subseteq 1 .. n /\ IsFiniteSet(Bars(chart))
  <2>1. Bars(chart) \subseteq 1 .. n BY DEF Bars
  <2> QED BY <2>1, FS_Interval, FS_Subset
<1>2. Cardinality(Bars(chart)) \in Nat BY <1>1, FS_CardinalityType
<1>3. ASSUME NEW s \in Bars(chart) PROVE Rank(chart, s) \in 0 .. Cardinality(Bars(chart)) - 1
  <2>1. s \in Int /\ s \notin Below(s) /\ Below(s) \subseteq Bars(chart) BY <1>1
  <2>2. Cardinality(Below(s)) \in Nat /\ Cardinality(Below(s)) < Cardinality(Bars(chart))
    BY <1>1, <2>1, FS_Subset, FS_CardinalityType
  <2> QED BY <1>2, <2>2 DEF Rank
<1> QED BY <1>2, <1>3

(* The gap between bars, where there is one, is the least distance between *)
(* any two abscissae, and that of two neighbours; two abscissae have one.  *)
LEMMA GapIsLeast ==
  ASSUME NEW chart, NEW x, Len(x) \in Nat, \A i \in 1 .. Len(x) : x[i] \in Nat,
         \A i, j \in 1 .. Len(x) : i < j => x[i] < x[j],
         \A s \in Bars(chart) : chart.series[s].x = x
  PROVE  /\ MinBarGap(chart) \in Nat
         /\ MinBarGap(chart) > 0 =>
              /\ \A i, j \in 1 .. Len(x) : i < j => x[j] - x[i] >= MinBarGap(chart)
              /\ \E i \in 2 .. Len(x) : MinBarGap(chart) = x[i] - x[i - 1]
         /\ Bars(chart) # {} /\ 2 <= Len(x) => MinBarGap(chart) > 0
<1> DEFINE Apart(y) == {Max({y[i] - y[i - 1], y[i - 1] - y[i]}) : i \in 2 .. Len(y)}
           leaps == (UNION {Apart(chart.series[s].x) : s \in Bars(chart)}) \ {0}
<1>1. MinBarGap(chart) = IF leaps = {} THEN 0 ELSE Min(leaps) BY DEF MinBarGap
<1>2. ASSUME NEW i \in 2 .. Len(x)
      PROVE  /\ x[i] - x[i - 1] \in Nat \ {0}
             /\ Max({x[i] - x[i - 1], x[i - 1] - x[i]}) = x[i] - x[i - 1]
  <2>1. i \in 1 .. Len(x) /\ i - 1 \in 1 .. Len(x) /\ i - 1 < i OBVIOUS
  <2>2. x[i] \in Nat /\ x[i - 1] \in Nat /\ x[i - 1] < x[i] BY <2>1
  <2> DEFINE p == x[i] - x[i - 1]
             q == x[i - 1] - x[i]
  <2>3. p \in Nat \ {0} /\ q \in Int /\ p > q BY <2>2
  <2> HIDE DEF p, q
  <2>4. Max({p, q}) = p BY <2>3 DEF Max
  <2> QED BY <2>3, <2>4 DEF p, q
<1>3. Apart(x) = {x[i] - x[i - 1] : i \in 2 .. Len(x)} BY <1>2
<1>4. Apart(x) \subseteq Nat \ {0} BY <1>2, <1>3
<1> HIDE DEF Apart
<1>5. leaps = {} \/ leaps = Apart(x) BY <1>4
<1>8. Bars(chart) # {} /\ 2 <= Len(x) => leaps # {}
  <2> SUFFICES ASSUME NEW s \in Bars(chart), 2 <= Len(x) PROVE leaps # {} OBVIOUS
  <2>1. 2 \in 2 .. Len(x) OBVIOUS
  <2>2. x[2] - x[2 - 1] \in Apart(x) BY <1>3, <2>1
  <2>3. chart.series[s].x = x OBVIOUS
  <2>4. PICK v : v = x[2] - x[2 - 1] OBVIOUS
  <2>5. v \in Apart(chart.series[s].x) BY <2>2, <2>3, <2>4, Zenon
  <2>6. v # 0 BY <1>4, <2>2, <2>4
  <2>7. v \in UNION {Apart(chart.series[t].x) : t \in Bars(chart)} BY <2>5, Zenon
  <2>8. v \in leaps BY <2>6, <2>7, Zenon
  <2> QED BY <2>8
<1>6. CASE leaps = {}
  <2> HIDE DEF leaps
  <2>1. MinBarGap(chart) = 0 BY <1>1, <1>6
  <2> QED BY <1>6, <1>8, <2>1
<1>7. CASE leaps # {}
  <2>1. leaps = Apart(x) BY <1>5, <1>7
  <2>2. MinBarGap(chart) = Min(leaps) BY <1>1, <1>7
  <2> HIDE DEF leaps
  <2>3. MinBarGap(chart) \in leaps /\ \A y \in leaps : MinBarGap(chart) <= y
    BY <1>4, <1>7, <2>1, <2>2, MinIsLeast
  <2>4. MinBarGap(chart) \in Nat /\ MinBarGap(chart) > 0 BY <1>4, <2>1, <2>3
  <2>5. ASSUME NEW i \in 1 .. Len(x), NEW j \in 1 .. Len(x), i < j
        PROVE  x[j] - x[i] >= MinBarGap(chart)
    <3>1. i + 1 \in 2 .. Len(x) /\ i + 1 \in 1 .. Len(x) /\ (i + 1) - 1 = i BY <2>5
    <3>2. x[i + 1] - x[i] \in leaps BY <1>3, <2>1, <3>1
    <3>3. MinBarGap(chart) <= x[i + 1] - x[i] BY <2>3, <3>2
    <3>4. x[i + 1] <= x[j]
      <4>1. CASE i + 1 = j BY <3>1, <4>1
      <4>2. CASE i + 1 < j BY <3>1, <4>2
      <4> QED BY <2>5, <4>1, <4>2
    <3> QED BY <2>4, <3>1, <3>3, <3>4
  <2>6. \E i \in 2 .. Len(x) : MinBarGap(chart) = x[i] - x[i - 1] BY <1>3, <2>1, <2>3
  <2> QED BY <2>4, <2>5, <2>6
<1> QED BY <1>6, <1>7

LEMMA OrderedProducts == ASSUME NEW a \in Int, NEW b \in Int, NEW c \in Nat, a <= b
                         PROVE  a * c <= b * c /\ a * c \in Int /\ b * c \in Int
OBVIOUS

(* Bars are as wide as 72 hundredths of their gap, or as the floor.        *)
LEMMA WidthIs ==
  ASSUME NEW chart, NEW g \in Nat \ {0}, MinBarGap(chart) = 100 * g,
         LeastWidth(chart) \in Int, NEW n
  PROVE  BarWidth(chart, n) \in {172224 * g, LeastWidth(chart)}
<1> DEFINE p == (144 * PlotWidth * MinBarGap(chart)) \div HalfUnit
           q == LeastWidth(chart)
<1>1. p = 172224 * g
  <2>1. 144 * PlotWidth * MinBarGap(chart) = 8611200 * g /\ HalfUnit = 50
    BY DEF PlotWidth, HalfUnit, Unit
  <2>2. (8611200 * g) \div 50 = 172224 * g OBVIOUS
  <2> QED BY <2>1, <2>2
<1>2. BarWidth(chart, n) = Max({p, q})
  <2>1. MinBarGap(chart) > 0 OBVIOUS
  <2> QED BY <2>1, Zenon DEF BarWidth
<1>3. p \in Int /\ q \in Int BY <1>1
<1> HIDE DEF p, q
<1>4. Max({p, q}) \in {p, q}
  <2>1. CASE p >= q
    <3>1. Max({p, q}) = p BY <1>3, <2>1 DEF Max
    <3> QED BY <3>1
  <2>2. CASE ~(p >= q)
    <3>1. Max({p, q}) = q BY <1>3, <2>2 DEF Max
    <3> QED BY <3>1
  <2> QED BY <2>1, <2>2
<1> QED BY <1>1, <1>2, <1>4 DEF q

(* Where a bar begins: a unit of the abscissae is Grid of the common       *)
(* denominator long, and a group of bars lies about its abscissa.          *)
Grid(chart) == PlotWidth * 4 * Cardinality(Bars(chart))
Group(chart, w) == (w * Cardinality(Bars(chart))) \div 2

LEMMA BarPlaced ==
  ASSUME NEW chart, XRange(chart).low \in Int, Cardinality(Bars(chart)) \in Int,
         NEW e, NEW k, chart.series[e].x[k] \in Nat, NEW w
  PROVE  LET away == chart.series[e].x[k] - XRange(chart).low IN
         /\ BarLeft(chart, e, k, w) = away * Grid(chart) - Group(chart, w) + w * Rank(chart, e)
         /\ away \in Int /\ away * Grid(chart) \in Int
<1> DEFINE bars == Cardinality(Bars(chart))
           d == chart.series[e].x[k] - XRange(chart).low
           g == Group(chart, w)
<1>1. BarLeft(chart, e, k, w) = d * PlotWidth * 4 * bars - g + w * Rank(chart, e)
  BY DEF BarLeft, Rank, Group
<1>2. d \in Int /\ bars \in Int OBVIOUS
<1>3. Grid(chart) = PlotWidth * 4 * bars BY DEF Grid
<1> HIDE DEF d, bars, g
<1>4. d * PlotWidth * 4 * bars = d * Grid(chart) /\ d * Grid(chart) \in Int
  BY <1>2, <1>3 DEF PlotWidth
<1> QED BY <1>1, <1>2, <1>4 DEF d, g

-----------------------------------------------------------------------------
(* The axes of the charts, and what is plotted along them.                 *)

(* Below every nice step but the least there is one no less than two       *)
(* fifths of it.                                                           *)
LEMMA StepBelow ==
  ASSUME NEW t \in NiceSteps
  PROVE  /\ t \in Nat /\ t >= 10
         /\ t = 10 \/ \E u \in NiceSteps : u < t /\ 2 * t <= 5 * u
<1>1. PICK m \in {10, 20, 25, 50}, d \in Decades : t = m * d BY DEF NiceSteps
<1>2. d \in Nat /\ d >= 1 BY DEF Decades
<1>3. \A k \in {10, 20, 25, 50} : \A e \in Decades : k * e \in NiceSteps BY DEF NiceSteps
<1>4. CASE m = 10
  <2>1. CASE d = 1 BY <1>1, <1>4, <2>1
  <2>2. CASE d # 1
    <3>1. \E e \in Decades : d = 10 * e BY <2>2 DEF Decades
    <3>2. PICK e \in Decades : d = 10 * e BY <3>1
    <3>3. e \in Nat /\ e >= 1 BY DEF Decades
    <3>4. 50 * e \in NiceSteps BY <1>3
    <3>5. t = 100 * e BY <1>1, <1>4, <3>2, <3>3
    <3>6. 50 * e < t /\ 2 * t <= 5 * (50 * e) BY <3>3, <3>5
    <3> QED BY <3>3, <3>4, <3>5, <3>6
  <2> QED BY <2>1, <2>2
<1>5. CASE m = 20
  <2>1. 10 * d \in NiceSteps BY <1>3
  <2>2. t = 20 * d /\ 10 * d < t /\ 2 * t <= 5 * (10 * d) BY <1>1, <1>2, <1>5
  <2> QED BY <1>2, <2>1, <2>2
<1>6. CASE m = 25
  <2>1. 20 * d \in NiceSteps BY <1>3
  <2>2. t = 25 * d /\ 20 * d < t /\ 2 * t <= 5 * (20 * d) BY <1>1, <1>2, <1>6
  <2> QED BY <1>2, <2>1, <2>2
<1>7. CASE m = 50
  <2>1. 25 * d \in NiceSteps BY <1>3
  <2>2. t = 50 * d /\ 25 * d < t /\ 2 * t <= 5 * (25 * d) BY <1>1, <1>2, <1>7
  <2> QED BY <1>2, <2>1, <2>2
<1> QED BY <1>4, <1>5, <1>6, <1>7

(* The longest range of an axis that has a step.                           *)
Longest == 5 * LargestFigure

(* A step is long enough for as many parts as it was asked for.            *)
LEMMA StepForParts ==
  ASSUME NEW range \in Nat, NEW parts \in {TicksX, TicksY}, NEW t \in Nat
  PROVE  t >= -((-range) \div parts) <=> t * parts >= range
<1>1. CASE parts = 5
  <2>1. t >= -((-range) \div 5) <=> t * 5 >= range OBVIOUS
  <2> QED BY <1>1, <2>1
<1>2. CASE parts = 6
  <2>1. t >= -((-range) \div 6) <=> t * 6 >= range OBVIOUS
  <2> QED BY <1>2, <2>1
<1> QED BY <1>1, <1>2 DEF TicksX, TicksY

(* A step is long enough, and no longer than it must be.                   *)
LEMMA NiceStepFits ==
  ASSUME NEW range \in Nat, range > 0, range <= Longest, NEW parts \in {TicksX, TicksY}
  PROVE  /\ NiceStep(range, parts) \in NiceSteps
         /\ NiceStep(range, parts) * parts >= range
         /\ NiceStep(range, parts) = 10 \/ 2 * NiceStep(range, parts) < range
<1> DEFINE enough == {s \in NiceSteps : s * parts >= range}
           t == NiceStep(range, parts)
<1>1. parts \in Nat /\ parts >= 5 BY DEF TicksX, TicksY
<1>2. enough \in (SUBSET Nat) \ {{}}
  <2>1. enough \subseteq Nat BY StepBelow
  <2>2. \E s \in NiceSteps : s = 500000000
    <3>1. 50 \in {10, 20, 25, 50} /\ 10000000 \in Decades BY DEF Decades
    <3>2. 50 * 10000000 \in NiceSteps BY <3>1 DEF NiceSteps
    <3> QED BY <3>2
  <2>3. PICK s \in NiceSteps : s = 500000000 BY <2>2
  <2>4. s * parts >= range
    <3>1. parts = 5 \/ parts = 6 BY DEF TicksX, TicksY
    <3>2. range <= 1250000000 BY DEF Longest, LargestFigure, Unit
    <3> QED BY <2>3, <3>1, <3>2
  <2> QED BY <2>1, <2>3, <2>4
<1>3. t = Min(enough)
  <2> DEFINE raw == -((-range) \div parts)
  <2>1. t = Min({s \in NiceSteps : s >= raw}) BY DEF NiceStep
  <2>2. \A s \in NiceSteps : s >= raw <=> s * parts >= range BY StepBelow, StepForParts
  <2>3. {s \in NiceSteps : s >= raw} = enough BY <2>2
  <2> QED BY <2>1, <2>3
<1>4. t \in enough /\ \A y \in enough : t <= y BY <1>2, <1>3, MinIsLeast, Zenon
<1>5. t \in NiceSteps /\ t * parts >= range BY <1>4
<1> HIDE DEF t
<1>6. ASSUME t # 10 PROVE 2 * t < range
  <2>1. PICK u \in NiceSteps : u < t /\ 2 * t <= 5 * u BY <1>5, <1>6, StepBelow
  <2>2. u \in Nat /\ t \in Nat BY <1>5, StepBelow
  <2>3. u \notin enough BY <1>4, <2>1, <2>2
  <2>4. u * parts < range BY <1>1, <2>2, <2>3
  <2>5. 5 * u <= u * parts /\ u * parts \in Nat BY <1>1, <2>2
  <2> QED BY <2>1, <2>2, <2>4, <2>5
<1> QED BY <1>5, <1>6 DEF t

LEMMA RoundedDown ==
  ASSUME NEW v \in Int, NEW s \in Nat \ {0}
  PROVE  v \div s \in Int /\ (v \div s) * s <= v /\ v < (v \div s) * s + s
OBVIOUS

LEMMA RoundedUp ==
  ASSUME NEW v \in Int, NEW s \in Nat \ {0}
  PROVE  \E k \in Int : RoundUp(v, s) = k * s /\ v <= k * s /\ k * s < v + s
<1> DEFINE minus == -v
           down == minus \div s
           k == -down
<1>1. minus \in Int OBVIOUS
<1>2. RoundUp(v, s) = -(down * s) BY DEF RoundUp
<1>3. v = -minus OBVIOUS
<1> HIDE DEF minus
<1>4. down \in Int /\ down * s <= minus /\ minus < down * s + s BY <1>1, RoundedDown
<1> HIDE DEF down
<1>5. k \in Int /\ k * s = -(down * s) /\ down * s \in Int BY <1>4
<1> HIDE DEF k
<1>6. v <= k * s /\ k * s < v + s BY <1>1, <1>3, <1>4, <1>5
<1> QED BY <1>2, <1>5, <1>6

LEMMA LessByFactor ==
  ASSUME NEW a \in Int, NEW b \in Int, NEW s \in Nat \ {0}, a * s < b * s + s
  PROVE  a <= b
<1> SUFFICES ASSUME a > b PROVE FALSE OBVIOUS
<1>1. b + 1 <= a /\ b + 1 \in Int /\ s \in Nat OBVIOUS
<1>2. (b + 1) * s <= a * s BY <1>1, OrderedProducts
<1>3. (b + 1) * s = b * s + s OBVIOUS
<1>4. a * s \in Int /\ b * s \in Int OBVIOUS
<1> QED BY <1>2, <1>3, <1>4

(* A range that two neighbouring multiples of the step lie in has two      *)
(* labels, and no more than parts and one.                                 *)
LEMMA LabelsCounted ==
  ASSUME NEW range, range.low \in Int, range.high \in Int,
         NEW s \in Nat \ {0}, NEW parts \in Nat, range.high - range.low <= parts * s,
         NEW a \in Int, range.low <= a * s, a * s + s <= range.high
  PROVE  Cardinality(Labels(range, s)) \in 2 .. parts + 1
<1> DEFINE low == range.low
           high == range.high
           first == RoundUp(low, s) \div s
           last == high \div s
<1>1. PICK up \in Int : RoundUp(low, s) = up * s /\ low <= up * s /\ up * s < low + s
  BY RoundedUp
<1>2. last \in Int /\ last * s <= high /\ high < last * s + s BY RoundedDown
<1>3. first = up
  <2>1. first = (up * s) \div s BY <1>1
  <2>2. (up * s) \div s = up OBVIOUS
  <2> HIDE DEF first
  <2> QED BY <2>1, <2>2
<1> HIDE DEF first, last, low, high
<1>6. low \in Int /\ high \in Int /\ high - low <= parts * s
      /\ low <= a * s /\ a * s + s <= high
  BY DEF low, high
<1>7. /\ up * s \in Int /\ last * s \in Int /\ a * s \in Int /\ parts * s \in Int
      /\ low <= up * s /\ up * s < low + s
  BY <1>1, <1>2, <1>6
<1>8. up <= a
  <2>1. up * s < a * s + s BY <1>6, <1>7
  <2> QED BY <2>1, LessByFactor
<1>9. a + 1 <= last
  <2>1. (a + 1) * s = a * s + s /\ a + 1 \in Int OBVIOUS
  <2>2. (a + 1) * s < last * s + s BY <1>2, <1>6, <1>7, <2>1
  <2>3. ASSUME NEW b \in Int, b = a + 1 PROVE b <= last BY <1>2, <2>2, <2>3, LessByFactor
  <2> QED BY <2>1, <2>3
<1>10. last - up <= parts
  <2> DEFINE n == last - up
  <2>1. n \in Int /\ n * s = last * s - up * s BY <1>2, <1>3
  <2>2. last * s - up * s <= parts * s BY <1>2, <1>6, <1>7
  <2> HIDE DEF n
  <2>3. n * s < parts * s + s BY <1>7, <2>1, <2>2
  <2>4. n <= parts BY <2>1, <2>3, LessByFactor
  <2> QED BY <2>4 DEF n
<1>11. Labels(range, s) = {k * s : k \in up .. last}
  BY <1>3 DEF Labels, low, high, first, last
<1> DEFINE marks == {k * s : k \in up .. last}
           put == [k \in up .. last |-> k * s]
<1>12. put \in Bijection(up .. last, marks)
  <2>1. put \in [up .. last -> marks] OBVIOUS
  <2>2. ASSUME NEW j \in up .. last, NEW k \in up .. last, put[j] = put[k] PROVE j = k
    <3>1. j \in Int /\ k \in Int /\ j * s = k * s BY <2>2
    <3>2. j * s \in Int /\ j * s < k * s + s /\ k * s < j * s + s BY <3>1
    <3> QED BY <3>1, <3>2, LessByFactor
  <2>3. \A y \in marks : \E k \in up .. last : put[k] = y OBVIOUS
  <2> HIDE DEF put, marks
  <2> QED BY <2>1, <2>2, <2>3 DEF Bijection, Injection, Surjection, IsInjective
<1>13. Cardinality(marks) = last - up + 1
  <2>1. IsFiniteSet(up .. last) /\ Cardinality(up .. last) = last - up + 1
    <3>1. up \in Int /\ last \in Int /\ ~(up > last) BY <1>2, <1>3, <1>8, <1>9
    <3> QED BY <3>1, FS_Interval
  <2>2. ExistsBijection(up .. last, marks) BY <1>12 DEF ExistsBijection
  <2> HIDE DEF marks
  <2> QED BY <2>1, <2>2, FS_Bijection
<1> QED BY <1>2, <1>3, <1>8, <1>9, <1>10, <1>11, <1>13

(* The ends of a bounded set of integers.                                  *)
LEMMA EndsOf ==
  ASSUME NEW b \in Nat, NEW s \in (SUBSET (-b .. b)) \ {{}}
  PROVE  /\ Min(s) \in s /\ Max(s) \in s
         /\ \A y \in s : Min(s) <= y /\ y <= Max(s)
<1> DEFINE T == {y + b : y \in s}
<1>1. T \in (SUBSET (0 .. 2 * b)) \ {{}} /\ T \in (SUBSET Nat) \ {{}} /\ 2 * b \in Nat OBVIOUS
<1> HIDE DEF T
<1>2. Min(T) \in T /\ \A y \in T : Min(T) <= y BY <1>1, MinIsLeast, Zenon
<1>3. ASSUME NEW m \in Nat, m = 2 * b PROVE Max(T) \in T /\ \A y \in T : Max(T) >= y
  BY <1>1, <1>3, MaxIsIn
<1>4. Max(T) \in T /\ \A y \in T : Max(T) >= y BY <1>1, <1>3
<1>5. PICK p \in s : Min(T) = p + b BY <1>2 DEF T
<1>6. PICK q \in s : Max(T) = q + b BY <1>4 DEF T
<1>7. \A y \in s : p <= y /\ y <= q
  <2> SUFFICES ASSUME NEW y \in s PROVE p <= y /\ y <= q OBVIOUS
  <2>1. y + b \in T BY DEF T
  <2>2. p + b <= y + b /\ y + b <= q + b BY <1>2, <1>4, <1>5, <1>6, <2>1
  <2>3. p \in Int /\ q \in Int /\ y \in Int OBVIOUS
  <2> QED BY <2>2, <2>3
<1>8. Min(s) \in s /\ \A y \in s : Min(s) <= y BY <1>7, Zenon DEF Min
<1>9. Max(s) \in s /\ \A y \in s : Max(s) >= y
  <2>1. \A y \in s : q >= y BY <1>7
  <2> QED BY <2>1, Zenon DEF Max
<1> QED
  <2>1. \A y \in s : y \in Int OBVIOUS
  <2> QED BY <1>8, <1>9, <2>1

(* An ordinate a chart can show.                                           *)
Shown == -LargestFigure .. LargestFigure

LEMMA ShownAreInt == Shown \subseteq Int
<1> DEFINE bound == LargestFigure
<1>1. bound \in Nat BY DEF LargestFigure, Unit
<1> HIDE DEF bound
<1>2. -bound .. bound \subseteq Int BY <1>1
<1> QED BY <1>2 DEF bound, Shown

(* The padded range holds every ordinate, and is never so long that an     *)
(* axis would have no step for it.                                         *)
LEMMA PaddedHolds ==
  ASSUME NEW chart, Ranged(chart) \in (SUBSET Shown) \ {{}}
  PROVE  /\ Padded(chart).low \in Int /\ Padded(chart).high \in Int
         /\ Padded(chart).low < Padded(chart).high
         /\ 100 * (Padded(chart).high - Padded(chart).low) <= 232 * LargestFigure
         /\ \A v \in Ranged(chart) : Padded(chart).low <= v /\ v <= Padded(chart).high
<1> DEFINE m == Min(Ranged(chart))
           M == Max(Ranged(chart))
           L == Least(chart)
           G == Greatest(chart)
           pad == ((G - L) * 8) \div 100
<1> DEFINE bound == LargestFigure
<1>2. bound \in Nat /\ 50 <= bound BY SMT DEF LargestFigure, Unit
<1>2a. Ranged(chart) \in (SUBSET (-bound .. bound)) \ {{}} BY DEF Shown
<1> HIDE DEF bound
<1>2b. /\ m \in Ranged(chart) /\ M \in Ranged(chart)
       /\ \A v \in Ranged(chart) : m <= v /\ v <= M
  BY <1>2, <1>2a, EndsOf, Zenon
<1>2c. /\ m \in Int /\ M \in Int /\ m <= M /\ -bound <= m /\ m <= bound /\ M <= bound
       /\ \A v \in Ranged(chart) : v \in Int
  BY <1>2, <1>2a, <1>2b
<1>3. L = IF Bars(chart) # {} /\ m > 0 THEN 0 ELSE m BY DEF Least
<1>4. G = IF M <= L THEN L + 100 ELSE M BY DEF Greatest, Unit
<1> HIDE DEF m, M, L, G
<1>5. L \in Int /\ -bound <= L /\ L <= bound /\ L <= m BY <1>2, <1>2c, <1>3
<1>6. G \in Int /\ M <= G /\ 1 <= G - L /\ G - L <= 2 * bound
  <2>1. CASE M <= L BY <1>2, <1>2c, <1>4, <1>5, <2>1
  <2>2. CASE ~(M <= L) BY <1>2, <1>2c, <1>4, <1>5, <2>2
  <2> QED BY <2>1, <2>2
<1>7. pad \in Nat /\ 100 * pad <= 16 * bound
  <2> DEFINE x == (G - L) * 8
  <2>1. x \in Nat /\ x <= 16 * bound BY <1>2, <1>5, <1>6
  <2> HIDE DEF x
  <2>2. x \div 100 \in Nat /\ 100 * (x \div 100) <= x BY <2>1
  <2> QED BY <1>2, <2>1, <2>2 DEF x
<1>8. Padded(chart).low = (IF L = 0 THEN 0 ELSE L - pad) /\ Padded(chart).high = G + pad
  BY DEF Padded, L, G
<1> HIDE DEF pad
<1> DEFINE low == Padded(chart).low
           high == Padded(chart).high
<1>9. low \in Int /\ high \in Int /\ low <= L /\ G <= high /\ low < high
      /\ 100 * (high - low) <= 232 * bound
  <2>1. low = (IF L = 0 THEN 0 ELSE L - pad) /\ high = G + pad BY <1>8
  <2> HIDE DEF low, high
  <2>2. low \in Int /\ low <= L /\ L - low <= pad BY <1>5, <1>7, <2>1
  <2>3. high - low = (G - L) + pad + (L - low) /\ G \in Int /\ G <= high /\ high \in Int
    BY <1>5, <1>6, <1>7, <2>1, <2>2
  <2> DEFINE e == G - L
             f == L - low
  <2>4. high - low = e + pad + f /\ e \in Int /\ f \in Int /\ f <= pad /\ e <= 2 * bound
        /\ 1 <= e /\ 0 <= f
    BY <1>5, <1>6, <2>2, <2>3
  <2> HIDE DEF e, f
  <2>5. 100 * (high - low) <= 232 * bound /\ high - low >= 1 BY <1>2, <1>7, <2>4
  <2> QED BY <2>2, <2>3, <2>5
<1> HIDE DEF low, high
<1>10. ASSUME NEW v \in Ranged(chart) PROVE low <= v /\ v <= high
  <2>1. m <= v /\ v <= M BY <1>2b
  <2>2. v \in Int BY <1>2c
  <2> QED BY <1>2c, <1>5, <1>6, <1>9, <2>1, <2>2
<1> QED BY <1>9, <1>10 DEF low, high, bound

(* A range of more than two steps has two neighbouring multiples in it.    *)
LEMMA NeighboursIn ==
  ASSUME NEW low \in Int, NEW high \in Int, NEW s \in Nat \ {0}, 2 * s < high - low
  PROVE  \E a \in Int : low <= a * s /\ a * s + s <= high
<1>1. PICK k \in Int : low <= k * s /\ k * s < low + s BY RoundedUp
<1>2. k * s \in Int OBVIOUS
<1> QED BY <1>1, <1>2

(* A linear axis begins at or below what its range was, ends at or above,  *)
(* and is labelled.                                                        *)
LEMMA SnappedHolds ==
  ASSUME NEW chart, Ranged(chart) \in (SUBSET Shown) \ {{}}, ~chart.logY
  PROVE  /\ YRange(chart).low \in Int /\ YRange(chart).high \in Int
         /\ YRange(chart).low <= Padded(chart).low
         /\ Padded(chart).high <= YRange(chart).high
         /\ Cardinality(YLabels(chart)) \in 2 .. TicksY + 1
<1> DEFINE r == Padded(chart)
           bound == LargestFigure
           t == NiceStep(r.high - r.low, TicksY)
           y == YRange(chart)
<1>1. /\ r.low \in Int /\ r.high \in Int /\ r.low < r.high
      /\ 100 * (r.high - r.low) <= 232 * bound
  BY PaddedHolds
<1>2. bound \in Nat /\ 50 <= bound /\ Longest = 5 * bound BY DEF Longest, LargestFigure, Unit
<1>3. TicksY \in {TicksX, TicksY} /\ TicksY = 5 BY DEF TicksY
<1> HIDE DEF r, bound
<1>4. y.low = RoundDown(r.low, t) /\ y.high = RoundUp(r.high, t) BY DEF YRange, r
<1> HIDE DEF y
<1>5. ASSUME NEW range \in Nat, range > 0, range <= 5 * bound
      PROVE  /\ NiceStep(range, TicksY) \in NiceSteps
             /\ NiceStep(range, TicksY) * TicksY >= range
             /\ NiceStep(range, TicksY) = 10 \/ 2 * NiceStep(range, TicksY) < range
  <2>1. range <= Longest BY <1>2, <1>5
  <2> QED BY <1>3, <1>5, <2>1, NiceStepFits, Zenon
<1>6. t \in NiceSteps /\ (t = 10 \/ 2 * t < r.high - r.low)
  <2> DEFINE d == r.high - r.low
  <2>1. d \in Nat /\ d > 0 /\ d <= 5 * bound BY <1>1, <1>2
  <2> HIDE DEF d
  <2>2. NiceStep(d, TicksY) \in NiceSteps
        /\ (NiceStep(d, TicksY) = 10 \/ 2 * NiceStep(d, TicksY) < d)
    BY <1>5, <2>1
  <2> QED BY <2>2 DEF d
<1>7. t \in Nat /\ t >= 10 BY <1>6, StepBelow
<1> DEFINE low == y.low
           high == y.high
<1> HIDE DEF t
<1>8. PICK k \in Int : low = k * t /\ low <= r.low /\ r.low < low + t
  <2> DEFINE v == r.low
             k == v \div t
  <2>1. v \in Int /\ t \in Nat \ {0} BY <1>1, <1>7
  <2> HIDE DEF v
  <2>2. k \in Int /\ k * t <= v /\ v < k * t + t BY <2>1, RoundedDown
  <2>3. low = k * t BY <1>4 DEF RoundDown, v
  <2> HIDE DEF k, low
  <2> QED BY <2>2, <2>3 DEF v
<1>9. PICK l \in Int : high = l * t /\ r.high <= high /\ high < r.high + t
  <2> DEFINE v == r.high
  <2>1. v \in Int /\ t \in Nat \ {0} BY <1>1, <1>7
  <2> HIDE DEF v
  <2>2. PICK l \in Int : RoundUp(v, t) = l * t /\ v <= l * t /\ l * t < v + t BY <2>1, RoundedUp
  <2>3. high = l * t BY <1>4, <2>2 DEF v
  <2> HIDE DEF high
  <2> QED BY <2>2, <2>3 DEF v
<1> HIDE DEF low, high
<1>10. low \in Int /\ high \in Int BY <1>7, <1>8, <1>9
<1> DEFINE d == high - low
           n == NiceStep(d, TicksY)
<1>11. d \in Nat /\ d > 0 /\ d <= 5 * bound /\ r.high - r.low <= d
  <2>1. d < (r.high - r.low) + 2 * t /\ r.high - r.low <= d BY <1>1, <1>7, <1>8, <1>9, <1>10
  <2>2. r.high - r.low \in Nat /\ r.high - r.low > 0 BY <1>1
  <2> DEFINE e == r.high - r.low
  <2>3. /\ e \in Nat /\ e > 0 /\ d < e + 2 * t /\ e <= d
        /\ (t = 10 \/ 2 * t < e) /\ 100 * e <= 232 * bound
    BY <1>1, <1>6, <2>1, <2>2
  <2>4. d \in Int BY <1>10
  <2> HIDE DEF d, e
  <2>5. d \in Nat /\ d > 0 /\ d <= 5 * bound BY <1>2, <1>7, <2>3, <2>4
  <2> QED BY <2>3, <2>5 DEF e
<1> HIDE DEF d
<1>12. /\ n \in NiceSteps /\ n * 5 >= d /\ (n = 10 \/ 2 * n < d)
       /\ n \in Nat /\ n >= 10
  <2>1. n \in NiceSteps /\ n * TicksY >= d /\ (n = 10 \/ 2 * n < d) BY <1>5, <1>11
  <2> QED BY <1>3, <2>1, StepBelow
<1>13. YLabels(chart) = Labels(y, n) BY DEF YLabels, n, d, low, high, y
<1> HIDE DEF n
<1>14. \E a \in Int : low <= a * n /\ a * n + n <= high
  <2>1. CASE 2 * n < high - low
    <3>1. n \in Nat \ {0} BY <1>12
    <3> QED BY <1>10, <2>1, <3>1, NeighboursIn
  <2>2. CASE ~(2 * n < high - low)
    <3>1. n = 10 /\ d <= 50 BY <1>10, <1>12, <2>2 DEF d
    <3>2. t = 10 \/ 2 * t < 50 BY <1>1, <1>6, <1>7, <1>11, <3>1
    <3>3. t = 10 \/ t = 20
      <4>1. PICK m \in {10, 20, 25, 50}, e \in Decades : t = m * e BY <1>6 DEF NiceSteps
      <4>2. e = 1 \/ (e \in Nat /\ e >= 10) BY DEF Decades
      <4>3. CASE e = 1 BY <3>2, <4>1, <4>3
      <4>4. CASE e \in Nat /\ e >= 10
        <5>1. t >= 100 BY <4>1, <4>4
        <5> QED BY <1>7, <3>2, <5>1
      <4> QED BY <4>2, <4>3, <4>4
    <3>4. \E a, b \in Int : low = a * 10 /\ high = b * 10
      <4>1. CASE t = 10 BY <1>8, <1>9, <4>1
      <4>2. CASE t = 20
        <5>1. 2 * k \in Int /\ 2 * l \in Int /\ low = (2 * k) * 10 /\ high = (2 * l) * 10
          BY <1>8, <1>9, <4>2
        <5> QED BY <5>1
      <4> QED BY <3>3, <4>1, <4>2
    <3>5. low < high BY <1>10, <1>11 DEF d
    <3> QED BY <3>1, <3>4, <3>5
  <2> QED BY <2>1, <2>2
<1>15. Cardinality(Labels(y, n)) \in 2 .. 5 + 1
  <2>1. PICK a \in Int : low <= a * n /\ a * n + n <= high BY <1>14
  <2>2. ASSUME NEW parts \in Nat, parts = 5 PROVE Cardinality(Labels(y, n)) \in 2 .. parts + 1
    <3>1. y.high - y.low <= parts * n BY <1>10, <1>12, <2>2 DEF d, low, high
    <3>2. y.low \in Int /\ y.high \in Int /\ n \in Nat \ {0} BY <1>10, <1>12 DEF low, high
    <3>3. y.low <= a * n /\ a * n + n <= y.high BY <2>1 DEF low, high
    <3> QED BY <3>1, <3>2, <3>3, LabelsCounted
  <2> QED BY <2>2
<1> QED BY <1>3, <1>8, <1>9, <1>10, <1>13, <1>15 DEF low, high, r, y

(* Where a linear axis puts ordinates.                                     *)
LEMMA LinearInside ==
  ASSUME NEW chart, Ranged(chart) \in (SUBSET Shown) \ {{}}, ~chart.logY
  PROVE  LET y == YAxis(chart) IN
         /\ \A v \in Ranged(chart) : y.low <= OnAxis(chart, v) /\ OnAxis(chart, v) <= y.high
         /\ (\E v \in Ranged(chart) : v >= 0) =>
              y.low <= Baseline(chart) /\ Baseline(chart) <= y.high
<1> DEFINE low == YRange(chart).low
           high == YRange(chart).high
<1>1. /\ low \in Int /\ high \in Int
      /\ \A v \in Ranged(chart) : v \in Int /\ low <= v /\ v <= high
  <2>1. /\ low \in Int /\ high \in Int /\ low <= Padded(chart).low /\ Padded(chart).high <= high
    BY SnappedHolds
  <2>2. /\ Padded(chart).low \in Int /\ Padded(chart).high \in Int
        /\ \A v \in Ranged(chart) : Padded(chart).low <= v /\ v <= Padded(chart).high
    BY PaddedHolds
  <2>3. \A v \in Ranged(chart) : v \in Int BY ShownAreInt
  <2> HIDE DEF low, high
  <2> SUFFICES ASSUME NEW v \in Ranged(chart) PROVE v \in Int /\ low <= v /\ v <= high
    BY <2>1
  <2> QED BY <2>1, <2>2, <2>3
<1>2. \A v : OnAxis(chart, v) = v BY DEF OnAxis
<1>3. YAxis(chart).low = low /\ YAxis(chart).high = high BY <1>2 DEF YAxis
<1>4. Baseline(chart) = IF low < 0 THEN 0 ELSE low BY <1>2 DEF Baseline
<1> HIDE DEF low, high
<1>5. ASSUME NEW v \in Ranged(chart), v >= 0
      PROVE  low <= Baseline(chart) /\ Baseline(chart) <= high
  <2>1. v \in Int /\ low <= v /\ v <= high BY <1>1
  <2> QED BY <1>1, <1>4, <1>5, <2>1
<1> QED BY <1>1, <1>2, <1>3, <1>5

(* Where a logarithmic axis does: what has no logarithm lies at its foot.  *)
LEMMA LogarithmicInside ==
  ASSUME NEW chart, Ranged(chart) \in (SUBSET Shown) \ {{}}, chart.logY
  PROVE  LET y == YAxis(chart) IN
         /\ \A v \in Ranged(chart) : y.low <= OnAxis(chart, v) /\ OnAxis(chart, v) <= y.high
         /\ y.low <= Baseline(chart) /\ Baseline(chart) <= y.high
<1> DEFINE r == Padded(chart)
           low == r.low
           high == r.high
           foot == LeastPositive(chart)
           positive == {v \in Ranged(chart) : v > 0}
<1>1. /\ low \in Int /\ high \in Int /\ low < high
      /\ \A v \in Ranged(chart) : low <= v /\ v <= high
  BY PaddedHolds
<1>2. \A v \in Ranged(chart) : v \in Int BY ShownAreInt
<1>3. /\ foot \in Nat /\ foot > 0 /\ \A v \in Ranged(chart) : v > 0 => foot <= v
      /\ high > 0 => foot <= high
  <2>1. CASE positive = {}
    <3>1. foot = 1 BY <2>1 DEF LeastPositive
    <3> QED BY <1>1, <2>1, <3>1
  <2>2. CASE positive # {}
    <3>1. positive \in (SUBSET Nat) \ {{}} BY <1>2, <2>2
    <3>2. foot = Min(positive) BY <2>2 DEF LeastPositive
    <3>3. foot \in positive /\ \A v \in positive : foot <= v BY <3>1, <3>2, MinIsLeast, Zenon
    <3>4. foot \in Ranged(chart) /\ foot > 0 /\ \A v \in Ranged(chart) : v > 0 => foot <= v
      BY <3>3
    <3>5. foot <= high /\ foot \in Nat BY <1>1, <1>2, <3>4
    <3> QED BY <3>4, <3>5
  <2> QED BY <2>1, <2>2
<1>4. \A v : OnAxis(chart, v) = IF v <= 0 THEN foot ELSE v BY DEF OnAxis
<1>5. YRange(chart) = r BY DEF YRange
<1> DEFINE bottom == YAxis(chart).low
           top == YAxis(chart).high
<1>6. bottom = OnAxis(chart, low) /\ top = OnAxis(chart, high) BY <1>5 DEF YAxis
<1>7. Baseline(chart) = OnAxis(chart, IF low < 0 THEN 0 ELSE low) BY <1>5 DEF Baseline
<1> HIDE DEF foot, low, high, bottom, top
<1>8. bottom = (IF low <= 0 THEN foot ELSE low) /\ top = (IF high <= 0 THEN foot ELSE high)
  BY <1>4, <1>6
<1>9. bottom <= Baseline(chart) /\ Baseline(chart) <= top
  <2>1. Baseline(chart) = IF low <= 0 THEN foot ELSE low
    <3>1. CASE low < 0 BY <1>1, <1>4, <1>7, <3>1
    <3>2. CASE ~(low < 0) BY <1>1, <1>4, <1>7, <3>2
    <3> QED BY <3>1, <3>2
  <2> QED BY <1>1, <1>3, <1>8, <2>1
<1>10. ASSUME NEW v \in Ranged(chart)
       PROVE  bottom <= OnAxis(chart, v) /\ OnAxis(chart, v) <= top
  <2>1. v \in Int /\ low <= v /\ v <= high /\ (v > 0 => foot <= v) BY <1>1, <1>2, <1>3
  <2>2. OnAxis(chart, v) = IF v <= 0 THEN foot ELSE v BY <1>4
  <2> QED BY <1>1, <1>3, <1>8, <2>1, <2>2
<1> QED BY <1>9, <1>10 DEF bottom, top

(* The axis of a grid: its length, and labels on it that are whole.        *)
LEMMA GridAxis ==
  ASSUME NEW chart, NEW a \in Nat, NEW b \in Nat, NEW c \in Nat, a < b, b < c, c <= 1000,
         Abscissae(chart) = {a * Unit, b * Unit, c * Unit},
         MinBarGap(chart) \in Nat, MinBarGap(chart) <= (c - b) * Unit
  PROVE  LET x == XRange(chart)
             half == MinBarGap(chart) \div 2 IN
         /\ half \in Nat /\ x.low = a * Unit - half /\ x.high = c * Unit + half
         /\ \A v \in Abscissae(chart) : x.low <= v /\ v <= x.high
         /\ Cardinality(XLabels(chart)) \in 2 .. TicksX + 1
<1> DEFINE x == XRange(chart)
           half == MinBarGap(chart) \div 2
           low == x.low
           high == x.high
<1>1. half \in Nat /\ 2 * half <= (c - b) * 100
  <2> DEFINE m == MinBarGap(chart)
  <2>1. m \in Nat /\ m <= (c - b) * 100 BY DEF Unit
  <2> HIDE DEF m
  <2>2. m \div 2 \in Nat /\ 2 * (m \div 2) <= m BY <2>1
  <2> QED BY <2>1, <2>2 DEF m
<1>2. Min(Abscissae(chart)) = a * 100 /\ Max(Abscissae(chart)) = c * 100
  <2> DEFINE p == a * 100
             q == b * 100
             z == c * 100
  <2>1. p \in Int /\ q \in Int /\ z \in Int /\ p < q /\ q < z OBVIOUS
  <2>2. Abscissae(chart) = {p, q, z} BY DEF Unit
  <2> HIDE DEF p, q, z
  <2>3. Min({p, q, z}) = p BY <2>1 DEF Min
  <2>4. Max({p, q, z}) = z BY <2>1 DEF Max
  <2> QED BY <2>2, <2>3, <2>4 DEF p, z
<1>3. low = a * 100 - half /\ high = c * 100 + half
  <2>1. /\ low = Min(Abscissae(chart)) - half
        /\ high = (IF Max(Abscissae(chart)) <= Min(Abscissae(chart))
                     THEN Min(Abscissae(chart)) + Unit ELSE Max(Abscissae(chart))) + half
    BY DEF XRange
  <2>2. ~(c * 100 <= a * 100) OBVIOUS
  <2> QED BY <1>2, <2>1, <2>2
<1> HIDE DEF low, high, half
<1>4. \A v \in Abscissae(chart) : low <= v /\ v <= high
  <2>1. /\ low <= a * 100 /\ a * 100 <= high /\ low <= b * 100 /\ b * 100 <= high
        /\ low <= c * 100 /\ c * 100 <= high
    BY <1>1, <1>3
  <2> QED BY <2>1 DEF Unit
<1>5. IntegralX(chart) BY DEF IntegralX, Unit
<1> DEFINE d == high - low
           t == NiceStep(d, TicksX)
           s == Max({t, Unit})
<1>6. d \in Nat /\ d >= 200 /\ d <= 200 * (c - a) /\ d = 100 * (c - a) + 2 * half
  BY <1>1, <1>3
<1>7. 200 * (c - a) <= Longest
  <2>1. 200 * (c - a) <= 200000 OBVIOUS
  <2>2. 200000 <= Longest /\ Longest \in Int BY SMT DEF Longest, LargestFigure, Unit
  <2> QED BY <2>1, <2>2
<1>8. XLabels(chart) = Labels(x, s) BY <1>5 DEF XLabels, d, t, s, low, high, x
<1> HIDE DEF d
<1>9. t \in NiceSteps /\ t * 6 >= d /\ (t = 10 \/ 2 * t < d)
  <2>1. d > 0 /\ d <= Longest /\ TicksX \in {TicksX, TicksY}
    <3>1. Longest \in Int BY DEF Longest, LargestFigure, Unit
    <3> QED BY <1>6, <1>7, <3>1
  <2>2. t * TicksX >= d /\ t \in NiceSteps /\ (t = 10 \/ 2 * t < d)
    BY <1>6, <2>1, NiceStepFits
  <2> QED BY <2>2 DEF TicksX
<1>10. t \in Nat /\ t >= 10 BY <1>9, StepBelow
<1> HIDE DEF t
<1>11. s = IF t >= 100 THEN t ELSE 100
  <2>1. CASE t >= 100 BY <1>10, <2>1 DEF Max, Unit
  <2>2. CASE ~(t >= 100) BY <1>10, <2>2 DEF Max, Unit
  <2> QED BY <2>1, <2>2
<1> HIDE DEF s
<1>12. s \in Nat \ {0} /\ d <= 6 * s BY <1>6, <1>9, <1>10, <1>11
<1>13. low \in Int /\ high \in Int BY <1>1, <1>3
<1>14. \E k \in Int : low <= k * s /\ k * s + s <= high
  <2>1. CASE 2 * s < d
    <3>1. 2 * s < high - low BY <2>1 DEF d
    <3> QED BY <1>12, <1>13, <3>1, NeighboursIn
  <2>2. CASE ~(2 * s < d)
    <3>1. s = 100 BY <1>6, <1>9, <1>10, <1>11, <2>2
    <3>2. low <= a * s /\ a * s + s <= high BY <1>1, <1>3, <3>1
    <3> QED BY <3>2
  <2> QED BY <2>1, <2>2
<1>15. Cardinality(Labels(x, s)) \in 2 .. 6 + 1
  <2>1. PICK k \in Int : low <= k * s /\ k * s + s <= high BY <1>14
  <2>2. ASSUME NEW parts \in Nat, parts = 6 PROVE Cardinality(Labels(x, s)) \in 2 .. parts + 1
    <3>1. x.high - x.low <= parts * s BY <1>12, <2>2 DEF d, low, high
    <3>2. x.low \in Int /\ x.high \in Int BY <1>13 DEF low, high
    <3>3. x.low <= k * s /\ k * s + s <= x.high BY <2>1 DEF low, high
    <3> HIDE DEF x
    <3> QED BY <1>12, <3>1, <3>2, <3>3, LabelsCounted
  <2> QED BY <2>2
<1>16. half \in Nat /\ low = a * Unit - half /\ high = c * Unit + half BY <1>1, <1>3 DEF Unit
<1>17. Cardinality(XLabels(chart)) \in 2 .. TicksX + 1 BY <1>8, <1>15 DEF TicksX
<1> QED BY <1>4, <1>16, <1>17 DEF low, high, x, half

(* Bars half a gap away from the ends of the axis stick out by no more     *)
(* than their overhang.                                                    *)
LEMMA BarsInside ==
  ASSUME NEW chart, NEW n \in Nat, DOMAIN chart.series = 1 .. n,
         NEW x, Len(x) \in Nat, DOMAIN x = 1 .. Len(x),
         NEW g \in Nat \ {0}, MinBarGap(chart) = 100 * g,
         XRange(chart).low \in Int, XRange(chart).high \in Int,
         \A i \in 1 .. Len(x) : /\ x[i] \in Nat /\ XRange(chart).low + 50 * g <= x[i]
                                /\ x[i] + 50 * g <= XRange(chart).high,
         \A s \in Bars(chart) : chart.series[s].x = x,
         NEW b \in Drawn(chart)
  PROVE  /\ -Overhang(chart) <= b.left
         /\ b.right <= PlotWidth * Scale(chart) + Overhang(chart)
<1> DEFINE low == XRange(chart).low
           span == Span(chart)
           bars == Cardinality(Bars(chart))
           half == 50 * g
           w == BarWidth(chart, Len(x))
           grid == Grid(chart)
           group == Group(chart, w)
           over == Overhang(chart)
           At0(e, k) == BarLeft(chart, e, k, w)
<1>1. bars \in Nat /\ \A s \in Bars(chart) : Rank(chart, s) \in 0 .. bars - 1 BY RankBelow
<1>2. low \in Int /\ span \in Int BY DEF Span
<1>3. Scale(chart) = 4 * (span * bars) /\ span * bars \in Int
  <2>1. Scale(chart) = 4 * span * bars BY DEF Scale
  <2> HIDE DEF span, bars
  <2> QED BY <1>1, <1>2, <2>1
<1>4. LeastWidth(chart) = 12 * (span * bars)
  <2> HIDE DEF span, bars
  <2> QED BY <1>3 DEF LeastWidth, MinBarWidth
<1>5. w = 172224 * g \/ w = 12 * (span * bars)
  <2>1. LeastWidth(chart) \in Int
    <3> HIDE DEF span, bars
    <3> QED BY <1>3, <1>4
  <2>2. w \in {172224 * g, LeastWidth(chart)} BY <2>1, WidthIs
  <2> HIDE DEF w, span, bars
  <2> QED BY <1>4, <2>2
<1>6. PICK s \in Bars(chart), i \in 1 .. Len(x) :
        b = [series |-> s, point |-> i, left |-> At0(s, i), right |-> At0(s, i) + w]
  BY DEF Drawn
<1>7. b.left = At0(s, i) /\ b.right = At0(s, i) + w BY <1>6
<1> DEFINE away == x[i] - low
           rank == Rank(chart, s)
<1>8. away \in Int /\ half <= away /\ away + half <= span
  <2> DEFINE xi == x[i]
             high == XRange(chart).high
  <2>1. xi \in Nat /\ low + half <= xi /\ xi + half <= high /\ high \in Int OBVIOUS
  <2>2. span = high - low BY DEF Span
  <2>3. half \in Nat OBVIOUS
  <2> HIDE DEF xi, high, low, span, half
  <2>4. xi - low \in Int /\ half <= xi - low /\ (xi - low) + half <= span
    BY <1>2, <2>1, <2>2, <2>3
  <2> QED BY <2>4 DEF xi
<1>9. rank \in Nat /\ rank + 1 <= bars BY <1>1
<1>10. b.left = away * grid - group + w * rank /\ away * grid \in Int
  <2>1. chart.series[s].x[i] = x[i] /\ x[i] \in Nat OBVIOUS
  <2>2. Cardinality(Bars(chart)) \in Int /\ XRange(chart).low \in Int
        /\ chart.series[s].x[i] \in Nat
    BY <1>1, <1>2, <2>1
  <2> HIDE DEF w
  <2> DEFINE d == chart.series[s].x[i] - XRange(chart).low
  <2>3. /\ BarLeft(chart, s, i, w) = d * grid - group + w * Rank(chart, s)
        /\ d \in Int /\ d * grid \in Int
    BY <2>2, BarPlaced
  <2>4. d = away BY <2>1
  <2> HIDE DEF d, grid, group, away
  <2> QED BY <1>7, <2>3, <2>4
<1>11. PlotWidth * Scale(chart) = span * grid /\ grid \in Nat
  <2>1. grid = PlotWidth * 4 * bars BY DEF Grid
  <2> HIDE DEF span, bars, grid
  <2> QED BY <1>1, <1>2, <1>3, <2>1 DEF PlotWidth
<1> DEFINE hb == g * bars
           floor == (span * bars) * bars
<1>12. hb \in Nat /\ half * grid = 119600 * hb
  <2>1. grid = PlotWidth * 4 * bars BY DEF Grid
  <2> HIDE DEF bars, grid
  <2> QED BY <1>1, <2>1 DEF PlotWidth
<1>13. floor \in Int /\ (w * bars = 172224 * hb \/ w * bars = 12 * floor) /\ w \in Int
  <2> DEFINE sb == span * bars
  <2>1. sb \in Int /\ (w = 172224 * g \/ w = 12 * sb) BY <1>3, <1>5
  <2> HIDE DEF bars, w, sb
  <2>2. (172224 * g) * bars = 172224 * (g * bars) /\ (12 * sb) * bars = 12 * (sb * bars)
        /\ sb * bars \in Int
    BY <1>1, <2>1
  <2> QED BY <2>1, <2>2 DEF sb
(* What a group is wider than a gap is its overhang, twice.                *)
<1>14. over = Max({0, 12 * floor - 239200 * hb}) \div 2
  <2> DEFINE sb == span * bars
             gap == MinBarGap(chart)
  <2>1. over = Max({0, LeastWidth(chart) * bars - 4 * bars * PlotWidth * gap}) \div 2
    BY DEF Overhang
  <2>2. sb \in Int /\ LeastWidth(chart) = 12 * sb /\ gap = 100 * g BY <1>3, <1>4
  <2> HIDE DEF bars, sb, gap, over
  <2>3. LeastWidth(chart) * bars = 12 * (sb * bars) /\ sb * bars \in Int BY <1>1, <2>2
  <2>4. 4 * bars * PlotWidth * gap = 239200 * (g * bars) BY <1>1, <2>2 DEF PlotWidth
  <2>5. PICK e : e = LeastWidth(chart) * bars - 4 * bars * PlotWidth * gap OBVIOUS
  <2>6. over = Max({0, e}) \div 2 BY <2>1, <2>5
  <2>7. e = 12 * floor - 239200 * hb BY <2>3, <2>4, <2>5 DEF sb
  <2> HIDE DEF floor, hb
  <2> QED BY <2>6, <2>7
<1>15. over \in Nat /\ 12 * floor - 239200 * hb <= 2 * over
  <2> HIDE DEF over, floor, hb
  <2> DEFINE m == 12 * floor - 239200 * hb
  <2>1. m \in Int BY <1>12, <1>13
  <2> HIDE DEF m
  <2>2. Max({0, m}) = IF m > 0 THEN m ELSE 0
    <3>1. CASE m > 0 BY <2>1, <3>1 DEF Max
    <3>2. CASE ~(m > 0) BY <2>1, <3>2 DEF Max
    <3> QED BY <3>1, <3>2
  <2>3. over = Max({0, m}) \div 2 BY <1>14 DEF m
  <2>4. CASE m > 0
    <3>1. over = m \div 2 BY <2>2, <2>3, <2>4
    <3>2. m = 2 * (6 * floor - 119600 * hb) /\ 6 * floor - 119600 * hb \in Int
      BY <1>12, <1>13 DEF m
    <3>3. over \in Nat /\ m <= 2 * over BY <2>1, <2>4, <3>1, <3>2
    <3> QED BY <3>3 DEF m
  <2>5. CASE ~(m > 0)
    <3>1. over = 0 BY <2>2, <2>3, <2>5
    <3>2. over \in Nat /\ m <= 2 * over BY <2>1, <2>5, <3>1
    <3> QED BY <3>2 DEF m
  <2> QED BY <2>4, <2>5
<1>16. group \in Int /\ 2 * group = w * bars /\ group <= half * grid + over
  <2>1. group = (w * bars) \div 2 BY DEF Group
  <2> DEFINE v == w * bars
             q == half * grid
  <2>2. (v = 172224 * hb \/ v = 12 * floor) /\ q = 119600 * hb BY <1>12, <1>13
  <2> HIDE DEF group, w, bars, hb, floor, over, v, q
  <2>3. group = v \div 2 BY <2>1 DEF v
  <2>4. CASE v = 172224 * hb
    <3>1. group = 86112 * hb BY <1>12, <2>3, <2>4
    <3>2. group \in Int /\ 2 * group = v /\ group <= q + over BY <1>12, <1>15, <2>2, <2>4, <3>1
    <3> QED BY <3>2 DEF v, q
  <2>5. CASE v = 12 * floor
    <3>1. group = 6 * floor BY <1>13, <2>3, <2>5
    <3>2. group \in Int /\ 2 * group = v /\ group <= q + over
      BY <1>12, <1>13, <1>15, <2>2, <2>5, <3>1
    <3> QED BY <3>2 DEF v, q
  <2> QED BY <2>2, <2>4, <2>5
<1>17. w * rank \in Nat /\ w * rank + w <= w * bars /\ w \in Nat
  <2> HIDE DEF bars, w, rank
  <2>1. w \in Nat
    <3>1. CASE w = 172224 * g BY <3>1
    <3>2. CASE w = 12 * (span * bars)
      <4>1. span \in Nat
        <5> HIDE DEF away, span, half
        <5>1. half \in Nat BY DEF half
        <5> QED BY <1>2, <1>8, <5>1
      <4> HIDE DEF span
      <4> QED BY <1>1, <3>2, <4>1
    <3> QED BY <1>5, <3>1, <3>2
  <2>2. (rank + 1) * w <= bars * w
    <3>1. rank + 1 \in Int /\ bars \in Int BY <1>1, <1>9
    <3> QED BY <1>9, <2>1, <3>1, OrderedProducts
  <2>3. (rank + 1) * w = w * rank + w /\ bars * w = w * bars /\ w * rank \in Nat
    BY <1>1, <1>9, <2>1
  <2> QED BY <2>1, <2>2, <2>3
<1>18. half * grid <= away * grid /\ away * grid + half * grid <= span * grid
  <2>1. half \in Nat OBVIOUS
  <2> HIDE DEF away, grid, span, half
  <2>2. half * grid <= away * grid BY <1>8, <1>11, <2>1, OrderedProducts
  <2>3. away + half \in Int BY <1>8, <2>1
  <2>4. (away + half) * grid <= span * grid BY <1>2, <1>8, <1>11, <2>3, OrderedProducts
  <2>5. (away + half) * grid = away * grid + half * grid BY <1>8, <1>11, <2>1
  <2> QED BY <2>2, <2>4, <2>5
<1> DEFINE p == away * grid
           q == half * grid
           r == span * grid
           t == w * rank
           v == w * bars
<1>19. /\ b.left = p - group + t /\ b.right = b.left + w /\ PlotWidth * Scale(chart) = r
       /\ p \in Int /\ r \in Int /\ t \in Nat
  <2>1. r \in Int
    <3> HIDE DEF span, grid
    <3> QED BY <1>2, <1>11
  <2>2. b.left = p - group + t /\ b.right = b.left + w /\ PlotWidth * Scale(chart) = r
    BY <1>7, <1>10, <1>11
  <2> HIDE DEF p, q, r, t, v, w, hb
  <2> QED BY <1>10, <1>17, <2>1, <2>2 DEF p, t
<1>20. q \in Int /\ v \in Int /\ over \in Nat /\ group \in Int /\ w \in Nat
  <2>1. q = 119600 * hb /\ hb \in Nat BY <1>12
  <2> HIDE DEF q, hb, v, over, group, w
  <2>2. v = 2 * group /\ group \in Int BY <1>16 DEF v
  <2> QED BY <1>15, <1>17, <2>1, <2>2
<1>21. q <= p /\ p + q <= r /\ t + w <= v /\ 2 * group = v /\ group <= q + over
  BY <1>16, <1>17, <1>18
<1> HIDE DEF p, q, r, t, v, w, group, over
<1>22. -over <= b.left BY <1>19, <1>20, <1>21
<1>23. b.right <= r + over BY <1>19, <1>20, <1>21
<1> QED BY <1>19, <1>22, <1>23 DEF over

-----------------------------------------------------------------------------
(* What each bench draws.                                                  *)

(* The benches put one, two or three series on a chart, then rules.        *)
Ruled == 0 .. LargestFigure

LEMMA RuledAreShown ==
  /\ Ruled \subseteq Shown /\ Ruled \subseteq Nat
  /\ \A v \in Ruled : v >= 0
<1> DEFINE bound == LargestFigure
<1>1. bound \in Nat BY SMT DEF LargestFigure, Unit
<1>2. Ruled = 0 .. bound /\ Shown = -bound .. bound BY DEF Ruled, Shown
<1> HIDE DEF bound
<1> QED BY SMT, <1>1, <1>2

Holds(chart, S) ==
  \E r, l : /\ chart = [series |-> S, rules |-> r, logY |-> l]
            /\ r \in Seq(Ruled) /\ l \in BOOLEAN

LEMMA EmptyChart == Holds(NewChart, <<>>)
<1>1. <<>> \in Seq(Ruled) /\ FALSE \in BOOLEAN OBVIOUS
<1> QED BY <1>1, Zenon DEF Holds, NewChart

LEMMA FirstSeries ==
  ASSUME NEW chart, Holds(chart, <<>>), NEW s, s.x # <<>>
  PROVE  Holds(WithSeries(chart, s), <<s>>)
<1>1. PICK r, l : /\ chart = [series |-> <<>>, rules |-> r, logY |-> l]
                  /\ r \in Seq(Ruled) /\ l \in BOOLEAN
  BY DEF Holds
<1>2. chart = [series |-> <<>>, rules |-> r, logY |-> l] /\ Len(chart.series) = 0 BY <1>1
<1>3. WithSeries(chart, s) = [series |-> Append(<<>>, s), rules |-> r, logY |-> l]
  BY <1>2 DEF WithSeries, MaxSeries
<1>4. Append(<<>>, s) = <<s>> OBVIOUS
<1> QED BY <1>1, <1>3, <1>4 DEF Holds

LEMMA SecondSeries ==
  ASSUME NEW chart, NEW s, Holds(chart, <<s>>), NEW t, t.x # <<>>
  PROVE  Holds(WithSeries(chart, t), <<s, t>>)
<1>1. PICK r, l : /\ chart = [series |-> <<s>>, rules |-> r, logY |-> l]
                  /\ r \in Seq(Ruled) /\ l \in BOOLEAN
  BY DEF Holds
<1>2. chart = [series |-> <<s>>, rules |-> r, logY |-> l] /\ Len(chart.series) = 1 BY <1>1
<1>3. WithSeries(chart, t) = [series |-> Append(<<s>>, t), rules |-> r, logY |-> l]
  BY <1>2 DEF WithSeries, MaxSeries
<1>4. Append(<<s>>, t) = <<s, t>>
  <2>1. <<s>> \in Seq({s, t}) /\ Len(<<s>>) = 1 /\ <<s>>[1] = s OBVIOUS
  <2>2. Append(<<s>>, t) \in Seq({s, t}) /\ Len(Append(<<s>>, t)) = 2
        /\ Append(<<s>>, t)[1] = s /\ Append(<<s>>, t)[2] = t
    BY <2>1
  <2>3. <<s, t>> \in Seq({s, t}) /\ Len(<<s, t>>) = 2 /\ <<s, t>>[1] = s /\ <<s, t>>[2] = t
    OBVIOUS
  <2> DEFINE p == Append(<<s>>, t)
             q == <<s, t>>
  <2> HIDE DEF p, q
  <2>4. Len(p) = Len(q) /\ \A i \in 1 .. Len(p) : p[i] = q[i] BY <2>2, <2>3 DEF p, q
  <2>5. p = q BY <2>2, <2>3, <2>4, SeqEqual DEF p, q
  <2> QED BY <2>5 DEF p, q
<1> QED BY <1>1, <1>3, <1>4 DEF Holds

LEMMA ThirdSeries ==
  ASSUME NEW chart, NEW s, NEW t, Holds(chart, <<s, t>>), NEW u, u.x # <<>>
  PROVE  Holds(WithSeries(chart, u), <<s, t, u>>)
<1>1. PICK r, l : /\ chart = [series |-> <<s, t>>, rules |-> r, logY |-> l]
                  /\ r \in Seq(Ruled) /\ l \in BOOLEAN
  BY DEF Holds
<1>2. chart = [series |-> <<s, t>>, rules |-> r, logY |-> l] /\ Len(chart.series) = 2 BY <1>1
<1>3. WithSeries(chart, u) = [series |-> Append(<<s, t>>, u), rules |-> r, logY |-> l]
  BY <1>2 DEF WithSeries, MaxSeries
<1>4. Append(<<s, t>>, u) = <<s, t, u>>
  <2>1. <<s, t>> \in Seq({s, t, u}) /\ Len(<<s, t>>) = 2 OBVIOUS
  <2>2. <<s, t>>[1] = s /\ <<s, t>>[2] = t OBVIOUS
  <2>3. Append(<<s, t>>, u) \in Seq({s, t, u}) /\ Len(Append(<<s, t>>, u)) = 3
        /\ Append(<<s, t>>, u)[1] = s /\ Append(<<s, t>>, u)[2] = t
        /\ Append(<<s, t>>, u)[3] = u
    BY <2>1, <2>2
  <2>4. <<s, t, u>> \in Seq({s, t, u}) /\ Len(<<s, t, u>>) = 3 /\ <<s, t, u>>[1] = s
        /\ <<s, t, u>>[2] = t /\ <<s, t, u>>[3] = u
    OBVIOUS
  <2> DEFINE p == Append(<<s, t>>, u)
             q == <<s, t, u>>
  <2> HIDE DEF p, q
  <2>5. Len(p) = Len(q) /\ \A i \in 1 .. Len(p) : p[i] = q[i] BY <2>3, <2>4 DEF p, q
  <2>6. p = q BY <2>3, <2>4, <2>5, SeqEqual DEF p, q
  <2> QED BY <2>6 DEF p, q
<1> QED BY <1>1, <1>3, <1>4 DEF Holds

LEMMA RulesKeepSeries ==
  ASSUME NEW chart, NEW S, Holds(chart, S), NEW y \in Ruled
  PROVE  /\ Holds(WithRule(chart, y), S) /\ WithRule(chart, y).rules # <<>>
         /\ Holds(WithLogY(chart), S) /\ WithLogY(chart).rules = chart.rules
<1>1. PICK r, l : /\ chart = [series |-> S, rules |-> r, logY |-> l]
                  /\ r \in Seq(Ruled) /\ l \in BOOLEAN
  BY DEF Holds
<1>2. WithRule(chart, y) = chart
      \/ WithRule(chart, y) = [series |-> S, rules |-> Append(r, y), logY |-> l]
  BY <1>1 DEF WithRule
<1>3. \A v : [chart EXCEPT !.logY = v] = [series |-> S, rules |-> r, logY |-> v] BY <1>1
<1>4. \A v \in BOOLEAN : Holds([chart EXCEPT !.logY = v], S) BY <1>1, <1>3, Zenon DEF Holds
<1>5. Append(r, y) \in Seq(Ruled) BY <1>1
<1>6. Holds(WithRule(chart, y), S) BY <1>1, <1>2, <1>5, Zenon DEF Holds
<1>7. Holds([chart EXCEPT !.logY = TRUE], S) BY <1>4, Zenon
<1>8. [chart EXCEPT !.logY = TRUE].rules = chart.rules BY <1>1
<1>9. WithRule(chart, y).rules # <<>>
  <2>1. CASE Len(chart.rules) >= MaxRules
    <3>1. WithRule(chart, y) = chart BY <2>1 DEF WithRule
    <3> QED BY <2>1, <3>1 DEF MaxRules
  <2>2. CASE ~(Len(chart.rules) >= MaxRules)
    <3>1. WithRule(chart, y).rules = Append(r, y) BY <1>1, <2>2 DEF WithRule
    <3> QED BY <1>1, <3>1
  <2> QED BY <2>1, <2>2
<1> QED BY <1>6, <1>7, <1>8, <1>9 DEF WithLogY

(* Every series of a chart lies on one grid, and shows one of ys.          *)
GridOf(x) == \E a, b, c \in Nat : a < b /\ b < c /\ c <= 1000 /\ x = X(a, b, c)

Gridded(chart, ys) ==
  /\ chart.rules \in Seq(Ruled) /\ chart.logY \in BOOLEAN
  /\ \E n \in Nat \ {0} : \E x :
       /\ GridOf(x) /\ DOMAIN chart.series = 1 .. n
       /\ \A i \in 1 .. n : chart.series[i].x = x /\ chart.series[i].y \in ys

LEMMA HeldOnGrid ==
  ASSUME NEW chart, NEW ys, NEW x, GridOf(x),
         NEW n \in Nat \ {0}, NEW S, Holds(chart, S), DOMAIN S = 1 .. n,
         \A i \in 1 .. n : S[i].x = x /\ S[i].y \in ys
  PROVE  Gridded(chart, ys)
<1>1. chart.series = S /\ chart.rules \in Seq(Ruled) /\ chart.logY \in BOOLEAN BY DEF Holds
<1>2. DOMAIN chart.series = 1 .. n BY <1>1
<1>3. \A i \in 1 .. n : chart.series[i].x = x /\ chart.series[i].y \in ys BY <1>1
<1>4. \E m \in Nat \ {0} : \E g :
        /\ GridOf(g) /\ DOMAIN chart.series = 1 .. m
        /\ \A i \in 1 .. m : chart.series[i].x = g /\ chart.series[i].y \in ys
  <2> WITNESS n \in Nat \ {0}
  <2> WITNESS x
  <2> QED BY <1>2, <1>3
<1> QED BY <1>1, <1>4 DEF Gridded

LEMMA OneSeries ==
  ASSUME NEW ys, NEW x, GridOf(x),
         NEW chart, NEW s, Holds(chart, <<s>>),
         s.x = x, s.y \in ys
  PROVE  Gridded(chart, ys)
<1>1. DOMAIN <<s>> = 1 .. 1 /\ <<s>>[1] = s
  OBVIOUS
<1>2. \A i \in 1 .. 1 : <<s>>[i].x = x /\ <<s>>[i].y \in ys BY <1>1
<1> DEFINE S == <<s>>
<1>3. PICK n \in Nat : n = 1 OBVIOUS
<1>4. /\ Holds(chart, S) /\ DOMAIN S = 1 .. n /\ n \in Nat \ {0}
      /\ \A i \in 1 .. n : S[i].x = x /\ S[i].y \in ys
  BY <1>1, <1>2, <1>3
<1> HIDE DEF S
<1> QED BY <1>4, HeldOnGrid

LEMMA TwoSeries ==
  ASSUME NEW ys, NEW x, GridOf(x),
         NEW chart, NEW s, NEW t, Holds(chart, <<s, t>>),
         s.x = x, s.y \in ys, t.x = x, t.y \in ys
  PROVE  Gridded(chart, ys)
<1>1. DOMAIN <<s, t>> = 1 .. 2 /\ <<s, t>>[1] = s /\ <<s, t>>[2] = t
  OBVIOUS
<1>2. \A i \in 1 .. 2 : <<s, t>>[i].x = x /\ <<s, t>>[i].y \in ys BY <1>1
<1> DEFINE S == <<s, t>>
<1>3. PICK n \in Nat : n = 2 OBVIOUS
<1>4. /\ Holds(chart, S) /\ DOMAIN S = 1 .. n /\ n \in Nat \ {0}
      /\ \A i \in 1 .. n : S[i].x = x /\ S[i].y \in ys
  BY <1>1, <1>2, <1>3
<1> HIDE DEF S
<1> QED BY <1>4, HeldOnGrid

LEMMA ThreeSeries ==
  ASSUME NEW ys, NEW x, GridOf(x),
         NEW chart, NEW s, NEW t, NEW u, Holds(chart, <<s, t, u>>),
         s.x = x, s.y \in ys, t.x = x, t.y \in ys, u.x = x, u.y \in ys
  PROVE  Gridded(chart, ys)
<1>1. DOMAIN <<s, t, u>> = 1 .. 3 /\ <<s, t, u>>[1] = s /\ <<s, t, u>>[2] = t /\ <<s, t, u>>[3] = u
  OBVIOUS
<1>2. \A i \in 1 .. 3 : <<s, t, u>>[i].x = x /\ <<s, t, u>>[i].y \in ys BY <1>1
<1> DEFINE S == <<s, t, u>>
<1>3. PICK n \in Nat : n = 3 OBVIOUS
<1>4. /\ Holds(chart, S) /\ DOMAIN S = 1 .. n /\ n \in Nat \ {0}
      /\ \A i \in 1 .. n : S[i].x = x /\ S[i].y \in ys
  BY <1>1, <1>2, <1>3
<1> HIDE DEF S
<1> QED BY <1>4, HeldOnGrid

LEMMA SeriesOfKind ==
  ASSUME NEW x, NEW y
  PROVE  /\ Line(x, y).x = x /\ Bar(x, y).x = x /\ Scatter(x, y).x = x
         /\ Line(x, y).y = y /\ Bar(x, y).y = y /\ Scatter(x, y).y = y
BY DEF Line, Bar, Scatter, Series

(* The abscissae of the benches.                                           *)
LEMMA BenchGrid ==
  /\ GridOf(X(1, 2, 79)) /\ GridOf(X(0, 1, 199)) /\ GridOf(X(1, 2, 64))
  /\ GridOf(X(1, 2, 1000)) /\ GridOf(X(0, 1, 2)) /\ GridOf(X(0, 1, 5)) /\ GridOf(X(4, 8, 64))
<1>1. \A a, b, c \in Nat : a < b /\ b < c /\ c <= 1000 => GridOf(X(a, b, c))
  BY Zenon DEF GridOf
<1> HIDE DEF X
<1> QED BY SMT, <1>1

LEMMA GridNotEmpty == \A x : GridOf(x) => x # <<>>
BY DEF GridOf, X

(* The rules the benches draw.                                             *)
LEMMA RulesShown ==
  /\ \A k \in Nat : k <= 125000 * Unit => k \in Ruled
  /\ 0 \in Ruled /\ Unit \in Ruled /\ 8 * Unit \in Ruled /\ 10 * Unit \in Ruled
  /\ 100 * Unit \in Ruled /\ 125 * Unit \in Ruled
  /\ 100000 * Unit \in Ruled /\ 125000 * Unit \in Ruled
<1> DEFINE bound == LargestFigure
<1>1. bound \in Nat /\ 125000 * Unit <= bound BY SMT DEF LargestFigure, Unit
<1>2. Ruled = 0 .. bound BY DEF Ruled
<1> HIDE DEF bound
<1>3. \A k \in Nat : k <= 125000 * Unit => k \in Ruled BY SMT, <1>1, <1>2 DEF Unit
<1> QED BY SMT, <1>3 DEF Unit

LEMMA CameraShown == Camera \in Shown
<1> DEFINE bound == LargestFigure
           camera == Camera
<1>1. bound \in Nat /\ camera \in Nat /\ camera <= bound
  BY SMT DEF LargestFigure, Camera, Unit
<1>2. Shown = -bound .. bound BY DEF Shown
<1> HIDE DEF bound, camera
<1>3. camera \in Shown BY SMT, <1>1, <1>2
<1> QED BY <1>3 DEF camera

LEMMA RuledKeeps ==
  ASSUME NEW chart, NEW S, Holds(chart, S)
  PROVE  /\ \A y \in Ruled :
              /\ Holds(WithRule(chart, y), S) /\ WithRule(chart, y).rules # <<>>
              /\ Holds(WithLogY(WithRule(chart, y)), S)
              /\ WithLogY(WithRule(chart, y)).rules # <<>>
         /\ \A y, z \in Ruled : /\ Holds(WithRule(WithRule(chart, y), z), S)
                                /\ WithRule(WithRule(chart, y), z).rules # <<>>
BY RulesKeepSeries, Zenon

(* What a bench draws: its measurements, with the camera's or without, and *)
(* the rate the regulator is asked for.                                    *)
Plotted(d) == {d.y, d.z, X(1, 2, 1000), WithCamera(d.y), WithCamera(d.z)}

(* The charts of every bench hold series on one grid, and all have a rule  *)
(* but the one of what the regulator saves.                                *)
Founded(chart, s, d) ==
  \/ chart.rules # <<>>
  \/ s = "regulator" /\ \E t \in ToSet(chart.series) : t.y = d.z

LEMMA BenchCharts ==
  ASSUME NEW s \in {"bandwidth", "jitter", "latency", "regulator", "scale", "webots_cpu"},
         NEW d, NEW chart \in ToSet(ChartsOf(s, d))
  PROVE  Gridded(chart, Plotted(d)) /\ Founded(chart, s, d)
<1> DEFINE ys == Plotted(d)
<1>1. /\ \A p : chart \in ToSet(<<p>>) => chart = p
      /\ \A p, q : chart \in ToSet(<<p, q>>) => chart = p \/ chart = q
  BY DEF ToSet
<1>0. /\ d.y \in ys /\ d.z \in ys /\ X(1, 2, 1000) \in ys
      /\ WithCamera(d.y) \in ys /\ WithCamera(d.z) \in ys
  BY DEF Plotted
<1> SUFFICES Gridded(chart, ys) /\ Founded(chart, s, d) BY DEF ys
<1> HIDE DEF ys
<1>2. CASE s = "jitter"
  <2> DEFINE x == X(1, 2, 79)
             line == Line(x, d.y)
             dots == Scatter(x, d.z)
  <2>0. GridOf(x) /\ x # <<>> BY BenchGrid, GridNotEmpty
  <2>3. \E r, z \in Ruled : \/ chart = WithRule(WithSeries(NewChart, line), r)
                            \/ chart = WithRule(WithSeries(NewChart, dots), z)
    <3>1. ChartsOf(s, d) = JitterCharts(d) BY <1>2, Zenon DEF ChartsOf
    <3>2. \E r, z \in Ruled :
            JitterCharts(d) = <<WithRule(WithSeries(NewChart, line), r),
                                WithRule(WithSeries(NewChart, dots), z)>>
      BY SMT, RulesShown DEF JitterCharts
    <3> HIDE DEF line, dots
    <3> QED BY <1>1, <3>1, <3>2, Zenon
  <2> HIDE DEF x
  <2>1. line.x = x /\ dots.x = x /\ line.y \in ys /\ dots.y \in ys BY <1>0, SeriesOfKind
  <2> HIDE DEF line, dots
  <2>2. Holds(WithSeries(NewChart, line), <<line>>) /\ Holds(WithSeries(NewChart, dots), <<dots>>)
    BY <2>0, <2>1, EmptyChart, FirstSeries
  <2>4. (Holds(chart, <<line>>) \/ Holds(chart, <<dots>>)) /\ chart.rules # <<>>
    BY <2>2, <2>3, RuledKeeps, Zenon
  <2>5. CASE Holds(chart, <<line>>) BY <2>0, <2>1, <2>4, <2>5, OneSeries DEF Founded
  <2>6. CASE Holds(chart, <<dots>>) BY <2>0, <2>1, <2>4, <2>6, OneSeries DEF Founded
  <2> QED BY <2>4, <2>5, <2>6
<1>3. CASE s = "latency"
  <2> DEFINE x == X(0, 1, 199)
             y == Line(x, d.y)
             z == Line(x, d.z)
  <2>0. GridOf(x) /\ x # <<>> BY BenchGrid, GridNotEmpty
  <2>4. \E r \in Ruled : chart = WithLogY(WithRule(WithSeries(WithSeries(NewChart, y), z), r))
    <3>1. ChartsOf(s, d) = LatencyCharts(d) BY <1>3, Zenon DEF ChartsOf
    <3>2. \E r \in Ruled :
            LatencyCharts(d) = <<WithLogY(WithRule(WithSeries(WithSeries(NewChart, y), z), r))>>
      BY SMT, RulesShown DEF LatencyCharts
    <3> HIDE DEF y, z
    <3> QED BY <1>1, <3>1, <3>2, Zenon
  <2> HIDE DEF x
  <2>1. y.x = x /\ z.x = x /\ y.y \in ys /\ z.y \in ys BY <1>0, SeriesOfKind
  <2> HIDE DEF y, z
  <2>2. Holds(WithSeries(NewChart, y), <<y>>) BY <2>0, <2>1, EmptyChart, FirstSeries
  <2>3. Holds(WithSeries(WithSeries(NewChart, y), z), <<y, z>>)
    BY <2>0, <2>1, <2>2, SecondSeries
  <2>5. Holds(chart, <<y, z>>) /\ chart.rules # <<>> BY <2>3, <2>4, RuledKeeps, Zenon
  <2> QED BY <2>0, <2>1, <2>5, TwoSeries DEF Founded
<1>4. CASE s = "scale"
  <2> DEFINE x == X(1, 2, 64)
             y == Line(x, d.y)
             z == Line(x, d.z)
             bar == Bar(x, d.z)
             lines == WithSeries(WithSeries(WithSeries(NewChart, y), z), y)
  <2>0. GridOf(x) /\ x # <<>> BY BenchGrid, GridNotEmpty
  <2>5. \E r, v \in Ruled : \/ chart = WithLogY(WithRule(lines, r))
                            \/ chart = WithRule(WithSeries(NewChart, bar), v)
    <3>1. ChartsOf(s, d) = ScaleCharts(d) BY <1>4, Zenon DEF ChartsOf
    <3>2. \E r, v \in Ruled :
            ScaleCharts(d) = <<WithLogY(WithRule(lines, r)),
                               WithRule(WithSeries(NewChart, bar), v)>>
      BY SMT, RulesShown DEF ScaleCharts
    <3> HIDE DEF lines, bar
    <3> QED BY <1>1, <3>1, <3>2, Zenon
  <2> HIDE DEF x
  <2>1. /\ y.x = x /\ z.x = x /\ bar.x = x
        /\ y.y \in ys /\ z.y \in ys /\ bar.y \in ys
    BY <1>0, SeriesOfKind
  <2> HIDE DEF y, z, bar
  <2>2. Holds(WithSeries(NewChart, y), <<y>>) /\ Holds(WithSeries(NewChart, bar), <<bar>>)
    BY <2>0, <2>1, EmptyChart, FirstSeries
  <2>3. Holds(WithSeries(WithSeries(NewChart, y), z), <<y, z>>)
    BY <2>0, <2>1, <2>2, SecondSeries
  <2>4. Holds(lines, <<y, z, y>>) BY <2>0, <2>1, <2>3, ThirdSeries
  <2>6. (Holds(chart, <<y, z, y>>) \/ Holds(chart, <<bar>>)) /\ chart.rules # <<>>
    BY <2>2, <2>4, <2>5, RuledKeeps, Zenon
  <2>7. CASE Holds(chart, <<y, z, y>>) BY <2>0, <2>1, <2>6, <2>7, ThreeSeries DEF Founded
  <2>8. CASE Holds(chart, <<bar>>) BY <2>0, <2>1, <2>6, <2>8, OneSeries DEF Founded
  <2> QED BY <2>6, <2>7, <2>8
<1>5. CASE s = "regulator"
  <2> DEFINE x == X(1, 2, 1000)
             asked == Line(x, x)
             y == Line(x, d.y)
             bar == Bar(x, d.z)
  <2>0. GridOf(x) /\ x # <<>> /\ x \in ys BY <1>0, BenchGrid, GridNotEmpty
  <2>4. \E r \in Ruled : \/ chart = WithLogY(WithRule(WithSeries(WithSeries(NewChart, asked), y), r))
                         \/ chart = WithSeries(NewChart, bar)
    <3>1. ChartsOf(s, d) = RegulatorCharts(d) BY <1>5, Zenon DEF ChartsOf
    <3>2. \E r \in Ruled :
            RegulatorCharts(d)
              = <<WithLogY(WithRule(WithSeries(WithSeries(NewChart, asked), y), r)),
                  WithSeries(NewChart, bar)>>
      BY SMT, RulesShown DEF RegulatorCharts
    <3> HIDE DEF asked, y, bar
    <3> QED BY <1>1, <3>1, <3>2, Zenon
  <2> HIDE DEF x
  <2>1. /\ asked.x = x /\ y.x = x /\ bar.x = x
        /\ asked.y \in ys /\ y.y \in ys /\ bar.y \in ys /\ bar.y = d.z
    BY <1>0, <2>0, SeriesOfKind
  <2> HIDE DEF asked, y, bar
  <2>2. Holds(WithSeries(NewChart, asked), <<asked>>) /\ Holds(WithSeries(NewChart, bar), <<bar>>)
    BY <2>0, <2>1, EmptyChart, FirstSeries
  <2>3. Holds(WithSeries(WithSeries(NewChart, asked), y), <<asked, y>>)
    BY <2>0, <2>1, <2>2, SecondSeries
  <2>5. \/ Holds(chart, <<asked, y>>) /\ chart.rules # <<>>
        \/ Holds(chart, <<bar>>)
    BY <2>2, <2>3, <2>4, RuledKeeps, Zenon
  <2>6. CASE Holds(chart, <<asked, y>>) /\ chart.rules # <<>>
    BY <2>0, <2>1, <2>6, TwoSeries DEF Founded
  <2>7. CASE Holds(chart, <<bar>>)
    <3>1. chart.series = <<bar>> /\ bar.y = d.z BY <2>1, <2>7 DEF Holds
    <3>2. bar \in ToSet(chart.series)
      <4>1. ToSet(<<bar>>) = {bar} BY DEF ToSet
      <4> QED BY <3>1, <4>1
    <3>3. Founded(chart, s, d) BY <1>5, <3>1, <3>2 DEF Founded
    <3> QED BY <2>0, <2>1, <2>7, <3>3, OneSeries
  <2> QED BY <2>5, <2>6, <2>7
<1>6. CASE s = "bandwidth"
  <2> DEFINE x == X(0, 1, 5)
             g == X(4, 8, 64)
             y == Bar(x, WithCamera(d.y))
             z == Bar(x, WithCamera(d.z))
             line == Line(g, d.y)
             bars == WithSeries(WithSeries(NewChart, y), z)
             lines == WithSeries(NewChart, line)
  <2>0. GridOf(x) /\ GridOf(g) /\ x # <<>> /\ g # <<>> BY BenchGrid, GridNotEmpty
  <2>4. \E r, u, v \in Ruled : \/ chart = WithLogY(WithRule(bars, r))
                               \/ chart = WithRule(WithRule(lines, u), v)
    <3>1. ChartsOf(s, d) = BandwidthCharts(d) BY <1>6, Zenon DEF ChartsOf
    <3>2. \E r, u, v \in Ruled :
            BandwidthCharts(d) = <<WithLogY(WithRule(bars, r)), WithRule(WithRule(lines, u), v)>>
      BY SMT, RulesShown DEF BandwidthCharts
    <3> HIDE DEF bars, lines
    <3> QED BY <1>1, <3>1, <3>2, Zenon
  <2> HIDE DEF x, g
  <2>1. /\ y.x = x /\ z.x = x /\ line.x = g
        /\ y.y \in ys /\ z.y \in ys /\ line.y \in ys
    BY <1>0, SeriesOfKind
  <2> HIDE DEF y, z, line
  <2>2. Holds(WithSeries(NewChart, y), <<y>>) /\ Holds(lines, <<line>>)
    BY <2>0, <2>1, EmptyChart, FirstSeries
  <2>3. Holds(bars, <<y, z>>) BY <2>0, <2>1, <2>2, SecondSeries
  <2>5. (Holds(chart, <<y, z>>) \/ Holds(chart, <<line>>)) /\ chart.rules # <<>>
    BY <2>2, <2>3, <2>4, RuledKeeps, Zenon
  <2>6. CASE Holds(chart, <<y, z>>) BY <2>0, <2>1, <2>5, <2>6, TwoSeries DEF Founded
  <2>7. CASE Holds(chart, <<line>>) BY <2>0, <2>1, <2>5, <2>7, OneSeries DEF Founded
  <2> QED BY <2>5, <2>6, <2>7
<1>7. CASE s = "webots_cpu"
  <2> DEFINE x == X(0, 1, 2)
             y == Line(x, d.y)
             z == Bar(x, d.z)
             bars == WithSeries(WithSeries(NewChart, y), z)
  <2>0. GridOf(x) /\ x # <<>> BY BenchGrid, GridNotEmpty
  <2>4. \E r, u \in Ruled : chart = WithRule(WithRule(bars, r), u)
    <3>1. ChartsOf(s, d) = WebotsCharts(d) BY <1>7, Zenon DEF ChartsOf
    <3>2. \E r, u \in Ruled : WebotsCharts(d) = <<WithRule(WithRule(bars, r), u)>>
      BY SMT, RulesShown DEF WebotsCharts
    <3> HIDE DEF bars
    <3> QED BY <1>1, <3>1, <3>2, Zenon
  <2> HIDE DEF x
  <2>1. y.x = x /\ z.x = x /\ y.y \in ys /\ z.y \in ys BY <1>0, SeriesOfKind
  <2> HIDE DEF y, z
  <2>2. Holds(WithSeries(NewChart, y), <<y>>) BY <2>0, <2>1, EmptyChart, FirstSeries
  <2>3. Holds(bars, <<y, z>>) BY <2>0, <2>1, <2>2, SecondSeries
  <2>5. Holds(chart, <<y, z>>) /\ chart.rules # <<>> BY <2>3, <2>4, RuledKeeps, Zenon
  <2> QED BY <2>0, <2>1, <2>5, TwoSeries DEF Founded
<1> QED BY <1>2, <1>3, <1>4, <1>5, <1>6, <1>7

LEMMA GridIs ==
  ASSUME NEW a \in Nat, NEW b \in Nat, NEW c \in Nat, a < b, b < c
  PROVE  LET x == X(a, b, c) IN
         /\ Len(x) = 3 /\ DOMAIN x = 1 .. 3
         /\ x[1] = a * 100 /\ x[2] = b * 100 /\ x[3] = c * 100
         /\ \A i \in 1 .. 3 : x[i] \in Nat
         /\ \A i, j \in 1 .. 3 : i < j => x[i] < x[j]
<1> DEFINE x == X(a, b, c)
<1>1. x = <<a * 100, b * 100, c * 100>> BY DEF X, Unit
<1>2. Len(x) = 3 /\ DOMAIN x = 1 .. 3 /\ x[1] = a * 100 /\ x[2] = b * 100 /\ x[3] = c * 100
  BY <1>1
<1> HIDE DEF x
<1>3. \A i \in 1 .. 3 : x[i] \in Nat BY <1>2
<1>4. \A i, j \in 1 .. 3 : i < j => x[i] < x[j] BY <1>2
<1> QED BY <1>2, <1>3, <1>4 DEF x

(* The series of a gridded chart.                                          *)
LEMMA OnGrid ==
  ASSUME NEW chart, NEW ys, Gridded(chart, ys)
  PROVE  \E n \in Nat \ {0} : \E x :
           /\ GridOf(x) /\ DOMAIN chart.series = 1 .. n
           /\ \A s \in Bars(chart) : chart.series[s].x = x
           /\ Abscissae(chart) = ToSet(x)
           /\ \A s \in ToSet(chart.series) : s.y \in ys
           /\ ToSet(chart.series) # {}
<1>1. PICK n \in Nat \ {0} : \E x :
        /\ GridOf(x) /\ DOMAIN chart.series = 1 .. n
        /\ \A i \in 1 .. n : chart.series[i].x = x /\ chart.series[i].y \in ys
  BY DEF Gridded
<1>2. PICK x :
        /\ GridOf(x) /\ DOMAIN chart.series = 1 .. n
        /\ \A i \in 1 .. n : chart.series[i].x = x /\ chart.series[i].y \in ys
  BY <1>1
<1>3. \A s \in Bars(chart) : chart.series[s].x = x BY <1>2 DEF Bars
<1>4. \A s \in ToSet(chart.series) : s.x = x /\ s.y \in ys BY <1>2 DEF ToSet
<1>5. chart.series[1] \in ToSet(chart.series) BY <1>2 DEF ToSet
<1>6. Abscissae(chart) = ToSet(x) BY <1>4, <1>5 DEF Abscissae
<1> WITNESS n \in Nat \ {0}
<1> WITNESS x
<1> QED BY <1>2, <1>3, <1>4, <1>5, <1>6

(* The gap of a grid is one of its two.                                    *)
LEMMA GridGap ==
  ASSUME NEW chart, NEW a \in Nat, NEW b \in Nat, NEW c \in Nat, a < b, b < c,
         \A s \in Bars(chart) : chart.series[s].x = X(a, b, c)
  PROVE  /\ MinBarGap(chart) \in Nat /\ MinBarGap(chart) <= (c - b) * Unit
         /\ \E g \in Nat : MinBarGap(chart) = 100 * g
         /\ Bars(chart) # {} => MinBarGap(chart) > 0
<1> DEFINE x == X(a, b, c)
           gap == MinBarGap(chart)
<1>1. /\ Len(x) = 3 /\ DOMAIN x = 1 .. 3
      /\ x[1] = a * 100 /\ x[2] = b * 100 /\ x[3] = c * 100
      /\ \A i \in 1 .. 3 : x[i] \in Nat
      /\ \A i, j \in 1 .. 3 : i < j => x[i] < x[j]
  BY GridIs
<1>2. \A s \in Bars(chart) : chart.series[s].x = x OBVIOUS
<1> HIDE DEF x
<1>3. /\ gap \in Nat
      /\ gap > 0 =>
           /\ \A i, j \in 1 .. Len(x) : i < j => x[j] - x[i] >= gap
           /\ \E i \in 2 .. Len(x) : gap = x[i] - x[i - 1]
      /\ Bars(chart) # {} => gap > 0
  <2>1. /\ Len(x) \in Nat /\ \A i \in 1 .. Len(x) : x[i] \in Nat
        /\ \A i, j \in 1 .. Len(x) : i < j => x[i] < x[j]
    BY <1>1
  <2>2. 2 <= Len(x) BY <1>1
  <2> QED BY <1>2, <2>1, <2>2, GapIsLeast
<1> HIDE DEF gap
<1>4. CASE gap = 0
  <2>1. gap <= (c - b) * 100 /\ gap = 100 * 0 /\ 0 \in Nat BY <1>4
  <2> QED BY <1>3, <2>1 DEF gap, Unit
<1>5. CASE gap # 0
  <2>1. gap > 0 BY <1>3, <1>5
  <2>2. x[3] - x[2] >= gap
    <3>1. 2 \in 1 .. Len(x) /\ 3 \in 1 .. Len(x) BY <1>1
    <3> QED BY <1>3, <2>1, <3>1
  <2>3. gap = x[2] - x[1] \/ gap = x[3] - x[2]
    <3>1. PICK i \in 2 .. 3 : gap = x[i] - x[i - 1] BY <1>1, <1>3, <2>1
    <3>2. CASE i = 2 BY <3>1, <3>2
    <3>3. CASE i = 3 BY <3>1, <3>3
    <3> QED BY <3>2, <3>3
  <2>4. gap <= (c - b) * 100 BY <1>1, <1>3, <2>2
  <2>5. \E g \in Nat : gap = 100 * g
    <3>1. CASE gap = x[2] - x[1]
      <4>1. gap = 100 * (b - a) /\ b - a \in Nat BY <1>1, <3>1
      <4> QED BY <4>1
    <3>2. CASE gap = x[3] - x[2]
      <4>1. gap = 100 * (c - b) /\ c - b \in Nat BY <1>1, <3>2
      <4> QED BY <4>1
    <3> QED BY <2>3, <3>1, <3>2
  <2> QED BY <1>3, <2>4, <2>5 DEF gap, Unit
<1> QED BY <1>4, <1>5

(* A gridded chart of figures is drawn inside its frame, and can be read.  *)
LEMMA GriddedFits ==
  ASSUME NEW chart, NEW ys, Gridded(chart, ys),
         \A y \in ys : ToSet(y) \in (SUBSET Shown) \ {{}},
         \E v \in Ranged(chart) : v >= 0
  PROVE  InsideFrame(chart) /\ Readable(chart)
<1>1. PICK n \in Nat \ {0} : \E x :
           /\ GridOf(x) /\ DOMAIN chart.series = 1 .. n
           /\ \A s \in Bars(chart) : chart.series[s].x = x
           /\ Abscissae(chart) = ToSet(x)
           /\ \A s \in ToSet(chart.series) : s.y \in ys
           /\ ToSet(chart.series) # {}
  BY OnGrid
<1>2. PICK x :
           /\ GridOf(x) /\ DOMAIN chart.series = 1 .. n
           /\ \A s \in Bars(chart) : chart.series[s].x = x
           /\ Abscissae(chart) = ToSet(x)
           /\ \A s \in ToSet(chart.series) : s.y \in ys
           /\ ToSet(chart.series) # {}
  BY <1>1
<1>3. PICK a, b, c \in Nat : a < b /\ b < c /\ c <= 1000 /\ x = X(a, b, c)
  BY <1>2 DEF GridOf
<1>4. /\ Len(x) = 3 /\ DOMAIN x = 1 .. 3
      /\ x[1] = a * 100 /\ x[2] = b * 100 /\ x[3] = c * 100
      /\ \A i \in 1 .. 3 : x[i] \in Nat
  <2> DEFINE g == X(a, b, c)
  <2>1. /\ Len(g) = 3 /\ DOMAIN g = 1 .. 3
        /\ g[1] = a * 100 /\ g[2] = b * 100 /\ g[3] = c * 100
        /\ \A i \in 1 .. 3 : g[i] \in Nat
    BY <1>3, GridIs
  <2>2. x = g BY <1>3
  <2> HIDE DEF g
  <2> QED BY <2>1, <2>2
<1>5. Abscissae(chart) = {a * Unit, b * Unit, c * Unit} BY <1>2, <1>4 DEF ToSet, Unit
<1>6. Ordinates(chart) \in (SUBSET Shown) \ {{}}
  <2>1. \A s \in ToSet(chart.series) : ToSet(s.y) \in (SUBSET Shown) \ {{}} BY <1>2, Zenon
  <2>2. Ordinates(chart) \subseteq Shown BY <2>1 DEF Ordinates
  <2>3. PICK s \in ToSet(chart.series) : TRUE BY <1>2
  <2>4. PICK v \in ToSet(s.y) : TRUE BY <2>1, <2>3
  <2>5. v \in Ordinates(chart) BY <2>3, <2>4 DEF Ordinates
  <2> QED BY <2>2, <2>5
<1>7. Ranged(chart) \in (SUBSET Shown) \ {{}}
  <2>1. ToSet(chart.rules) \subseteq Ruled BY DEF Gridded, ToSet
  <2> QED BY <1>6, <2>1, RuledAreShown DEF Ranged
<1>8. /\ MinBarGap(chart) \in Nat /\ MinBarGap(chart) <= (c - b) * Unit
      /\ \E g \in Nat : MinBarGap(chart) = 100 * g
      /\ Bars(chart) # {} => MinBarGap(chart) > 0
  BY <1>2, <1>3, GridGap
<1> DEFINE half == MinBarGap(chart) \div 2
<1>9. /\ half \in Nat
      /\ XRange(chart).low = a * Unit - half /\ XRange(chart).high = c * Unit + half
      /\ \A v \in Abscissae(chart) : XRange(chart).low <= v /\ v <= XRange(chart).high
      /\ Cardinality(XLabels(chart)) \in 2 .. TicksX + 1
  BY <1>3, <1>5, <1>8, GridAxis
<1>10. /\ \A v \in Ranged(chart) :
            YAxis(chart).low <= OnAxis(chart, v) /\ OnAxis(chart, v) <= YAxis(chart).high
       /\ YAxis(chart).low <= Baseline(chart) /\ Baseline(chart) <= YAxis(chart).high
       /\ ~chart.logY => Cardinality(YLabels(chart)) \in 2 .. TicksY + 1
  <2>1. CASE chart.logY BY <1>7, <2>1, LogarithmicInside
  <2>2. CASE ~chart.logY BY <1>7, <2>2, LinearInside, SnappedHolds
  <2>3. chart.logY \in BOOLEAN BY DEF Gridded
  <2> QED BY <2>1, <2>2, <2>3
<1>11. ASSUME NEW d \in Drawn(chart)
       PROVE  /\ -Overhang(chart) <= d.left
              /\ d.right <= PlotWidth * Scale(chart) + Overhang(chart)
  <2>1. Bars(chart) # {} BY <1>11 DEF Drawn
  <2>2. PICK g \in Nat : MinBarGap(chart) = 100 * g BY <1>8
  <2>3. g # 0 /\ half = 50 * g BY <1>8, <2>1, <2>2
  <2> HIDE DEF half
  <2>4. XRange(chart).low \in Int /\ XRange(chart).high \in Int BY <1>9 DEF Unit
  <2>5. \A i \in 1 .. Len(x) : /\ x[i] \in Nat /\ XRange(chart).low + 50 * g <= x[i]
                               /\ x[i] + 50 * g <= XRange(chart).high
    <3> DEFINE low == XRange(chart).low
               high == XRange(chart).high
    <3>1. low = a * 100 - 50 * g /\ high = c * 100 + 50 * g BY <1>9, <2>3 DEF Unit
    <3> HIDE DEF low, high
    <3>2. \A i \in 1 .. 3 : low + 50 * g <= x[i] /\ x[i] + 50 * g <= high
      <4>1. low + 50 * g <= x[1] /\ x[1] + 50 * g <= high BY <1>3, <1>4, <3>1
      <4>2. low + 50 * g <= x[2] /\ x[2] + 50 * g <= high BY <1>3, <1>4, <3>1
      <4>3. low + 50 * g <= x[3] /\ x[3] + 50 * g <= high BY <1>3, <1>4, <3>1
      <4> QED BY <4>1, <4>2, <4>3
    <3> QED BY <1>4, <3>2 DEF low, high
  <2>6. n \in Nat /\ DOMAIN chart.series = 1 .. n /\ Len(x) \in Nat /\ DOMAIN x = 1 .. Len(x)
        /\ \A s \in Bars(chart) : chart.series[s].x = x
    BY <1>2, <1>4
  <2>7. g \in Nat \ {0} BY <2>3
  <2> QED BY <1>11, <2>2, <2>4, <2>5, <2>6, <2>7, BarsInside
<1>12. InsideFrame(chart)
  <2>1. \A v \in Ordinates(chart) \cup ToSet(chart.rules) :
          YAxis(chart).low <= OnAxis(chart, v) /\ OnAxis(chart, v) <= YAxis(chart).high
    BY <1>10 DEF Ranged
  <2> QED BY <1>9, <1>10, <1>11, <2>1, Zenon DEF InsideFrame
<1> QED BY <1>9, <1>10, <1>12 DEF Readable

-----------------------------------------------------------------------------
(* The figures of a campaign.                                              *)

(* The figure in the middle is one of the figures.                         *)
LEMMA MedianIn ==
  ASSUME NEW m \in Nat, NEW s \in Seq(0 .. m), s # <<>>
  PROVE  Median(s) \in 0 .. m
<1> DEFINE middle == {v \in ToSet(s) : Cardinality(NotAbove(s, v)) > Len(s) \div 2}
<1>1. DOMAIN s = 1 .. Len(s) /\ Len(s) \in Nat /\ Len(s) > 0 BY EmptySeq, LenProperties
<1>2. ToSet(s) \in (SUBSET (0 .. m)) \ {{}}
  <2>1. s[1] \in ToSet(s) BY <1>1 DEF ToSet
  <2>2. \A i \in 1 .. Len(s) : s[i] \in 0 .. m BY <1>1
  <2> QED BY <1>1, <2>1, <2>2 DEF ToSet
<1>3. PICK top \in ToSet(s) : \A v \in ToSet(s) : v <= top
  <2>1. Max(ToSet(s)) \in ToSet(s) /\ \A v \in ToSet(s) : Max(ToSet(s)) >= v
    BY <1>2, MaxIsIn, Zenon
  <2>2. \A v \in ToSet(s) : v \in Int BY <1>2
  <2> QED BY <2>1, <2>2
<1>4. NotAbove(s, top) = 1 .. Len(s)
  <2>1. \A i \in 1 .. Len(s) : s[i] \in ToSet(s) BY <1>1 DEF ToSet
  <2> QED BY <1>1, <1>3, <2>1 DEF NotAbove
<1>5. Cardinality(NotAbove(s, top)) = Len(s)
  <2>1. ~(1 > Len(s)) /\ 1 \in Int /\ Len(s) \in Int /\ Len(s) - 1 + 1 = Len(s) BY <1>1
  <2> QED BY <1>4, <2>1, FS_Interval
<1>6. top \in middle
  <2>1. Len(s) > Len(s) \div 2 BY <1>1
  <2> QED BY <1>3, <1>5, <2>1
<1>7. middle \in (SUBSET Nat) \ {{}}
  <2>1. middle \subseteq Nat BY <1>2
  <2> QED BY <1>6, <2>1
<1>8. Median(s) = Min(middle) BY DEF Median
<1> HIDE DEF middle
<1>9. Median(s) \in middle BY <1>7, <1>8, MinIsLeast, Zenon
<1> QED BY <1>2, <1>9 DEF middle

LEMMA FiguresAtStart == (CpuInit => FiguresInv) /\ (CpuRestart => FiguresInv')
<1>1. MaxCpu \in Nat /\ <<>> \in Seq(0 .. MaxCpu) /\ <<>> \in Seq(-MaxCpu .. MaxCpu)
  BY CpuAssumption
<1>2. CpuInit => FiguresInv BY <1>1 DEF CpuInit, FiguresInv
<1>3. CpuRestart => FiguresInv' BY <1>1 DEF CpuRestart, FiguresInv
<1> QED BY <1>2, <1>3

(* A figure is no more than what was spent in its window, and a median is  *)
(* one of the figures.                                                     *)
LEMMA FiguresStep == FiguresInv /\ WindowInv /\ [CpuNext]_cpuVars => FiguresInv'
<1> SUFFICES ASSUME FiguresInv, WindowInv, [CpuNext]_cpuVars PROVE FiguresInv' OBVIOUS
<1>1. /\ runs \in Seq(0 .. MaxCpu) /\ cpu \in Seq(0 .. MaxCpu) /\ spent \in 0 .. MaxCpu
      /\ increment \in Seq(-MaxCpu .. MaxCpu) /\ Len(increment) = Len(cpu)
      /\ MaxCpu \in Nat
  BY CpuAssumption DEF FiguresInv
<1>2. ASSUME UNCHANGED <<runs, cpu, increment, spent>> PROVE FiguresInv'
  BY <1>2 DEF FiguresInv
<1>3. CASE \E p \in Process : Consume(p)
  <2>1. PICK p \in Process : Consume(p) BY <1>3
  <2>2. UNCHANGED <<runs, cpu, increment>> /\ spent < MaxCpu
        /\ spent' = spent + IF cpuPhase = "sample" THEN 1 ELSE 0
    BY <2>1 DEF Consume
  <2>3. spent' \in 0 .. MaxCpu BY <1>1, <2>2
  <2> QED BY <1>1, <2>2, <2>3 DEF FiguresInv
<1>4. CASE \/ \E p \in Process : Die(p)
           \/ \E c \in Controllers : StartController(c)
           \/ Fork \/ ForkFails \/ FirstSample \/ Verdicts \/ UNCHANGED cpuVars
  BY <1>2, <1>4 DEF Die, StartController, Fork, ForkFails, FirstSample, Verdicts, cpuVars
<1>5. CASE SecondSample
  <2>1. /\ cpuPhase = "sample" /\ UNCHANGED <<cpu, increment>> /\ spent' = 0
        /\ runs' = IF Counted THEN Append(runs, Figure) ELSE runs
    BY <1>5 DEF SecondSample
  <2>2. ASSUME Counted PROVE Figure \in 0 .. MaxCpu
    <3>1. TreeCpu(proc) \in Int
      <4>1. \A x \in Process : /\ proc[x].ticks \in Int
                               /\ proc[x].ticks <= proc[x].ticks + IF x = Webots THEN 0 ELSE 0
        BY DEF WindowInv
      <4> QED BY <4>1, TreeBelow
    <3>2. Figure \in Int /\ Figure <= spent BY <2>1, <3>1 DEF WindowInv, Figure
    <3> QED BY <1>1, <2>2, <3>2 DEF Counted
  <2>3. runs' \in Seq(0 .. MaxCpu)
    <3>1. CASE Counted BY <1>1, <2>1, <2>2, <3>1, AppendProperties
    <3>2. CASE ~Counted BY <1>1, <2>1, <3>2
    <3> QED BY <3>1, <3>2
  <2> QED BY <1>1, <2>1, <2>3 DEF FiguresInv
<1>6. CASE EndWorld
  <2>0. RowBefore \in 0 .. MaxCpu
    <3>1. CASE cpu = <<>> BY <1>1, <3>1 DEF RowBefore
    <3>2. CASE cpu # <<>>
      <4>1. Len(cpu) \in 1 .. Len(cpu) BY <1>1, <3>2, EmptySeq, LenProperties
      <4>2. cpu[Len(cpu)] \in 0 .. MaxCpu BY <1>1, <4>1, ElementOfSeq
      <4> QED BY <3>2, <4>2 DEF RowBefore, Last
    <3> QED BY <3>1, <3>2
  <2>1. PICK e \in 0 .. MaxCpu, f \in -MaxCpu .. MaxCpu :
          cpu' = Append(cpu, e) /\ increment' = Append(increment, f)
    <3>1. CASE runs = <<>>
      <4>1. cpu' = Append(cpu, 0) /\ increment' = Append(increment, 0)
        BY <1>6, <3>1 DEF EndWorld
      <4>2. 0 \in 0 .. MaxCpu /\ 0 \in -MaxCpu .. MaxCpu BY <1>1
      <4> QED BY <4>1, <4>2
    <3>2. CASE runs # <<>>
      <4>1. cpu' = Append(cpu, Median(runs))
            /\ increment' = Append(increment, Median(runs) - RowBefore)
        BY <1>6, <3>2 DEF EndWorld
      <4>2. Median(runs) \in 0 .. MaxCpu BY <1>1, <3>2, MedianIn, Zenon
      <4>3. Median(runs) - RowBefore \in -MaxCpu .. MaxCpu BY <1>1, <2>0, <4>2
      <4> QED BY <4>1, <4>2, <4>3
    <3> QED BY <3>1, <3>2
  <2>2. cpu' \in Seq(0 .. MaxCpu) /\ increment' \in Seq(-MaxCpu .. MaxCpu)
        /\ Len(increment') = Len(cpu')
    BY <1>1, <2>1, AppendProperties
  <2>3. runs' = <<>> /\ spent' = spent BY <1>6 DEF EndWorld
  <2> QED BY <1>1, <2>2, <2>3 DEF FiguresInv
<1> QED BY <1>3, <1>4, <1>5, <1>6 DEF CpuNext

(* The figures of the CPU bench in hundredths of a percent.                *)
LEMMA CostShown ==
  ASSUME NEW f \in Int, -MaxCpu <= f, f <= MaxCpu
  PROVE  TickCost * f * Unit \in Shown
<1>1. TickCost \in Nat /\ MaxCpu \in Nat BY CpuAssumption
<1> DEFINE bound == LargestFigure
           most == TickCost * MaxCpu
           cost == TickCost * f
<1>2. bound \in Nat /\ most * 100 <= bound
  <2>1. TickCost * MaxCpu * Unit <= LargestFigure BY FigureAssumption, Zenon
  <2>2. bound \in Nat BY SMT DEF LargestFigure, Unit
  <2>3. Unit = 100 BY DEF Unit
  <2> HIDE DEF bound
  <2>4. TickCost * MaxCpu * Unit <= bound BY <2>1, Zenon DEF bound
  <2> QED BY SMT, <2>2, <2>3, <2>4
<1>3. most \in Nat /\ cost \in Int /\ cost <= most /\ -most <= cost
  <2>1. f * TickCost <= MaxCpu * TickCost /\ f * TickCost \in Int BY <1>1, OrderedProducts
  <2>2. PICK g \in Int : g = -f OBVIOUS
  <2>3. g * TickCost <= MaxCpu * TickCost BY <1>1, <2>2, OrderedProducts
  <2>4. g * TickCost = -(f * TickCost) BY <1>1, <2>2
  <2>5. MaxCpu * TickCost = most /\ f * TickCost = cost /\ most \in Nat BY <1>1
  <2> HIDE DEF most, cost
  <2> QED BY <2>1, <2>3, <2>4, <2>5
<1> HIDE DEF bound, most, cost
<1>4. cost * 100 \in -bound .. bound BY <1>2, <1>3
<1> QED BY <1>4 DEF bound, cost, Unit, Shown

LEMMA FiguresKept ==
  ASSUME FiguresOK, FiguresInv, CampaignInv, CpuInv, [CampaignNext]_campaignVars
  PROVE  FiguresOK'
<1> DEFINE shown == [1 .. 3 -> Shown]
<1>0. /\ FiguresOK <=> (stage = "write" => /\ data \in [y : shown, z : shown]
                                          /\ (Current = "regulator" => data.z[1] >= 0))
      /\ FiguresOK' <=> (stage' = "write" => /\ data' \in [y : shown, z : shown]
                                            /\ (Current' = "regulator" => data'.z[1] >= 0))
  BY Zenon DEF FiguresOK, Shown
<1> HIDE DEF shown
<1>1. CASE stage' # "write" BY <1>0, <1>1
<1>2. CASE UNCHANGED <<stage, bench, data>>
  <2>1. Current' = Current BY <1>2 DEF Current
  <2> QED BY <1>0, <1>2, <2>1
<1>3. CASE BenchMeasures
  <2>1. data' \in Measurements(Current) BY <1>3 DEF BenchMeasures
  <2>2. Loads \subseteq Shown /\ Deviations \subseteq Shown /\ \A v \in Loads : v >= 0
    <3> DEFINE bound == LargestFigure
    <3>0. bound \in Nat BY SMT DEF LargestFigure, Unit
    <3>1. Loads \subseteq 0 .. bound /\ Deviations \subseteq -bound .. bound
      BY FigureAssumption, Zenon
    <3>2. Shown = -bound .. bound BY DEF Shown
    <3> HIDE DEF bound
    <3> QED BY SMT, <3>0, <3>1, <3>2
  <2>3. data' \in [y : shown, z : shown] BY <2>1, <2>2 DEF Measurements, shown
  <2>4. Current' = Current BY <1>3 DEF BenchMeasures, Current
  <2>5. ASSUME Current = "regulator" PROVE data'.z[1] >= 0
    <3>1. data'.z \in [1 .. 3 -> Loads] BY <2>1, <2>5 DEF Measurements
    <3>2. 1 \in 1 .. 3 OBVIOUS
    <3>3. data'.z[1] \in Loads BY <3>1, <3>2, Zenon
    <3> QED BY <2>2, <3>3
  <2> QED BY <1>0, <2>3, <2>4, <2>5
<1>4. CASE WebotsMeasured
  <2>1. /\ Worlds = 3 /\ Len(cpu) = 3 /\ cpu \in Seq(0 .. MaxCpu) /\ MaxCpu \in Nat
        /\ Len(increment) = 3 /\ increment \in Seq(-MaxCpu .. MaxCpu)
    BY <1>4, CampaignAssumption, CpuAssumption DEF WebotsMeasured, CpuInv, FiguresInv
  <2>5. \A w \in 1 .. Worlds : cpu[w] \in 0 .. MaxCpu /\ increment[w] \in -MaxCpu .. MaxCpu
    <3>1. PICK n \in Nat : n = Worlds BY <2>1
    <3>2. Len(cpu) = n /\ Len(increment) = n /\ 1 .. Worlds = 1 .. n BY <2>1, <3>1
    <3> QED BY <2>1, <3>1, <3>2, ElementOfSeq
  <2>2. ASSUME NEW w \in 1 .. Worlds
        PROVE  TickCost * cpu[w] * Unit \in Shown /\ TickCost * increment[w] * Unit \in Shown
    <3>1. cpu[w] \in 0 .. MaxCpu /\ increment[w] \in -MaxCpu .. MaxCpu BY <2>2, <2>5
    <3>2. /\ cpu[w] \in Int /\ -MaxCpu <= cpu[w] /\ cpu[w] <= MaxCpu
          /\ increment[w] \in Int /\ -MaxCpu <= increment[w] /\ increment[w] <= MaxCpu
      BY <2>1, <3>1
    <3> QED BY <3>2, CostShown
  <2>3. data' = [y |-> [w \in 1 .. Worlds |-> TickCost * cpu[w] * Unit],
                 z |-> [w \in 1 .. Worlds |-> TickCost * increment[w] * Unit]]
    BY <1>4 DEF WebotsMeasured
  <2>4. data' \in [y : shown, z : shown]
    <3> DEFINE p == [w \in 1 .. Worlds |-> TickCost * cpu[w] * Unit]
               q == [w \in 1 .. Worlds |-> TickCost * increment[w] * Unit]
    <3>1. p \in shown /\ q \in shown BY <2>1, <2>2 DEF shown
    <3> HIDE DEF p, q
    <3>2. [y |-> p, z |-> q] \in [y : shown, z : shown] BY <3>1
    <3> QED BY <2>3, <3>2 DEF p, q
  <2>6. Current' # "regulator"
    <3>1. Current = "webots_cpu"
      BY <1>4 DEF WebotsMeasured, CampaignInv, VerdictInItsBench
    <3>2. Current' = Current BY <1>4 DEF WebotsMeasured, Current
    <3> QED BY <3>1, <3>2
  <2> QED BY <1>0, <2>4, <2>6
<1>5. CASE MakeBench \/ BenchOpens \/ WebotsSkips \/ WebotsGivesUp \/ BenchCloses \/ BenchDies
  BY <1>1, <1>5 DEF MakeBench, BenchOpens, WebotsSkips, WebotsGivesUp, BenchCloses, BenchDies, Turn
<1>6. CASE WebotsRuns \/ BenchWrites \/ MakeReport \/ UNCHANGED campaignVars
  BY <1>2, <1>6 DEF WebotsRuns, BenchWrites, MakeReport, campaignVars
<1> QED BY <1>3, <1>4, <1>5, <1>6 DEF CampaignNext

(* No figure of a campaign is one that an axis has no steps for.           *)
LEMMA FiguresInvariant == CampaignSpec => []FiguresOK
<1> DEFINE Inv == CampaignInv /\ CpuInv /\ WindowInv /\ FiguresInv /\ FiguresOK
<1>1. CampaignInit => Inv
  <2>1. CampaignInit => FiguresOK BY DEF CampaignInit, FiguresOK
  <2> QED BY <2>1, CampaignInitInv, WindowAtStart, FiguresAtStart DEF CampaignInit
<1>2. Inv /\ [CampaignNext]_campaignVars => Inv'
  <2>1. CampaignInv /\ CpuInv /\ [CampaignNext]_campaignVars => CampaignInv' /\ CpuInv'
    BY CampaignStep
  <2>2. WindowInv /\ [CampaignNext]_campaignVars => WindowInv'
    BY CampaignStepsCpu, WindowStep, WindowAtStart
  <2>3. FiguresInv /\ WindowInv /\ [CampaignNext]_campaignVars => FiguresInv'
    BY CampaignStepsCpu, FiguresStep, FiguresAtStart
  <2> QED BY <2>1, <2>2, <2>3, FiguresKept
<1> QED BY <1>1, <1>2, PTL DEF CampaignSpec

LEMMA DrawnOnGrids ==
  ASSUME CampaignInv, NEW c \in Drawing
  PROVE  Gridded(c, Plotted(data)) /\ Founded(c, Current, data)
<1>1. stage = "write" /\ c \in ToSet(ChartsOf(Current, data)) BY DEF Drawing
<1>2. bench \in 1 .. Len(Benches) BY <1>1 DEF CampaignInv, BenchesInTurn
<1>3. Current \in {"bandwidth", "jitter", "latency", "regulator", "scale", "webots_cpu"}
  BY <1>2, CampaignAssumption DEF Current
<1> QED BY <1>1, <1>3, BenchCharts

(* On every chart of every bench, whatever it measured and wherever        *)
(* benches died, points, rules and baselines lie inside the frame, bars    *)
(* stick out by no more than half of what the floor made their group wider *)
(* than a gap, and every axis has labels to read it by (plot.c,            *)
(* compute_bounds, put_axes and put_series).                               *)
THEOREM CampaignDrawnInsideFrame == CampaignSpec => []DrawnInsideFrame
<1>1. CampaignInv /\ FiguresOK => DrawnInsideFrame
  <2> SUFFICES ASSUME CampaignInv, FiguresOK, NEW c \in Drawing
               PROVE  InsideFrame(c) /\ Readable(c)
    BY DEF DrawnInsideFrame
  <2>0. stage = "write" BY DEF Drawing
  <2>1. Gridded(c, Plotted(data)) /\ Founded(c, Current, data) BY DrawnOnGrids
  <2>2. ASSUME NEW y \in Plotted(data) PROVE ToSet(y) \in (SUBSET Shown) \ {{}}
    <3>1. CASE y = X(1, 2, 1000)
      <4>1. ToSet(y) = {1 * Unit, 2 * Unit, 1000 * Unit} BY SMT, <3>1 DEF ToSet, X
      <4>2. 1 * Unit \in Shown /\ 2 * Unit \in Shown /\ 1000 * Unit \in Shown
        <5> DEFINE most == 125000 * Unit
        <5>0. \A k \in Nat : k <= most => k \in Ruled BY SMT, RulesShown
        <5>1. \A m \in 1 .. 1000 : m * Unit \in Nat /\ m * Unit <= most BY SMT DEF Unit
        <5> HIDE DEF most
        <5>2. \A m \in 1 .. 1000 : m * Unit \in Ruled BY <5>0, <5>1, Zenon
        <5>3. \A m \in 1 .. 1000 : m * Unit \in Shown BY <5>2, RuledAreShown
        <5>4. PICK i, j, k \in 1 .. 1000 : i = 1 /\ j = 2 /\ k = 1000 BY SMT
        <5>5. i * Unit \in Shown /\ j * Unit \in Shown /\ k * Unit \in Shown
          BY <5>3, Zenon
        <5> QED BY SMT, <5>4, <5>5 DEF Unit
      <4> QED BY SMT, <4>1, <4>2
    <3>2. \A f \in {data.y, data.z} : f \in [1 .. 3 -> Shown]
      BY <2>0, Zenon DEF FiguresOK, Shown
    <3>3. CASE y \in {data.y, data.z}
      <4>1. y \in [1 .. 3 -> Shown] /\ 1 \in 1 .. 3 BY <3>2, <3>3
      <4> QED BY <4>1 DEF ToSet
    <3>4. CASE \E f \in {data.y, data.z} : y = WithCamera(f)
      <4>1. PICK f \in {data.y, data.z} : y = WithCamera(f) BY <3>4
      <4>2. f[1] \in Shown /\ f[2] \in Shown /\ Camera \in Shown
        <5>1. f \in [1 .. 3 -> Shown] /\ 1 \in 1 .. 3 /\ 2 \in 1 .. 3 BY <3>2
        <5> QED BY <5>1, CameraShown
      <4>3. ToSet(y) = {f[1], f[2], Camera} BY <4>1 DEF WithCamera, ToSet
      <4>4. ToSet(y) \subseteq Shown /\ f[1] \in ToSet(y) BY <4>2, <4>3, Zenon
      <4> QED BY <4>4
    <3>5. \/ y = X(1, 2, 1000) \/ y \in {data.y, data.z}
          \/ \E f \in {data.y, data.z} : y = WithCamera(f)
      BY DEF Plotted
    <3> QED BY <3>1, <3>3, <3>4, <3>5
  <2>3. \E v \in Ranged(c) : v >= 0
    <3>1. CASE c.rules # <<>>
      <4>1. c.rules \in Seq(Ruled) BY <2>1 DEF Gridded
      <4>2. 1 \in DOMAIN c.rules BY <3>1, <4>1, EmptySeq, LenProperties
      <4>3. c.rules[1] \in ToSet(c.rules) /\ c.rules[1] \in Ruled
        BY <4>1, <4>2, ElementOfSeq, LenProperties DEF ToSet
      <4>4. c.rules[1] \in Ranged(c) BY <4>3 DEF Ranged
      <4>5. c.rules[1] >= 0 BY <4>3, RuledAreShown, Zenon
      <4> QED BY <4>4, <4>5, Zenon
    <3>2. CASE Current = "regulator" /\ \E t \in ToSet(c.series) : t.y = data.z
      <4>1. PICK t \in ToSet(c.series) : t.y = data.z BY <3>2
      <4>2. data.z[1] >= 0 /\ data.z \in [1 .. 3 -> Shown]
        BY <2>0, <3>2, Zenon DEF FiguresOK, Shown
      <4>3. data.z[1] \in ToSet(t.y)
        <5>1. 1 \in 1 .. 3 OBVIOUS
        <5> QED BY <4>1, <4>2, <5>1 DEF ToSet
      <4>4. data.z[1] \in Ranged(c) BY <4>3 DEF Ranged, Ordinates
      <4> QED BY <4>2, <4>4
    <3> QED BY <2>1, <3>1, <3>2 DEF Founded
  <2> QED BY <2>1, <2>2, <2>3, GriddedFits
<1> QED BY <1>1, CampaignInvariant, FiguresInvariant, PTL
=============================================================================

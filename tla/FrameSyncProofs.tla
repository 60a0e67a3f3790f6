---------------------------- MODULE FrameSyncProofs ----------------------------
(***************************************************************************)
(* The monitor's counters add up for any number of vessels, any width of   *)
(* the sequence number and any stream of packets.                          *)
(***************************************************************************)
EXTENDS FrameSync, FiniteSetTheorems, TLAPS

LEMMA VesselsFinite ==
  /\ IsFiniteSet(Vessel) /\ Cardinality(Vessel) = N
  /\ \A S \in SUBSET Vessel : /\ IsFiniteSet(S) /\ Cardinality(S) \in Nat
                              /\ Cardinality(S) <= N
<1>1. IsFiniteSet(Vessel) /\ Cardinality(Vessel) = N
  BY FrameSyncAssumption, FS_Interval DEF Vessel
<1> QED
  BY <1>1, FS_Subset, FS_CardinalityType

LEMMA PacketsFinite ==
  \A S \in SUBSET (Vessel \X SeqNo) : IsFiniteSet(S) /\ Cardinality(S) \in Nat
<1>1. IsFiniteSet(Vessel) /\ IsFiniteSet(SeqNo)
  BY VesselsFinite, FrameSyncAssumption, FS_Interval DEF SeqNo
<1>2. IsFiniteSet(Vessel \X SeqNo)
  BY <1>1, FS_Product
<1> QED
  BY <1>2, FS_Subset, FS_CardinalityType

(* Every vessel is either heard from or missing.                           *)
LEMMA HeardOrMissing == Missing \in Nat /\ Cardinality(Heard) \in Nat
                        /\ Missing + Cardinality(Heard) = N
<1> DEFINE M == {k \in Vessel : ~hit[k]}
<1>1. M \in SUBSET Vessel /\ Heard \in SUBSET Vessel
  BY DEF Heard
<1>2. M = Vessel \ Heard /\ Vessel \cap Heard = Heard
  BY DEF Heard
<1>3. Cardinality(Vessel \ Heard) = Cardinality(Vessel) - Cardinality(Vessel \cap Heard)
  BY VesselsFinite, FS_Difference
<1>4. Cardinality(M) = N - Cardinality(Heard)
  BY <1>2, <1>3, VesselsFinite
<1>5. /\ Cardinality(M) \in Nat /\ Cardinality(Heard) \in Nat
      /\ Cardinality(M) + Cardinality(Heard) = N
  BY <1>1, <1>4, VesselsFinite, FrameSyncAssumption
<1> QED
  BY <1>5 DEF Missing

(* A packet let through joins the packets let through, and is new there.   *)
LEMMA TakeIsNew ==
  ASSUME TypeOK, HighWaterIsHighest, NEW k \in Vessel, NEW s \in SeqNo,
         ~IsStale(k, s), Take(k, s)
  PROVE  /\ Cardinality(TakenPackets') = Cardinality(TakenPackets) + 1
         /\ Cardinality(TakenPackets) \in Nat
<1>1. <<k, s>> \notin TakenPackets
  <2>1. \A t \in taken[k] : t <= seq[k]
    BY DEF HighWaterIsHighest
  <2>2. s \notin taken[k]
    BY <2>1 DEF IsStale, TypeOK
  <2> QED
    BY <2>2 DEF TakenPackets
<1>2. TakenPackets' = TakenPackets \cup {<<k, s>>}
  BY DEF TakenPackets, Take, TypeOK
<1>3. TakenPackets \in SUBSET (Vessel \X SeqNo)
  BY DEF TakenPackets
<1>4. IsFiniteSet(TakenPackets) /\ Cardinality(TakenPackets) \in Nat
  BY <1>3, PacketsFinite
<1> QED
  BY <1>1, <1>2, <1>4, FS_AddElement

(* The marks after a packet was let through.                               *)
LEMMA TakeKeepsHighWater ==
  ASSUME TypeOK, HighWaterIsHighest, NEW k \in Vessel, NEW s \in SeqNo,
         ~IsStale(k, s), Take(k, s), hit' \in [Vessel -> BOOLEAN],
         \A j \in Vessel \ {k} : hit'[j] = hit[j]
  PROVE  HighWaterIsHighest' /\ seq' \in [Vessel -> SeqNo]
                             /\ taken' \in [Vessel -> SUBSET SeqNo]
<1>1. /\ seq' = [seq EXCEPT ![k] = s]
      /\ taken' = [taken EXCEPT ![k] = taken[k] \cup {s}]
  BY DEF Take
<1>2. seq' \in [Vessel -> SeqNo] /\ taken' \in [Vessel -> SUBSET SeqNo]
  BY <1>1 DEF TypeOK
<1>3. ASSUME NEW j \in Vessel
      PROVE  /\ \A t \in taken'[j] : t <= seq'[j]
             /\ seq'[j] # 0 => seq'[j] \in taken'[j]
             /\ hit'[j] => taken'[j] # {}
  <2>1. CASE j = k
    <3>1. seq'[j] = s /\ taken'[j] = taken[k] \cup {s} /\ seq[k] < s
      BY <1>1, <2>1 DEF TypeOK, IsStale, SeqNo
    <3>2. \A t \in taken[k] : t <= seq[k] /\ t \in Int
      BY DEF HighWaterIsHighest, TypeOK, SeqNo
    <3>3. seq[k] \in Int /\ s \in Int
      BY DEF TypeOK, SeqNo
    <3> QED
      BY <3>1, <3>2, <3>3
  <2>2. CASE j # k
    BY <1>1, <2>2 DEF TypeOK, HighWaterIsHighest
  <2> QED
    BY <2>1, <2>2
<1> QED
  BY <1>2, <1>3 DEF HighWaterIsHighest

-----------------------------------------------------------------------------

LEMMA BeginFrameKeepsIInv ==
  ASSUME IInv, BeginFrame
  PROVE  IInv'
<1>1. Heard' = {}
  BY DEF BeginFrame, Heard
<1>2. Cardinality(Heard') = 0
  BY <1>1, FS_EmptySet
<1>3. TypeOK'
  BY DEF IInv, TypeOK, BeginFrame, counters, verdicts
<1>4. FrameAccounting'
  <2>1. accepted + missingVessels = N * frames + 0
    BY DEF IInv, FrameAccounting, BeginFrame
  <2> QED
    BY <1>2, <2>1 DEF FrameAccounting, BeginFrame, counters, verdicts
<1>5. (PartialFramesBound /\ TakenOnce /\ HighWaterIsHighest)'
  BY DEF IInv, PartialFramesBound, TakenOnce, TakenPackets, HighWaterIsHighest, TypeOK,
         BeginFrame, counters, verdicts
<1> QED
  BY <1>3, <1>4, <1>5 DEF IInv

LEMMA EndFrameKeepsIInv ==
  ASSUME IInv, EndFrame
  PROVE  IInv'
<1> USE FrameSyncAssumption
<1>1. Missing \in Nat /\ Cardinality(Heard) \in Nat /\ Missing + Cardinality(Heard) = N
  BY HeardOrMissing
<1>2. /\ frames \in Nat /\ partialFrames \in Nat /\ missingVessels \in Nat
      /\ accepted \in Nat /\ open
      /\ frames' = frames + 1 /\ missingVessels' = missingVessels + Missing
      /\ partialFrames' = IF Missing > 0 THEN partialFrames + 1 ELSE partialFrames
      /\ open' = FALSE
      /\ UNCHANGED <<seq, hit, verdicts, taken>>
  BY DEF IInv, TypeOK, EndFrame
<1>3. TypeOK'
  <2>1. frames' \in Nat /\ partialFrames' \in Nat /\ missingVessels' \in Nat
    BY <1>1, <1>2
  <2> QED
    BY <1>2, <2>1 DEF IInv, TypeOK, verdicts
<1>4. N * (frames + 1) = N * frames + N /\ N * frames \in Nat
  BY <1>2
<1>5. FrameAccounting'
  <2>1. accepted + missingVessels = N * frames + Cardinality(Heard)
    BY <1>2 DEF IInv, FrameAccounting
  <2>2. accepted + (missingVessels + Missing) = N * frames + N
    BY <1>1, <1>2, <1>4, <2>1
  <2> QED
    BY <1>2, <1>4, <2>2 DEF FrameAccounting, verdicts
<1>6. PartialFramesBound'
  <2>1. /\ partialFrames <= missingVessels /\ partialFrames <= frames
        /\ missingVessels <= N * partialFrames
    BY DEF IInv, PartialFramesBound
  <2>2. N * (partialFrames + 1) = N * partialFrames + N /\ N * partialFrames \in Nat
    BY <1>2
  <2>3. missingVessels' <= N * partialFrames'
    <3>1. CASE Missing > 0
      <4>1. missingVessels + Missing <= N * partialFrames + N
        BY <1>1, <1>2, <2>1, <2>2
      <4> QED
        BY <1>2, <2>2, <3>1, <4>1
    <3>2. CASE Missing = 0
      BY <1>2, <2>1, <3>2
    <3> QED
      BY <1>1, <3>1, <3>2
  <2>4. partialFrames' <= missingVessels' /\ partialFrames' <= frames'
    BY <1>1, <1>2, <2>1
  <2> QED
    BY <2>3, <2>4 DEF PartialFramesBound
<1>7. (TakenOnce /\ HighWaterIsHighest)'
  BY <1>2 DEF IInv, TakenOnce, TakenPackets, HighWaterIsHighest, verdicts
<1> QED
  BY <1>3, <1>5, <1>6, <1>7 DEF IInv

LEMMA FreshKeepsIInv ==
  ASSUME IInv, NEW k \in Vessel, NEW s \in SeqNo, open, AcceptFresh(k, s),
         UNCHANGED <<counters, open>>
  PROVE  IInv'
<1> USE FrameSyncAssumption
<1>1. /\ ~IsStale(k, s) /\ ~hit[k] /\ Take(k, s)
      /\ hit' = [hit EXCEPT ![k] = TRUE] /\ accepted' = accepted + 1
      /\ UNCHANGED <<stalePackets, doubleUpdates, counters, open>>
      /\ TypeOK /\ HighWaterIsHighest
  BY DEF IInv, AcceptFresh
<1>2. /\ hit' \in [Vessel -> BOOLEAN] /\ \A j \in Vessel \ {k} : hit'[j] = hit[j]
  BY <1>1 DEF TypeOK
<1>3. /\ HighWaterIsHighest' /\ seq' \in [Vessel -> SeqNo]
      /\ taken' \in [Vessel -> SUBSET SeqNo]
  BY <1>1, <1>2, TakeKeepsHighWater
<1>4. TypeOK'
  BY <1>1, <1>2, <1>3 DEF TypeOK, counters
<1>5. Cardinality(Heard') = Cardinality(Heard) + 1 /\ Cardinality(Heard) \in Nat
  <2>1. Heard' = Heard \cup {k} /\ k \notin Heard /\ Heard \in SUBSET Vessel
    BY <1>1 DEF Heard, TypeOK
  <2> QED
    BY <2>1, VesselsFinite, FS_AddElement
<1>6. FrameAccounting'
  <2>1. accepted + missingVessels = N * frames + Cardinality(Heard)
    BY DEF IInv, FrameAccounting
  <2>2. N * frames \in Nat /\ accepted \in Nat /\ missingVessels \in Nat
    BY <1>1 DEF TypeOK
  <2>3. (accepted + 1) + missingVessels = N * frames + (Cardinality(Heard) + 1)
    BY <1>5, <2>1, <2>2
  <2> QED
    BY <1>1, <1>5, <2>3 DEF FrameAccounting, counters
<1>7. TakenOnce'
  <2>1. /\ Cardinality(TakenPackets') = Cardinality(TakenPackets) + 1
        /\ Cardinality(TakenPackets) \in Nat
    BY <1>1, TakeIsNew
  <2>2. accepted + doubleUpdates = Cardinality(TakenPackets)
    BY DEF IInv, TakenOnce
  <2> QED
    BY <1>1, <2>1, <2>2 DEF TakenOnce, TypeOK
<1>8. PartialFramesBound'
  BY <1>1 DEF IInv, PartialFramesBound, counters
<1> QED
  BY <1>3, <1>4, <1>6, <1>7, <1>8 DEF IInv

LEMMA DuplicateKeepsIInv ==
  ASSUME IInv, NEW k \in Vessel, NEW s \in SeqNo, open, AcceptDuplicate(k, s),
         UNCHANGED <<counters, open>>
  PROVE  IInv'
<1>1. /\ ~IsStale(k, s) /\ Take(k, s) /\ doubleUpdates' = doubleUpdates + 1
      /\ UNCHANGED <<hit, stalePackets, accepted, counters, open>>
      /\ TypeOK /\ HighWaterIsHighest
  BY DEF IInv, AcceptDuplicate
<1>2. /\ HighWaterIsHighest' /\ seq' \in [Vessel -> SeqNo]
      /\ taken' \in [Vessel -> SUBSET SeqNo]
  <2>1. hit' \in [Vessel -> BOOLEAN] /\ \A j \in Vessel \ {k} : hit'[j] = hit[j]
    BY <1>1 DEF TypeOK
  <2> QED
    BY <1>1, <2>1, TakeKeepsHighWater
<1>3. TypeOK'
  BY <1>1, <1>2 DEF TypeOK, counters
<1>4. TakenOnce'
  <2>1. /\ Cardinality(TakenPackets') = Cardinality(TakenPackets) + 1
        /\ Cardinality(TakenPackets) \in Nat
    BY <1>1, TakeIsNew
  <2>2. accepted + doubleUpdates = Cardinality(TakenPackets)
    BY DEF IInv, TakenOnce
  <2> QED
    BY <1>1, <2>1, <2>2 DEF TakenOnce, TypeOK
<1>5. (FrameAccounting /\ PartialFramesBound)'
  BY <1>1 DEF IInv, FrameAccounting, PartialFramesBound, Heard, counters
<1> QED
  BY <1>2, <1>3, <1>4, <1>5 DEF IInv

(* A stale packet and a foreign one change no more than a counter.         *)
LEMMA RejectedKeepsIInv ==
  ASSUME IInv, UNCHANGED <<seq, hit, doubleUpdates, accepted, taken, counters, open>>,
         stalePackets' \in Nat
  PROVE  IInv'
  BY DEF IInv, TypeOK, FrameAccounting, PartialFramesBound, TakenOnce, TakenPackets,
         HighWaterIsHighest, Heard, counters

LEMMA InitIInv == Init => IInv
<1> USE FrameSyncAssumption
<1> SUFFICES ASSUME Init
             PROVE  IInv
  OBVIOUS
<1>1. TypeOK /\ HighWaterIsHighest
  <2>1. 0 \in SeqNo
    BY DEF SeqNo
  <2>2. TypeOK
    BY <2>1 DEF Init, TypeOK
  <2>3. \A k \in Vessel : seq[k] = 0 /\ ~hit[k] /\ taken[k] = {}
    BY DEF Init
  <2>4. HighWaterIsHighest
    BY <2>3 DEF HighWaterIsHighest
  <2> QED
    BY <2>2, <2>4
<1>2. N * 0 = 0
  OBVIOUS
<1>3. PartialFramesBound /\ FrameAccounting
  BY <1>2 DEF Init, PartialFramesBound, FrameAccounting
<1>4. TakenPackets = {}
  BY DEF Init, TakenPackets
<1>5. TakenOnce
  BY <1>4, FS_EmptySet DEF Init, TakenOnce
<1> QED
  BY <1>1, <1>3, <1>5 DEF IInv

(* Whatever the verdict.                                                   *)
LEMMA AcceptKeepsIInv ==
  ASSUME IInv, NEW k \in 0 .. N, NEW s \in SeqNo, Accept(k, s)
  PROVE  IInv'
<1> USE FrameSyncAssumption
<1>1. open /\ UNCHANGED <<counters, open>> /\ stalePackets \in Nat
  BY DEF Accept, IInv, TypeOK
<1>2. CASE k \in Vessel /\ AcceptStale(k, s)
  BY <1>1, <1>2, RejectedKeepsIInv DEF AcceptStale
<1>3. CASE k \in Vessel /\ AcceptDuplicate(k, s)
  BY <1>1, <1>3, DuplicateKeepsIInv
<1>4. CASE k \in Vessel /\ AcceptFresh(k, s)
  BY <1>1, <1>4, FreshKeepsIInv
<1>5. CASE AcceptForeign(k)
  BY <1>1, <1>5, RejectedKeepsIInv DEF AcceptForeign, verdicts
<1> QED
  BY <1>2, <1>3, <1>4, <1>5 DEF Accept

LEMMA FrameSyncInvariant == Spec => []IInv
<1>1. IInv /\ [Next]_vars => IInv'
  <2> SUFFICES ASSUME IInv, [Next]_vars
               PROVE  IInv'
    OBVIOUS
  <2>1. CASE UNCHANGED vars
    <3>1. UNCHANGED <<seq, hit, doubleUpdates, accepted, taken, counters, open>>
          /\ stalePackets' \in Nat
      BY <2>1 DEF vars, verdicts, IInv, TypeOK
    <3> QED
      BY <3>1, RejectedKeepsIInv
  <2> QED
    BY <2>1, AcceptKeepsIInv, BeginFrameKeepsIInv, EndFrameKeepsIInv DEF Next
<1> QED
  BY InitIInv, <1>1, PTL DEF Spec

(* Counters stay counters, marks stay sequence numbers.                    *)
THEOREM FrameSyncTypeCorrect == Spec => []TypeOK
<1>1. IInv => TypeOK
  BY DEF IInv
<1> QED
  BY <1>1, FrameSyncInvariant, PTL

(* Fresh packets and missing vessels account for every vessel of every     *)
(* closed frame, whatever the link does to the packets.                    *)
THEOREM FrameSyncAccounting == Spec => []FrameAccounting
<1>1. IInv => FrameAccounting
  BY DEF IInv
<1> QED
  BY <1>1, FrameSyncInvariant, PTL

(* A redelivered packet is never counted as an update a second time.       *)
THEOREM FrameSyncTakesOnce == Spec => []TakenOnce
<1>1. IInv => TakenOnce
  BY DEF IInv
<1> QED
  BY <1>1, FrameSyncInvariant, PTL

(* The mark is the highest number let through: reordering on the link      *)
(* never moves it back.                                                    *)
THEOREM FrameSyncHighWater == Spec => []HighWaterIsHighest
<1>1. IInv => HighWaterIsHighest
  BY DEF IInv
<1> QED
  BY <1>1, FrameSyncInvariant, PTL
=============================================================================

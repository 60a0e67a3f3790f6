---------------------------- MODULE FrameLoopProofs ----------------------------
(***************************************************************************)
(* What the frame loop keeps for any number of vessels, any length of the  *)
(* run, any queue and any loss: the loopback's and the monitor's own       *)
(* proofs, joined by what the loop adds, that a vessel's packets are       *)
(* numbered in the order they travel in.                                   *)
(***************************************************************************)
EXTENDS FrameLoop, FiniteSetTheorems, SequenceTheorems, TLAPS

LinkProofs == INSTANCE LoopbackProofs WITH
  MaxSubs <- N, CallbacksPublish <- FALSE, MaxSent <- 2 * N * MaxFrames

MonitorProofs == INSTANCE FrameSyncProofs WITH
  MaxSeq <- MaxFrames, MaxPackets <- N * MaxFrames

-----------------------------------------------------------------------------
(* The parts' theorems, brought here: what they assume of their constants  *)
(* follows from what the loop assumes of its own.                          *)

LEMMA ProductInNat == \A a, m \in Nat : a * m \in Nat
<1> QED OBVIOUS

LEMMA LinkAssumption == LinkProofs!LoopbackAssumption
<1>1. N \in Nat /\ MaxFrames \in Nat
  BY SceneAssumption, FrameLoopAssumption
<1>2. 2 * N \in Nat
  BY <1>1
<1>3. 2 * N * MaxFrames \in Nat
  BY <1>1, <1>2, ProductInNat
<1> QED
  BY <1>1, <1>3, FrameLoopAssumption DEF LinkProofs!LoopbackAssumption

LEMMA MonitorAssumption == MonitorProofs!FrameSyncAssumption
<1>1. N \in Nat \ {0} /\ MaxFrames \in Nat
  BY SceneAssumption, FrameLoopAssumption
<1>2. N * MaxFrames \in Nat
  BY <1>1, ProductInNat
<1> QED
  BY <1>1, <1>2 DEF MonitorProofs!FrameSyncAssumption

LEMMA LinkInvIsTheParts == Link!IInv <=> LinkProofs!IInv
<1> QED
  BY DEF Link!IInv, LinkProofs!IInv, Link!TypeOK, LinkProofs!TypeOK,
    Link!Entry, LinkProofs!Entry, Link!PollRecord, LinkProofs!PollRecord,
    Link!PollInBounds, LinkProofs!PollInBounds, Link!NotPolling, LinkProofs!NotPolling,
    Link!QueueInOrder, LinkProofs!QueueInOrder, Link!Open, LinkProofs!Open,
    Link!KeptWereHeld, LinkProofs!KeptWereHeld, Link!OnePlaceEach, LinkProofs!OnePlaceEach,
    Link!UnderWay, LinkProofs!UnderWay, Link!CalledInTurn, LinkProofs!CalledInTurn,
    Link!IsInjective, LinkProofs!IsInjective,
    Link!OvertakenWereHeld, LinkProofs!OvertakenWereHeld,
    Link!OvertakesOnlyHeld, LinkProofs!OvertakesOnlyHeld,
    Link!NoneMissing, LinkProofs!NoneMissing,
    Link!NothingLostSilently, LinkProofs!NothingLostSilently, Link!InFlight, LinkProofs!InFlight

LEMMA MonitorInvIsTheParts == Monitor!IInv <=> MonitorProofs!IInv
<1>1. Monitor!Vessel = MonitorProofs!Vessel /\ Monitor!SeqNo = MonitorProofs!SeqNo
  BY DEF Monitor!Vessel, MonitorProofs!Vessel, Monitor!SeqNo, MonitorProofs!SeqNo
<1>2. Monitor!TypeOK <=> MonitorProofs!TypeOK
  BY <1>1, Zenon DEF Monitor!TypeOK, MonitorProofs!TypeOK
<1>0. \A S : Monitor!Cardinality(S) = MonitorProofs!Cardinality(S)
  BY DEF Monitor!Cardinality, MonitorProofs!Cardinality
<1>3. Monitor!Heard = MonitorProofs!Heard
  BY <1>1, Zenon DEF Monitor!Heard, MonitorProofs!Heard
<1>4. Monitor!FrameAccounting <=> MonitorProofs!FrameAccounting
  BY <1>0, <1>3, Zenon DEF Monitor!FrameAccounting, MonitorProofs!FrameAccounting
<1>5. Monitor!PartialFramesBound <=> MonitorProofs!PartialFramesBound
  BY Zenon DEF Monitor!PartialFramesBound, MonitorProofs!PartialFramesBound
<1>6. Monitor!TakenPackets = MonitorProofs!TakenPackets
  BY <1>1, Zenon DEF Monitor!TakenPackets, MonitorProofs!TakenPackets
<1>7. Monitor!TakenOnce <=> MonitorProofs!TakenOnce
  BY <1>0, <1>6, Zenon DEF Monitor!TakenOnce, MonitorProofs!TakenOnce
<1>8. Monitor!HighWaterIsHighest <=> MonitorProofs!HighWaterIsHighest
  BY <1>1, Zenon DEF Monitor!HighWaterIsHighest, MonitorProofs!HighWaterIsHighest
<1> QED
  BY <1>2, <1>4, <1>5, <1>7, <1>8, Zenon DEF Monitor!IInv, MonitorProofs!IInv

(* The steps of the loopback, as the loop takes them.                      *)
LEMMA LinkInvNext == (Link!IInv)' <=> (LinkProofs!IInv)'
<1> QED
  BY LinkInvIsTheParts, PTL

LEMMA LinkUnused ==
  ASSUME q = <<>>, published = 0, poll = Link!NotPolling,
         dropEvery \in Period \cup {0}, deferEvery \in Period \cup {0},
         subs \in Seq(Topic), Len(subs) <= N,
         sent = 0, lost = {}, held = {}, delivered = {}, received = [s \in 1 .. N |-> <<>>]
  PROVE  Link!IInv
<1>1. LinkProofs!Unused
  BY DEF LinkProofs!Unused, LinkProofs!NotPolling, Link!NotPolling
<1> QED
  BY <1>1, LinkAssumption, LinkProofs!UnusedIInv, LinkInvIsTheParts

LEMMA LinkStays ==
  ASSUME Link!IInv, UNCHANGED link
  PROVE  Link!IInv'
<1> QED
  BY DEF link, Link!IInv, Link!TypeOK, Link!Entry, Link!PollRecord, Link!PollInBounds,
    Link!NotPolling, Link!QueueInOrder, Link!Open, Link!KeptWereHeld, Link!OnePlaceEach,
    Link!UnderWay, Link!CalledInTurn, Link!IsInjective, Link!OvertakenWereHeld,
    Link!OvertakesOnlyHeld, Link!NoneMissing, Link!NothingLostSilently, Link!InFlight

LEMMA LinkPublish ==
  ASSUME Link!IInv, sent < 2 * N * MaxFrames, NEW t \in Topic, Link!Publish(t)
  PROVE  Link!IInv'
<1>1. LinkProofs!Publish(t)
  BY DEF Link!Publish, LinkProofs!Publish, Link!Due, LinkProofs!Due, Link!MayPublish,
    LinkProofs!MayPublish, Link!HasRoom, LinkProofs!HasRoom, Link!Queued, LinkProofs!Queued
<1> QED
  BY <1>1, LinkAssumption, LinkInvIsTheParts, LinkInvNext, LinkProofs!PublishKeepsIInv

LEMMA LinkPollBegin ==
  ASSUME Link!IInv, Link!PollBegin
  PROVE  Link!IInv'
<1>1. LinkProofs!PollBegin
  BY DEF Link!PollBegin, LinkProofs!PollBegin, Link!history, LinkProofs!history
<1> QED
  BY <1>1, LinkAssumption, LinkInvIsTheParts, LinkInvNext, LinkProofs!PollBeginKeepsIInv

LEMMA LinkPollKeep ==
  ASSUME Link!IInv, Link!PollKeep
  PROVE  Link!IInv'
<1>1. LinkProofs!PollKeep
  BY DEF Link!PollKeep, LinkProofs!PollKeep, Link!Kept, LinkProofs!Kept,
    Link!history, LinkProofs!history
<1> QED
  BY <1>1, LinkAssumption, LinkInvIsTheParts, LinkInvNext, LinkProofs!PollKeepKeepsIInv

LEMMA LinkPollDeliver ==
  ASSUME Link!IInv, Link!PollDeliver
  PROVE  Link!IInv'
<1>1. LinkProofs!PollDeliver
  BY DEF Link!PollDeliver, LinkProofs!PollDeliver
<1> QED
  BY <1>1, LinkAssumption, LinkInvIsTheParts, LinkInvNext, LinkProofs!PollDeliverKeepsIInv

LEMMA ToNotifyIsTheSame == Link!ToNotify = LinkProofs!ToNotify
<1> QED
  BY DEF Link!ToNotify, LinkProofs!ToNotify

LEMMA LinkNotify ==
  ASSUME Link!IInv, Link!Notify
  PROVE  Link!IInv'
<1>1. \A S : Link!Min(S) = LinkProofs!Min(S)
  BY DEF Link!Min, LinkProofs!Min
<1>2. LinkProofs!Notify
  BY <1>1, ToNotifyIsTheSame DEF Link!Notify, LinkProofs!Notify
<1> QED
  BY <1>2, LinkAssumption, LinkInvIsTheParts, LinkInvNext, LinkProofs!NotifyKeepsIInv

LEMMA LinkAllNotified ==
  ASSUME Link!IInv, Link!AllNotified
  PROVE  Link!IInv'
<1>1. LinkProofs!AllNotified
  BY ToNotifyIsTheSame DEF Link!AllNotified, LinkProofs!AllNotified, Link!history, LinkProofs!history
<1> QED
  BY <1>1, LinkAssumption, LinkInvIsTheParts, LinkInvNext, LinkProofs!AllNotifiedKeepsIInv

LEMMA LinkPollEnd ==
  ASSUME Link!IInv, Link!PollEnd
  PROVE  Link!IInv'
<1>1. LinkProofs!PollEnd
  BY DEF Link!PollEnd, LinkProofs!PollEnd, Link!Left, LinkProofs!Left, Link!NotPolling,
    LinkProofs!NotPolling, Link!history, LinkProofs!history
<1> QED
  BY <1>1, LinkAssumption, LinkInvIsTheParts, LinkInvNext, LinkProofs!PollEndKeepsIInv

(* The steps of the monitor, as the loop takes them.                       *)
LEMMA MonitorInvNext == (Monitor!IInv)' <=> (MonitorProofs!IInv)'
<1> QED
  BY MonitorInvIsTheParts, PTL

LEMMA MonitorStays ==
  ASSUME Monitor!IInv, UNCHANGED monitor
  PROVE  Monitor!IInv'
<1> QED
  BY DEF monitor, Monitor!IInv, Monitor!TypeOK, Monitor!FrameAccounting, Monitor!PartialFramesBound,
    Monitor!TakenOnce, Monitor!TakenPackets, Monitor!HighWaterIsHighest, Monitor!Heard

LEMMA MonitorInit ==
  ASSUME Monitor!Init
  PROVE  Monitor!IInv
<1>1. MonitorProofs!Init
  BY DEF Monitor!Init, MonitorProofs!Init, Monitor!Vessel, MonitorProofs!Vessel
<1> QED
  BY <1>1, MonitorAssumption, MonitorProofs!InitIInv, MonitorInvIsTheParts

LEMMA MonitorBegin ==
  ASSUME Monitor!IInv, Monitor!BeginFrame
  PROVE  Monitor!IInv'
<1>1. MonitorProofs!BeginFrame
  BY DEF Monitor!BeginFrame, MonitorProofs!BeginFrame, Monitor!Vessel, MonitorProofs!Vessel,
    Monitor!counters, MonitorProofs!counters, Monitor!verdicts, MonitorProofs!verdicts
<1> QED
  BY <1>1, MonitorAssumption, MonitorInvIsTheParts, MonitorInvNext,
     MonitorProofs!BeginFrameKeepsIInv

LEMMA MonitorEnd ==
  ASSUME Monitor!IInv, Monitor!EndFrame
  PROVE  Monitor!IInv'
<1>1. Monitor!Missing = MonitorProofs!Missing
  BY DEF Monitor!Missing, MonitorProofs!Missing, Monitor!Cardinality, MonitorProofs!Cardinality,
    Monitor!Vessel, MonitorProofs!Vessel
<1>2. MonitorProofs!EndFrame
  BY <1>1 DEF Monitor!EndFrame, MonitorProofs!EndFrame,
    Monitor!verdicts, MonitorProofs!verdicts
<1> QED
  BY <1>2, MonitorAssumption, MonitorInvIsTheParts, MonitorInvNext,
     MonitorProofs!EndFrameKeepsIInv

LEMMA MonitorAccept ==
  ASSUME Monitor!IInv, NEW k \in Vessel, NEW s \in 0 .. MaxFrames, Monitor!Accept(k, s)
  PROVE  Monitor!IInv'
<1>1. k \in 0 .. N /\ s \in MonitorProofs!SeqNo
  BY SceneAssumption DEF Vessel, MonitorProofs!SeqNo
<1>2. MonitorProofs!Accept(k, s)
  BY Zenon DEF Monitor!Accept, MonitorProofs!Accept, Monitor!Vessel, MonitorProofs!Vessel,
    Monitor!AcceptStale, MonitorProofs!AcceptStale, Monitor!AcceptDuplicate,
    MonitorProofs!AcceptDuplicate, Monitor!AcceptFresh, MonitorProofs!AcceptFresh,
    Monitor!AcceptForeign, MonitorProofs!AcceptForeign, Monitor!IsStale, MonitorProofs!IsStale,
    Monitor!Take, MonitorProofs!Take, Monitor!counters, MonitorProofs!counters,
    Monitor!verdicts, MonitorProofs!verdicts
<1> QED
  BY <1>1, <1>2, MonitorAssumption, MonitorInvIsTheParts, MonitorInvNext,
     MonitorProofs!AcceptKeepsIInv

-----------------------------------------------------------------------------
(* What every step needs of the types.                                     *)

LEMMA ProductGrows ==
  ASSUME NEW m \in Nat, NEW a \in Nat, NEW b \in Nat, a <= b
  PROVE  m * a \in Nat /\ m * (a + 1) = m * a + m /\ m * a <= m * b
<1>1. m * a \in Nat /\ m * (b - a) \in Nat
  BY ProductInNat
<1>2. m * b = m * a + m * (b - a)
  OBVIOUS
<1> QED
  BY <1>1, <1>2

LEMMA Numbers ==
  ASSUME LoopInv
  PROVE  /\ N \in Nat \ {0} /\ MaxFrames \in Nat /\ frames \in Nat /\ sent \in Nat
         /\ vessel \in 0 .. N /\ refused \in Nat /\ injSeq \in Nat
         /\ missingVessels \in Nat /\ doubleUpdates \in Nat /\ stalePackets \in Nat
         /\ FrameNo \in Nat /\ FrameNo <= MaxFrames /\ frames <= FrameNo
         /\ 2 * N * frames \in Nat /\ 2 * N * (frames + 1) = 2 * N * frames + 2 * N
         /\ 2 * N * FrameNo <= 2 * N * MaxFrames
<1>1. N \in Nat \ {0} /\ MaxFrames \in Nat
  BY SceneAssumption, FrameLoopAssumption
<1>2. /\ frames \in Nat /\ missingVessels \in Nat /\ doubleUpdates \in Nat /\ stalePackets \in Nat
      /\ sent \in Nat
  BY DEF LoopInv, Monitor!IInv, Monitor!TypeOK, Link!IInv, Link!TypeOK
<1>3. vessel \in 0 .. N /\ refused \in Nat /\ injSeq \in Nat
  BY DEF LoopInv, LoopTypeOK
<1>4. FrameNo \in Nat /\ frames <= FrameNo /\ FrameNo <= MaxFrames
  BY <1>2 DEF LoopInv, LoopPhases, FrameNo
<1>5. 2 * N \in Nat
  BY <1>1
<1>6. 2 * N * frames \in Nat /\ 2 * N * (frames + 1) = 2 * N * frames + 2 * N
  BY <1>2, <1>5, ProductGrows
<1>7. 2 * N * FrameNo <= 2 * N * MaxFrames
  BY <1>1, <1>4, <1>5, ProductGrows
<1> QED
  BY <1>1, <1>2, <1>3, <1>4, <1>6, <1>7

LEMMA ZeroAndN == 0 \in 0 .. N /\ N \in 0 .. N
BY SceneAssumption

LEMMA Shapes ==
  ASSUME LoopInv
  PROVE  /\ q \in Seq(Link!Entry) /\ Len(q) \in Nat
         /\ \A j \in 1 .. Len(q) : q[j] \in Link!Entry
         /\ poll \in Link!PollRecord
         /\ poll.i \in Nat /\ poll.kept \in Nat /\ poll.pending \in Nat /\ poll.sub \in Nat
         /\ lost \subseteq 1 .. sent /\ held \subseteq 1 .. sent /\ delivered \subseteq 1 .. sent
         /\ seq \in [Vessel -> Nat] /\ hit \in [Vessel -> BOOLEAN] /\ open \in BOOLEAN
         /\ packets \in Seq([topic : Topic, seq : Nat]) /\ Len(packets) = sent
         /\ \A id \in 1 .. sent : packets[id].seq \in Nat /\ packets[id].topic \in Topic
         /\ \A j \in Link!Open : j \in 1 .. Len(q) /\ q[j].id \in 1 .. sent
         /\ Link!UnderWay \subseteq Link!Open /\ ToHear \subseteq Link!Open
<1>1. /\ q \in Seq(Link!Entry) /\ poll \in Link!PollRecord /\ sent \in Nat
      /\ delivered \cup lost \subseteq 1 .. sent
  BY DEF LoopInv, Link!IInv, Link!TypeOK, Link!OnePlaceEach
<1>2. Len(q) \in Nat /\ \A j \in 1 .. Len(q) : q[j] \in Link!Entry
  BY <1>1, LenProperties, ElementOfSeq
<1>3. /\ poll.i \in Nat /\ poll.kept \in Nat /\ poll.pending \in Nat /\ poll.sub \in Nat
      /\ poll.at \in {"idle", "scan", "deliver"}
  BY <1>1 DEF Link!PollRecord
<1>4. /\ seq \in [Vessel -> Nat] /\ hit \in [Vessel -> BOOLEAN] /\ open \in BOOLEAN
  <2>1. seq \in [Vessel -> 0 .. MaxFrames] /\ hit \in [Vessel -> BOOLEAN] /\ open \in BOOLEAN
    BY Zenon DEF LoopInv, Monitor!IInv, Monitor!TypeOK, Monitor!Vessel, Monitor!SeqNo, Vessel
  <2> QED
    BY <2>1
<1>5. /\ packets \in Seq([topic : Topic, seq : Nat]) /\ Len(packets) = sent
      /\ held \subseteq 1 .. sent
  BY DEF LoopInv, LoopTypeOK
<1>6. \A id \in 1 .. sent : packets[id] \in [topic : Topic, seq : Nat]
  BY <1>5, ElementOfSeq
<1>7. \A id \in 1 .. sent : packets[id].seq \in Nat /\ packets[id].topic \in Topic
  BY <1>6
<1>8. /\ poll.at = "idle" => poll.i = 0 /\ poll.kept = 0
      /\ poll.at # "idle" => poll.kept <= poll.i /\ poll.i <= Len(q)
      /\ poll.at = "deliver" => poll.kept < poll.i
  <2>1. /\ poll.at = "idle" => poll = Link!NotPolling
        /\ poll.at # "idle" =>
             poll.kept <= poll.i /\ poll.i <= poll.pending /\ poll.pending <= Len(q)
        /\ poll.at = "deliver" => poll.kept < poll.i
    BY DEF LoopInv, Link!IInv, Link!PollInBounds
  <2> QED
    BY <1>2, <1>3, <2>1 DEF Link!NotPolling
<1>9. \A j \in Link!Open : j \in 1 .. Len(q)
  BY <1>2, <1>3, <1>8 DEF Link!Open
<1>10. \A j \in Link!Open : q[j].id \in 1 .. sent
  <2>1. \A j \in Link!Open : q[j].id <= sent
    BY DEF LoopInv, Link!IInv, Link!QueueInOrder
  <2>2. \A j \in 1 .. Len(q) : q[j].id \in Nat /\ 1 <= q[j].id
    BY <1>2 DEF Link!Entry
  <2> QED
    BY <1>1, <1>9, <2>1, <2>2
<1>11. Link!UnderWay \subseteq Link!Open /\ ToHear \subseteq Link!Open
  BY <1>2, <1>3, <1>8 DEF Link!UnderWay, Link!Open, ToHear
<1> QED
  BY <1>1, <1>2, <1>3, <1>4, <1>5, <1>7, <1>9, <1>10, <1>11

LEMMA IdsFinite ==
  ASSUME LoopInv, NEW S \in SUBSET (1 .. sent)
  PROVE  IsFiniteSet(S) /\ Cardinality(S) \in Nat
<1>1. IsFiniteSet(1 .. sent)
  BY Numbers, FS_Interval
<1> QED
  BY <1>1, FS_Subset, FS_CardinalityType

(* The topic of an entry of the queue is its packet's.                     *)
LEMMA VesselOf ==
  ASSUME NEW t \in Topic
  PROVE  t[2] \in Vessel /\ t = <<t[1], t[2]>> /\ t[1] \in {"lsdt", "act"}
BY DEF Topic

-----------------------------------------------------------------------------
(* The steps that neither publish, poll nor judge.                         *)

LEMMA AroundKeeps ==
  ASSUME LoopInv, UNCHANGED <<link, monitor, decoded, packets, refused>>,
         LoopTypeOK', LoopPhases', at' # "inject", at' = "poll" => at = "inject",
         LeftBehind' = LeftBehind,
         open => SoFar' = SoFar
  PROVE  LoopInv'
<1>1. Link!IInv' /\ Monitor!IInv'
  BY LinkStays, MonitorStays DEF LoopInv
<1>2. /\ UNCHANGED <<q, poll, sent, lost, held, delivered, packets, refused, decoded>>
      /\ UNCHANGED <<seq, hit, frames, missingVessels, doubleUpdates, stalePackets, open>>
  BY DEF link, monitor
<1>3. /\ FrameNo' = FrameNo /\ ToHear' = ToHear /\ Link!Open' = Link!Open
      /\ Superseded' = Superseded /\ OfThisFrame' = OfThisFrame
      /\ Telemetry(1 .. sent)' = Telemetry(1 .. sent)
      /\ Telemetry(held)' = Telemetry(held) /\ Telemetry(lost)' = Telemetry(lost)
      /\ Telemetry(delivered)' = Telemetry(delivered)
      /\ \A id : OfVessel(id)' = OfVessel(id)
  BY <1>2 DEF FrameNo, ToHear, Link!Open, Link!UnderWay, Superseded, OfThisFrame, Telemetry, OfVessel
<1>4. NumberedInOrder'
  BY <1>2, <1>3 DEF LoopInv, NumberedInOrder
<1>5. QueueIsNews'
  BY <1>2, <1>3 DEF LoopInv, QueueIsNews
<1>6. HeardIsDelivered'
  BY <1>2, <1>3 DEF LoopInv, HeardIsDelivered
<1>7. LossesAccount'
  <2>1. MissingExplained' <=> MissingExplained
    BY <1>2, <1>3 DEF MissingExplained
  <2> QED
    BY <1>2, <1>3, <2>1 DEF LoopInv, LossesAccount
<1> QED
  BY <1>1, <1>4, <1>5, <1>6, <1>7 DEF LoopInv

LEMMA InjectEndsKeeps == LoopInv /\ InjectEnds => LoopInv'
<1> SUFFICES ASSUME LoopInv, InjectEnds PROVE LoopInv'
  OBVIOUS
<1>1. /\ at = "inject" /\ vessel = N /\ injSeq' = injSeq + 1 /\ at' = "poll"
      /\ UNCHANGED <<link, monitor, injPublished, refused, inputs, scene, controller,
                     vessel, packets>>
  BY DEF InjectEnds, NextSeq
<1>2. UNCHANGED <<frames, open, sent, poll, subs, held, q, decoded, ins>>
  BY <1>1 DEF link, monitor, inputs
<1>3. LoopTypeOK'
  <2>1. vessel' \in 0 .. N /\ injSeq' \in Nat
    BY <1>1, ZeroAndN DEF LoopInv, LoopTypeOK
  <2> QED
    BY <1>1, <1>2, <2>1 DEF LoopInv, LoopTypeOK
<1>4. FrameNo' = FrameNo /\ SoFar = vessel /\ SoFar' = N
  BY <1>1, <1>2 DEF FrameNo, SoFar
<1>5. LoopPhases'
  BY <1>1, <1>2, <1>4, Numbers DEF LoopInv, LoopPhases
<1>6. LeftBehind' = LeftBehind
  BY <1>1 DEF LeftBehind
<1> QED
  BY <1>1, <1>2, <1>3, <1>4, <1>5, <1>6, AroundKeeps

LEMMA StepFleetKeeps == LoopInv /\ StepFleet => LoopInv'
<1> SUFFICES ASSUME LoopInv, StepFleet PROVE LoopInv'
  OBVIOUS
<1>1. /\ at = "step" /\ ins' = decoded /\ vessel' = 0
      /\ at' = IF controller THEN "render" ELSE "begin"
      /\ UNCHANGED <<link, monitor, injector, decoded, scene, controller, packets>>
  BY DEF StepFleet
<1>2. /\ UNCHANGED <<frames, open, sent, poll, subs, held, q, decoded, injSeq, refused>>
      /\ ~open /\ at' \in {"render", "begin"}
  BY <1>1 DEF link, monitor, injector, LoopInv, LoopPhases
<1>3. LoopTypeOK'
  <2>1. ins' \in [Vessel -> Nat]
    BY <1>1, Shapes DEF LoopInv, HeardIsDelivered
  <2>2. vessel' \in 0 .. N
    BY <1>1, ZeroAndN
  <2>3. at' \in {"render", "begin"} /\ controller' = controller
    BY <1>1, <1>2
  <2> QED
    BY <1>1, <1>2, <2>1, <2>2, <2>3 DEF LoopInv, LoopTypeOK
<1>4. FrameNo' = FrameNo /\ SoFar = 0 /\ SoFar' = 0
  BY <1>1, <1>2 DEF FrameNo, SoFar
<1>5. LoopPhases'
  BY <1>1, <1>2, <1>4, Numbers DEF LoopInv, LoopPhases
<1>6. LeftBehind' = LeftBehind
  BY <1>1, <1>2 DEF LeftBehind
<1> QED
  BY <1>1, <1>2, <1>3, <1>4, <1>5, <1>6, AroundKeeps

LEMMA DrawKeeps == LoopInv /\ Draw => LoopInv'
<1> SUFFICES ASSUME LoopInv, Draw PROVE LoopInv'
  OBVIOUS
<1>1. /\ at = "render" /\ vessel < N /\ vessel' = vessel + 1
      /\ UNCHANGED <<link, monitor, injector, inputs, controller, at, packets>>
  BY DEF Draw
<1>2. /\ UNCHANGED <<frames, open, sent, poll, subs, held, q, decoded, ins, injSeq, refused>>
      /\ ~open
  BY <1>1 DEF link, monitor, injector, inputs, LoopInv, LoopPhases
<1>3. LoopTypeOK'
  <2>1. vessel' \in 0 .. N
    BY <1>1, Numbers
  <2> QED
    BY <1>1, <1>2, <2>1 DEF LoopInv, LoopTypeOK
<1>4. FrameNo' = FrameNo /\ SoFar = 0 /\ SoFar' = 0
  BY <1>1, <1>2 DEF FrameNo, SoFar
<1>5. LoopPhases'
  BY <1>1, <1>2, <1>4, Numbers DEF LoopInv, LoopPhases
<1>6. LeftBehind' = LeftBehind
  BY <1>1, <1>2 DEF LeftBehind
<1> QED
  BY <1>1, <1>2, <1>3, <1>4, <1>5, <1>6, AroundKeeps

LEMMA DrawnKeeps == LoopInv /\ Drawn => LoopInv'
<1> SUFFICES ASSUME LoopInv, Drawn PROVE LoopInv'
  OBVIOUS
<1>1. /\ at = "render" /\ vessel = N /\ at' = "act" /\ vessel' = 0
      /\ UNCHANGED <<link, monitor, injector, inputs, scene, controller, packets>>
  BY DEF Drawn
<1>2. /\ UNCHANGED <<frames, open, sent, poll, subs, held, q, decoded, ins, injSeq, refused>>
      /\ ~open
  BY <1>1 DEF link, monitor, injector, inputs, LoopInv, LoopPhases
<1>3. LoopTypeOK'
  <2>1. vessel' \in 0 .. N
    BY <1>1, ZeroAndN DEF LoopInv, LoopTypeOK
  <2> QED
    BY <1>1, <1>2, <2>1 DEF LoopInv, LoopTypeOK
<1>4. FrameNo' = FrameNo /\ SoFar = 0 /\ SoFar' = 0
  BY <1>1, <1>2 DEF FrameNo, SoFar
<1>5. LoopPhases'
  BY <1>1, <1>2, <1>4, Numbers DEF LoopInv, LoopPhases
<1>6. LeftBehind' = LeftBehind
  BY <1>1, <1>2 DEF LeftBehind
<1> QED
  BY <1>1, <1>2, <1>3, <1>4, <1>5, <1>6, AroundKeeps

LEMMA ActsPublishedKeeps == LoopInv /\ ActsPublished => LoopInv'
<1> SUFFICES ASSUME LoopInv, ActsPublished PROVE LoopInv'
  OBVIOUS
<1>1. /\ at = "act" /\ vessel = N /\ at' = "begin"
      /\ UNCHANGED <<link, monitor, injector, inputs, scene, controller, vessel, packets>>
  BY DEF ActsPublished
<1>2. /\ UNCHANGED <<frames, open, sent, poll, subs, held, q, decoded, ins, injSeq, refused>>
      /\ ~open
  BY <1>1 DEF link, monitor, injector, inputs, LoopInv, LoopPhases
<1>3. LoopTypeOK'
  <2>1. vessel' \in 0 .. N
    BY <1>1, ZeroAndN DEF LoopInv, LoopTypeOK
  <2> QED
    BY <1>1, <1>2, <2>1 DEF LoopInv, LoopTypeOK
<1>4. FrameNo' = FrameNo /\ SoFar = N /\ SoFar' = 0
  BY <1>1, <1>2 DEF FrameNo, SoFar
<1>5. LoopPhases'
  BY <1>1, <1>2, <1>4, Numbers DEF LoopInv, LoopPhases
<1>6. LeftBehind' = LeftBehind
  BY <1>1, <1>2 DEF LeftBehind
<1> QED
  BY <1>1, <1>2, <1>3, <1>4, <1>5, <1>6, AroundKeeps

-----------------------------------------------------------------------------
(* A frame opens.                                                          *)

LEMMA BeginFrameKeeps == LoopInv /\ BeginFrame => LoopInv'
<1> SUFFICES ASSUME LoopInv, BeginFrame PROVE LoopInv'
  OBVIOUS
<1>0. frames \in Nat /\ sent \in Nat
  BY Numbers
<1>1. /\ at = "begin" /\ at' = "inject" /\ vessel' = 0 /\ Monitor!BeginFrame
      /\ UNCHANGED <<link, injector, inputs, scene, controller, packets>>
  BY DEF BeginFrame
<1>2. /\ UNCHANGED <<q, poll, subs, sent, lost, held, delivered, packets, refused, injSeq, decoded, ins>>
      /\ UNCHANGED <<seq, frames, missingVessels, doubleUpdates, stalePackets>>
      /\ ~open /\ open' = TRUE /\ frames < MaxFrames /\ hit' = [k \in Vessel |-> FALSE]
  BY <1>1 DEF link, injector, inputs, Monitor!BeginFrame, Monitor!counters, Monitor!verdicts,
    Monitor!Vessel, Vessel
<1>3. Link!IInv' /\ Monitor!IInv'
  BY <1>1, LinkStays, MonitorBegin DEF LoopInv
<1>4. LoopTypeOK'
  <2>1. vessel' \in 0 .. N
    BY <1>1, ZeroAndN DEF LoopInv, LoopTypeOK
  <2> QED
    BY <1>1, <1>2, <2>1 DEF LoopInv, LoopTypeOK
<1>5. /\ FrameNo = frames /\ FrameNo' = frames + 1 /\ SoFar = 0 /\ SoFar' = 0
      /\ ToHear' = ToHear /\ Link!Open' = Link!Open
      /\ Superseded' = Superseded /\ LeftBehind' = {} /\ LeftBehind = 1 .. Len(q)
      /\ Telemetry(1 .. sent)' = Telemetry(1 .. sent)
      /\ Telemetry(held)' = Telemetry(held) /\ Telemetry(lost)' = Telemetry(lost)
      /\ Telemetry(delivered)' = Telemetry(delivered)
      /\ \A id : OfVessel(id)' = OfVessel(id)
  BY <1>1, <1>2 DEF FrameNo, SoFar, ToHear, Link!Open, Link!UnderWay, Superseded, LeftBehind,
    Telemetry, OfVessel
<1>6. LoopPhases'
  <2>1. FrameNo' <= MaxFrames
    <3>1. MaxFrames \in Nat
      BY FrameLoopAssumption
    <3> QED
      BY <1>0, <1>2, <1>5, <3>1
  <2>2. /\ injSeq = frames + 1 /\ poll.at = "idle" /\ sent <= 2 * N * frames + SoFar
    BY <1>1 DEF LoopInv, LoopPhases
  <2> QED
    BY <1>1, <1>2, <1>5, <2>1, <2>2 DEF LoopPhases
<1>7. \A id \in Telemetry(1 .. sent) : packets[id].seq \in 1 .. frames
  BY <1>5 DEF LoopInv, NumberedInOrder
<1>8. NumberedInOrder'
  BY <1>0, <1>2, <1>5, <1>7 DEF LoopInv, NumberedInOrder
<1>9. QueueIsNews'
  <2>1. ToHear \subseteq LeftBehind
    BY <1>5, Shapes
  <2> QED
    BY <1>0, <1>2, <1>5, <2>1 DEF LoopInv, QueueIsNews
<1>10. HeardIsDelivered'
  <2>1. \A k \in Vessel : seq[k] <= frames /\ seq[k] \in Nat /\ hit'[k] = FALSE
    BY <1>2, <1>5, Shapes DEF LoopInv, HeardIsDelivered
  <2> QED
    BY <1>0, <1>2, <1>5, <2>1 DEF LoopInv, HeardIsDelivered
<1>11. OfThisFrame' = {}
  BY <1>0, <1>2, <1>5, <1>7 DEF OfThisFrame
<1>12. LossesAccount'
  <2>1. Cardinality({}) = 0
    BY FS_EmptySet
  <2>2. (OfThisFrame \cap lost)' = {} /\ (OfThisFrame \cap held)' = {}
    BY <1>11
  <2>3. missingVessels <= Cardinality(Telemetry(lost)) + Cardinality(Telemetry(held)) + refused
    BY <1>2 DEF LoopInv, LossesAccount, MissingExplained
  <2> QED
    BY <1>2, <1>5, <1>11, <2>1, <2>2, <2>3, Numbers DEF LoopInv, LossesAccount
<1> QED
  BY <1>3, <1>4, <1>6, <1>8, <1>9, <1>10, <1>12 DEF LoopInv

-----------------------------------------------------------------------------
(* A packet is published, or refused.                                      *)

LEMMA PublishedEntry ==
  ASSUME LoopInv, NEW t \in Topic, NEW n \in Nat, Publish(t, n)
  PROVE  /\ sent' = sent + 1
         /\ UNCHANGED <<poll, subs, delivered>>
         /\ Len(packets') = sent + 1 /\ packets' \in Seq([topic : Topic, seq : Nat])
         /\ packets'[sent + 1] = [topic |-> t, seq |-> n]
         /\ \A id \in 1 .. sent : packets'[id] = packets[id]
         /\ \A j \in 1 .. Len(q) : q'[j] = q[j]
         /\ \/ q' = q /\ lost' = lost \cup {sent + 1} /\ held' = held
            \/ /\ Len(q') = Len(q) + 1 /\ lost' = lost
               /\ q'[Len(q) + 1].topic = t /\ q'[Len(q) + 1].id = sent + 1
               /\ held' = held \/ held' = held \cup {sent + 1}
<1>1. /\ sent' = sent + 1 /\ UNCHANGED <<poll, subs, delivered>>
      /\ \/ q' = q /\ lost' = lost \cup {sent + 1} /\ held' = held
         \/ /\ \E d \in BOOLEAN : q' = Append(q, [topic |-> t, id |-> sent + 1, deferred |-> d])
            /\ lost' = lost
            /\ held' = held \/ held' = held \cup {sent + 1}
  <2>1. \A every, count : Link!Due(every, count) \in BOOLEAN
    BY DEF Link!Due
  <2> QED
    BY <2>1, Zenon DEF Publish, Link!Publish, Link!Queued
<1>2. /\ packets' = Append(packets, [topic |-> t, seq |-> n])
      /\ packets \in Seq([topic : Topic, seq : Nat]) /\ Len(packets) = sent
      /\ [topic |-> t, seq |-> n] \in [topic : Topic, seq : Nat]
  BY Shapes DEF Publish
<1>3. /\ Len(packets') = sent + 1 /\ packets' \in Seq([topic : Topic, seq : Nat])
      /\ packets'[sent + 1] = [topic |-> t, seq |-> n]
      /\ \A id \in 1 .. sent : packets'[id] = packets[id]
  BY <1>2, AppendProperties
<1>4. ASSUME NEW d \in BOOLEAN, q' = Append(q, [topic |-> t, id |-> sent + 1, deferred |-> d])
      PROVE  /\ Len(q') = Len(q) + 1
             /\ q'[Len(q) + 1].topic = t /\ q'[Len(q) + 1].id = sent + 1
             /\ \A j \in 1 .. Len(q) : q'[j] = q[j]
  <2> DEFINE e == [topic |-> t, id |-> sent + 1, deferred |-> d]
             AnyEntry == [topic : Topic, id : Nat, deferred : BOOLEAN]
  <2>1. e \in AnyEntry /\ e.topic = t /\ e.id = sent + 1
    BY Numbers
  <2>2. q \in Seq(AnyEntry)
    <3>1. \A j \in 1 .. Len(q) : q[j] \in AnyEntry
      BY Shapes DEF Link!Entry
    <3> HIDE DEF AnyEntry
    <3>2. Len(q) \in Nat /\ q = [j \in 1 .. Len(q) |-> q[j]]
      BY Shapes, LenProperties
    <3>3. [j \in 1 .. Len(q) |-> q[j]] \in Seq(AnyEntry)
      BY <3>1, <3>2, IsASeq
    <3> QED
      BY <3>2, <3>3
  <2> HIDE DEF e, AnyEntry
  <2>3. q' = Append(q, e)
    BY <1>4 DEF e
  <2>4. Len(Append(q, e)) = Len(q) + 1 /\ Append(q, e)[Len(q) + 1] = e
        /\ \A j \in 1 .. Len(q) : Append(q, e)[j] = q[j]
    BY <2>1, <2>2, AppendProperties
  <2> QED
    BY <2>1, <2>3, <2>4
<1> QED
  BY <1>1, <1>3, <1>4

(* The telemetry there is after a packet was published.                    *)
LEMMA PublishedTelemetry ==
  ASSUME LoopInv, NEW t \in Topic, NEW n \in Nat, Publish(t, n)
  PROVE  LET New == IF t[1] = "lsdt" THEN {sent + 1} ELSE {}
         IN  /\ Telemetry(1 .. sent)' = Telemetry(1 .. sent) \cup New
             /\ Telemetry(delivered)' = Telemetry(delivered)
             /\ Telemetry(held)' = Telemetry(held) \cup (held' \cap New)
             /\ Telemetry(lost)' = Telemetry(lost) \cup (lost' \cap New)
<1> DEFINE New == IF t[1] = "lsdt" THEN {sent + 1} ELSE {}
<1>1. /\ sent \in Nat /\ sent' = sent + 1
      /\ lost \subseteq 1 .. sent /\ held \subseteq 1 .. sent /\ delivered \subseteq 1 .. sent
  BY Numbers, Shapes, PublishedEntry
<1>2. /\ \A id \in 1 .. sent : packets'[id] = packets[id]
      /\ packets'[sent + 1].topic[1] = t[1]
  <2>1. packets'[sent + 1] = [topic |-> t, seq |-> n]
    BY PublishedEntry, Zenon
  <2>2. \A id \in 1 .. sent : packets'[id] = packets[id]
    BY PublishedEntry, Zenon
  <2> QED
    BY <2>1, <2>2
<1>3. /\ delivered' = delivered
      /\ lost' = lost \/ lost' = lost \cup {sent + 1}
      /\ held' = held \/ held' = held \cup {sent + 1}
  BY PublishedEntry
<1>4. sent + 1 \notin 1 .. sent /\ 1 .. sent' = (1 .. sent) \cup {sent + 1}
  BY <1>1
<1>5. Telemetry(1 .. sent)' = Telemetry(1 .. sent) \cup New
  BY <1>2, <1>4 DEF Telemetry
<1>6. Telemetry(delivered)' = Telemetry(delivered)
  BY <1>1, <1>2, <1>3 DEF Telemetry
<1>7. Telemetry(held)' = Telemetry(held) \cup (held' \cap New)
  BY <1>1, <1>2, <1>3, <1>4 DEF Telemetry
<1>8. Telemetry(lost)' = Telemetry(lost) \cup (lost' \cap New)
  BY <1>1, <1>2, <1>3, <1>4 DEF Telemetry
<1> QED
  BY <1>5, <1>6, <1>7, <1>8

LEMMA PublishKeepsOrder ==
  ASSUME LoopInv, NEW t \in Topic, NEW n \in Nat, Publish(t, n),
         at \in {"inject", "act"}, at' = at, vessel' = vessel + 1, UNCHANGED <<monitor, decoded>>,
         t[1] = "lsdt" => at = "inject" /\ n = FrameNo /\ t[2] = vessel
  PROVE  NumberedInOrder' /\ QueueIsNews' /\ HeardIsDelivered' /\ Superseded' = Superseded
<1> DEFINE New == IF t[1] = "lsdt" THEN {sent + 1} ELSE {}
<1>1. /\ sent \in Nat /\ vessel \in Nat /\ FrameNo \in Nat
      /\ sent' = sent + 1 /\ UNCHANGED <<poll, subs, delivered>>
      /\ packets'[sent + 1] = [topic |-> t, seq |-> n]
      /\ \A id \in 1 .. sent : packets'[id] = packets[id]
      /\ \A j \in 1 .. Len(q) : q'[j] = q[j]
  <2>1. sent \in Nat /\ FrameNo \in Nat /\ N \in Nat /\ vessel \in 0 .. N
    BY Numbers, Zenon
  <2>2. /\ sent' = sent + 1 /\ UNCHANGED <<poll, subs, delivered>>
        /\ packets'[sent + 1] = [topic |-> t, seq |-> n]
        /\ \A id \in 1 .. sent : packets'[id] = packets[id]
        /\ \A j \in 1 .. Len(q) : q'[j] = q[j]
    BY PublishedEntry, Zenon
  <2> QED
    BY <2>1, <2>2
<1>2. UNCHANGED <<seq, hit, frames, open, decoded>> /\ FrameNo' = FrameNo
  BY DEF monitor, FrameNo
<1>3. /\ poll.at = "idle" /\ poll.i = 0 /\ poll.kept = 0 /\ poll.sub = 0
  BY DEF LoopInv, LoopPhases, Link!IInv, Link!PollInBounds, Link!NotPolling
<1>4. /\ Telemetry(1 .. sent)' = Telemetry(1 .. sent) \cup New
      /\ Telemetry(delivered)' = Telemetry(delivered)
      /\ Telemetry(held)' = Telemetry(held) \cup (held' \cap New)
  BY PublishedTelemetry
<1>5. /\ \A id \in Telemetry(1 .. sent) : id \in 1 .. sent /\ OfVessel(id)' = OfVessel(id)
      /\ Telemetry(held) \subseteq 1 .. sent /\ Telemetry(delivered) \subseteq 1 .. sent
      /\ \A id \in 1 .. sent : OfVessel(id)' = OfVessel(id)
  BY <1>1, Shapes DEF Telemetry, OfVessel
<1>6. \A id \in New : /\ id = sent + 1 /\ packets'[id].seq = n /\ n = FrameNo /\ at = "inject"
                      /\ t[2] = vessel /\ OfVessel(id)' = vessel
  BY <1>1 DEF OfVessel
<1>7. NumberedInOrder'
  <2>1. ASSUME NEW id \in Telemetry(1 .. sent)'
        PROVE  /\ packets'[id].seq \in 1 .. FrameNo'
               /\ at' = "inject" /\ packets'[id].seq = FrameNo' => OfVessel(id)' < vessel'
    <3>1. CASE id \in Telemetry(1 .. sent)
      <4>1. /\ packets[id].seq \in 1 .. FrameNo
            /\ at = "inject" /\ packets[id].seq = FrameNo => OfVessel(id) < vessel
        BY <3>1 DEF LoopInv, NumberedInOrder
      <4>2. OfVessel(id) \in Nat
        BY <1>5, <3>1, Shapes, VesselOf, SceneAssumption DEF OfVessel, Vessel
      <4> QED
        BY <1>1, <1>2, <1>5, <3>1, <4>1, <4>2
    <3>2. CASE id \in New
      <4>1. 1 <= FrameNo
        <5>1. FrameNo = frames + 1
          BY <1>6, <3>2 DEF FrameNo, LoopInv, LoopPhases
        <5>2. frames \in Nat
          BY Numbers, Zenon
        <5> QED
          BY <5>1, <5>2
      <4> QED
        BY <1>1, <1>2, <1>6, <3>2, <4>1
    <3> QED
      BY <1>4, <3>1, <3>2
  <2>2. ASSUME NEW id \in Telemetry(1 .. sent)', NEW later \in Telemetry(1 .. sent)',
               id < later, OfVessel(id)' = OfVessel(later)'
        PROVE  packets'[id].seq < packets'[later].seq
    <3>1. CASE id \in Telemetry(1 .. sent) /\ later \in Telemetry(1 .. sent)
      BY <1>1, <1>5, <2>2, <3>1 DEF LoopInv, NumberedInOrder
    <3>2. CASE id \in Telemetry(1 .. sent) /\ later \in New
      <4>1. packets[id].seq \in 1 .. FrameNo /\ (packets[id].seq = FrameNo => OfVessel(id) < vessel)
        BY <1>6, <3>2 DEF LoopInv, NumberedInOrder
      <4>2. OfVessel(id) = vessel
        BY <1>5, <1>6, <2>2, <3>2
      <4>3. packets[id].seq # FrameNo
        BY <1>1, <4>1, <4>2
      <4>4. packets[id].seq < FrameNo
        BY <1>1, <4>1, <4>3
      <4>5. packets'[id] = packets[id] /\ packets'[later].seq = FrameNo
        BY <1>1, <1>5, <1>6, <3>2
      <4> QED
        BY <4>4, <4>5
    <3>3. CASE id \in New
      <4>1. later \in 1 .. sent + 1
        BY <1>1, <1>4, <1>5, <1>6
      <4> QED
        BY <1>1, <1>6, <2>2, <3>3, <4>1
    <3> QED
      BY <1>4, <3>1, <3>2, <3>3
  <2> QED
    BY <2>1, <2>2 DEF NumberedInOrder
<1>8. HeardIsDelivered'
  <2>1. decoded' = seq'
    BY <1>2 DEF LoopInv, HeardIsDelivered
  <2>2. ASSUME NEW k \in Vessel
        PROVE  /\ seq'[k] <= FrameNo' /\ (at' \in {"inject", "poll"} => seq'[k] < FrameNo')
               /\ open' /\ seq'[k] = FrameNo' => hit'[k]
    BY <1>2 DEF LoopInv, HeardIsDelivered
  <2>3. ASSUME NEW k \in Vessel, open', hit'[k]
        PROVE  \/ seq'[k] = FrameNo'
               \/ \E id \in Telemetry(held)' : OfVessel(id)' = k /\ packets'[id].seq = seq'[k]
    <3>1. CASE seq[k] = FrameNo
      BY <1>2, <3>1
    <3>2. CASE seq[k] # FrameNo
      <4>1. PICK id \in Telemetry(held) : OfVessel(id) = k /\ packets[id].seq = seq[k]
        BY <1>2, <2>3, <3>2 DEF LoopInv, HeardIsDelivered
      <4> QED
        BY <1>1, <1>2, <1>4, <1>5, <4>1
    <3> QED
      BY <3>1, <3>2
  <2>4. ASSUME NEW id \in Telemetry(delivered)'
        PROVE  packets'[id].seq <= seq'[OfVessel(id)']
    <3>1. id \in Telemetry(delivered) /\ packets[id].seq <= seq[OfVessel(id)]
      BY <1>3, <1>4 DEF LoopInv, HeardIsDelivered
    <3> QED
      BY <1>1, <1>2, <1>5, <3>1
  <2> QED
    BY <2>1, <2>2, <2>3, <2>4 DEF HeardIsDelivered
<1>9. /\ Link!Open = 1 .. Len(q) /\ ToHear = 1 .. Len(q) /\ Len(q) \in Nat
      /\ Link!Open' = 1 .. Len(q') /\ ToHear' = 1 .. Len(q')
  <2>1. poll' = poll
    BY <1>1
  <2> QED
    BY <1>3, <2>1, Shapes DEF Link!Open, ToHear, Link!UnderWay
<1>10. \/ q' = q
       \/ /\ Len(q') = Len(q) + 1
          /\ q'[Len(q) + 1].topic = t /\ q'[Len(q) + 1].id = sent + 1
  BY PublishedEntry
<1>11. /\ \A j \in 1 .. Len(q') : j \in 1 .. Len(q) \/ (j = Len(q) + 1 /\ q'[j].topic = t /\ q'[j].id = sent + 1)
  BY <1>9, <1>10
<1>12. \A j \in 1 .. Len(q) : /\ q'[j] = q[j] /\ q[j].id \in 1 .. sent
                              /\ packets'[q[j].id] = packets[q[j].id]
  BY <1>1, <1>9, Shapes
<1>13. \A id \in held : id \in held'
  BY PublishedEntry
<1>14. QueueIsNews'
  <2>1. ASSUME NEW j \in Link!Open'
        PROVE  q'[j].topic = packets'[q'[j].id].topic
    <3>1. CASE j \in 1 .. Len(q)
      BY <1>9, <1>12, <3>1 DEF LoopInv, QueueIsNews
    <3>2. CASE j \notin 1 .. Len(q)
      BY <1>1, <1>9, <1>11, <3>2
    <3> QED
      BY <3>1, <3>2
  <2>2. ASSUME NEW j \in ToHear', q'[j].topic[1] = "lsdt"
        PROVE  /\ packets'[q'[j].id].seq > seq'[q'[j].topic[2]]
               /\ \/ packets'[q'[j].id].seq = FrameNo'
                  \/ packets'[q'[j].id].seq = FrameNo' - 1 /\ q'[j].id \in held' /\ ~q'[j].deferred
    <3>1. CASE j \in 1 .. Len(q)
      BY <1>2, <1>9, <1>12, <1>13, <2>2, <3>1 DEF LoopInv, QueueIsNews
    <3>2. CASE j \notin 1 .. Len(q)
      <4>1. /\ q'[j].topic = t /\ q'[j].id = sent + 1 /\ t[1] = "lsdt" /\ t[2] \in Vessel
            /\ at = "inject" /\ n = FrameNo
        BY <1>9, <1>11, <2>2, <3>2, VesselOf
      <4>2. seq[t[2]] < FrameNo /\ seq[t[2]] \in Nat
        BY <4>1, Shapes DEF LoopInv, HeardIsDelivered
      <4> QED
        BY <1>1, <1>2, <4>1, <4>2
    <3> QED
      BY <3>1, <3>2
  <2>3. ASSUME NEW j \in LeftBehind', q'[j].topic[1] = "lsdt"
        PROVE  packets'[q'[j].id].seq = FrameNo' /\ q'[j].id \in held' /\ ~q'[j].deferred
    <3>1. at = "act" /\ LeftBehind = 1 .. Len(q) /\ j \in 1 .. Len(q')
      BY <2>3 DEF LeftBehind
    <3>2. j \in 1 .. Len(q)
      BY <1>11, <2>3, <3>1
    <3> QED
      BY <1>2, <1>12, <1>13, <2>3, <3>1, <3>2 DEF LoopInv, QueueIsNews
  <2>4. poll'.sub = 0
    BY <1>1, <1>3
  <2> QED
    BY <2>1, <2>2, <2>3, <2>4 DEF QueueIsNews
<1>15. Superseded' = Superseded
  <2>1. \A id \in New : OfVessel(id)' \in Vessel /\ ~(packets'[id].seq < seq'[OfVessel(id)'])
    <3>1. ASSUME NEW id \in New PROVE vessel \in Vessel /\ seq[vessel] < FrameNo /\ seq[vessel] \in Nat
      <4>1. vessel \in Vessel /\ at = "inject"
        BY <1>6, VesselOf
      <4> QED
        BY <4>1, Shapes DEF LoopInv, HeardIsDelivered
    <3> QED
      BY <1>1, <1>2, <1>6, <3>1
  <2>2. \A id \in Telemetry(held) : packets'[id] = packets[id] /\ OfVessel(id)' = OfVessel(id)
    BY <1>1, <1>5
  <2> QED
    BY <1>2, <1>4, <2>1, <2>2 DEF Superseded
<1> QED
  BY <1>7, <1>8, <1>14, <1>15

LEMMA PublishKeepsTypes ==
  ASSUME LoopInv, NEW t \in Topic, NEW n \in Nat, Publish(t, n),
         UNCHANGED <<controller, injSeq, ins, at>>, refused' \in Nat, vessel < N, vessel' = vessel + 1
  PROVE  LoopTypeOK'
<1>1. /\ sent' = sent + 1 /\ subs' = subs
      /\ Len(packets') = sent + 1 /\ packets' \in Seq([topic : Topic, seq : Nat])
      /\ held' = held \/ held' = held \cup {sent + 1}
  <2>1. sent' = sent + 1 /\ subs' = subs
    BY PublishedEntry, Zenon
  <2>2. Len(packets') = sent + 1 /\ packets' \in Seq([topic : Topic, seq : Nat])
    BY PublishedEntry, Zenon
  <2>3. held' = held \/ held' = held \cup {sent + 1}
    BY PublishedEntry, Zenon
  <2> QED
    BY <2>1, <2>2, <2>3
<1>2. held' \subseteq 1 .. sent'
  <2>1. held \subseteq 1 .. sent /\ sent \in Nat
    <3>1. held \subseteq 1 .. sent
      BY Shapes, Zenon
    <3> QED
      BY <3>1, Numbers, Zenon
  <2>2. 1 .. sent' = (1 .. sent) \cup {sent + 1}
    BY <1>1, <2>1
  <2> QED
    BY <1>1, <2>1, <2>2, Zenon
<1>3. vessel' \in 0 .. N
  <2>1. vessel \in 0 .. N /\ N \in Nat
    BY Numbers, Zenon
  <2> QED
    BY <2>1
<1> QED
  BY <1>1, <1>2, <1>3 DEF LoopInv, LoopTypeOK

(* The message published now was counted nowhere before.                   *)
LEMMA CountsOneMore ==
  ASSUME LoopInv, NEW S \in SUBSET (1 .. sent)
  PROVE  Cardinality(S \cup {sent + 1}) = Cardinality(S) + 1 /\ Cardinality(S) \in Nat
<1>1. sent + 1 \notin S
  BY Numbers
<1> QED
  BY <1>1, IdsFinite, FS_AddElement

LEMMA PublishKeepsAccount ==
  ASSUME LoopInv, NEW t \in Topic, Publish(t, FrameNo), t[1] = "lsdt",
         UNCHANGED <<seq, frames, open, missingVessels, doubleUpdates, stalePackets, refused>>,
         open, SoFar' = SoFar + 1, SoFar \in Nat, Superseded' = Superseded
  PROVE  LossesAccount'
<1> DEFINE T  == OfThisFrame
           e  == sent + 1
           TL == Telemetry(lost)
           TH == Telemetry(held)
<1>1. sent \in Nat /\ refused \in Nat /\ missingVessels \in Nat /\ FrameNo \in Nat
  BY Numbers, Zenon
<1>2. lost \subseteq 1 .. sent /\ held \subseteq 1 .. sent
  BY Shapes, Zenon
<1>3. /\ T \subseteq 1 .. sent /\ TL \subseteq 1 .. sent /\ TH \subseteq 1 .. sent
      /\ T \cap lost \subseteq 1 .. sent /\ T \cap held \subseteq 1 .. sent
  BY <1>2 DEF OfThisFrame, Telemetry
<1>4. /\ Telemetry(1 .. sent)' = Telemetry(1 .. sent) \cup {e}
      /\ TH' = TH \cup (held' \cap {e}) /\ TL' = TL \cup (lost' \cap {e})
  BY <1>1, PublishedTelemetry
<1>5. T' = T \cup {e}
  <2>1. packets'[sent + 1] = [topic |-> t, seq |-> FrameNo]
    BY <1>1, PublishedEntry, Zenon
  <2>2. \A id \in 1 .. sent : packets'[id] = packets[id]
    BY <1>1, PublishedEntry, Zenon
  <2>3. FrameNo' = FrameNo
    BY DEF FrameNo
  <2>4. Telemetry(1 .. sent) \subseteq 1 .. sent
    BY DEF Telemetry
  <2> QED
    BY <1>4, <2>1, <2>2, <2>3, <2>4 DEF OfThisFrame
<1>6. e \notin lost /\ e \notin held
  BY <1>1, <1>2
<1>7. \/ lost' = lost \cup {e} /\ held' = held
      \/ lost' = lost /\ held' = held
      \/ lost' = lost /\ held' = held \cup {e}
  BY <1>1, PublishedEntry, Zenon
<1>8. Cardinality(T \cup {e}) = Cardinality(T) + 1 /\ Cardinality(T) \in Nat
  BY <1>3, CountsOneMore
<1>9. /\ Cardinality(TL \cup {e}) = Cardinality(TL) + 1 /\ Cardinality(TL) \in Nat
      /\ Cardinality(TH \cup {e}) = Cardinality(TH) + 1 /\ Cardinality(TH) \in Nat
  BY <1>3, CountsOneMore
<1>10. /\ Cardinality((T \cap lost) \cup {e}) = Cardinality(T \cap lost) + 1
       /\ Cardinality((T \cap held) \cup {e}) = Cardinality(T \cap held) + 1
       /\ Cardinality(T \cap lost) \in Nat /\ Cardinality(T \cap held) \in Nat
  BY <1>3, CountsOneMore
<1>11. missingVessels + (SoFar - Cardinality(T))
         + Cardinality(T \cap lost) + Cardinality(T \cap held)
       <= Cardinality(TL) + Cardinality(TH) + refused
  BY DEF LoopInv, LossesAccount
<1>12. \/ /\ TL' = TL \cup {e} /\ (T \cap lost)' = (T \cap lost) \cup {e}
          /\ TH' = TH /\ (T \cap held)' = T \cap held
       \/ /\ TL' = TL /\ (T \cap lost)' = T \cap lost
          /\ TH' = TH /\ (T \cap held)' = T \cap held
       \/ /\ TL' = TL /\ (T \cap lost)' = T \cap lost
          /\ TH' = TH \cup {e} /\ (T \cap held)' = (T \cap held) \cup {e}
  <2> HIDE DEF T, TL, TH, e
  <2>1. e \notin T
    BY <1>1, <1>3 DEF e
  <2> QED
    BY <1>4, <1>5, <1>6, <1>7, <2>1
<1>13. missingVessels + (SoFar' - Cardinality(T'))
         + Cardinality((T \cap lost)') + Cardinality((T \cap held)')
       <= Cardinality(TL') + Cardinality(TH') + refused
  <2> HIDE DEF T, TL, TH, e
  <2>1. Cardinality(T') = Cardinality(T) + 1
    BY <1>5, <1>8, Zenon
  <2>2. \/ /\ Cardinality(TL') = Cardinality(TL) + 1
           /\ Cardinality((T \cap lost)') = Cardinality(T \cap lost) + 1
           /\ Cardinality(TH') = Cardinality(TH)
           /\ Cardinality((T \cap held)') = Cardinality(T \cap held)
        \/ /\ Cardinality(TL') = Cardinality(TL)
           /\ Cardinality((T \cap lost)') = Cardinality(T \cap lost)
           /\ Cardinality(TH') = Cardinality(TH)
           /\ Cardinality((T \cap held)') = Cardinality(T \cap held)
        \/ /\ Cardinality(TL') = Cardinality(TL)
           /\ Cardinality((T \cap lost)') = Cardinality(T \cap lost)
           /\ Cardinality(TH') = Cardinality(TH) + 1
           /\ Cardinality((T \cap held)') = Cardinality(T \cap held) + 1
    BY <1>9, <1>10, <1>12, Zenon
  <2> QED
    BY <1>1, <1>8, <1>9, <1>10, <1>11, <2>1, <2>2
<1> QED
  BY <1>13 DEF LoopInv, LossesAccount

LEMMA InjectKeeps == LoopInv /\ Inject => LoopInv'
<1> SUFFICES ASSUME LoopInv, Inject PROVE LoopInv'
  OBVIOUS
<1>1. /\ at = "inject" /\ vessel < N /\ vessel' = vessel + 1
      /\ UNCHANGED <<monitor, injSeq, inputs, scene, controller, at>>
  BY DEF Inject
<1>2. /\ UNCHANGED <<seq, hit, frames, open, missingVessels, doubleUpdates, stalePackets>>
      /\ UNCHANGED <<decoded, ins>>
  BY <1>1 DEF monitor, inputs
<1>3. open /\ injSeq = FrameNo /\ SoFar = vessel /\ SoFar' = vessel + 1 /\ FrameNo' = FrameNo
  BY <1>1, <1>2 DEF LoopInv, LoopPhases, FrameNo, SoFar
<1>4. N \in Nat /\ vessel \in 0 .. N /\ vessel \in Nat /\ FrameNo \in Nat /\ sent \in Nat
      /\ refused \in Nat
  <2>1. N \in Nat /\ vessel \in 0 .. N /\ FrameNo \in Nat /\ sent \in Nat /\ refused \in Nat
    BY Numbers, Zenon
  <2> QED
    BY <2>1
<1>5. vessel \in Vessel
  BY <1>1, <1>4 DEF Vessel
<1>6. poll' = poll /\ sent' <= 2 * N * frames + (vessel + 1) => LoopPhases'
  <2>1. /\ injSeq' = IF at' \in {"poll", "polling", "close"} THEN frames' + 2 ELSE frames' + 1
        /\ FrameNo' <= MaxFrames
    BY <1>1, <1>2, <1>3 DEF LoopInv, LoopPhases
  <2>2. open' <=> at' \in {"inject", "poll", "polling", "close"}
    BY <1>1, <1>2, <1>3
  <2>3. poll' = poll => (poll'.at = "idle" <=> at' # "polling")
    BY <1>1 DEF LoopInv, LoopPhases
  <2>4. sent' <= 2 * N * frames + (vessel + 1) =>
          sent' <= IF at' \in {"step", "render", "act"} THEN 2 * N * frames' - N + SoFar'
                   ELSE 2 * N * frames' + SoFar'
    BY <1>1, <1>2, <1>3
  <2> QED
    BY <2>1, <2>2, <2>3, <2>4, Zenon DEF LoopPhases
<1>7. Monitor!IInv'
  BY <1>1, MonitorStays DEF LoopInv
<1>8. CASE Publish(<<"lsdt", vessel>>, injSeq) /\ Count(TRUE)
  <2> DEFINE t == <<"lsdt", vessel>>
  <2>1. t \in Topic /\ t[1] = "lsdt" /\ t[2] = vessel
    BY <1>5 DEF Topic
  <2>2. Publish(t, FrameNo) /\ refused' = refused
    BY <1>3, <1>8 DEF Count
  <2> HIDE DEF t
  <2>3. sent' = sent + 1
    BY <1>4, <2>1, <2>2, PublishedEntry, Zenon
  <2>4. NumberedInOrder' /\ QueueIsNews' /\ HeardIsDelivered' /\ Superseded' = Superseded
    BY <1>1, <1>2, <1>4, <2>1, <2>2, PublishKeepsOrder, Zenon
  <2>5. LoopTypeOK'
    BY <1>1, <1>2, <1>4, <2>1, <2>2, PublishKeepsTypes
  <2>6. LossesAccount'
    BY <1>1, <1>2, <1>3, <1>4, <2>1, <2>2, <2>4, PublishKeepsAccount
  <2>7. LoopPhases' /\ sent < 2 * N * MaxFrames
    <3>1. sent <= 2 * N * frames + vessel
      BY <1>1, <1>3 DEF LoopInv, LoopPhases
    <3>2. FrameNo = frames + 1
      BY <1>3 DEF FrameNo
    <3>3. sent + 1 <= 2 * N * frames + (vessel + 1) /\ sent < 2 * N * MaxFrames
      BY <1>1, <3>1, <3>2, Numbers
    <3>4. poll' = poll
      BY <1>4, <2>1, <2>2, PublishedEntry, Zenon
    <3> QED
      BY <1>6, <2>3, <3>3, <3>4
  <2>8. Link!IInv'
    BY <2>1, <2>2, <2>7, LinkPublish DEF LoopInv, Publish
  <2> QED
    BY <1>7, <2>4, <2>5, <2>6, <2>7, <2>8 DEF LoopInv
<1>9. CASE Refused /\ Count(FALSE)
  <2>1. /\ UNCHANGED <<link, packets>> /\ refused' = refused + 1
        /\ UNCHANGED <<q, poll, subs, sent, lost, held, delivered>>
    BY <1>9 DEF Refused, Count, link
  <2>2. /\ ToHear' = ToHear /\ Link!Open' = Link!Open /\ LeftBehind' = LeftBehind
        /\ Superseded' = Superseded /\ OfThisFrame' = OfThisFrame
        /\ Telemetry(1 .. sent)' = Telemetry(1 .. sent)
        /\ Telemetry(held)' = Telemetry(held) /\ Telemetry(lost)' = Telemetry(lost)
        /\ Telemetry(delivered)' = Telemetry(delivered)
        /\ \A id : OfVessel(id)' = OfVessel(id)
    BY <1>1, <1>2, <1>3, <2>1 DEF ToHear, Link!Open, Link!UnderWay, LeftBehind, Superseded,
      OfThisFrame, Telemetry, OfVessel
  <2>3. Link!IInv'
    BY <2>1, LinkStays DEF LoopInv
  <2>4. LoopTypeOK'
    <3>1. vessel' \in 0 .. N /\ refused' \in Nat
      BY <1>1, <1>4, <2>1
    <3> QED
      BY <1>1, <1>2, <2>1, <3>1 DEF LoopInv, LoopTypeOK
  <2>5. LoopPhases'
    <3>1. sent <= 2 * N * frames + vessel
      BY <1>1, <1>3 DEF LoopInv, LoopPhases
    <3>2. sent <= 2 * N * frames + (vessel + 1)
      BY <3>1, Numbers
    <3> QED
      BY <1>6, <2>1, <3>2
  <2>6. NumberedInOrder'
    <3>1. \A id \in Telemetry(1 .. sent) : OfVessel(id) \in Nat
      BY Shapes, VesselOf, SceneAssumption DEF OfVessel, Vessel, Telemetry
    <3> QED
      BY <1>1, <1>2, <1>3, <1>4, <2>1, <2>2, <3>1 DEF LoopInv, NumberedInOrder
  <2>7. QueueIsNews'
    BY <1>2, <1>3, <2>1, <2>2 DEF LoopInv, QueueIsNews
  <2>8. HeardIsDelivered'
    BY <1>1, <1>2, <1>3, <2>1, <2>2 DEF LoopInv, HeardIsDelivered
  <2>9. LossesAccount'
    <3> DEFINE A == Cardinality(OfThisFrame)
               B == Cardinality(OfThisFrame \cap lost)
               C == Cardinality(OfThisFrame \cap held)
               D == Cardinality(Telemetry(lost))
               E == Cardinality(Telemetry(held))
    <3>1. A \in Nat /\ B \in Nat /\ C \in Nat /\ D \in Nat /\ E \in Nat
      <4>1. lost \subseteq 1 .. sent /\ held \subseteq 1 .. sent
        BY Shapes, Zenon
      <4> QED
        BY <4>1, IdsFinite DEF OfThisFrame, Telemetry
    <3>2. missingVessels + (vessel - A) + B + C <= D + E + refused
      BY <1>3 DEF LoopInv, LossesAccount
    <3>3. missingVessels \in Nat
      BY Numbers, Zenon
    <3>4. missingVessels + ((vessel + 1) - A) + B + C <= D + E + (refused + 1)
      <4> HIDE DEF A, B, C, D, E
      <4> QED
        BY <1>4, <3>1, <3>2, <3>3
    <3> QED
      BY <1>2, <1>3, <2>1, <2>2, <3>4 DEF LoopInv, LossesAccount
  <2> QED
    BY <1>7, <2>3, <2>4, <2>5, <2>6, <2>7, <2>8, <2>9 DEF LoopInv
<1> QED
  BY <1>8, <1>9 DEF Inject

LEMMA PublishActKeeps == LoopInv /\ PublishAct => LoopInv'
<1> SUFFICES ASSUME LoopInv, PublishAct PROVE LoopInv'
  OBVIOUS
<1>1. /\ at = "act" /\ vessel < N /\ vessel' = vessel + 1
      /\ UNCHANGED <<monitor, injector, inputs, scene, controller, at>>
  BY DEF PublishAct
<1>2. /\ UNCHANGED <<seq, hit, frames, open, missingVessels, doubleUpdates, stalePackets>>
      /\ UNCHANGED <<decoded, ins, injSeq, refused>>
  BY <1>1 DEF monitor, inputs, injector
<1>3. ~open /\ SoFar = vessel /\ SoFar' = vessel + 1 /\ FrameNo = frames /\ FrameNo' = FrameNo
  BY <1>1, <1>2 DEF LoopInv, LoopPhases, FrameNo, SoFar
<1>4. N \in Nat /\ vessel \in 0 .. N /\ vessel \in Nat /\ FrameNo \in Nat /\ sent \in Nat
      /\ refused \in Nat
  <2>1. N \in Nat /\ vessel \in 0 .. N /\ FrameNo \in Nat /\ sent \in Nat /\ refused \in Nat
    BY Numbers, Zenon
  <2> QED
    BY <2>1
<1>5. vessel \in Vessel
  BY <1>1, <1>4 DEF Vessel
<1>6. poll' = poll /\ sent' <= 2 * N * frames - N + (vessel + 1) => LoopPhases'
  <2>1. /\ injSeq' = IF at' \in {"poll", "polling", "close"} THEN frames' + 2 ELSE frames' + 1
        /\ FrameNo' <= MaxFrames
    BY <1>1, <1>2, <1>3 DEF LoopInv, LoopPhases
  <2>2. open' <=> at' \in {"inject", "poll", "polling", "close"}
    BY <1>1, <1>2, <1>3
  <2>3. poll' = poll => (poll'.at = "idle" <=> at' # "polling")
    BY <1>1 DEF LoopInv, LoopPhases
  <2>4. sent' <= 2 * N * frames - N + (vessel + 1) =>
          sent' <= IF at' \in {"step", "render", "act"} THEN 2 * N * frames' - N + SoFar'
                   ELSE 2 * N * frames' + SoFar'
    BY <1>1, <1>2, <1>3
  <2> QED
    BY <2>1, <2>2, <2>3, <2>4, Zenon DEF LoopPhases
<1>7. Monitor!IInv'
  BY <1>1, MonitorStays DEF LoopInv
<1>8. sent <= 2 * N * frames - N + vessel
  BY <1>1, <1>3 DEF LoopInv, LoopPhases
<1>9. CASE Publish(<<"act", vessel>>, seq[vessel])
  <2> DEFINE t == <<"act", vessel>>
             n == seq[vessel]
  <2>1. t \in Topic /\ t[1] = "act" /\ n \in Nat
    BY <1>5, Shapes DEF Topic
  <2>2. Publish(t, n)
    BY <1>9
  <2> HIDE DEF t, n
  <2>3. sent' = sent + 1 /\ poll' = poll
    BY <2>1, <2>2, PublishedEntry, Zenon
  <2>4. t[1] # "lsdt"
    BY <2>1
  <2>5. NumberedInOrder' /\ QueueIsNews' /\ HeardIsDelivered' /\ Superseded' = Superseded
    BY <1>1, <1>2, <2>1, <2>2, <2>4, PublishKeepsOrder, Zenon
  <2>6. LoopTypeOK'
    BY <1>1, <1>2, <1>4, <2>1, <2>2, PublishKeepsTypes
  <2>7. LossesAccount'
    <3>1. Telemetry(lost)' = Telemetry(lost) /\ Telemetry(held)' = Telemetry(held)
      BY <2>1, <2>2, <2>4, PublishedTelemetry
    <3> QED
      BY <1>2, <1>3, <2>5, <3>1 DEF LoopInv, LossesAccount, MissingExplained
  <2>8. LoopPhases'
    <3>1. sent + 1 <= 2 * N * frames - N + (vessel + 1)
      BY <1>8, Numbers
    <3> QED
      BY <1>6, <2>3, <3>1
  <2>9. sent < 2 * N * MaxFrames
    <3>1. 2 * N * frames <= 2 * N * MaxFrames /\ 2 * N * frames \in Nat
      BY <1>3, Numbers
    <3>2. 2 * N * MaxFrames \in Nat
      BY LinkAssumption DEF LinkProofs!LoopbackAssumption
    <3> QED
      BY <1>1, <1>4, <1>8, <3>1, <3>2
  <2>10. Link!IInv'
    BY <2>1, <2>2, <2>9, LinkPublish DEF LoopInv, Publish
  <2> QED
    BY <1>7, <2>5, <2>6, <2>7, <2>8, <2>10 DEF LoopInv
<1>10. CASE Refused
  <2>1. UNCHANGED <<link, monitor, decoded, packets, refused>> /\ at' = at
    BY <1>1, <1>2, <1>10 DEF Refused
  <2>2. UNCHANGED <<q, poll, subs, sent, held>>
    BY <2>1 DEF link
  <2>3. LoopTypeOK'
    <3>1. vessel' \in 0 .. N
      BY <1>1, <1>4
    <3> QED
      BY <1>1, <1>2, <2>1, <2>2, <3>1 DEF LoopInv, LoopTypeOK
  <2>4. LoopPhases'
    <3>1. sent <= 2 * N * frames - N + (vessel + 1)
      BY <1>8, Numbers
    <3> QED
      BY <1>6, <2>2, <3>1
  <2>5. LeftBehind' = LeftBehind
    BY <1>1, <2>2 DEF LeftBehind
  <2> QED
    BY <1>1, <1>3, <2>1, <2>3, <2>4, <2>5, AroundKeeps
<1> QED
  BY <1>9, <1>10 DEF PublishAct

-----------------------------------------------------------------------------
(* The poll: it looks at the entries in turn and the monitor hears of none *)
(* of them before its own step.                                            *)

LEMMA ScanKeeps ==
  ASSUME LoopInv,
         UNCHANGED <<monitor, injector, inputs, controller, vessel, packets, subs, sent, lost, held>>,
         at \in {"poll", "polling"}, at' \in {"polling", "close"},
         poll'.at = "idle" <=> at' # "polling",
         Link!IInv', QueueIsNews',
         \A id \in Telemetry(delivered)' :
           \/ id \in Telemetry(delivered) /\ packets[id].seq <= seq[OfVessel(id)]
           \/ poll'.at = "deliver" /\ poll'.sub = 0 /\ id = q'[poll'.i].id
  PROVE  LoopInv'
<1>1. /\ UNCHANGED <<seq, hit, frames, missingVessels, doubleUpdates, stalePackets, open>>
      /\ UNCHANGED <<injSeq, refused, decoded, ins>>
  BY DEF monitor, injector, inputs
<1>2. open /\ SoFar = N /\ SoFar' = N
  BY DEF LoopInv, LoopPhases, SoFar
<1>3. /\ FrameNo' = FrameNo
      /\ Superseded' = Superseded /\ OfThisFrame' = OfThisFrame
      /\ Telemetry(1 .. sent)' = Telemetry(1 .. sent)
      /\ Telemetry(held)' = Telemetry(held) /\ Telemetry(lost)' = Telemetry(lost)
      /\ \A id : OfVessel(id)' = OfVessel(id)
  BY <1>1 DEF FrameNo, Superseded, OfThisFrame, Telemetry, OfVessel
<1>4. Monitor!IInv'
  BY MonitorStays DEF LoopInv
<1>5. LoopTypeOK'
  BY <1>1 DEF LoopInv, LoopTypeOK
<1>6. LoopPhases'
  BY <1>1, <1>2, <1>3 DEF LoopInv, LoopPhases
<1>7. NumberedInOrder'
  BY <1>1, <1>3 DEF LoopInv, NumberedInOrder
<1>8. HeardIsDelivered'
  BY <1>1, <1>3 DEF LoopInv, HeardIsDelivered
<1>9. LossesAccount'
  BY <1>1, <1>2, <1>3 DEF LoopInv, LossesAccount
<1> QED
  BY <1>4, <1>5, <1>6, <1>7, <1>8, <1>9 DEF LoopInv

LEMMA PollBeginKeeps == LoopInv /\ PollBegin => LoopInv'
<1> SUFFICES ASSUME LoopInv, PollBegin PROVE LoopInv'
  OBVIOUS
<1>1. /\ at = "poll" /\ at' = "polling" /\ Link!PollBegin
      /\ UNCHANGED <<monitor, injector, inputs, scene, controller, vessel, packets>>
  BY DEF PollBegin
<1>2. /\ poll.at = "idle" /\ poll.i = 0 /\ poll.kept = 0
      /\ poll' = [at |-> "scan", i |-> 0, pending |-> Len(q), kept |-> 0, sub |-> 0]
      /\ UNCHANGED <<q, subs, sent, lost, held, delivered, seq, frames, open>>
  BY <1>1 DEF Link!PollBegin, Link!history, monitor, LoopInv, Link!IInv, Link!PollInBounds,
    Link!NotPolling
<1>3. /\ FrameNo' = FrameNo /\ Link!Open' = Link!Open /\ ToHear' = ToHear /\ LeftBehind' = {}
      /\ Telemetry(delivered)' = Telemetry(delivered)
  BY <1>1, <1>2 DEF FrameNo, Link!Open, ToHear, Link!UnderWay, LeftBehind, Telemetry
<1>4. Link!IInv'
  BY <1>1, LinkPollBegin DEF LoopInv
<1>5. QueueIsNews'
  BY <1>1, <1>2, <1>3 DEF LoopInv, QueueIsNews
<1> QED
  BY <1>1, <1>2, <1>3, <1>4, <1>5, ScanKeeps DEF LoopInv, HeardIsDelivered

LEMMA PollKeepKeeps == LoopInv /\ PollScan /\ Link!PollKeep => LoopInv'
<1> SUFFICES ASSUME LoopInv, PollScan, Link!PollKeep PROVE LoopInv'
  OBVIOUS
<1> DEFINE i == poll.i + 1
           p == poll.kept + 1
<1>1. /\ at = "polling" /\ at' = "polling"
      /\ UNCHANGED <<monitor, injector, inputs, scene, controller, vessel, packets>>
  BY DEF PollScan
<1>2. /\ poll.at = "scan" /\ i <= poll.pending /\ q[i].deferred /\ q' = Link!Kept(i)
      /\ poll' = [poll EXCEPT !.i = i, !.kept = poll.kept + 1]
      /\ UNCHANGED <<subs, sent, lost, held, delivered>>
  BY DEF Link!PollKeep, Link!history
<1>3. UNCHANGED <<seq, frames, open>>
  BY <1>1 DEF monitor
<1>4. /\ poll.i \in Nat /\ poll.kept \in Nat /\ poll.pending \in Nat /\ Len(q) \in Nat
      /\ poll \in Link!PollRecord
  BY Shapes, Zenon
<1>5. poll.kept <= poll.i /\ i \in 1 .. Len(q) /\ p <= i
  <2>1. poll.kept <= poll.i /\ poll.pending <= Len(q)
    BY <1>2 DEF LoopInv, Link!IInv, Link!PollInBounds
  <2> QED
    BY <1>2, <1>4, <2>1
<1>6. poll'.at = "scan" /\ poll'.i = i /\ poll'.kept = p /\ poll'.sub = poll.sub
  BY <1>2, <1>4 DEF Link!PollRecord
<1>7. /\ Len(q') = Len(q) /\ q'[p].id = q[i].id /\ q'[p].topic = q[i].topic
      /\ q'[p].deferred = FALSE
      /\ \A j \in 1 .. Len(q) : j # p /\ j # i => q'[j] = q[j]
  <2>1. LinkProofs!TypeOK
    BY LinkInvIsTheParts DEF LoopInv, LinkProofs!IInv
  <2>2. Link!Kept(i) = LinkProofs!Kept(i)
    BY DEF Link!Kept, LinkProofs!Kept
  <2>3. /\ Len(LinkProofs!Kept(i)) = Len(q)
        /\ LinkProofs!Kept(i)[p].id = q[i].id /\ LinkProofs!Kept(i)[p].topic = q[i].topic
        /\ LinkProofs!Kept(i)[p].deferred = FALSE
        /\ \A j \in 1 .. Len(q) : j # p /\ j # i => LinkProofs!Kept(i)[j] = q[j]
    <3> HIDE DEF i
    <3> QED
      BY <1>5, <2>1, LinkAssumption, LinkProofs!KeptEntries
  <2>4. q' = LinkProofs!Kept(i)
    BY <1>2, <2>2
  <2> HIDE DEF i, p
  <2> QED
    BY <2>3, <2>4
<1>8. /\ Link!Open = (1 .. poll.kept) \cup (i .. Len(q)) /\ ToHear = Link!Open
      /\ Link!Open' = (1 .. p) \cup (i + 1 .. Len(q)) /\ ToHear' = Link!Open'
      /\ LeftBehind = 1 .. poll.kept /\ LeftBehind' = 1 .. p
  BY <1>1, <1>2, <1>6, <1>7 DEF Link!Open, ToHear, Link!UnderWay, LeftBehind
<1>9. i \in ToHear
  BY <1>4, <1>5, <1>8
<1>10. q[i].topic[1] = "lsdt" => packets[q[i].id].seq = FrameNo /\ q[i].id \in held
                                 /\ packets[q[i].id].seq > seq[q[i].topic[2]]
  <2>1. q[i].id \in held
    BY <1>2, <1>4, <1>5 DEF LoopInv, Link!IInv, Link!KeptWereHeld
  <2> QED
    BY <1>2, <1>9, <2>1 DEF LoopInv, QueueIsNews
<1>11. \A j \in Link!Open' : \/ j = p
                             \/ j \in Link!Open /\ q'[j] = q[j]
  BY <1>4, <1>5, <1>7, <1>8
<1>12. \A j \in LeftBehind' : j = p \/ (j \in LeftBehind /\ q'[j] = q[j])
  BY <1>4, <1>5, <1>7, <1>8
<1>13. FrameNo' = FrameNo /\ packets' = packets /\ seq' = seq /\ held' = held
       /\ Telemetry(delivered)' = Telemetry(delivered)
  BY <1>1, <1>2, <1>3 DEF FrameNo, Telemetry
<1>14. QueueIsNews'
  <2> HIDE DEF i, p
  <2>1. ASSUME NEW j \in Link!Open' PROVE q'[j].topic = packets'[q'[j].id].topic
    BY <1>7, <1>8, <1>9, <1>11, <1>13, <2>1 DEF LoopInv, QueueIsNews
  <2>2. ASSUME NEW j \in ToHear', q'[j].topic[1] = "lsdt"
        PROVE  /\ packets'[q'[j].id].seq > seq'[q'[j].topic[2]]
               /\ \/ packets'[q'[j].id].seq = FrameNo'
                  \/ packets'[q'[j].id].seq = FrameNo' - 1 /\ q'[j].id \in held' /\ ~q'[j].deferred
    BY <1>7, <1>8, <1>10, <1>11, <1>13, <2>2 DEF LoopInv, QueueIsNews
  <2>3. ASSUME NEW j \in LeftBehind', q'[j].topic[1] = "lsdt"
        PROVE  packets'[q'[j].id].seq = FrameNo' /\ q'[j].id \in held' /\ ~q'[j].deferred
    BY <1>7, <1>10, <1>12, <1>13, <2>3 DEF LoopInv, QueueIsNews
  <2>4. poll'.sub = 0
    BY <1>2, <1>6 DEF LoopInv, Link!IInv, Link!PollInBounds
  <2> QED
    BY <2>1, <2>2, <2>3, <2>4 DEF QueueIsNews
<1>15. Link!IInv'
  BY LinkPollKeep DEF LoopInv
<1>16. \A id \in Telemetry(delivered) : packets[id].seq <= seq[OfVessel(id)]
  BY <1>2 DEF LoopInv, HeardIsDelivered
<1> QED
  BY <1>1, <1>2, <1>6, <1>13, <1>14, <1>15, <1>16, ScanKeeps

LEMMA PollDeliverKeeps == LoopInv /\ PollScan /\ Link!PollDeliver => LoopInv'
<1> SUFFICES ASSUME LoopInv, PollScan, Link!PollDeliver PROVE LoopInv'
  OBVIOUS
<1> DEFINE i == poll.i + 1
<1>1. /\ at = "polling" /\ at' = "polling"
      /\ UNCHANGED <<monitor, injector, inputs, scene, controller, vessel, packets>>
  BY DEF PollScan
<1>2. /\ poll.at = "scan" /\ i <= poll.pending
      /\ poll' = [poll EXCEPT !.at = "deliver", !.i = i, !.sub = 0]
      /\ delivered' = delivered \cup {q[i].id}
      /\ UNCHANGED <<q, subs, sent, lost, held>>
  BY DEF Link!PollDeliver
<1>3. UNCHANGED <<seq, frames, open>>
  BY <1>1 DEF monitor
<1>4. /\ poll.i \in Nat /\ poll.kept \in Nat /\ poll.pending \in Nat /\ Len(q) \in Nat
      /\ poll \in Link!PollRecord
  BY Shapes, Zenon
<1>5. i \in 1 .. Len(q)
  <2>1. poll.pending <= Len(q)
    BY <1>2 DEF LoopInv, Link!IInv, Link!PollInBounds
  <2> QED
    BY <1>2, <1>4, <2>1
<1>6. poll'.at = "deliver" /\ poll'.i = i /\ poll'.kept = poll.kept /\ poll'.sub = 0
  BY <1>2, <1>4 DEF Link!PollRecord
<1>7. /\ Link!Open = (1 .. poll.kept) \cup (i .. Len(q)) /\ ToHear = Link!Open
      /\ Link!Open' = Link!Open /\ LeftBehind' = LeftBehind
  BY <1>1, <1>2, <1>6 DEF Link!Open, ToHear, Link!UnderWay, LeftBehind
<1>8. ToHear' = ToHear
  <2>1. ToHear' = (1 .. poll.kept) \cup (i + 1 .. Len(q)) \cup {i}
    BY <1>2, <1>6 DEF ToHear, Link!UnderWay
  <2>2. i .. Len(q) = (i + 1 .. Len(q)) \cup {i}
    BY <1>5
  <2> QED
    BY <1>7, <2>1, <2>2, Zenon
<1>9. FrameNo' = FrameNo
  BY <1>3 DEF FrameNo
<1>10. QueueIsNews'
  BY <1>1, <1>2, <1>3, <1>6, <1>7, <1>8, <1>9 DEF LoopInv, QueueIsNews
<1>11. Link!IInv'
  BY LinkPollDeliver DEF LoopInv
<1>12. \A id \in Telemetry(delivered) : packets[id].seq <= seq[OfVessel(id)]
  BY <1>2 DEF LoopInv, HeardIsDelivered
<1>13. \A id \in Telemetry(delivered)' : id \in Telemetry(delivered) \/ id = q[i].id
  BY <1>1, <1>2 DEF Telemetry
<1> QED
  BY <1>1, <1>2, <1>6, <1>10, <1>11, <1>12, <1>13, ScanKeeps

(* Every vessel's telemetry is subscribed: the scan does not go past an    *)
(* entry of it that on_lsdt has not judged.                                *)
LEMMA TelemetryIsNotified ==
  ASSUME LoopInv, poll.at = "deliver", q[poll.i].topic[1] = "lsdt"
  PROVE  /\ poll.i \in Link!Open /\ q[poll.i].topic[2] \in Vessel
         /\ Link!ToNotify = {s \in {q[poll.i].topic[2] + 1} : s > poll.sub}
<1>1. /\ poll.i \in Nat /\ poll.sub \in Nat /\ poll.kept \in Nat /\ Len(q) \in Nat
      /\ poll.pending \in Nat /\ sent \in Nat /\ N \in Nat
  <2>1. /\ poll.i \in Nat /\ poll.sub \in Nat /\ poll.kept \in Nat /\ Len(q) \in Nat
        /\ poll.pending \in Nat
    BY Shapes, Zenon
  <2>2. sent \in Nat /\ N \in Nat
    BY Numbers, Zenon
  <2> QED
    BY <2>1, <2>2
<1>2. poll.i \in Link!Open
  <2>1. poll.kept < poll.i /\ poll.i <= poll.pending /\ poll.pending <= Len(q)
    BY DEF LoopInv, Link!IInv, Link!PollInBounds
  <2> QED
    BY <1>1, <2>1 DEF Link!Open
<1>3. /\ q[poll.i].topic = packets[q[poll.i].id].topic /\ q[poll.i].id \in 1 .. sent
  BY <1>2, Shapes DEF LoopInv, QueueIsNews
<1>4. q[poll.i].topic \in Topic
  BY <1>3, Shapes
<1>5. PICK k \in Vessel : q[poll.i].topic = <<"lsdt", k>>
  BY <1>4 DEF Topic
<1>6. subs = [s \in 1 .. N |-> <<"lsdt", s - 1>>] /\ k \in 0 .. N - 1
  BY DEF LoopInv, LoopTypeOK, Vessel
<1>7. DOMAIN subs = 1 .. N /\ \A s \in 1 .. N : subs[s] = q[poll.i].topic <=> s = k + 1
  <2>1. DOMAIN subs = 1 .. N /\ \A s \in 1 .. N : subs[s] = <<"lsdt", s - 1>>
    BY <1>6
  <2>2. \A s \in 1 .. N : s - 1 = k <=> s = k + 1
    BY <1>1, <1>6
  <2> QED
    BY <1>5, <2>1, <2>2
<1>8. k + 1 \in 1 .. N /\ q[poll.i].topic[2] = k
  BY <1>1, <1>5, <1>6
<1> QED
  BY <1>2, <1>7, <1>8 DEF Link!ToNotify

LEMMA AllNotifiedKeeps == LoopInv /\ PollScan /\ Link!AllNotified => LoopInv'
<1> SUFFICES ASSUME LoopInv, PollScan, Link!AllNotified PROVE LoopInv'
  OBVIOUS
<1>1. /\ at = "polling" /\ at' = "polling"
      /\ UNCHANGED <<monitor, injector, inputs, scene, controller, vessel, packets>>
  BY DEF PollScan
<1>2. /\ poll.at = "deliver" /\ Link!ToNotify = {}
      /\ poll' = [poll EXCEPT !.at = "scan", !.sub = 0]
      /\ UNCHANGED <<q, subs, sent, lost, held, delivered>>
  BY DEF Link!AllNotified, Link!history
<1>3. UNCHANGED <<seq, frames, open>>
  BY <1>1 DEF monitor
<1>4. /\ poll.i \in Nat /\ poll.kept \in Nat /\ Len(q) \in Nat /\ poll.sub \in Nat
      /\ poll \in Link!PollRecord
  BY Shapes, Zenon
<1>5. poll'.at = "scan" /\ poll'.i = poll.i /\ poll'.kept = poll.kept /\ poll'.sub = 0
  BY <1>2, <1>4 DEF Link!PollRecord
<1>6. Link!Open' \subseteq Link!Open
  <2>1. /\ Link!Open = (1 .. poll.kept) \cup (poll.i .. Len(q))
        /\ Link!Open' = (1 .. poll.kept) \cup (poll.i + 1 .. Len(q))
    BY <1>2, <1>5 DEF Link!Open
  <2>2. poll.i + 1 .. Len(q) \subseteq poll.i .. Len(q)
    BY <1>4
  <2> QED
    BY <2>1, <2>2, Zenon
<1>7. ToHear' \subseteq ToHear /\ LeftBehind' = LeftBehind
  BY <1>1, <1>2, <1>5 DEF ToHear, Link!UnderWay, LeftBehind
<1>8. FrameNo' = FrameNo
  BY <1>3 DEF FrameNo
<1>9. QueueIsNews'
  BY <1>1, <1>2, <1>3, <1>5, <1>6, <1>7, <1>8 DEF LoopInv, QueueIsNews
<1>10. Link!IInv'
  BY LinkAllNotified DEF LoopInv
<1>11. ASSUME NEW id \in Telemetry(delivered)
       PROVE  packets[id].seq <= seq[OfVessel(id)]
  <2> SUFFICES ASSUME poll.sub = 0, id = q[poll.i].id
               PROVE  FALSE
    BY DEF LoopInv, HeardIsDelivered
  <2>1. poll.i \in Link!Open
    <3>1. poll.kept < poll.i /\ poll.i <= poll.pending /\ poll.pending <= Len(q)
      BY <1>2 DEF LoopInv, Link!IInv, Link!PollInBounds
    <3>2. poll.pending \in Nat
      BY Shapes, Zenon
    <3> QED
      BY <1>2, <1>4, <3>1, <3>2 DEF Link!Open
  <2>2. q[poll.i].topic[1] = "lsdt"
    BY <2>1 DEF LoopInv, QueueIsNews, Telemetry
  <2>3. q[poll.i].topic[2] + 1 \in Link!ToNotify
    <3>1. q[poll.i].topic[2] \in 0 .. N - 1 /\ N \in Nat
      <4>1. N \in Nat
        BY Numbers, Zenon
      <4> QED
        BY <1>2, <2>2, <4>1, TelemetryIsNotified DEF Vessel
    <3>2. q[poll.i].topic[2] + 1 > 0
      BY <3>1
    <3> QED
      BY <1>2, <2>2, <3>2, TelemetryIsNotified
  <2> QED
    BY <1>2, <2>3
<1>12. Telemetry(delivered)' = Telemetry(delivered)
  BY <1>1, <1>2 DEF Telemetry
<1> QED
  BY <1>1, <1>2, <1>5, <1>9, <1>10, <1>11, <1>12, ScanKeeps

LEMMA PollEndKeeps == LoopInv /\ PollEnd => LoopInv'
<1> SUFFICES ASSUME LoopInv, PollEnd PROVE LoopInv'
  OBVIOUS
<1>1. /\ at = "polling" /\ at' = "close" /\ Link!PollEnd
      /\ UNCHANGED <<monitor, injector, inputs, scene, controller, vessel, packets>>
  BY DEF PollEnd
<1>2. /\ poll.at = "scan" /\ poll.i = poll.pending /\ q' = SubSeq(q, 1, poll.kept)
      /\ poll'.at = "idle" /\ poll'.i = 0 /\ poll'.kept = 0 /\ poll'.sub = 0
      /\ UNCHANGED <<subs, sent, lost, held, delivered>>
  BY <1>1 DEF Link!PollEnd, Link!history, Link!Left, Link!NotPolling
<1>3. UNCHANGED <<seq, frames, open>>
  BY <1>1 DEF monitor
<1>4. /\ poll.i \in Nat /\ poll.kept \in Nat /\ poll.pending \in Nat /\ Len(q) \in Nat
      /\ q \in Seq(Link!Entry)
  BY Shapes, Zenon
<1>5. poll.kept <= poll.i /\ poll.i = Len(q)
  BY <1>2 DEF LoopInv, Link!IInv, Link!PollInBounds
<1>6. Len(q') = poll.kept /\ \A j \in 1 .. poll.kept : q'[j] = q[j]
  <2> HIDE DEF Link!Entry
  <2> QED
    BY <1>2, <1>4, <1>5, SubSeqProperties
<1>7. /\ Link!Open' = 1 .. poll.kept /\ ToHear' = 1 .. poll.kept /\ LeftBehind' = 1 .. poll.kept
      /\ Link!Open = (1 .. poll.kept) \cup (poll.i + 1 .. Len(q))
      /\ ToHear = Link!Open /\ LeftBehind = 1 .. poll.kept
  <2>1. Link!Open' = (1 .. 0) \cup (0 + 1 .. poll.kept)
    BY <1>2, <1>6, Zenon DEF Link!Open
  <2>3. ToHear' = (1 .. 0) \cup (0 + 1 .. poll.kept)
    BY <1>2, <1>6 DEF ToHear, Link!UnderWay
  <2>4. LeftBehind' = 1 .. poll.kept
    BY <1>1, <1>6 DEF LeftBehind
  <2>2. /\ Link!Open = (1 .. poll.kept) \cup (poll.i + 1 .. Len(q))
        /\ ToHear = Link!Open /\ LeftBehind = 1 .. poll.kept
    BY <1>1, <1>2 DEF Link!Open, ToHear, Link!UnderWay, LeftBehind
  <2> QED
    BY <2>1, <2>2, <2>3, <2>4
<1>8. FrameNo' = FrameNo /\ packets' = packets /\ seq' = seq /\ held' = held
  BY <1>1, <1>2, <1>3 DEF FrameNo
<1>9. QueueIsNews'
  <2>1. ASSUME NEW j \in 1 .. poll.kept
        PROVE  /\ q'[j].topic = packets[q'[j].id].topic
               /\ q'[j].topic[1] = "lsdt" => /\ packets[q'[j].id].seq > seq[q'[j].topic[2]]
                                             /\ packets[q'[j].id].seq = FrameNo
                                             /\ q'[j].id \in held /\ ~q'[j].deferred
    <3>1. q'[j] = q[j] /\ j \in Link!Open /\ j \in ToHear /\ j \in LeftBehind
      BY <1>6, <1>7
    <3> QED
      BY <3>1 DEF LoopInv, QueueIsNews
  <2> QED
    BY <1>2, <1>7, <1>8, <2>1 DEF QueueIsNews
<1>10. Link!IInv'
  BY <1>1, LinkPollEnd DEF LoopInv
<1>11. \A id \in Telemetry(delivered) : packets[id].seq <= seq[OfVessel(id)]
  BY <1>2 DEF LoopInv, HeardIsDelivered
<1>12. Telemetry(delivered)' = Telemetry(delivered)
  BY <1>1, <1>2 DEF Telemetry
<1> QED
  BY <1>1, <1>2, <1>9, <1>10, <1>11, <1>12, ScanKeeps

-----------------------------------------------------------------------------
(* A packet is judged.  It is news: what the vessel's mark stands at came  *)
(* before it, and nothing of the vessel that is still to come does.        *)

LEMMA JudgedPacket ==
  ASSUME LoopInv, OnLsdt
  PROVE  LET id == q[poll.i].id
             k  == OfVessel(id)
             n  == packets[id].seq
         IN  /\ poll.at = "deliver" /\ poll.i \in Link!Open /\ id \in Telemetry(1 .. sent)
             /\ q[poll.i].topic = packets[id].topic /\ k \in Vessel /\ n \in 1 .. FrameNo
             /\ n > seq[k] /\ (n = FrameNo \/ id \in held)
             /\ open /\ Monitor!Accept(k, n) /\ decoded' = [decoded EXCEPT ![k] = n]
             /\ poll'.at = poll.at /\ poll'.i = poll.i /\ poll'.kept = poll.kept
             /\ poll'.sub = k + 1
             /\ UNCHANGED <<q, subs, sent, lost, held, delivered>>
<1> DEFINE i == poll.i
           id == q[i].id
           k == OfVessel(id)
           n == packets[id].seq
<1>1. /\ poll.at = "deliver" /\ Link!ToNotify # {} /\ at = "polling"
      /\ poll' = [poll EXCEPT !.sub = Link!Min(Link!ToNotify)]
      /\ Monitor!Accept(k, n) /\ decoded' = [decoded EXCEPT ![k] = n]
      /\ UNCHANGED <<q, subs, sent, lost, held, delivered>>
  BY DEF OnLsdt, Link!Notify, Decoded, OfVessel
<1>2. q[i].topic[1] = "lsdt"
  <2>1. PICK s \in DOMAIN subs : subs[s] = q[i].topic
    BY <1>1 DEF Link!ToNotify
  <2> QED
    BY <2>1 DEF LoopInv, LoopTypeOK
<1>3. /\ i \in Link!Open /\ q[i].topic[2] \in Vessel
      /\ Link!ToNotify = {s \in {q[i].topic[2] + 1} : s > poll.sub}
  BY <1>1, <1>2, TelemetryIsNotified
<1>4. q[i].topic = packets[id].topic /\ id \in 1 .. sent
  BY <1>3, Shapes DEF LoopInv, QueueIsNews
<1>5. id \in Telemetry(1 .. sent) /\ k \in Vessel /\ q[i].topic[2] = k
  BY <1>2, <1>3, <1>4 DEF Telemetry, OfVessel
<1>6. n \in 1 .. FrameNo
  BY <1>5 DEF LoopInv, NumberedInOrder
<1>7. k \in Nat /\ poll.sub \in Nat
  <2>1. k \in Nat
    BY <1>5, SceneAssumption DEF Vessel
  <2> QED
    BY <2>1, Shapes, Zenon
<1>8. Link!ToNotify = {k + 1} /\ k + 1 > poll.sub
  BY <1>1, <1>3, <1>5
<1>9. poll.sub = 0
  BY <1>5, <1>7, <1>8 DEF LoopInv, QueueIsNews
<1>10. i \in ToHear
  BY <1>1, <1>9 DEF ToHear
<1>11. n > seq[k] /\ (n = FrameNo \/ id \in held)
  BY <1>2, <1>5, <1>10 DEF LoopInv, QueueIsNews
<1>12. open
  BY <1>1 DEF LoopInv, LoopPhases
<1>13. Link!Min(Link!ToNotify) = k + 1
  <2>1. LinkProofs!TypeOK /\ Link!ToNotify = LinkProofs!ToNotify
    BY LinkInvIsTheParts, ToNotifyIsTheSame DEF LoopInv, LinkProofs!IInv
  <2>2. LinkProofs!Min(LinkProofs!ToNotify) \in LinkProofs!ToNotify
    BY <1>1, <2>1, LinkAssumption, LinkProofs!LeastToNotify
  <2>3. Link!Min(Link!ToNotify) = LinkProofs!Min(LinkProofs!ToNotify)
    BY <2>1 DEF Link!Min, LinkProofs!Min
  <2> QED
    BY <1>8, <2>1, <2>2, <2>3
<1>14. /\ poll'.at = poll.at /\ poll'.i = poll.i /\ poll'.kept = poll.kept
       /\ poll'.sub = k + 1
  <2>1. poll \in Link!PollRecord
    BY Shapes, Zenon
  <2> HIDE DEF k
  <2> QED
    BY <1>1, <1>13, <2>1 DEF Link!PollRecord
<1> QED
  BY <1>1, <1>3, <1>4, <1>5, <1>6, <1>11, <1>12, <1>14

LEMMA OnLsdtKeeps == LoopInv /\ OnLsdt => LoopInv'
<1> SUFFICES ASSUME LoopInv, OnLsdt PROVE LoopInv'
  OBVIOUS
<1>1. PICK id, k, n, i :
        /\ i = poll.i /\ id = q[i].id /\ k = OfVessel(id) /\ n = packets[id].seq
        /\ poll.at = "deliver" /\ i \in Link!Open /\ id \in Telemetry(1 .. sent)
        /\ q[i].topic = packets[id].topic /\ k \in Vessel /\ n \in 1 .. FrameNo
        /\ n > seq[k] /\ (n = FrameNo \/ id \in held)
        /\ open /\ Monitor!Accept(k, n) /\ decoded' = [decoded EXCEPT ![k] = n]
        /\ poll'.at = poll.at /\ poll'.i = i /\ poll'.kept = poll.kept
        /\ poll'.sub = k + 1
        /\ UNCHANGED <<q, subs, sent, lost, held, delivered>>
  BY JudgedPacket, Zenon
<1>1a. /\ k \in Vessel /\ n \in 1 .. FrameNo /\ n > seq[k] /\ poll'.sub = k + 1
  BY <1>1, Zenon
<1>1b. /\ id = q[i].id /\ k = OfVessel(id) /\ n = packets[id].seq /\ (n = FrameNo \/ id \in held)
  BY <1>1, Zenon
<1>2. /\ at = "polling"
      /\ UNCHANGED <<injSeq, refused, ins, controller, at, vessel, packets>>
  BY DEF OnLsdt, injector
<1>3. /\ seq \in [Vessel -> Nat] /\ hit \in [Vessel -> BOOLEAN]
      /\ sent \in Nat /\ FrameNo \in Nat /\ FrameNo <= MaxFrames /\ MaxFrames \in Nat
      /\ doubleUpdates \in Nat /\ k \in Nat /\ seq[k] \in Nat /\ n \in Nat
      /\ n <= FrameNo
  <2>1. seq \in [Vessel -> Nat] /\ hit \in [Vessel -> BOOLEAN]
    BY Shapes, Zenon
  <2>2. /\ sent \in Nat /\ FrameNo \in Nat /\ FrameNo <= MaxFrames /\ MaxFrames \in Nat
        /\ doubleUpdates \in Nat
    BY Numbers, Zenon
  <2>3. k \in Nat
    BY <1>1a, SceneAssumption DEF Vessel
  <2> QED
    BY <1>1a, <2>1, <2>2, <2>3
<1>4. /\ seq' = [seq EXCEPT ![k] = n] /\ hit'[k] /\ (\A v \in Vessel : v # k => hit'[v] = hit[v])
      /\ \/ hit[k] /\ doubleUpdates' = doubleUpdates + 1
         \/ doubleUpdates' = doubleUpdates
      /\ UNCHANGED <<frames, missingVessels, stalePackets, open>>
  <2>1. ~Monitor!IsStale(k, n) /\ ~Monitor!AcceptForeign(k)
    <3>1. ~Monitor!IsStale(k, n)
      BY <1>1a, <1>3 DEF Monitor!IsStale
    <3>2. ~Monitor!AcceptForeign(k)
      BY <1>1a DEF Monitor!AcceptForeign, Monitor!Vessel, Vessel
    <3> QED
      BY <3>1, <3>2
  <2>2. /\ Monitor!AcceptDuplicate(k, n) \/ Monitor!AcceptFresh(k, n)
        /\ UNCHANGED <<frames, missingVessels, open>>
    BY <1>1, <2>1 DEF Monitor!Accept, Monitor!AcceptStale, Monitor!counters
  <2>3. CASE Monitor!AcceptDuplicate(k, n)
    BY <2>2, <2>3 DEF Monitor!AcceptDuplicate, Monitor!Take
  <2>4. CASE Monitor!AcceptFresh(k, n)
    BY <1>1a, <1>3, <2>2, <2>4 DEF Monitor!AcceptFresh, Monitor!Take
  <2> QED
    BY <2>2, <2>3, <2>4
<1>5. seq'[k] = n /\ \A v \in Vessel : v # k => seq'[v] = seq[v]
  BY <1>1a, <1>3, <1>4
<1>5a. \A v \in Vessel : seq[v] <= seq'[v] /\ seq[v] \in Nat /\ seq'[v] \in Nat
  BY <1>1a, <1>3, <1>5
<1>6. /\ FrameNo' = FrameNo /\ SoFar = N /\ SoFar' = N
      /\ Link!Open' = Link!Open /\ LeftBehind' = LeftBehind /\ LeftBehind = 1 .. poll.kept
      /\ OfThisFrame' = OfThisFrame
      /\ Telemetry(1 .. sent)' = Telemetry(1 .. sent)
      /\ Telemetry(held)' = Telemetry(held) /\ Telemetry(lost)' = Telemetry(lost)
      /\ Telemetry(delivered)' = Telemetry(delivered)
      /\ \A x : OfVessel(x)' = OfVessel(x)
  <2>1. /\ FrameNo' = FrameNo /\ SoFar = N /\ SoFar' = N
        /\ Link!Open' = Link!Open /\ LeftBehind' = LeftBehind /\ LeftBehind = 1 .. poll.kept
    BY <1>1, <1>2, <1>4 DEF FrameNo, SoFar, Link!Open, LeftBehind
  <2>2. /\ Telemetry(1 .. sent)' = Telemetry(1 .. sent)
        /\ Telemetry(held)' = Telemetry(held) /\ Telemetry(lost)' = Telemetry(lost)
        /\ Telemetry(delivered)' = Telemetry(delivered)
        /\ \A x : OfVessel(x)' = OfVessel(x)
    BY <1>1, <1>2 DEF Telemetry, OfVessel
  <2> QED
    BY <1>2, <2>1, <2>2 DEF OfThisFrame
<1>7. Link!IInv'
  BY LinkNotify DEF LoopInv, OnLsdt
<1>8. Monitor!IInv'
  <2>1. n \in 0 .. MaxFrames
    BY <1>3
  <2> QED
    BY <1>1, <2>1, MonitorAccept DEF LoopInv
<1>9. LoopTypeOK'
  BY <1>1, <1>2 DEF LoopInv, LoopTypeOK
<1>10. LoopPhases'
  BY <1>1, <1>2, <1>4, <1>6 DEF LoopInv, LoopPhases
<1>11. NumberedInOrder'
  BY <1>1, <1>2, <1>6 DEF LoopInv, NumberedInOrder
<1>12. QueueIsNews'
  <2>1. ToHear' = Link!UnderWay /\ ToHear' \subseteq ToHear /\ i \notin ToHear'
    <3>1. poll'.sub # 0
      BY <1>1a, <1>3
    <3>2. ToHear' = Link!UnderWay
      BY <1>1, <3>1 DEF ToHear, Link!UnderWay
    <3>3. i \notin Link!UnderWay
      <4>1. poll.kept < i
        BY <1>1 DEF LoopInv, Link!IInv, Link!PollInBounds
      <4>2. poll.kept \in Nat /\ i \in Nat /\ Len(q) \in Nat
        BY <1>1, Shapes, Zenon
      <4>3. poll.i = i
        BY <1>1, Zenon
      <4> QED
        BY <4>1, <4>2, <4>3 DEF Link!UnderWay
    <3> QED
      BY <3>2, <3>3 DEF ToHear
  <2>2. ASSUME NEW j \in ToHear', q[j].topic[1] = "lsdt"
        PROVE  packets[q[j].id].seq > seq'[q[j].topic[2]]
    <3>1. /\ j \in ToHear /\ j \in Link!Open /\ q[j].id \in 1 .. sent
          /\ j \in Nat /\ i \in Nat /\ q[j].id \in Nat /\ id \in Nat
          /\ q[j].topic = packets[q[j].id].topic
      <4>1. j \in ToHear /\ j \in Link!Open /\ i \in Link!Open
        BY <1>1, <2>1, Shapes, Zenon
      <4>2. q[j].id \in 1 .. sent /\ id \in 1 .. sent /\ j \in 1 .. Len(q) /\ i \in 1 .. Len(q)
        BY <1>1, <4>1, Shapes, Zenon
      <4> QED
        BY <4>1, <4>2 DEF LoopInv, QueueIsNews
    <3>2. /\ packets[q[j].id].seq > seq[q[j].topic[2]]
          /\ q[j].id \in Telemetry(1 .. sent) /\ q[j].topic[2] = OfVessel(q[j].id)
      BY <2>2, <3>1 DEF LoopInv, QueueIsNews, Telemetry, OfVessel
    <3>3. q[j].topic[2] \in Vessel
      BY <3>1, Shapes, VesselOf
    <3>4. CASE q[j].topic[2] # k
      BY <1>5, <3>2, <3>3, <3>4
    <3>5. CASE q[j].topic[2] = k
      <4>1. CASE j < i
        <5>1. j \in LeftBehind
          <6>1. poll.kept \in Nat /\ Len(q) \in Nat
            BY Shapes, Zenon
          <6>2. poll.i = i
            BY <1>1, Zenon
          <6>3. j \in (1 .. poll.kept) \cup (i + 1 .. Len(q))
            BY <2>1, <6>2 DEF Link!UnderWay
          <6>4. j \in 1 .. poll.kept
            BY <3>1, <4>1, <6>1, <6>3
          <6> QED
            BY <1>6, <6>4
        <5>2. packets[q[j].id].seq = FrameNo
          BY <2>2, <5>1 DEF LoopInv, QueueIsNews
        <5>3. q[j].id < id
          BY <1>1, <3>1, <4>1 DEF LoopInv, Link!IInv, Link!QueueInOrder
        <5>4. packets[q[j].id].seq < n
          BY <1>1, <3>2, <3>5, <5>3 DEF LoopInv, NumberedInOrder
        <5> QED
          BY <1>3, <5>2, <5>4
      <4>2. CASE i < j
        <5>1. id < q[j].id
          BY <1>1, <3>1, <4>2 DEF LoopInv, Link!IInv, Link!QueueInOrder
        <5>2. n < packets[q[j].id].seq
          BY <1>1, <3>2, <3>5, <5>1 DEF LoopInv, NumberedInOrder
        <5> QED
          BY <1>5, <3>5, <5>2
      <4> QED
        BY <2>1, <3>1, <4>1, <4>2
    <3> QED
      BY <3>4, <3>5
  <2>3. poll'.sub = q'[poll'.i].topic[2] + 1
    BY <1>1 DEF OfVessel
  <2> QED
    BY <1>1, <1>2, <1>6, <2>1, <2>2, <2>3 DEF LoopInv, QueueIsNews
<1>13. HeardIsDelivered'
  <2>1. decoded' = seq'
    BY <1>1, <1>4 DEF LoopInv, HeardIsDelivered
  <2>2. ASSUME NEW v \in Vessel
        PROVE  seq'[v] <= FrameNo /\ (seq'[v] = FrameNo => hit'[v])
    <3>1. CASE v = k
      BY <1>3, <1>4, <1>5, <3>1
    <3>2. CASE v # k
      BY <1>1, <1>4, <1>5, <3>2 DEF LoopInv, HeardIsDelivered
    <3> QED
      BY <3>1, <3>2
  <2>3. ASSUME NEW v \in Vessel, hit'[v]
        PROVE  \/ seq'[v] = FrameNo
               \/ \E x \in Telemetry(held) : OfVessel(x) = v /\ packets[x].seq = seq'[v]
    <3>1. CASE v = k
      <4>1. id \in held => id \in Telemetry(held)
        BY <1>1 DEF Telemetry
      <4> QED
        BY <1>1b, <1>5, <3>1, <4>1
    <3>2. CASE v # k
      <4>1. open /\ hit[v] /\ seq'[v] = seq[v]
        BY <1>1, <1>4, <1>5, <2>3, <3>2, Zenon
      <4> QED
        BY <4>1 DEF LoopInv, HeardIsDelivered
    <3> QED
      BY <3>1, <3>2
  <2>4. ASSUME NEW x \in Telemetry(delivered)
        PROVE  packets[x].seq <= seq'[OfVessel(x)]
    <3>1. x \in 1 .. sent
      BY Shapes DEF Telemetry
    <3>2. OfVessel(x) \in Vessel /\ packets[x].seq \in Nat
      BY <3>1, Shapes, VesselOf DEF OfVessel
    <3>3. CASE x = id
      BY <1>1b, <1>3, <1>5, <3>3
    <3>4. CASE x # id
      <4>1. packets[x].seq <= seq[OfVessel(x)]
        BY <1>1, <3>4 DEF LoopInv, HeardIsDelivered
      <4> QED
        BY <1>5a, <3>2, <4>1
    <3> QED
      BY <3>3, <3>4
  <2> QED
    BY <1>2, <1>6, <2>1, <2>2, <2>3, <2>4 DEF HeardIsDelivered
<1>14. LossesAccount'
  <2>1. /\ Superseded \subseteq Superseded' /\ Superseded' \in SUBSET (1 .. sent)
        /\ IsFiniteSet(Superseded') /\ IsFiniteSet(Superseded)
        /\ Cardinality(Superseded) \in Nat /\ Cardinality(Superseded') \in Nat
    <3>1. \A x \in Telemetry(held) : /\ x \in 1 .. sent /\ OfVessel(x) \in Vessel
                                     /\ packets[x].seq \in Nat
      BY Shapes, VesselOf DEF OfVessel, Telemetry
    <3>2. Superseded' = {x \in Telemetry(held) : packets[x].seq < seq'[OfVessel(x)]}
      BY <1>2, <1>6 DEF Superseded
    <3>3. Superseded \subseteq Superseded'
      BY <1>5a, <3>1, <3>2 DEF Superseded
    <3>4. Superseded' \in SUBSET (1 .. sent) /\ Superseded \in SUBSET (1 .. sent)
      BY <3>1, <3>2 DEF Superseded
    <3> QED
      BY <3>3, <3>4, IdsFinite
  <2>2. doubleUpdates' <= Cardinality(Superseded')
    <3>1. doubleUpdates <= Cardinality(Superseded)
      BY DEF LoopInv, LossesAccount
    <3>2. CASE doubleUpdates' = doubleUpdates
      <4>1. Cardinality(Superseded) <= Cardinality(Superseded')
        BY <2>1, FS_Subset
      <4> QED
        BY <1>3, <2>1, <3>1, <3>2, <4>1
    <3>3. CASE hit[k] /\ doubleUpdates' = doubleUpdates + 1
      <4>1. seq[k] \in Nat /\ seq[k] # FrameNo
        BY <1>1a, <1>3
      <4>2. PICK x \in Telemetry(held) : OfVessel(x) = k /\ packets[x].seq = seq[k]
        BY <1>1, <3>3, <4>1 DEF LoopInv, HeardIsDelivered
      <4>3. x \notin Superseded /\ x \in Superseded'
        <5>1. ~(packets[x].seq < seq[OfVessel(x)]) /\ packets[x].seq < seq'[OfVessel(x)]
          BY <1>1a, <1>3, <1>5, <4>2
        <5>2. packets' = packets /\ OfVessel(x)' = OfVessel(x) /\ Telemetry(held)' = Telemetry(held)
          BY <1>2, <1>6
        <5> QED
          BY <4>2, <5>1, <5>2 DEF Superseded
      <4>4. Cardinality(Superseded \cup {x}) = Cardinality(Superseded) + 1
        BY <2>1, <4>3, FS_AddElement
      <4>5. Cardinality(Superseded \cup {x}) <= Cardinality(Superseded')
        <5>1. Superseded \cup {x} \in SUBSET Superseded'
          BY <2>1, <4>3
        <5> QED
          BY <2>1, <5>1, FS_Subset
      <4> QED
        BY <1>3, <2>1, <3>1, <3>3, <4>4, <4>5
    <3> QED
      BY <1>4, <3>2, <3>3
  <2>3. (OfThisFrame \cap lost)' = OfThisFrame \cap lost
        /\ (OfThisFrame \cap held)' = OfThisFrame \cap held
    BY <1>1, <1>6
  <2> QED
    BY <1>1, <1>2, <1>4, <1>6, <2>2, <2>3 DEF LoopInv, LossesAccount
<1> QED
  BY <1>7, <1>8, <1>9, <1>10, <1>11, <1>12, <1>13, <1>14 DEF LoopInv

-----------------------------------------------------------------------------
(* The frame is closed: a packet of it that was neither lost nor held has  *)
(* been heard, and no vessel has two.                                      *)

LEMMA VesselsFinite == IsFiniteSet(Vessel) /\ Cardinality(Vessel) = N
<1>1. N \in Nat /\ N - 1 \in Int /\ N = N - 1 - 0 + 1
  BY SceneAssumption
<1>2. IsFiniteSet(0 .. N - 1)
  BY <1>1, FS_Interval
<1>3. Cardinality(0 .. N - 1) = N
  BY <1>1, FS_Interval, SceneAssumption
<1> QED
  BY <1>2, <1>3 DEF Vessel

LEMMA HeardOrLeftBehind ==
  ASSUME LoopInv, at \in {"close", "step"}, NEW id \in Telemetry(1 .. sent) \ lost
  PROVE  /\ OfVessel(id) \in Vessel
         /\ \/ packets[id].seq <= seq[OfVessel(id)]
            \/ packets[id].seq = FrameNo /\ id \in held
<1>1. id \in 1 .. sent /\ packets[id].topic[1] = "lsdt" /\ id \notin lost
  BY DEF Telemetry
<1>2. poll.at = "idle" /\ poll.i = 0 /\ poll.kept = 0
  BY DEF LoopInv, LoopPhases, Link!IInv, Link!PollInBounds, Link!NotPolling
<1>3. OfVessel(id) \in Vessel
  BY <1>1, Shapes, VesselOf DEF OfVessel
<1>4. CASE id \in delivered
  BY <1>1, <1>2, <1>3, <1>4 DEF LoopInv, HeardIsDelivered, Telemetry
<1>5. CASE id \in Link!InFlight
  <2>1. PICK j \in Link!UnderWay : id = q[j].id
    BY <1>5 DEF Link!InFlight
  <2>2. j \in Link!Open /\ j \in 1 .. Len(q)
    BY Shapes
  <2>3. j \in LeftBehind /\ q[j].topic[1] = "lsdt"
    BY <1>1, <2>1, <2>2 DEF LeftBehind, LoopInv, QueueIsNews
  <2> QED
    BY <1>3, <2>1, <2>3 DEF LoopInv, QueueIsNews
<1> QED
  BY <1>1, <1>4, <1>5 DEF LoopInv, Link!IInv, Link!NoneMissing, Link!NothingLostSilently

LEMMA DeliveredIsHeard ==
  ASSUME LoopInv, at \in {"close", "step"}, NEW id \in OfThisFrame \ (lost \cup held)
  PROVE  /\ OfVessel(id) \in Vessel /\ seq[OfVessel(id)] = FrameNo
         /\ open => hit[OfVessel(id)]
<1>1. /\ id \in Telemetry(1 .. sent) \ lost /\ packets[id].seq = FrameNo /\ id \notin held
  BY DEF OfThisFrame
<1>2. OfVessel(id) \in Vessel /\ FrameNo <= seq[OfVessel(id)]
  BY <1>1, HeardOrLeftBehind
<1>3. seq[OfVessel(id)] <= FrameNo
  BY <1>2 DEF LoopInv, HeardIsDelivered
<1>4. \A v \in Vessel : seq[v] \in Nat
  BY Shapes
<1>5. seq[OfVessel(id)] = FrameNo
  <2>1. FrameNo \in Nat
    BY Numbers, Zenon
  <2> QED
    BY <1>2, <1>3, <1>4, <2>1
<1>6. open => hit[OfVessel(id)]
  BY <1>2, <1>5 DEF LoopInv, HeardIsDelivered
<1> QED
  BY <1>2, <1>5, <1>6

(* A vessel has one packet a frame.                                        *)
LEMMA OnePacketEach ==
  ASSUME LoopInv, NEW S \in SUBSET OfThisFrame, NEW V, IsFiniteSet(V),
         \A id \in S : OfVessel(id) \in V
  PROVE  Cardinality(S) <= Cardinality(V)
<1> DEFINE f == [id \in S |-> OfVessel(id)]
<1>1. ASSUME NEW a \in S, NEW b \in S, OfVessel(a) = OfVessel(b)
      PROVE  a = b
  <2>1. /\ a \in Telemetry(1 .. sent) /\ b \in Telemetry(1 .. sent)
        /\ packets[a].seq = FrameNo /\ packets[b].seq = FrameNo
    BY DEF OfThisFrame
  <2>2. a \in Nat /\ b \in Nat
    BY <2>1 DEF Telemetry
  <2>3. FrameNo \in Nat
    BY Numbers, Zenon
  <2>4. ~(a < b) /\ ~(b < a)
    BY <1>1, <2>1, <2>3 DEF LoopInv, NumberedInOrder
  <2> QED
    BY <2>2, <2>4
<1>2. f \in Injection(S, V)
  <2>1. f \in [S -> V]
    OBVIOUS
  <2>2. \A a, b \in S : f[a] = f[b] => a = b
    BY <1>1
  <2> QED
    BY <2>1, <2>2 DEF Injection, IsInjective
<1> HIDE DEF f
<1> QED
  BY <1>2, FS_Injection

LEMMA HeardAtLeast ==
  ASSUME LoopInv, at = "close"
  PROVE  /\ Monitor!Missing \in Nat
         /\ Monitor!Missing + Cardinality(OfThisFrame)
              <= N + Cardinality(OfThisFrame \cap lost) + Cardinality(OfThisFrame \cap held)
<1> DEFINE G == OfThisFrame \ (lost \cup held)
           L == OfThisFrame \cap lost
           H == OfThisFrame \cap held
<1>1. OfThisFrame \in SUBSET (1 .. sent)
  BY DEF OfThisFrame, Telemetry
<1>2. /\ G \in SUBSET (1 .. sent) /\ L \in SUBSET (1 .. sent) /\ H \in SUBSET (1 .. sent)
      /\ L \cup H \in SUBSET (1 .. sent)
  BY <1>1
<1>3. /\ IsFiniteSet(G) /\ IsFiniteSet(L) /\ IsFiniteSet(H) /\ IsFiniteSet(L \cup H)
      /\ Cardinality(G) \in Nat /\ Cardinality(L) \in Nat /\ Cardinality(H) \in Nat
      /\ Cardinality(L \cup H) \in Nat /\ Cardinality(L \cap H) \in Nat
      /\ Cardinality(OfThisFrame) \in Nat /\ Cardinality(G \cap (L \cup H)) \in Nat
  <2>1. L \cap H \in SUBSET (1 .. sent) /\ G \cap (L \cup H) \in SUBSET (1 .. sent)
    BY <1>2
  <2> HIDE DEF G, L, H
  <2> QED
    BY <1>1, <1>2, <2>1, IdsFinite
<1>4. Cardinality(OfThisFrame) <= Cardinality(G) + Cardinality(L) + Cardinality(H)
  <2>1. OfThisFrame = G \cup (L \cup H)
    OBVIOUS
  <2> HIDE DEF G, L, H
  <2>2. Cardinality(L \cup H) = Cardinality(L) + Cardinality(H) - Cardinality(L \cap H)
    BY <1>3, FS_Union
  <2>3. Cardinality(G \cup (L \cup H)) =
          Cardinality(G) + Cardinality(L \cup H) - Cardinality(G \cap (L \cup H))
    BY <1>3, FS_Union
  <2> QED
    BY <1>3, <2>1, <2>2, <2>3
<1>5. Cardinality(G) <= Cardinality(MonitorProofs!Heard)
  <2>1. MonitorProofs!Heard = {v \in Vessel : hit[v]} /\ open
    BY DEF MonitorProofs!Heard, MonitorProofs!Vessel, Vessel, LoopInv, LoopPhases
  <2>2. \A id \in G : OfVessel(id) \in MonitorProofs!Heard
    BY <2>1, DeliveredIsHeard
  <2>3. IsFiniteSet(MonitorProofs!Heard)
    <3>1. MonitorProofs!Heard \subseteq Vessel
      BY <2>1
    <3> QED
      BY <3>1, VesselsFinite, FS_Subset
  <2>4. G \subseteq OfThisFrame
    OBVIOUS
  <2> HIDE DEF G
  <2> QED
    BY <2>2, <2>3, <2>4, OnePacketEach
<1>6. /\ Monitor!Missing \in Nat /\ Cardinality(MonitorProofs!Heard) \in Nat
      /\ Monitor!Missing + Cardinality(MonitorProofs!Heard) = N
  <2>1. Monitor!Missing = MonitorProofs!Missing
    BY DEF Monitor!Missing, MonitorProofs!Missing, Monitor!Cardinality, MonitorProofs!Cardinality,
      Monitor!Vessel, MonitorProofs!Vessel
  <2>2. MonitorProofs!Cardinality(MonitorProofs!Heard) = Cardinality(MonitorProofs!Heard)
    BY DEF MonitorProofs!Cardinality, Cardinality
  <2> QED
    BY <2>1, <2>2, MonitorAssumption, MonitorProofs!HeardOrMissing
<1> QED
  <2>1. N \in Nat
    BY Numbers, Zenon
  <2> HIDE DEF G, L, H
  <2>2. Monitor!Missing + Cardinality(OfThisFrame) <= N + Cardinality(L) + Cardinality(H)
    BY <1>3, <1>4, <1>5, <1>6, <2>1
  <2> QED
    BY <1>6, <2>2 DEF L, H

LEMMA EndFrameKeeps == LoopInv /\ EndFrame => LoopInv'
<1> SUFFICES ASSUME LoopInv, EndFrame PROVE LoopInv'
  OBVIOUS
<1>1. /\ at = "close" /\ at' = "step" /\ Monitor!EndFrame
      /\ UNCHANGED <<link, injector, inputs, scene, controller, vessel, packets>>
  BY DEF EndFrame
<1>2. /\ open /\ open' = FALSE /\ frames' = frames + 1
      /\ missingVessels' = missingVessels + Monitor!Missing
      /\ UNCHANGED <<seq, hit, doubleUpdates, stalePackets>>
      /\ UNCHANGED <<q, poll, subs, sent, lost, held, delivered, injSeq, refused, decoded, ins>>
  BY <1>1 DEF Monitor!EndFrame, Monitor!verdicts, link, injector, inputs, LoopInv, LoopPhases
<1>3. /\ FrameNo' = FrameNo /\ FrameNo = frames + 1 /\ SoFar = N /\ SoFar' = 0
      /\ ToHear' = ToHear /\ Link!Open' = Link!Open /\ LeftBehind' = LeftBehind
  BY <1>1, <1>2 DEF FrameNo, SoFar, ToHear, Link!Open, Link!UnderWay, LeftBehind
<1>4. /\ Superseded' = Superseded
      /\ Telemetry(1 .. sent)' = Telemetry(1 .. sent)
      /\ Telemetry(held)' = Telemetry(held) /\ Telemetry(lost)' = Telemetry(lost)
      /\ Telemetry(delivered)' = Telemetry(delivered)
      /\ \A id : OfVessel(id)' = OfVessel(id)
  BY <1>1, <1>2 DEF Superseded, Telemetry, OfVessel
<1>5. Link!IInv' /\ Monitor!IInv'
  BY <1>1, LinkStays, MonitorEnd DEF LoopInv
<1>6. LoopTypeOK'
  BY <1>1, <1>2 DEF LoopInv, LoopTypeOK
<1>7. LoopPhases'
  <2>1. sent <= 2 * N * frames + N
    BY <1>1, <1>3 DEF LoopInv, LoopPhases
  <2>2. sent <= 2 * N * (frames + 1) - N + 0
    BY <2>1, Numbers
  <2>3. injSeq = frames + 2 /\ poll.at = "idle" /\ FrameNo <= MaxFrames
    BY <1>1 DEF LoopInv, LoopPhases
  <2>4. frames + 2 = (frames + 1) + 1
    BY Numbers
  <2> QED
    BY <1>1, <1>2, <1>3, <2>2, <2>3, <2>4 DEF LoopPhases
<1>8. NumberedInOrder'
  BY <1>1, <1>2, <1>3, <1>4 DEF LoopInv, NumberedInOrder
<1>9. QueueIsNews'
  BY <1>1, <1>2, <1>3 DEF LoopInv, QueueIsNews
<1>10. HeardIsDelivered'
  BY <1>1, <1>2, <1>3, <1>4 DEF LoopInv, HeardIsDelivered
<1>11. LossesAccount'
  <2> DEFINE A == Cardinality(OfThisFrame)
             B == Cardinality(OfThisFrame \cap lost)
             C == Cardinality(OfThisFrame \cap held)
             D == Cardinality(Telemetry(lost))
             E == Cardinality(Telemetry(held))
  <2>1. A \in Nat /\ B \in Nat /\ C \in Nat /\ D \in Nat /\ E \in Nat
    <3>1. lost \subseteq 1 .. sent /\ held \subseteq 1 .. sent
      BY Shapes, Zenon
    <3> QED
      BY <3>1, IdsFinite DEF OfThisFrame, Telemetry
  <2>2. missingVessels + (N - A) + B + C <= D + E + refused
    BY <1>2, <1>3 DEF LoopInv, LossesAccount
  <2>3. Monitor!Missing \in Nat /\ Monitor!Missing + A <= N + B + C
    BY <1>1, HeardAtLeast
  <2>4. missingVessels \in Nat /\ refused \in Nat /\ N \in Nat
    BY Numbers, Zenon
  <2>5. missingVessels + Monitor!Missing <= D + E + refused
    <3> HIDE DEF A, B, C, D, E
    <3> QED
      BY <2>1, <2>2, <2>3, <2>4
  <2>6. MissingExplained'
    BY <1>2, <1>4, <2>5 DEF MissingExplained
  <2> QED
    BY <1>2, <1>4, <2>6 DEF LoopInv, LossesAccount
<1> QED
  BY <1>5, <1>6, <1>7, <1>8, <1>9, <1>10, <1>11 DEF LoopInv

-----------------------------------------------------------------------------

LEMMA InitLoopInv == Init => LoopInv
<1> SUFFICES ASSUME Init PROVE LoopInv
  OBVIOUS
<1>1. /\ q = <<>> /\ published = 0 /\ poll = Link!NotPolling
      /\ dropEvery \in Period /\ deferEvery \in Period
      /\ subs = [s \in 1 .. N |-> <<"lsdt", s - 1>>]
      /\ sent = 0 /\ lost = {} /\ held = {} /\ delivered = {}
      /\ received = [s \in 1 .. N |-> <<>>] /\ Monitor!Init
      /\ injSeq = 1 /\ refused = 0
      /\ decoded = [k \in Vessel |-> 0] /\ ins = [k \in Vessel |-> 0]
      /\ controller \in BOOLEAN /\ at = "begin" /\ vessel = 0 /\ packets = <<>>
  BY DEF Init
<1>2. /\ seq = [k \in Vessel |-> 0] /\ hit = [k \in Vessel |-> FALSE] /\ open = FALSE
      /\ frames = 0 /\ missingVessels = 0 /\ doubleUpdates = 0 /\ stalePackets = 0
  BY <1>1 DEF Monitor!Init, Monitor!Vessel, Vessel
<1>3. N \in Nat \ {0} /\ MaxFrames \in Nat
  BY SceneAssumption, FrameLoopAssumption
<1>4. /\ FrameNo = 0 /\ SoFar = 0
      /\ \A S : Telemetry(S) \subseteq S
      /\ poll.at = "idle" /\ poll.i = 0 /\ poll.kept = 0 /\ poll.sub = 0 /\ Len(q) = 0
  BY <1>1, <1>2 DEF FrameNo, SoFar, Telemetry, Link!NotPolling
<1>5. subs \in Seq(Topic) /\ Len(subs) = N
  <2>1. \A s \in 1 .. N : <<"lsdt", s - 1>> \in Topic
    BY <1>3 DEF Topic, Vessel
  <2>2. [s \in 1 .. N |-> <<"lsdt", s - 1>>] \in [1 .. N -> Topic]
    BY <2>1
  <2> QED
    BY <1>1, <1>3, <2>2, IsASeq, LenProperties
<1>6. Link!IInv
  BY <1>1, <1>3, <1>5, LinkUnused
<1>7. Monitor!IInv
  BY <1>1, MonitorInit
<1>8. LoopTypeOK
  <2>1. packets \in Seq([topic : Topic, seq : Nat]) /\ Len(packets) = 0
    BY <1>1
  <2> QED
    BY <1>1, <1>3, <2>1 DEF LoopTypeOK
<1>9. LoopPhases
  <2>1. 2 * N * 0 + 0 = 0
    BY <1>3
  <2> QED
    BY <1>1, <1>2, <1>3, <1>4, <2>1 DEF LoopPhases
<1>10. 1 .. 0 = {} /\ 0 + 1 .. 0 = {}
  OBVIOUS
<1>11. NumberedInOrder
  BY <1>1, <1>4, <1>10 DEF NumberedInOrder
<1>12. QueueIsNews
  <2>1. Link!Open = {} /\ ToHear = {} /\ LeftBehind = {}
    BY <1>1, <1>4, <1>10 DEF Link!Open, ToHear, Link!UnderWay, LeftBehind
  <2> QED
    BY <1>4, <2>1 DEF QueueIsNews
<1>13. HeardIsDelivered
  <2>1. \A k \in Vessel : seq[k] = 0
    BY <1>2
  <2> QED
    BY <1>1, <1>2, <1>4, <2>1 DEF HeardIsDelivered
<1>14. LossesAccount
  <2>1. Superseded = {} /\ Telemetry(lost) = {} /\ Telemetry(held) = {}
    BY <1>1, <1>4 DEF Superseded
  <2>2. Cardinality({}) = 0
    BY FS_EmptySet
  <2>3. 0 <= 0 /\ 0 <= 0 + 0 + 0
    OBVIOUS
  <2>4. MissingExplained
    BY <1>1, <1>2, <2>1, <2>2, <2>3 DEF MissingExplained
  <2> QED
    BY <1>2, <2>1, <2>2, <2>3, <2>4 DEF LossesAccount
<1> QED
  BY <1>6, <1>7, <1>8, <1>9, <1>11, <1>12, <1>13, <1>14 DEF LoopInv

LEMMA StutterKeepsLoopInv == LoopInv /\ UNCHANGED vars => LoopInv'
<1> SUFFICES ASSUME LoopInv, UNCHANGED vars PROVE LoopInv'
  OBVIOUS
<1>1. /\ UNCHANGED <<link, monitor, decoded, packets, refused, at, vessel>>
      /\ UNCHANGED <<ins, controller, injSeq>>
  BY DEF vars, injector, inputs
<1>2. UNCHANGED <<q, poll, sent, subs, held, frames, open>>
  BY <1>1 DEF link, monitor
<1>3. LoopTypeOK'
  BY <1>1, <1>2 DEF LoopInv, LoopTypeOK
<1>4. FrameNo' = FrameNo /\ SoFar' = SoFar /\ LeftBehind' = LeftBehind
  BY <1>1, <1>2 DEF FrameNo, SoFar, LeftBehind
<1>5. LoopPhases'
  BY <1>1, <1>2, <1>4 DEF LoopInv, LoopPhases
<1>6. Link!IInv' /\ Monitor!IInv'
  BY <1>1, LinkStays, MonitorStays DEF LoopInv
<1>7. /\ UNCHANGED <<lost, delivered, seq, hit, missingVessels, doubleUpdates, stalePackets>>
      /\ ToHear' = ToHear /\ Link!Open' = Link!Open
      /\ Superseded' = Superseded /\ OfThisFrame' = OfThisFrame
      /\ Telemetry(1 .. sent)' = Telemetry(1 .. sent)
      /\ Telemetry(held)' = Telemetry(held) /\ Telemetry(lost)' = Telemetry(lost)
      /\ Telemetry(delivered)' = Telemetry(delivered)
      /\ \A id : OfVessel(id)' = OfVessel(id)
  BY <1>1, <1>2 DEF link, monitor, FrameNo, ToHear, Link!Open, Link!UnderWay, Superseded,
    OfThisFrame, Telemetry, OfVessel
<1>8. NumberedInOrder' /\ QueueIsNews' /\ HeardIsDelivered'
  <2>1. NumberedInOrder'
    BY <1>1, <1>2, <1>4, <1>7 DEF LoopInv, NumberedInOrder
  <2>2. QueueIsNews'
    BY <1>1, <1>2, <1>4, <1>7 DEF LoopInv, QueueIsNews
  <2>3. HeardIsDelivered'
    BY <1>1, <1>2, <1>4, <1>7 DEF LoopInv, HeardIsDelivered
  <2> QED
    BY <2>1, <2>2, <2>3
<1>9. LossesAccount'
  BY <1>1, <1>2, <1>4, <1>7 DEF LoopInv, LossesAccount, MissingExplained
<1> QED
  BY <1>3, <1>5, <1>6, <1>8, <1>9 DEF LoopInv

LEMMA LoopInvariant == Spec => []LoopInv
<1>1. LoopInv /\ [Next]_vars => LoopInv'
  <2>1. LoopInv /\ PollScan => LoopInv'
    BY PollKeepKeeps, PollDeliverKeeps, AllNotifiedKeeps DEF PollScan
  <2> QED
    BY <2>1, BeginFrameKeeps, InjectKeeps, InjectEndsKeeps, PollBeginKeeps, OnLsdtKeeps,
      PollEndKeeps, EndFrameKeeps, StepFleetKeeps, DrawKeeps, DrawnKeeps, PublishActKeeps,
      ActsPublishedKeeps, StutterKeepsLoopInv DEF Next
<1> QED
  BY <1>1, InitLoopInv, PTL DEF Spec

-----------------------------------------------------------------------------

(* docs/RESULTS.md: no packet is ever stale, whatever was lost, held back  *)
(* or refused (fdt_fs_accept behind fdt_loop_transport).                   *)
THEOREM FrameLoopNeverStale == Spec => []NeverStale
<1>1. LoopInv => NeverStale
  BY DEF LoopInv, LossesAccount, NeverStale
<1> QED
  BY <1>1, LoopInvariant, PTL

(* fs->missing_vessels counts nothing but what the link was told to lose   *)
(* or to hold, and what its full queue refused: while a frame is open it   *)
(* has not caught up with them, and when it closes it has.                 *)
THEOREM FrameLoopMissingExplained == Spec => []MissingExplained
<1>1. ASSUME LoopInv, open PROVE MissingExplained
  <2> DEFINE A == Cardinality(OfThisFrame)
             B == Cardinality(OfThisFrame \cap lost)
             C == Cardinality(OfThisFrame \cap held)
             D == Cardinality(Telemetry(lost))
             E == Cardinality(Telemetry(held))
  <2>1. A \in Nat /\ B \in Nat /\ C \in Nat /\ D \in Nat /\ E \in Nat
    <3>1. lost \subseteq 1 .. sent /\ held \subseteq 1 .. sent
      BY <1>1, Shapes, Zenon
    <3> QED
      BY <1>1, <3>1, IdsFinite DEF OfThisFrame, Telemetry
  <2>2. missingVessels + (SoFar - A) + B + C <= D + E + refused
    BY <1>1 DEF LoopInv, LossesAccount
  <2>3. missingVessels \in Nat /\ refused \in Nat /\ N \in Nat /\ vessel \in 0 .. N
    BY <1>1, Numbers, Zenon
  <2>4. A <= SoFar /\ SoFar \in Nat
    <3>1. at \in {"inject", "poll", "polling", "close"} /\ SoFar \in 0 .. N
      <4>1. at \in {"inject", "poll", "polling", "close"}
        BY <1>1 DEF LoopInv, LoopPhases
      <4>2. N \in 0 .. N
        BY <2>3
      <4> QED
        BY <2>3, <4>1, <4>2 DEF SoFar
    <3>2. \A id \in OfThisFrame : OfVessel(id) \in 0 .. SoFar - 1
      <4> SUFFICES ASSUME NEW id \in OfThisFrame PROVE OfVessel(id) \in 0 .. SoFar - 1
        OBVIOUS
      <4>1. id \in Telemetry(1 .. sent) /\ packets[id].seq = FrameNo /\ id \in 1 .. sent
        BY DEF OfThisFrame, Telemetry
      <4>2. OfVessel(id) \in 0 .. N - 1
        BY <1>1, <4>1, Shapes, VesselOf DEF OfVessel, Vessel
      <4>3. at = "inject" => OfVessel(id) < vessel
        BY <1>1, <4>1 DEF LoopInv, NumberedInOrder
      <4>4. CASE at = "inject"
        <5>1. SoFar = vessel
          BY <4>4 DEF SoFar
        <5> QED
          BY <2>3, <4>2, <4>3, <4>4, <5>1
      <4>5. CASE at # "inject"
        BY <3>1, <4>2, <4>5 DEF SoFar
      <4> QED
        BY <4>4, <4>5
    <3>3. SoFar \in Nat /\ IsFiniteSet(0 .. SoFar - 1) /\ Cardinality(0 .. SoFar - 1) = SoFar
      <4> HIDE DEF SoFar
      <4>1. SoFar \in Nat /\ SoFar - 1 \in Int
        BY <2>3, <3>1
      <4>2. /\ IsFiniteSet(0 .. SoFar - 1)
            /\ Cardinality(0 .. SoFar - 1) = IF 0 > SoFar - 1 THEN 0 ELSE SoFar - 1 - 0 + 1
        BY <4>1, FS_Interval
      <4> QED
        BY <4>1, <4>2
    <3> QED
      BY <1>1, <3>2, <3>3, OnePacketEach
  <2>5. missingVessels <= D + E + refused
    <3> HIDE DEF A, B, C, D, E
    <3> QED
      BY <2>1, <2>2, <2>3, <2>4
  <2> QED
    BY <2>5 DEF MissingExplained
<1>2. LoopInv => MissingExplained
  BY <1>1 DEF LoopInv, LossesAccount
<1> QED
  BY <1>2, LoopInvariant, PTL

(* fs->double_updates: each is a packet that was held back in the loopback *)
(* and that its successor has since overtaken.                             *)
THEOREM FrameLoopDoublesAreHeld == Spec => []DoublesAreHeld
<1>1. ASSUME LoopInv PROVE DoublesAreHeld
  <2>1. doubleUpdates <= Cardinality(Superseded) /\ doubleUpdates \in Nat
    BY <1>1, Numbers DEF LoopInv, LossesAccount
  <2>2. Superseded \subseteq Telemetry(held) /\ Telemetry(held) \in SUBSET (1 .. sent)
        /\ Superseded \in SUBSET (1 .. sent)
    <3>1. held \subseteq 1 .. sent
      BY <1>1, Shapes, Zenon
    <3> QED
      BY <3>1 DEF Superseded, Telemetry
  <2>3. /\ Cardinality(Superseded) <= Cardinality(Telemetry(held))
        /\ Cardinality(Superseded) \in Nat /\ Cardinality(Telemetry(held)) \in Nat
    BY <1>1, <2>2, IdsFinite, FS_Subset
  <2> QED
    BY <2>1, <2>3 DEF DoublesAreHeld
<1> QED
  BY <1>1, LoopInvariant, PTL

(* on_lsdt copies every packet it is given: what the fleet steps on is the *)
(* newest input that the link has let through.                             *)
THEOREM FrameLoopInputIsCurrent == Spec => []InputIsCurrent
<1>1. ASSUME LoopInv PROVE InputIsCurrent
  <2>1. decoded = seq
    BY <1>1 DEF LoopInv, HeardIsDelivered
  <2>2. ASSUME at = "step", NEW id \in Telemetry(DOMAIN packets) \ lost
        PROVE  /\ packets[id].seq = injSeq - 1 /\ id \notin held =>
                    decoded[packets[id].topic[2]] = packets[id].seq
               /\ packets[id].seq = injSeq - 2 => decoded[packets[id].topic[2]] >= packets[id].seq
    <3>1. DOMAIN packets = 1 .. sent
      BY <1>1, Shapes, LenProperties
    <3>2. id \in Telemetry(1 .. sent) \ lost /\ id \in 1 .. sent
      BY <3>1 DEF Telemetry
    <3>3. injSeq - 1 = FrameNo /\ injSeq - 2 # FrameNo
      <4>1. injSeq = FrameNo + 1
        BY <1>1, <2>2 DEF LoopInv, LoopPhases, FrameNo
      <4>2. FrameNo \in Nat
        BY <1>1, Numbers, Zenon
      <4> QED
        BY <4>1, <4>2
    <3>4. packets[id].seq = FrameNo /\ id \notin held => seq[OfVessel(id)] = packets[id].seq
      BY <1>1, <2>2, <3>2, DeliveredIsHeard DEF OfThisFrame
    <3>5. /\ OfVessel(id) \in Vessel
          /\ packets[id].seq # FrameNo => packets[id].seq <= seq[OfVessel(id)]
      BY <1>1, <2>2, <3>2, HeardOrLeftBehind
    <3>6. /\ packets[id].seq \in Nat /\ \A v \in Vessel : seq[v] \in Nat
      BY <1>1, <3>2, Shapes
    <3> QED
      BY <2>1, <3>3, <3>4, <3>5, <3>6 DEF OfVessel
  <2> QED
    BY <2>1, <2>2 DEF InputIsCurrent
<1> QED
  BY <1>1, LoopInvariant, PTL

-----------------------------------------------------------------------------
(* The scene.                                                              *)

LEMMA OffsetType ==
  ASSUME NEW ref \in Position, NEW fix \in Position, NEW k \in Vessel
  PROVE  Placed(k, GeoOffset(ref, fix)) \in Pose /\ Origin(k) \in Pose
<1>1. (fix.lon - ref.lon) * MetresPerDegLon(ref.lat) \in Int
  <2>1. fix.lon - ref.lon \in Int /\ MetresPerDegLon(ref.lat) \in Int
    BY DEF Position, MetresPerDegLon, MetresPerDegLat
  <2> QED
    BY <2>1
<1>2. (fix.lat - ref.lat) * MetresPerDegLat \in Int
  BY DEF Position, MetresPerDegLat
<1>3. GeoOffset(ref, fix) \in Pose
  BY <1>1, <1>2 DEF GeoOffset, Pose
<1>4. k \in Int
  BY SceneAssumption DEF Vessel
<1>5. Origin(k) \in Pose
  BY <1>4 DEF Origin, Pose
<1> QED
  BY <1>3, <1>5 DEF Placed, Pose

(* render_vessel: the anchor is set once, while no hull has been moved.    *)
LEMMA RenderKeepsSceneInv ==
  ASSUME SceneInv, NEW k \in Vessel, NEW fix \in Position, fix # Unanchored, Render(k, fix)
  PROVE  SceneInv'
<1>1. CASE UNCHANGED scene
  BY <1>1 DEF SceneInv, scene
<1>2. CASE ~(UNCHANGED scene)
  <2>1. /\ fix # NoFix /\ anchor' = Anchor(k, fix)
        /\ pose' = [pose EXCEPT ![k] = Placed(k, GeoOffset(anchor', fix))]
        /\ shown' = [shown EXCEPT ![k] = fix]
    BY <1>2 DEF Render
  <2>2. anchor' \in Position /\ anchor' # Unanchored
    BY <2>1 DEF SceneInv, Anchor
  <2>3. Placed(k, GeoOffset(anchor', fix)) \in Pose
    BY <2>2, OffsetType
  <2>4. /\ pose' \in [Vessel -> Pose] /\ shown' \in [Vessel -> Position]
        /\ shown'[k] = fix /\ pose'[k] = Placed(k, GeoOffset(anchor', fix))
        /\ \A v \in Vessel : v # k => shown'[v] = shown[v] /\ pose'[v] = pose[v]
    BY <2>1, <2>3 DEF SceneInv
  <2>5. ASSUME NEW v \in Vessel
        PROVE  pose'[v] = IF shown'[v] = NoFix THEN Origin(v)
                          ELSE Placed(v, GeoOffset(anchor', shown'[v]))
    <3>1. CASE v = k
      BY <2>1, <2>4, <3>1
    <3>2. CASE v # k
      <4>1. shown[v] # NoFix => anchor' = anchor
        BY <2>1 DEF SceneInv, Anchor
      <4> QED
        BY <2>4, <3>2, <4>1 DEF SceneInv
    <3> QED
      BY <3>1, <3>2
  <2> QED
    BY <2>2, <2>4, <2>5 DEF SceneInv
<1> QED
  BY <1>1, <1>2

LEMMA Distributes == \A a, b, c, m \in Int : (a - c) * m - (b - c) * m = (a - b) * m
<1> QED OBVIOUS

LEMMA SceneInvMeans == SceneInv => OneFrameOfReference
<1> SUFFICES ASSUME SceneInv PROVE OneFrameOfReference
  OBVIOUS
<1>1. ASSUME NEW j \in Vessel, NEW k \in Vessel, NoFix \notin {shown[j], shown[k]}
      PROVE  /\ pose[k].north - pose[j].north =
                  Origin(k).north - Origin(j).north + GeoOffset(shown[j], shown[k]).north
             /\ pose[k].east - pose[j].east =
                  Origin(k).east - Origin(j).east
                    + (shown[k].lon - shown[j].lon) * MetresPerDegLon(anchor.lat)
  <2> DEFINE m == MetresPerDegLon(anchor.lat)
  <2>1. /\ shown[j].lat \in Int /\ shown[j].lon \in Int
        /\ shown[k].lat \in Int /\ shown[k].lon \in Int
        /\ anchor.lat \in Int /\ anchor.lon \in Int
    BY DEF SceneInv, Position
  <2>2. m \in Int
    BY <2>1 DEF MetresPerDegLon, MetresPerDegLat
  <2>3. /\ Origin(j).east \in Int /\ Origin(j).north \in Int
        /\ Origin(k).east \in Int /\ Origin(k).north \in Int
    <3>1. Origin(j) \in Pose /\ Origin(k) \in Pose
      BY OffsetType DEF SceneInv
    <3> QED
      BY <3>1 DEF Pose
  <2>4. /\ pose[k].north = Origin(k).north + (shown[k].lat - anchor.lat) * MetresPerDegLat
        /\ pose[j].north = Origin(j).north + (shown[j].lat - anchor.lat) * MetresPerDegLat
        /\ pose[k].east = Origin(k).east + (shown[k].lon - anchor.lon) * m
        /\ pose[j].east = Origin(j).east + (shown[j].lon - anchor.lon) * m
    BY <1>1 DEF SceneInv, Placed, GeoOffset
  <2>5. pose[k].north - pose[j].north =
          Origin(k).north - Origin(j).north + GeoOffset(shown[j], shown[k]).north
    <3>1. GeoOffset(shown[j], shown[k]).north = (shown[k].lat - shown[j].lat) * MetresPerDegLat
      BY DEF GeoOffset
    <3> HIDE DEF m
    <3> QED
      BY <2>1, <2>3, <2>4, <3>1 DEF MetresPerDegLat
  <2>6. pose[k].east - pose[j].east =
          Origin(k).east - Origin(j).east + (shown[k].lon - shown[j].lon) * m
    <3> HIDE DEF m
    <3>1. (shown[k].lon - anchor.lon) * m - (shown[j].lon - anchor.lon) * m =
            (shown[k].lon - shown[j].lon) * m
      BY <2>1, <2>2, Distributes
    <3>2. /\ (shown[k].lon - anchor.lon) * m \in Int /\ (shown[j].lon - anchor.lon) * m \in Int
      <4>1. shown[k].lon - anchor.lon \in Int /\ shown[j].lon - anchor.lon \in Int
        BY <2>1
      <4> QED
        BY <2>2, <4>1
    <3> QED
      BY <2>3, <2>4, <3>1, <3>2
  <2> QED
    BY <2>5, <2>6
<1>2. \A k \in Vessel : shown[k] = NoFix => pose[k] = Origin(k)
  BY DEF SceneInv
<1> QED
  BY <1>1, <1>2 DEF OneFrameOfReference

(* Whatever fixes the vessels have had and in whatever order, the hulls of *)
(* the world are all placed from the one anchor (render_vessel's           *)
(* g_anchor_set).                                                          *)
THEOREM FrameLoopOneFrameOfReference == Spec => []OneFrameOfReference
<1>1. Init => SceneInv
  <2> SUFFICES ASSUME Init PROVE SceneInv
    OBVIOUS
  <2>1. /\ anchor = Unanchored /\ pose = [k \in Vessel |-> Origin(k)]
        /\ shown = [k \in Vessel |-> NoFix]
    BY DEF Init, SceneInit
  <2>2. NoFix \in Position /\ Unanchored \in Position
    BY DEF NoFix, Unanchored, Position
  <2>3. \A k \in Vessel : Origin(k) \in Pose
    BY <2>2, OffsetType
  <2> QED
    BY <2>1, <2>2, <2>3 DEF SceneInv
<1>2. ASSUME LoopInv, SceneInv, [Next]_vars PROVE SceneInv'
  <2>1. CASE Draw
    <3> DEFINE fix == Fix(vessel, ins[vessel])
    <3>1. Render(vessel, fix)
      BY <2>1 DEF Draw
    <3>2. vessel \in Vessel /\ vessel \in Nat
      <4>1. vessel \in 0 .. N /\ N \in Nat
        BY <1>2, Numbers, Zenon
      <4>2. vessel < N
        BY <2>1 DEF Draw
      <4> QED
        BY <4>1, <4>2 DEF Vessel
    <3>3. ins[vessel] \in Nat
      BY <1>2, <3>2 DEF LoopInv, LoopTypeOK
    <3>4. fix \in Position /\ fix # Unanchored
      <4>1. CASE ins[vessel] = 0
        BY <4>1 DEF Fix, NoFix, Position, Unanchored
      <4>2. CASE ins[vessel] # 0
        <5>1. /\ 30 + (ins[vessel] % 3) \in Nat /\ 50 + 5 * vessel + (ins[vessel] % 2) \in Nat
          BY <3>2, <3>3
        <5> QED
          BY <4>2, <5>1 DEF Fix, Position, Unanchored
      <4> QED
        BY <4>1, <4>2
    <3> HIDE DEF fix
    <3> QED
      BY <1>2, <3>1, <3>2, <3>4, RenderKeepsSceneInv
  <2>2. CASE UNCHANGED scene
    BY <1>2, <2>2 DEF SceneInv, scene
  <2> QED
    BY <1>2, <2>1, <2>2 DEF Next, vars, BeginFrame, Inject, InjectEnds, PollBegin, PollScan,
      OnLsdt, PollEnd, EndFrame, StepFleet, Drawn, PublishAct, ActsPublished
<1> QED
  BY <1>1, <1>2, LoopInvariant, SceneInvMeans, PTL DEF Spec
=============================================================================

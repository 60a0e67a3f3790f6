------------------------------ MODULE FrameLoop ------------------------------
(***************************************************************************)
(* The loop every application runs, as in run_fleet_ex of                  *)
(* tools/bench/bench_scale.c and main of fdt_controller.c: the injector    *)
(* publishes one packet per vessel on the loopback, a poll hands them to   *)
(* on_lsdt, the frame monitor judges them, the fleet steps on what was     *)
(* decoded and, in the controller, the twins are drawn and the actuation   *)
(* goes out on the same loopback.  Loopback, FrameSync and Scene are the   *)
(* modules of those parts; the twins' own step is Coordinator's.           *)
(*                                                                         *)
(* A packet is its topic and its sequence number.  The input decoded from  *)
(* it is known by that number: a vessel's packets differ in nothing else   *)
(* here.  packets is history: what each message id of Loopback stands for. *)
(*                                                                         *)
(* An operator named for a slip is the one after it with that slip made.   *)
(***************************************************************************)
EXTENDS Scene, Sequences, FiniteSets

CONSTANTS
  QueueSize,      \* FDT_LOOP_QUEUE
  Period,         \* drop_every and defer_every; 0 is off
  CounterMod,     \* published is an unsigned: 2^32 in the code
  MaxFrames       \* frames a run has

ASSUME FrameLoopAssumption ==
  /\ QueueSize \in Nat \ {0}
  /\ Period \subseteq Nat
  /\ CounterMod \in Nat \ {0}
  /\ MaxFrames \in Nat

Topic == {"lsdt", "act"} \X Vessel

VARIABLES
  q, published, dropEvery, deferEvery, subs, poll,            \* the loopback
  sent, lost, held, delivered, received,
  seq, hit, frames, partialFrames, missingVessels,            \* the monitor
  doubleUpdates, stalePackets, accepted, open, taken,
  injSeq, injPublished, refused,                              \* the injector
  decoded,        \* g_decoded, by sequence number; 0 before the first packet
  ins,            \* g_ins: what the last fdt_coord_step was given
  controller,     \* the controller's loop draws and publishes A^t as well
  at, vessel,     \* where the loop is, and its k while it goes over the vessels
  packets

Link == INSTANCE Loopback WITH
  MaxSubs <- N, CallbacksPublish <- FALSE, MaxSent <- 2 * N * MaxFrames

Monitor == INSTANCE FrameSync WITH
  MaxSeq <- MaxFrames, MaxPackets <- N * MaxFrames

link == <<q, published, dropEvery, deferEvery, subs, poll,
          sent, lost, held, delivered, received>>
monitor == <<seq, hit, frames, partialFrames, missingVessels,
             doubleUpdates, stalePackets, accepted, open, taken>>
injector == <<injSeq, injPublished, refused>>
inputs == <<decoded, ins>>
vars == <<link, monitor, injector, inputs, scene, controller, at, vessel, packets>>

(* fdt_loop_transport, fdt_loop_set_loss, fdt_inj_init, fdt_fs_init and    *)
(* the subscriptions: every vessel's telemetry, and nobody's actuation.    *)
Init ==
  /\ q = <<>> /\ published = 0 /\ poll = Link!NotPolling
  /\ dropEvery \in Period /\ deferEvery \in Period
  /\ subs = [s \in 1 .. N |-> <<"lsdt", s - 1>>]
  /\ sent = 0 /\ lost = {} /\ held = {} /\ delivered = {}
  /\ received = [s \in 1 .. N |-> <<>>]
  /\ Monitor!Init
  /\ injSeq = 1 /\ injPublished = 0 /\ refused = 0
  /\ decoded = [k \in Vessel |-> 0] /\ ins = [k \in Vessel |-> 0]
  /\ SceneInit
  /\ controller \in BOOLEAN
  /\ at = "begin" /\ vessel = 0
  /\ packets = <<>>

BeginFrame ==
  /\ at = "begin"
  /\ Monitor!BeginFrame
  /\ at' = "inject" /\ vessel' = 0
  /\ UNCHANGED <<link, injector, inputs, scene, controller, packets>>

(* publish(topic), with the packet it stands for remembered.               *)
Publish(topic, number) ==
  /\ Link!Publish(topic)
  /\ packets' = Append(packets, [topic |-> topic, seq |-> number])

Refused == Len(q) >= QueueSize /\ UNCHANGED <<link, packets>>

(* fdt_inj_tick, vessel by vessel: a packet that is refused is counted and *)
(* not tried again.                                                        *)
Count(ok) ==
  /\ injPublished' = IF ok THEN injPublished + 1 ELSE injPublished
  /\ refused' = IF ok THEN refused ELSE refused + 1

Inject ==
  /\ at = "inject" /\ vessel < N
  /\ \/ Publish(<<"lsdt", vessel>>, injSeq) /\ Count(TRUE)
     \/ Refused /\ Count(FALSE)
  /\ vessel' = vessel + 1
  /\ UNCHANGED <<monitor, injSeq, inputs, scene, controller, at>>

SameSeq == injSeq
NextSeq == injSeq + 1

InjectEnds ==
  /\ at = "inject" /\ vessel = N
  /\ injSeq' = NextSeq
  /\ at' = "poll"
  /\ UNCHANGED <<link, monitor, injPublished, refused, inputs, scene,
                 controller, vessel, packets>>

PollBegin ==
  /\ at = "poll"
  /\ Link!PollBegin
  /\ at' = "polling"
  /\ UNCHANGED <<monitor, injector, inputs, scene, controller, vessel, packets>>

PollScan ==
  /\ at = "polling"
  /\ Link!PollKeep \/ Link!PollDeliver \/ Link!AllNotified
  /\ UNCHANGED <<monitor, injector, inputs, scene, controller, at, vessel, packets>>

(* on_lsdt: the packet is judged, and decoded whatever the verdict was.    *)
DecodedIfFresh(k, n) == IF hit[k] THEN decoded ELSE [decoded EXCEPT ![k] = n]
Decoded(k, n) == [decoded EXCEPT ![k] = n]

OnLsdt ==
  LET packet == packets[q[poll.i].id]
      k      == packet.topic[2]
  IN
  /\ at = "polling"
  /\ Link!Notify
  /\ Monitor!Accept(k, packet.seq)
  /\ decoded' = Decoded(k, packet.seq)
  /\ UNCHANGED <<injector, ins, scene, controller, at, vessel, packets>>

PollEnd ==
  /\ at = "polling"
  /\ Link!PollEnd
  /\ at' = "close"
  /\ UNCHANGED <<monitor, injector, inputs, scene, controller, vessel, packets>>

EndFrame ==
  /\ at = "close"
  /\ Monitor!EndFrame
  /\ at' = "step"
  /\ UNCHANGED <<link, injector, inputs, scene, controller, vessel, packets>>

(* The inputs are copied, and the fleet steps on them.                     *)
StepFleet ==
  /\ at = "step"
  /\ ins' = decoded
  /\ at' = IF controller THEN "render" ELSE "begin"
  /\ vessel' = 0
  /\ UNCHANGED <<link, monitor, injector, decoded, scene, controller, packets>>

(* fdt_inj_sample: where the vessel is in its n-th sample, along the sweep  *)
(* and beside its neighbour; the input nobody has sent yet is all zero.    *)
Fix(k, n) == IF n = 0 THEN NoFix ELSE [lat |-> 30 + (n % 3), lon |-> 50 + 5 * k + (n % 2)]

(* The controller draws its twins at the positions they stepped on.        *)
Draw ==
  /\ at = "render" /\ vessel < N
  /\ Render(vessel, Fix(vessel, ins[vessel]))
  /\ vessel' = vessel + 1
  /\ UNCHANGED <<link, monitor, injector, inputs, controller, at, packets>>

Drawn ==
  /\ at = "render" /\ vessel = N
  /\ at' = "act" /\ vessel' = 0
  /\ UNCHANGED <<link, monitor, injector, inputs, scene, controller, packets>>

(* The controller publishes A^t under the vessel's high-water mark and     *)
(* does not look at what publish says.                                     *)
PublishAct ==
  /\ at = "act" /\ vessel < N
  /\ Publish(<<"act", vessel>>, seq[vessel]) \/ Refused
  /\ vessel' = vessel + 1
  /\ UNCHANGED <<monitor, injector, inputs, scene, controller, at>>

ActsPublished ==
  /\ at = "act" /\ vessel = N
  /\ at' = "begin"
  /\ UNCHANGED <<link, monitor, injector, inputs, scene, controller, vessel, packets>>

Next ==
  \/ BeginFrame \/ Inject \/ InjectEnds
  \/ PollBegin \/ PollScan \/ OnLsdt \/ PollEnd
  \/ EndFrame \/ StepFleet \/ Draw \/ Drawn \/ PublishAct \/ ActsPublished

Spec == Init /\ [][Next]_vars

-----------------------------------------------------------------------------

Telemetry(ids) == {id \in ids : packets[id].topic[1] = "lsdt"}

(* docs/RESULTS.md: stale packets stay at zero "because the deferral       *)
(* preserves order": whatever is dropped, held or refused, and whatever    *)
(* else travels on the link, a vessel's packets arrive in order, once.     *)
NeverStale == stalePackets = 0

(* The vessels counted missing are the packets the link was told to lose   *)
(* or to hold and the ones it refused.  No other loss reaches the measure. *)
MissingExplained ==
  missingVessels <=
    Cardinality(Telemetry(lost)) + Cardinality(Telemetry(held)) + refused

(* A double update is a packet the link held meeting its successor: there  *)
(* are no more of them than packets held.                                  *)
DoublesAreHeld == doubleUpdates <= Cardinality(Telemetry(held))

(* on_lsdt decodes a packet whatever its verdict; on this link that never  *)
(* takes a twin's input back: it is always the newest packet let through.  *)
(* A packet that was neither lost nor held is what its twin steps on in    *)
(* the frame it was sent in, and a held one, or a later one, in the next.  *)
InputIsCurrent ==
  /\ \A k \in Vessel : decoded[k] = seq[k]
  /\ at = "step" =>
       \A id \in Telemetry(DOMAIN packets) \ lost :
         LET p == packets[id] IN
         /\ p.seq = injSeq - 1 /\ id \notin held => decoded[p.topic[2]] = p.seq
         /\ p.seq = injSeq - 2                   => decoded[p.topic[2]] >= p.seq

-----------------------------------------------------------------------------
(* The invariant the proofs rest on, beside the loopback's and the         *)
(* monitor's own.                                                          *)

LoopTypeOK ==
  /\ at \in {"begin", "inject", "poll", "polling", "close", "step", "render", "act"}
  /\ vessel \in 0 .. N /\ controller \in BOOLEAN
  /\ injSeq \in Nat /\ refused \in Nat
  /\ ins \in [Vessel -> Nat]
  /\ subs = [s \in 1 .. N |-> <<"lsdt", s - 1>>]
  /\ packets \in Seq([topic : Topic, seq : Nat]) /\ Len(packets) = sent
  /\ held \subseteq 1 .. sent

(* The frame the newest telemetry is of.                                   *)
FrameNo == IF open THEN frames + 1 ELSE frames

(* What a frame has published before the loop gets where it is.            *)
SoFar ==
  CASE at \in {"inject", "act"}                -> vessel
    [] at \in {"poll", "polling", "close"}     -> N
    [] OTHER                                   -> 0

LoopPhases ==
  /\ open <=> at \in {"inject", "poll", "polling", "close"}
  /\ poll.at = "idle" <=> at # "polling"
  /\ injSeq = IF at \in {"poll", "polling", "close"} THEN frames + 2 ELSE frames + 1
  /\ FrameNo <= MaxFrames
  /\ sent <= IF at \in {"step", "render", "act"} THEN 2 * N * frames - N + SoFar
             ELSE 2 * N * frames + SoFar

OfVessel(id) == packets[id].topic[2]

(* A vessel's packets are numbered as they are published, one a frame.     *)
NumberedInOrder ==
  \A id \in Telemetry(1 .. sent) :
    /\ packets[id].seq \in 1 .. FrameNo
    /\ at = "inject" /\ packets[id].seq = FrameNo => OfVessel(id) < vessel
    /\ \A later \in Telemetry(1 .. sent) :
         id < later /\ OfVessel(id) = OfVessel(later) => packets[id].seq < packets[later].seq

(* The entries on_lsdt has still to judge, and the ones this frame's poll  *)
(* leaves behind.                                                          *)
ToHear == Link!UnderWay \cup IF poll.at = "deliver" /\ poll.sub = 0 THEN {poll.i} ELSE {}

LeftBehind ==
  CASE at \in {"inject", "poll"} -> {}
    [] at = "polling"            -> 1 .. poll.kept
    [] OTHER                     -> 1 .. Len(q)

(* An entry is of this frame, or it was held back in the last one and goes *)
(* out in this one; either way it is news to the monitor, which judges it  *)
(* once.                                                                   *)
QueueIsNews ==
  /\ \A j \in Link!Open : q[j].topic = packets[q[j].id].topic
  /\ \A j \in ToHear : q[j].topic[1] = "lsdt" =>
       /\ packets[q[j].id].seq > seq[q[j].topic[2]]
       /\ \/ packets[q[j].id].seq = FrameNo
          \/ packets[q[j].id].seq = FrameNo - 1 /\ q[j].id \in held /\ ~q[j].deferred
  /\ \A j \in LeftBehind : q[j].topic[1] = "lsdt" =>
       packets[q[j].id].seq = FrameNo /\ q[j].id \in held /\ ~q[j].deferred
  /\ poll.sub # 0 => poll.sub = q[poll.i].topic[2] + 1

(* What the monitor has heard is what was delivered to it.                 *)
HeardIsDelivered ==
  /\ decoded = seq
  /\ \A k \in Vessel :
       /\ seq[k] <= FrameNo /\ (at \in {"inject", "poll"} => seq[k] < FrameNo)
       /\ open /\ seq[k] = FrameNo => hit[k]
       /\ open /\ hit[k] => \/ seq[k] = FrameNo
                            \/ \E id \in Telemetry(held) : OfVessel(id) = k /\ packets[id].seq = seq[k]
  /\ \A id \in Telemetry(delivered) :
       \/ packets[id].seq <= seq[OfVessel(id)]
       \/ poll.at = "deliver" /\ poll.sub = 0 /\ id = q[poll.i].id

(* Held packets that their successor has overtaken in the monitor.         *)
Superseded == {id \in Telemetry(held) : packets[id].seq < seq[OfVessel(id)]}

OfThisFrame == {id \in Telemetry(1 .. sent) : packets[id].seq = FrameNo}

(* The packets lost, held and refused account for the vessels missing so   *)
(* far and for the ones that can still be missing in the frame that is open. *)
LossesAccount ==
  /\ stalePackets = 0
  /\ doubleUpdates <= Cardinality(Superseded)
  /\ ~open => MissingExplained
  /\ open =>
       missingVessels + (SoFar - Cardinality(OfThisFrame))
         + Cardinality(OfThisFrame \cap lost) + Cardinality(OfThisFrame \cap held)
       <= Cardinality(Telemetry(lost)) + Cardinality(Telemetry(held)) + refused

LoopInv ==
  /\ Link!IInv /\ Monitor!IInv /\ LoopTypeOK /\ LoopPhases
  /\ NumberedInOrder /\ QueueIsNews /\ HeardIsDelivered /\ LossesAccount
=============================================================================

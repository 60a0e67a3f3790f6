------------------------------ MODULE FrameSync ------------------------------
(***************************************************************************)
(* The monitor of partial and double updates (src/framesync.c): one        *)
(* high-water mark and one arrival flag per vessel, and six counters.      *)
(*                                                                         *)
(* fdt_framesync_t does not know whether a frame is open; its callers do,  *)
(* and all of them judge packets between fdt_fs_begin_frame and            *)
(* fdt_fs_end_frame (bench_scale.c, fdt_controller.c).  open is their      *)
(* program counter.  taken is a history variable: the sequence numbers of  *)
(* each vessel that were ever let through.                                 *)
(*                                                                         *)
(* An operator named for a slip (IsStaleIfOlder, ...) is the one after it  *)
(* with that slip made; nothing uses it.                                   *)
(***************************************************************************)
EXTENDS Integers, FiniteSets

CONSTANTS
  N,            \* vessels covered
  MaxSeq,       \* the largest sequence number: 2^32 - 1 in the code
  MaxFrames,    \* bound: frames closed
  MaxPackets    \* bound: packets judged

Vessel == 0 .. N - 1
SeqNo == 0 .. MaxSeq

ASSUME FrameSyncAssumption ==
  /\ N \in Nat \ {0}
  /\ MaxSeq \in Nat
  /\ MaxFrames \in Nat
  /\ MaxPackets \in Nat

VARIABLES
  seq, hit,                                       \* caller-owned slots
  frames, partialFrames, missingVessels,          \* counters of closed frames
  doubleUpdates, stalePackets, accepted,          \* counters of packets
  open, taken

counters == <<frames, partialFrames, missingVessels>>
verdicts == <<doubleUpdates, stalePackets, accepted>>
vars == <<seq, hit, counters, verdicts, open, taken>>

Init ==
  /\ seq = [k \in Vessel |-> 0]
  /\ hit = [k \in Vessel |-> FALSE]
  /\ frames = 0 /\ partialFrames = 0 /\ missingVessels = 0
  /\ doubleUpdates = 0 /\ stalePackets = 0 /\ accepted = 0
  /\ open = FALSE
  /\ taken = [k \in Vessel |-> {}]

BeginFrameKeepsFlags ==
  /\ ~open
  /\ frames < MaxFrames
  /\ open' = TRUE
  /\ UNCHANGED <<seq, hit, counters, verdicts, taken>>

BeginFrame ==
  /\ ~open
  /\ frames < MaxFrames
  /\ hit' = [k \in Vessel |-> FALSE]
  /\ open' = TRUE
  /\ UNCHANGED <<seq, counters, verdicts, taken>>

(* A packet of vessel k numbered s, judged against the high-water mark.    *)
IsStaleIfOlder(k, s) == s < seq[k]
IsStale(k, s) == s <= seq[k]

(* Let a packet through: the mark moves up to it.                          *)
Take(k, s) ==
  /\ seq' = [seq EXCEPT ![k] = s]
  /\ taken' = [taken EXCEPT ![k] = @ \cup {s}]

(* The three verdicts of fdt_fs_accept, and the packet of no vessel here.  *)
AcceptStale(k, s) ==
  /\ IsStale(k, s)
  /\ stalePackets' = stalePackets + 1
  /\ UNCHANGED <<seq, hit, doubleUpdates, accepted, taken>>

AcceptDuplicate(k, s) ==
  /\ ~IsStale(k, s)
  /\ hit[k]
  /\ Take(k, s)
  /\ doubleUpdates' = doubleUpdates + 1
  /\ UNCHANGED <<hit, stalePackets, accepted>>

AcceptFresh(k, s) ==
  /\ ~IsStale(k, s)
  /\ ~hit[k]
  /\ Take(k, s)
  /\ hit' = [hit EXCEPT ![k] = TRUE]
  /\ accepted' = accepted + 1
  /\ UNCHANGED <<stalePackets, doubleUpdates>>

AcceptForeign(k) ==
  /\ k \notin Vessel
  /\ UNCHANGED <<seq, hit, verdicts, taken>>

Accept(k, s) ==
  /\ open
  /\ \/ k \in Vessel /\ AcceptStale(k, s)
     \/ k \in Vessel /\ AcceptDuplicate(k, s)
     \/ k \in Vessel /\ AcceptFresh(k, s)
     \/ AcceptForeign(k)
  /\ UNCHANGED <<counters, open>>

Missing == Cardinality({k \in Vessel : ~hit[k]})

EndFrame ==
  /\ open
  /\ frames' = frames + 1
  /\ partialFrames' = IF Missing > 0 THEN partialFrames + 1 ELSE partialFrames
  /\ missingVessels' = missingVessels + Missing
  /\ open' = FALSE
  /\ UNCHANGED <<seq, hit, verdicts, taken>>

Next ==
  \/ BeginFrame
  \/ EndFrame
  \/ /\ doubleUpdates + stalePackets + accepted < MaxPackets
     /\ \E k \in 0 .. N, s \in SeqNo : Accept(k, s)

Spec == Init /\ [][Next]_vars

-----------------------------------------------------------------------------

TypeOK ==
  /\ seq \in [Vessel -> SeqNo]
  /\ hit \in [Vessel -> BOOLEAN]
  /\ frames \in Nat /\ partialFrames \in Nat /\ missingVessels \in Nat
  /\ doubleUpdates \in Nat /\ stalePackets \in Nat /\ accepted \in Nat
  /\ open \in BOOLEAN
  /\ taken \in [Vessel -> SUBSET SeqNo]

(* The vessels heard from in the frame that is open.                       *)
Heard == {k \in Vessel : hit[k]}

(* Every vessel of every closed frame either contributed its one fresh     *)
(* packet or was counted missing: two counters kept by different           *)
(* functions, on different events, add up.                                 *)
FrameAccounting ==
  accepted + missingVessels = N * frames + IF open THEN Cardinality(Heard) ELSE 0

(* A frame is partial when someone is missing, and nobody is missing in a  *)
(* frame that is not.                                                      *)
PartialFramesBound ==
  /\ partialFrames <= missingVessels
  /\ missingVessels <= N * partialFrames
  /\ partialFrames <= frames

(* No packet gets through twice, in one frame or across frames, however    *)
(* often the link redelivers it: the packets counted fresh or double are   *)
(* as many as the distinct packets let through.                            *)
TakenPackets == {p \in Vessel \X SeqNo : p[2] \in taken[p[1]]}

TakenOnce == accepted + doubleUpdates = Cardinality(TakenPackets)

(* The mark is the highest number ever let through, not the last one the   *)
(* link delivered, and only a packet let through flags its vessel.         *)
HighWaterIsHighest ==
  \A k \in Vessel : /\ \A s \in taken[k] : s <= seq[k]
                    /\ seq[k] # 0 => seq[k] \in taken[k]
                    /\ hit[k] => taken[k] # {}

IInv == TypeOK /\ FrameAccounting /\ PartialFramesBound /\ TakenOnce /\ HighWaterIsHighest
=============================================================================

------------------------------- MODULE Loopback -------------------------------
(***************************************************************************)
(* The in-process transport (src/transport_loop.c): a queue that           *)
(* fdt_transport_t::poll scans, compacts and truncates while the           *)
(* subscribers' callbacks run in the middle of it.                         *)
(*                                                                         *)
(* Messages are numbered in the order loop_publish accepts them.  sent,    *)
(* lost, held, delivered and received are history: how many were accepted, *)
(* which of them the configured loss discarded, which it held back, which  *)
(* were handed over, and what each subscription got, in order.             *)
(*                                                                         *)
(* A publish or a subscribe that is refused changes nothing and is left    *)
(* out; FrameLoop models what a publisher does with the refusal.           *)
(*                                                                         *)
(* An operator named for a slip is the one after it with that slip made.   *)
(***************************************************************************)
EXTENDS Integers, Sequences, SequencesExt

CONSTANTS
  Topic,
  QueueSize,          \* FDT_LOOP_QUEUE
  MaxSubs,            \* FDT_LOOP_SUBS
  Period,             \* values given to drop_every and defer_every; 0 is off
  CounterMod,         \* published is an unsigned: 2^32 in the code
  CallbacksPublish,   \* whether a subscriber's callback may publish
  MaxSent             \* bound: messages accepted

ASSUME LoopbackAssumption ==
  /\ QueueSize \in Nat \ {0}
  /\ MaxSubs \in Nat
  /\ Period \subseteq Nat
  /\ CounterMod \in Nat \ {0}
  /\ CallbacksPublish \in BOOLEAN
  /\ MaxSent \in Nat

VARIABLES
  q,                  \* q[0 .. qlen - 1]
  published,          \* drives drop_every and defer_every
  dropEvery, deferEvery,
  subs,               \* the topics subscribed to, in slot order
  poll,               \* loop_poll's locals while it runs
  sent, lost, held, delivered, received

history == <<sent, lost, held, delivered, received>>
vars == <<q, published, dropEvery, deferEvery, subs, poll, history>>

(* at: "idle", "scan" between entries (counted from 1, so i are done),     *)
(* "deliver" while entry i is handed out, sub the last slot called for it. *)
NotPolling == [at |-> "idle", i |-> 0, pending |-> 0, kept |-> 0, sub |-> 0]

Init ==
  /\ q = <<>> /\ published = 0 /\ dropEvery = 0 /\ deferEvery = 0 /\ subs = <<>>
  /\ poll = NotPolling
  /\ sent = 0 /\ lost = {} /\ held = {} /\ delivered = {}
  /\ received = [s \in 1 .. MaxSubs |-> <<>>]

(* fdt_loop_set_loss.                                                      *)
SetLoss(drop, defer) ==
  /\ poll.at = "idle"
  /\ dropEvery' = drop
  /\ deferEvery' = defer
  /\ UNCHANGED <<q, published, subs, poll, history>>

(* loop_subscribe.                                                         *)
Subscribe(t) ==
  /\ poll.at = "idle"
  /\ Len(subs) < MaxSubs
  /\ subs' = Append(subs, t)
  /\ UNCHANGED <<q, published, dropEvery, deferEvery, poll, history>>

Due(every, count) == every # 0 /\ count % every = 0

(* Whether the caller is in a position to publish: between polls, or from  *)
(* inside a callback where callbacks do that.                              *)
MayPublish == poll.at = "idle" \/ (CallbacksPublish /\ poll.sub # 0)

(* loop_publish, accepted: lost here, held for one poll, or queued.        *)
HasRoom == Len(q) < QueueSize

QueuedAtFront(entry) == <<entry>> \o q
Queued(entry) == Append(q, entry)

Publish(t) ==
  LET count == (published + 1) % CounterMod
      hold  == Due(deferEvery, count)
  IN
  /\ MayPublish
  /\ HasRoom
  /\ published' = count
  /\ sent' = sent + 1
  /\ IF Due(dropEvery, count)
       THEN /\ lost' = lost \cup {sent + 1}
            /\ UNCHANGED <<q, held>>
       ELSE /\ q' = Queued([topic |-> t, id |-> sent + 1, deferred |-> hold])
            /\ held' = IF hold THEN held \cup {sent + 1} ELSE held
            /\ UNCHANGED lost
  /\ UNCHANGED <<dropEvery, deferEvery, subs, poll, delivered, received>>

(* loop_poll: what is in the queue now is what this poll will look at.     *)
PollBegin ==
  /\ poll.at = "idle"
  /\ poll' = [at |-> "scan", i |-> 0, pending |-> Len(q), kept |-> 0, sub |-> 0]
  /\ UNCHANGED <<q, published, dropEvery, deferEvery, subs, history>>

(* The next entry was held back: it moves down to the entries kept.        *)
KeptStillDeferred(i) == [q EXCEPT ![poll.kept + 1] = q[i]]
KeptInPlace(i) == [q EXCEPT ![i].deferred = FALSE]
Kept(i) ==
  [q EXCEPT ![poll.kept + 1] = [q[i] EXCEPT !.deferred = FALSE], ![i].deferred = FALSE]

PollKeep ==
  LET i == poll.i + 1 IN
  /\ poll.at = "scan" /\ i <= poll.pending /\ q[i].deferred
  /\ q' = Kept(i)
  /\ poll' = [poll EXCEPT !.i = i, !.kept = @ + 1]
  /\ UNCHANGED <<published, dropEvery, deferEvery, subs, history>>

(* The next entry is delivered: counted once, however many subscribe.      *)
PollDeliver ==
  LET i == poll.i + 1 IN
  /\ poll.at = "scan" /\ i <= poll.pending /\ ~q[i].deferred
  /\ delivered' = delivered \cup {q[i].id}
  /\ poll' = [poll EXCEPT !.at = "deliver", !.i = i, !.sub = 0]
  /\ UNCHANGED <<q, published, dropEvery, deferEvery, subs, sent, lost, held, received>>

(* The subscriptions of the entry's topic that are still to be called.     *)
ToNotify == {s \in DOMAIN subs : s > poll.sub /\ subs[s] = q[poll.i].topic}

(* The next of them is called; until the next step its callback runs.      *)
Notify ==
  /\ poll.at = "deliver" /\ ToNotify # {}
  /\ LET s == Min(ToNotify) IN
     /\ received' = [received EXCEPT ![s] = Append(@, q[poll.i].id)]
     /\ poll' = [poll EXCEPT !.sub = s]
  /\ UNCHANGED <<q, published, dropEvery, deferEvery, subs, sent, lost, held, delivered>>

AllNotified ==
  /\ poll.at = "deliver" /\ ToNotify = {}
  /\ poll' = [poll EXCEPT !.at = "scan", !.sub = 0]
  /\ UNCHANGED <<q, published, dropEvery, deferEvery, subs, history>>

(* lo->qlen = kept: whatever else is in the queue is gone.                 *)
LeftWhole == q
LeftEmpty == <<>>
Left == SubSeq(q, 1, poll.kept)

PollEnd ==
  /\ poll.at = "scan" /\ poll.i = poll.pending
  /\ q' = Left
  /\ poll' = NotPolling
  /\ UNCHANGED <<published, dropEvery, deferEvery, subs, history>>

(* loop_close zeroes everything, the messages under way included.          *)
Close ==
  /\ poll.at = "idle"
  /\ q' = <<>> /\ published' = 0 /\ dropEvery' = 0 /\ deferEvery' = 0 /\ subs' = <<>>
  /\ poll' = NotPolling
  /\ sent' = 0 /\ lost' = {} /\ held' = {} /\ delivered' = {}
  /\ received' = [s \in 1 .. MaxSubs |-> <<>>]

Poll == PollBegin \/ PollKeep \/ PollDeliver \/ Notify \/ AllNotified \/ PollEnd

Next ==
  \/ \E drop, defer \in Period : SetLoss(drop, defer)
  \/ \E t \in Topic : Subscribe(t)
  \/ sent < MaxSent /\ \E t \in Topic : Publish(t)
  \/ Poll
  \/ Close

(* The applications' loops poll in every frame.                            *)
Fairness == WF_vars(Poll)

Spec == Init /\ [][Next]_vars /\ Fairness

-----------------------------------------------------------------------------

Entry == [topic : Topic, id : 1 .. MaxSent, deferred : BOOLEAN]

PollRecord == [at : {"idle", "scan", "deliver"}, i : 0 .. QueueSize,
               pending : 0 .. QueueSize, kept : 0 .. QueueSize, sub : 0 .. MaxSubs]

TypeOK ==
  /\ q \in Seq(Entry) /\ Len(q) <= QueueSize
  /\ published \in 0 .. CounterMod - 1
  /\ dropEvery \in Period \cup {0} /\ deferEvery \in Period \cup {0}
  /\ subs \in Seq(Topic) /\ Len(subs) <= MaxSubs
  /\ poll \in PollRecord
  /\ sent \in 0 .. MaxSent
  /\ lost \subseteq 1 .. MaxSent /\ held \subseteq 1 .. MaxSent
  /\ delivered \subseteq 1 .. MaxSent
  /\ received \in [1 .. MaxSubs -> Seq(1 .. MaxSent)]

(* The entries that are still under way: the ones this poll has kept, and  *)
(* the ones it has not looked at.                                          *)
UnderWay == (1 .. poll.kept) \cup (poll.i + 1 .. Len(q))
InFlight == {q[j].id : j \in UnderWay}

(* transport.h: publish reports a full queue "rather than silently         *)
(* dropping, because a silent drop here would look exactly like the packet *)
(* loss the benchmarks are trying to measure".  So a message is lost only  *)
(* if the configured loss took it.                                         *)
NothingLostSilently == 1 .. sent = lost \cup delivered \cup InFlight

(* "The loopback has one delivery guarantee: exactly once"                 *)
(* (transport_loop.c): no subscription sees a message twice, and what was  *)
(* delivered is not still under way.                                       *)
ExactlyOnce ==
  /\ \A s \in 1 .. MaxSubs : IsInjective(received[s])
  /\ delivered \cap InFlight = {}
  /\ delivered \cap lost = {}

(* On one subscription a message overtakes an earlier one only if the      *)
(* earlier one was held back by defer_every.                               *)
OvertakesOnlyHeld ==
  \A s \in 1 .. MaxSubs : \A a, b \in DOMAIN received[s] :
    a < b /\ received[s][b] < received[s][a] => received[s][b] \in held

(* Every message under way leaves the queue, if the application polls.     *)
EveryMessageLeaves ==
  \A m \in 1 .. MaxSent : m \in InFlight ~> m \notin InFlight

Link == INSTANCE LossyLink WITH Capacity <- QueueSize, flight <- InFlight

(* The loopback is a link that loses only what it was told to lose.        *)
ImplementsLink == Link!Spec
-----------------------------------------------------------------------------
(* The invariant the proofs rest on.                                       *)

(* The entries under way, and the one being handed out.                    *)
Open == (1 .. poll.kept)
          \cup ((IF poll.at = "deliver" THEN poll.i ELSE poll.i + 1) .. Len(q))

(* The scan stays inside what was queued when it began, and the entries    *)
(* it keeps go where it has already been.                                  *)
PollInBounds ==
  /\ poll.at = "idle" => poll = NotPolling
  /\ poll.at # "idle" =>
       /\ poll.kept <= poll.i /\ poll.i <= poll.pending /\ poll.pending <= Len(q)
       /\ ~CallbacksPublish => poll.pending = Len(q)
  /\ poll.at = "deliver" => poll.kept < poll.i
  /\ poll.at # "deliver" => poll.sub = 0

(* Compacting keeps the queue in the order of publication.                 *)
QueueInOrder ==
  /\ \A j, k \in Open : j < k => q[j].id < q[k].id
  /\ \A j \in Open : q[j].id <= sent

(* An entry that stays behind is one that defer_every chose.               *)
KeptWereHeld ==
  /\ \A j \in 1 .. poll.kept : q[j].id \in held
  /\ \A j \in poll.i + 1 .. Len(q) : q[j].deferred => q[j].id \in held

(* A message is in one place at a time.                                    *)
OnePlaceEach ==
  /\ delivered \cup lost \subseteq 1 .. sent
  /\ delivered \cap lost = {}
  /\ \A j \in UnderWay : q[j].id \notin delivered \cup lost
  /\ poll.at = "deliver" => q[poll.i].id \in delivered

(* A subscription that the scan has not come to has not seen the entry.    *)
CalledInTurn ==
  \A s \in 1 .. MaxSubs :
    /\ \A a \in DOMAIN received[s] : received[s][a] \in delivered
    /\ IsInjective(received[s])
    /\ poll.at = "deliver" /\ s > poll.sub =>
         \A a \in DOMAIN received[s] : received[s][a] # q[poll.i].id

(* What a subscription has already been given a later message than.        *)
OvertakenWereHeld ==
  \A s \in 1 .. MaxSubs : \A a \in DOMAIN received[s], j \in Open :
    q[j].id < received[s][a] => q[j].id \in held

NoneMissing == ~CallbacksPublish => NothingLostSilently

IInv ==
  /\ TypeOK /\ PollInBounds /\ QueueInOrder /\ KeptWereHeld /\ OnePlaceEach
  /\ CalledInTurn /\ OvertakenWereHeld /\ OvertakesOnlyHeld /\ NoneMissing
=============================================================================

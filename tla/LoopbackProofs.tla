---------------------------- MODULE LoopbackProofs ----------------------------
(***************************************************************************)
(* The loopback delivers exactly once and in order but for what it was     *)
(* told to hold back, whatever the queue's size, the number of             *)
(* subscriptions and the periods of the configured loss, and whether or    *)
(* not a callback publishes; and where none does, it loses nothing it was  *)
(* not told to lose.                                                       *)
(***************************************************************************)
EXTENDS Loopback, FiniteSetTheorems, SequenceTheorems, TLAPS

(* A set of numbers that is not empty has a least element.                 *)
LEMMA LeastNumber ==
  ASSUME NEW S \in SUBSET Nat, S # {}
  PROVE  \E x \in S : \A y \in S : x <= y
<1> DEFINE F == {0 .. x : x \in S}
<1>1. F \subseteq FiniteSubsetsOf(Nat) /\ F # {}
  <2>1. ASSUME NEW x \in S
        PROVE  0 .. x \in FiniteSubsetsOf(Nat)
    <3>1. x \in Nat /\ IsFiniteSet(0 .. x) /\ 0 .. x \subseteq Nat
      BY FS_Interval
    <3> QED
      BY <3>1 DEF FiniteSubsetsOf
  <2> QED
    BY <2>1
<1>2. IsWellFoundedOn(StrictSubsetOrdering(Nat), FiniteSubsetsOf(Nat))
  BY FS_StrictSubsetOrderingWellFounded
<1>3. PICK X \in F : \A Y \in F : <<Y, X>> \notin StrictSubsetOrdering(Nat)
  <2> HIDE DEF F
  <2> QED
    BY <1>1, <1>2, WFMin
<1>4. PICK x \in S : X = 0 .. x
  BY <1>3
<1>5. ASSUME NEW y \in S
      PROVE  x <= y
  <2>1. <<0 .. y, 0 .. x>> \notin StrictSubsetOrdering(Nat)
    BY <1>3, <1>4
  <2>2. ~(0 .. y \subseteq 0 .. x /\ 0 .. y # 0 .. x)
    BY <2>1 DEF StrictSubsetOrdering
  <2>3. x \in Nat /\ y \in Nat
    OBVIOUS
  <2>4. SUFFICES ASSUME y < x PROVE FALSE
    BY <2>3
  <2>5. x \in 0 .. x /\ x \notin 0 .. y
    BY <2>3, <2>4
  <2>6. 0 .. y \subseteq 0 .. x
    BY <2>3, <2>4
  <2> QED
    BY <2>2, <2>5, <2>6
<1> QED
  BY <1>5

(* The slot fdt_transport_t::poll calls next is one still to be called,    *)
(* and the first of them.                                                  *)
LEMMA LeastToNotify ==
  ASSUME TypeOK, ToNotify # {}
  PROVE  Min(ToNotify) \in ToNotify /\ \A s \in ToNotify : Min(ToNotify) <= s
<1>1. ToNotify \in SUBSET Nat
  BY DEF ToNotify, TypeOK
<1>2. \E x \in ToNotify : \A y \in ToNotify : x <= y
  BY <1>1, LeastNumber
<1> QED
  BY <1>2 DEF Min

(* Keeping an entry moves it down and leaves the entries that are still to *)
(* be looked at, and those kept before, where they are.                    *)
LEMMA KeptEntries ==
  ASSUME TypeOK, NEW i \in 1 .. Len(q), poll.kept + 1 <= i
  PROVE  /\ Kept(i) \in Seq(Entry)
         /\ Len(Kept(i)) = Len(q)
         /\ Kept(i)[poll.kept + 1].id = q[i].id
         /\ Kept(i)[poll.kept + 1].topic = q[i].topic
         /\ Kept(i)[poll.kept + 1].deferred = FALSE
         /\ \A j \in 1 .. Len(q) : j # poll.kept + 1 /\ j # i => Kept(i)[j] = q[j]
<1> DEFINE e == [q[i] EXCEPT !.deferred = FALSE]
           r == [q EXCEPT ![poll.kept + 1] = e]
           f == [r[i] EXCEPT !.deferred = FALSE]
<1>1. /\ q \in Seq(Entry) /\ Len(q) \in Nat /\ poll.kept \in Nat
      /\ poll.kept + 1 \in 1 .. Len(q) /\ q[i] \in Entry
  BY DEF TypeOK, PollRecord
<1>2. e \in Entry /\ e.id = q[i].id /\ e.topic = q[i].topic /\ e.deferred = FALSE
  BY <1>1 DEF Entry
<1>3. /\ r \in Seq(Entry) /\ Len(r) = Len(q)
      /\ \A j \in 1 .. Len(q) : r[j] = IF j = poll.kept + 1 THEN e ELSE q[j]
  BY <1>1, <1>2, ExceptSeq
<1>4. r[i] \in Entry /\ r[i].id = q[i].id /\ r[i].topic = q[i].topic
  BY <1>1, <1>2, <1>3
<1>5. f \in Entry /\ f.id = q[i].id /\ f.topic = q[i].topic /\ f.deferred = FALSE
  BY <1>4 DEF Entry
<1>6. Kept(i) = [r EXCEPT ![i] = f]
  BY DEF Kept
<1>7. /\ [r EXCEPT ![i] = f] \in Seq(Entry) /\ Len([r EXCEPT ![i] = f]) = Len(q)
      /\ \A j \in 1 .. Len(q) : [r EXCEPT ![i] = f][j] = IF j = i THEN f ELSE r[j]
  <2> HIDE DEF e, r, f
  <2> QED
    BY <1>3, <1>5, ExceptSeq
<1> HIDE DEF e, r, f
<1> QED
  BY <1>1, <1>2, <1>3, <1>5, <1>6, <1>7
(* The entries of the queue carry numbers of messages.                     *)
LEMMA EntryIds ==
  ASSUME TypeOK
  PROVE  \A j \in 1 .. Len(q) : q[j] \in Entry /\ q[j].id \in 1 .. MaxSent
<1>1. \A j \in 1 .. Len(q) : q[j] \in Entry
  BY DEF TypeOK
<1> QED
  BY <1>1 DEF Entry

(* A transport nothing was published on, whatever it was told to lose and  *)
(* whoever subscribed.                                                     *)
Unused ==
  /\ q = <<>> /\ published = 0 /\ poll = NotPolling
  /\ dropEvery \in Period \cup {0} /\ deferEvery \in Period \cup {0}
  /\ subs \in Seq(Topic) /\ Len(subs) <= MaxSubs
  /\ sent = 0 /\ lost = {} /\ held = {} /\ delivered = {}
  /\ received = [s \in 1 .. MaxSubs |-> <<>>]

LEMMA UnusedIInv == Unused => IInv
<1> USE LoopbackAssumption
<1> SUFFICES ASSUME Unused PROVE IInv
  OBVIOUS
<1>1. /\ q = <<>> /\ Len(q) = 0 /\ poll = NotPolling /\ sent = 0 /\ lost = {}
      /\ held = {} /\ delivered = {} /\ subs \in Seq(Topic) /\ Len(subs) <= MaxSubs
      /\ received = [s \in 1 .. MaxSubs |-> <<>>]
      /\ published = 0 /\ dropEvery \in Period \cup {0} /\ deferEvery \in Period \cup {0}
  BY DEF Unused
<1>2. TypeOK
  BY <1>1 DEF TypeOK, PollRecord, NotPolling
<1>3. /\ poll.at = "idle" /\ poll.kept = 0 /\ poll.i = 0 /\ poll.sub = 0
      /\ Open = {} /\ UnderWay = {} /\ InFlight = {}
      /\ \A s \in 1 .. MaxSubs : DOMAIN received[s] = {}
  BY <1>1 DEF NotPolling, Open, UnderWay, InFlight
<1>4. PollInBounds /\ QueueInOrder /\ KeptWereHeld /\ OnePlaceEach
  BY <1>1, <1>3 DEF PollInBounds, QueueInOrder, KeptWereHeld, OnePlaceEach
<1>5. CalledInTurn /\ OvertakenWereHeld /\ OvertakesOnlyHeld
  BY <1>1, <1>3 DEF CalledInTurn, OvertakenWereHeld, OvertakesOnlyHeld, IsInjective
<1>6. NoneMissing
  BY <1>1, <1>3 DEF NoneMissing, NothingLostSilently
<1> QED
  BY <1>2, <1>4, <1>5, <1>6 DEF IInv

(* A transport just opened.                                                *)
LEMMA InitIInv == Init => IInv
<1>1. <<>> \in Seq(Topic) /\ Len(<<>>) <= MaxSubs
  BY LoopbackAssumption, EmptySeq
<1> QED
  BY <1>1, UnusedIInv DEF Init, Unused

(* Closing starts the transport again from nothing.                        *)
LEMMA CloseKeepsIInv ==
  ASSUME Close
  PROVE  IInv'
<1>1. Init'
  BY DEF Close, Init
<1> QED
  BY <1>1, InitIInv, PTL

(* A poll that starts has all of the queue before it.                      *)
LEMMA PollBeginKeepsIInv ==
  ASSUME IInv, PollBegin
  PROVE  IInv' /\ InFlight' = InFlight
<1> USE LoopbackAssumption
<1>1. /\ poll = NotPolling
      /\ poll' = [at |-> "scan", i |-> 0, pending |-> Len(q), kept |-> 0, sub |-> 0]
      /\ UNCHANGED <<q, published, dropEvery, deferEvery, subs, sent, lost, held,
                     delivered, received>>
      /\ Len(q) \in Nat /\ Len(q) <= QueueSize
  BY DEF IInv, TypeOK, PollRecord, PollInBounds, PollBegin, history
<1>2. TypeOK'
  BY <1>1 DEF IInv, TypeOK, PollRecord
<1>3. Open' = Open /\ UnderWay' = UnderWay /\ InFlight' = InFlight
  BY <1>1 DEF Open, UnderWay, InFlight, NotPolling
<1>4. PollInBounds'
  BY <1>1 DEF PollInBounds
<1>5. (QueueInOrder /\ KeptWereHeld /\ OnePlaceEach)'
  BY <1>1, <1>3 DEF IInv, QueueInOrder, KeptWereHeld, OnePlaceEach, NotPolling
<1>6. (CalledInTurn /\ OvertakenWereHeld /\ OvertakesOnlyHeld)'
  BY <1>1, <1>3 DEF IInv, CalledInTurn, OvertakenWereHeld, OvertakesOnlyHeld
<1>7. NoneMissing'
  BY <1>1, <1>3 DEF IInv, NoneMissing, NothingLostSilently
<1> QED
  BY <1>2, <1>4, <1>5, <1>6, <1>7, <1>3 DEF IInv

(* Configuring the loss touches nothing under way.                         *)
LEMMA SetLossKeepsIInv ==
  ASSUME IInv, NEW drop \in Period, NEW defer \in Period, SetLoss(drop, defer)
  PROVE  IInv' /\ InFlight' = InFlight
<1>1. UNCHANGED <<q, published, subs, poll, sent, lost, held, delivered, received>>
  BY DEF SetLoss, history
<1>2. TypeOK'
  BY <1>1 DEF IInv, TypeOK, SetLoss
<1>3. Open' = Open /\ UnderWay' = UnderWay /\ InFlight' = InFlight
  BY <1>1 DEF Open, UnderWay, InFlight
<1>4. (PollInBounds /\ QueueInOrder /\ KeptWereHeld /\ OnePlaceEach)'
  BY <1>1, <1>3 DEF IInv, PollInBounds, QueueInOrder, KeptWereHeld, OnePlaceEach
<1>5. (CalledInTurn /\ OvertakenWereHeld /\ OvertakesOnlyHeld /\ NoneMissing)'
  BY <1>1, <1>3
     DEF IInv, CalledInTurn, OvertakenWereHeld, OvertakesOnlyHeld, NoneMissing,
         NothingLostSilently
<1> QED
  BY <1>2, <1>4, <1>5, <1>3 DEF IInv

(* A new subscription has received nothing.                                *)
LEMMA SubscribeKeepsIInv ==
  ASSUME IInv, NEW t \in Topic, Subscribe(t)
  PROVE  IInv' /\ InFlight' = InFlight
<1>1. /\ UNCHANGED <<q, published, dropEvery, deferEvery, poll, sent, lost, held,
                     delivered, received>>
      /\ subs' = Append(subs, t) /\ Len(subs) < MaxSubs /\ subs \in Seq(Topic)
  BY DEF IInv, TypeOK, Subscribe, history
<1>2. TypeOK'
  <2>1. subs' \in Seq(Topic) /\ Len(subs') = Len(subs) + 1 /\ Len(subs) \in Nat
    BY <1>1, AppendProperties
  <2> QED
    BY <1>1, <2>1, LoopbackAssumption DEF IInv, TypeOK
<1>3. Open' = Open /\ UnderWay' = UnderWay /\ InFlight' = InFlight
  BY <1>1 DEF Open, UnderWay, InFlight
<1>4. (PollInBounds /\ QueueInOrder /\ KeptWereHeld /\ OnePlaceEach)'
  BY <1>1, <1>3 DEF IInv, PollInBounds, QueueInOrder, KeptWereHeld, OnePlaceEach
<1>5. (CalledInTurn /\ OvertakenWereHeld /\ OvertakesOnlyHeld /\ NoneMissing)'
  BY <1>1, <1>3
     DEF IInv, CalledInTurn, OvertakenWereHeld, OvertakesOnlyHeld, NoneMissing,
         NothingLostSilently
<1> QED
  BY <1>2, <1>4, <1>5, <1>3 DEF IInv

(* What is published comes last: a callback that publishes puts it behind  *)
(* everything the running poll looks at.                                   *)
LEMMA PublishKeepsIInv ==
  ASSUME IInv, sent < MaxSent, NEW t \in Topic, Publish(t)
  PROVE  /\ IInv'
         /\ \/ InFlight' = InFlight /\ lost' = lost \cup {sent + 1}
            \/ InFlight' = InFlight \cup {sent + 1} /\ lost' = lost
<1> USE LoopbackAssumption
<1> DEFINE id == sent + 1
           count == (published + 1) % CounterMod
           hold == Due(deferEvery, count)
           e == [topic |-> t, id |-> id, deferred |-> hold]
<1>1. /\ q \in Seq(Entry) /\ Len(q) \in Nat /\ Len(q) < QueueSize /\ id \in 1 .. MaxSent
      /\ sent \in Nat /\ sent' = id /\ published' = count
      /\ UNCHANGED <<dropEvery, deferEvery, subs, poll, delivered, received>>
  BY DEF IInv, TypeOK, PollRecord, Publish, HasRoom
<1>2. count \in 0 .. CounterMod - 1
  BY DEF IInv, TypeOK
<1>3. /\ poll.i \in Nat /\ poll.kept \in Nat /\ poll.kept <= Len(q) /\ poll.i <= Len(q)
      /\ poll.at = "deliver" => poll.i >= 1
  BY DEF IInv, TypeOK, PollRecord, PollInBounds, NotPolling
<1>4. \A j \in Open : j \in 1 .. Len(q)
  BY <1>1, <1>3 DEF Open
<1>5. UnderWay \subseteq Open
  BY <1>1, <1>3 DEF Open, UnderWay
<1>6. \A j \in Open : q[j].id \in Nat /\ q[j].id <= sent
  <2>1. \A j \in Open : q[j].id \in 1 .. MaxSent
    BY <1>4, EntryIds DEF IInv
  <2> QED
    BY <2>1 DEF IInv, QueueInOrder
<1>7. \A j \in Open : j \in Nat
  BY <1>4
<1>8. CASE Due(dropEvery, count)
  <2>1. UNCHANGED <<q, held>> /\ lost' = lost \cup {id}
    BY <1>8 DEF Publish
  <2>2. TypeOK'
    BY <1>1, <1>2, <2>1 DEF IInv, TypeOK
  <2>3. Open' = Open /\ UnderWay' = UnderWay /\ InFlight' = InFlight
    BY <1>1, <2>1 DEF Open, UnderWay, InFlight
  <2>4. PollInBounds' /\ KeptWereHeld'
    BY <1>1, <2>1 DEF IInv, PollInBounds, KeptWereHeld
  <2>5. QueueInOrder'
    BY <1>1, <1>6, <2>1, <2>3 DEF IInv, QueueInOrder
  <2>6. OnePlaceEach'
    <3>1. /\ delivered \cup lost \subseteq 1 .. sent /\ delivered \cap lost = {}
          /\ \A j \in UnderWay : q[j].id \notin delivered \cup lost /\ q[j].id <= sent
          /\ poll.at = "deliver" => q[poll.i].id \in delivered
      BY <1>5 DEF IInv, OnePlaceEach, QueueInOrder
    <3> QED
      BY <1>1, <2>1, <2>3, <3>1 DEF OnePlaceEach
  <2>7. (CalledInTurn /\ OvertakenWereHeld /\ OvertakesOnlyHeld)'
    BY <1>1, <2>1, <2>3 DEF IInv, CalledInTurn, OvertakenWereHeld, OvertakesOnlyHeld
  <2>8. NoneMissing'
    <3>1. 1 .. id = (1 .. sent) \cup {id}
      BY <1>1
    <3> QED
      BY <1>1, <2>1, <2>3, <3>1 DEF IInv, NoneMissing, NothingLostSilently
  <2> QED
    BY <2>1, <2>2, <2>3, <2>4, <2>5, <2>6, <2>7, <2>8 DEF IInv
<1>9. CASE ~Due(dropEvery, count)
  <2>1. /\ q' = Append(q, e) /\ lost' = lost
        /\ held' = IF hold THEN held \cup {id} ELSE held
    BY <1>9 DEF Publish, Queued
  <2>2. e \in Entry /\ e.id = id /\ e.deferred = hold
    BY <1>1 DEF Entry, Due
  <2>3. /\ q' \in Seq(Entry) /\ Len(q') = Len(q) + 1 /\ q'[Len(q) + 1] = e
        /\ \A j \in 1 .. Len(q) : q'[j] = q[j]
    BY <1>1, <2>1, <2>2, AppendProperties
  <2> HIDE DEF e, hold, count
  <2>4. TypeOK'
    BY <1>1, <1>2, <2>1, <2>3 DEF IInv, TypeOK
  <2>5. /\ Open' = Open \cup {Len(q) + 1} /\ UnderWay' = UnderWay \cup {Len(q) + 1}
        /\ \A j \in Open : j < Len(q) + 1 /\ q'[j] = q[j]
    BY <1>1, <1>3, <1>4, <2>3 DEF Open, UnderWay
  <2>6. InFlight' = InFlight \cup {id}
    BY <1>5, <2>2, <2>3, <2>5 DEF InFlight
  <2>7. PollInBounds'
    <3>1. poll.at = "idle" \/ CallbacksPublish
      BY DEF Publish, MayPublish
    <3> QED
      BY <1>1, <1>3, <2>3, <3>1 DEF IInv, PollInBounds, TypeOK, PollRecord
  <2>8. QueueInOrder'
    <3>1. q'[Len(q) + 1].id = sent + 1 /\ \A j \in Open : q'[j].id = q[j].id
      BY <2>2, <2>3, <2>5
    <3>2. \A j \in Open' : j \in Open \/ j = Len(q) + 1
      BY <2>5
    <3>3. \A j, k \in Open' : j < k => q'[j].id < q'[k].id
      <4> SUFFICES ASSUME NEW j \in Open', NEW k \in Open', j < k
                   PROVE  q'[j].id < q'[k].id
        OBVIOUS
      <4>1. j \in Open
        BY <1>1, <1>7, <2>5, <3>2
      <4>2. CASE k \in Open
        BY <3>1, <4>1, <4>2 DEF IInv, QueueInOrder
      <4>3. CASE k = Len(q) + 1
        BY <1>1, <1>6, <3>1, <4>1, <4>3
      <4> QED
        BY <3>2, <4>2, <4>3
    <3>4. \A j \in Open' : q'[j].id <= sent'
      BY <1>1, <1>6, <3>1, <3>2
    <3> QED
      BY <3>3, <3>4 DEF QueueInOrder
  <2>9. KeptWereHeld'
    BY <1>1, <1>3, <2>1, <2>2, <2>3 DEF IInv, KeptWereHeld
  <2>10. OnePlaceEach'
    <3>1. /\ delivered \cup lost \subseteq 1 .. sent /\ delivered \cap lost = {}
          /\ \A j \in UnderWay : q[j].id \notin delivered \cup lost /\ q'[j] = q[j]
          /\ poll.at = "deliver" => q[poll.i].id \in delivered /\ q'[poll.i] = q[poll.i]
      BY <1>1, <1>3, <1>5, <2>3, <2>5 DEF IInv, OnePlaceEach
    <3>2. id \notin delivered \cup lost
      BY <1>1, <3>1
    <3> QED
      <4>1. (delivered \cup lost \subseteq 1 .. sent /\ delivered \cap lost = {})'
        BY <1>1, <2>1, <3>1
      <4>2. ASSUME NEW j \in UnderWay'
            PROVE  q'[j].id \notin delivered \cup lost
        BY <2>2, <2>3, <2>5, <3>1, <3>2
      <4> QED
        BY <1>1, <2>1, <3>1, <4>1, <4>2 DEF OnePlaceEach
  <2>11. CalledInTurn'
    <3>1. poll.at = "deliver" => q'[poll.i] = q[poll.i]
      BY <1>1, <1>3, <2>3
    <3> QED
      BY <1>1, <3>1 DEF IInv, CalledInTurn
  <2>12. OvertakenWereHeld'
    <3>1. \A s \in 1 .. MaxSubs : \A a \in DOMAIN received[s] :
            received[s][a] \in Nat /\ received[s][a] <= sent
      BY <1>1 DEF IInv, CalledInTurn, OnePlaceEach
    <3> SUFFICES ASSUME NEW s \in 1 .. MaxSubs, NEW a \in DOMAIN received[s],
                        NEW j \in Open', q'[j].id < received[s][a]
                 PROVE  q'[j].id \in held'
      BY <1>1 DEF OvertakenWereHeld
    <3>2. j # Len(q) + 1
      BY <1>1, <2>2, <2>3, <3>1
    <3>3. j \in Open /\ q'[j] = q[j]
      BY <2>5, <3>2
    <3> QED
      BY <2>1, <3>3 DEF IInv, OvertakenWereHeld
  <2>13. OvertakesOnlyHeld'
    BY <1>1, <2>1 DEF IInv, OvertakesOnlyHeld
  <2>14. NoneMissing'
    <3>1. 1 .. id = (1 .. sent) \cup {id}
      BY <1>1
    <3> QED
      BY <1>1, <2>1, <2>6, <3>1 DEF IInv, NoneMissing, NothingLostSilently
  <2> QED
    BY <2>1, <2>4, <2>6, <2>7, <2>8, <2>9, <2>10, <2>11, <2>12, <2>13, <2>14
       DEF IInv
<1> QED
  BY <1>8, <1>9

(* Compaction: the entry that stays takes its place behind those kept      *)
(* before, which is in front of all that is still to be looked at.         *)
LEMMA PollKeepKeepsIInv ==
  ASSUME IInv, PollKeep
  PROVE  IInv' /\ InFlight' = InFlight
<1> USE LoopbackAssumption
<1> DEFINE i == poll.i + 1
           k == poll.kept + 1
           L == Len(q)
<1>0. poll.at = "scan" /\ i <= poll.pending /\ q[i].deferred
  BY DEF PollKeep
<1>1. /\ i \in Nat /\ k \in Nat /\ 1 <= k /\ k <= i /\ k - 1 = poll.kept
      /\ i <= poll.pending /\ poll.pending <= L
      /\ L \in Nat /\ L <= QueueSize /\ poll.sub = 0
      /\ ~CallbacksPublish => poll.pending = L
      /\ i \in 1 .. L /\ poll.at = "scan"
  BY <1>0 DEF IInv, TypeOK, PollRecord, PollInBounds
<1>2. /\ q' = Kept(i) /\ poll' = [poll EXCEPT !.i = i, !.kept = k]
      /\ UNCHANGED <<published, dropEvery, deferEvery, subs, sent, lost, held, delivered,
                     received>>
  BY DEF PollKeep, history
<1>3. /\ q' \in Seq(Entry) /\ Len(q') = L /\ q'[k].id = q[i].id
      /\ \A j \in 1 .. L : j # k /\ j # i => q'[j] = q[j]
  BY <1>1, <1>2, KeptEntries DEF IInv
<1>4. /\ poll'.i = i /\ poll'.kept = k /\ poll'.pending = poll.pending
      /\ poll'.at = "scan" /\ poll'.sub = 0
  BY <1>1, <1>2 DEF IInv, TypeOK, PollRecord
<1>5. TypeOK'
  <2>1. poll' \in PollRecord
    <3>1. poll \in PollRecord /\ i \in 0 .. QueueSize /\ k \in 0 .. QueueSize
      BY <1>1 DEF IInv, TypeOK
    <3> QED
      BY <1>2, <3>1 DEF PollRecord
  <2> QED
    BY <1>1, <1>2, <1>3, <2>1 DEF IInv, TypeOK
<1>6. PollInBounds'
  BY <1>1, <1>3, <1>4 DEF PollInBounds
<1>7. /\ Open = (1 .. poll.kept) \cup (i .. L) /\ Open' = (1 .. k) \cup (i + 1 .. L)
      /\ UnderWay = Open /\ UnderWay' = Open'
  BY <1>1, <1>3, <1>4 DEF Open, UnderWay
<1>8. ASSUME NEW j \in Open', j # k
      PROVE  j \in Open /\ j # i /\ q'[j].id = q[j].id /\ (j < k <=> j < i)
  BY <1>1, <1>3, <1>7, <1>8
<1>9. i \in Open /\ k \in Open' /\ q'[k].id = q[i].id
  BY <1>1, <1>3, <1>7
<1>10. InFlight' = InFlight
  <2>1. ASSUME NEW j \in Open
        PROVE  \E m \in Open' : q'[m].id = q[j].id
    <3>1. CASE j = i
      BY <1>9, <3>1
    <3>2. CASE j # i
      <4>1. (j \in Open' /\ j # k) \/ (j = k /\ k = i)
        BY <1>1, <1>7, <2>1, <3>2
      <4> QED
        BY <1>8, <3>2, <4>1
    <3> QED
      BY <3>1, <3>2
  <2>2. ASSUME NEW j \in Open'
        PROVE  \E m \in Open : q[m].id = q'[j].id
    BY <1>8, <1>9
  <2>3. InFlight = {q[j].id : j \in Open} /\ InFlight' = {q'[j].id : j \in Open'}
    BY <1>7 DEF InFlight
  <2>4. InFlight \subseteq InFlight'
    BY <2>1, <2>3, Zenon
  <2>5. InFlight' \subseteq InFlight
    BY <2>2, <2>3, Zenon
  <2> QED
    BY <2>4, <2>5
<1>11. QueueInOrder'
  <2>1. ASSUME NEW j \in Open', NEW m \in Open', j < m
        PROVE  q'[j].id < q'[m].id
    <3>1. CASE j # k /\ m # k
      BY <1>8, <2>1, <3>1 DEF IInv, QueueInOrder
    <3>2. CASE j = k
      <4>1. m # k /\ ~(m < k) /\ m \in Nat
        BY <1>1, <1>7, <2>1, <3>2
      <4>2. m \in Open /\ m # i /\ q'[m].id = q[m].id /\ ~(m < i)
        BY <1>8, <4>1
      <4>3. i < m
        BY <1>1, <4>1, <4>2
      <4> QED
        BY <1>9, <3>2, <4>2, <4>3 DEF IInv, QueueInOrder
    <3>3. CASE m = k
      <4>1. j # k /\ j < k
        BY <1>1, <1>7, <2>1, <3>3
      <4>2. j \in Open /\ q'[j].id = q[j].id /\ j < i
        BY <1>8, <4>1
      <4> QED
        BY <1>9, <3>3, <4>2 DEF IInv, QueueInOrder
    <3> QED
      BY <3>1, <3>2, <3>3
  <2>2. ASSUME NEW j \in Open'
        PROVE  q'[j].id <= sent'
    BY <1>2, <1>8, <1>9 DEF IInv, QueueInOrder
  <2> QED
    BY <2>1, <2>2 DEF QueueInOrder
<1>12. KeptWereHeld'
  <2>1. q[i].id \in held
    BY <1>0, <1>1 DEF IInv, KeptWereHeld
  <2>2. ASSUME NEW j \in 1 .. k
        PROVE  q'[j].id \in held
    <3>1. CASE j = k
      BY <1>9, <2>1, <3>1
    <3>2. CASE j # k
      <4>1. j \in Open' /\ j \in 1 .. poll.kept
        BY <1>1, <1>7, <2>2, <3>2
      <4> QED
        BY <1>8, <3>2, <4>1 DEF IInv, KeptWereHeld
    <3> QED
      BY <3>1, <3>2
  <2>3. ASSUME NEW j \in i + 1 .. L, q'[j].deferred
        PROVE  q'[j].id \in held
    <3>1. j \in 1 .. L /\ j # k /\ j # i /\ j \in poll.i + 1 .. L
      BY <1>1, <2>3
    <3>2. q'[j] = q[j]
      BY <1>3, <3>1
    <3> QED
      BY <2>3, <3>1, <3>2 DEF IInv, KeptWereHeld
  <2> QED
    BY <1>2, <1>3, <1>4, <2>2, <2>3 DEF KeptWereHeld
<1>13. OnePlaceEach'
  <2>1. ASSUME NEW j \in UnderWay'
        PROVE  q'[j].id \notin delivered \cup lost
    BY <1>7, <1>8, <1>9 DEF IInv, OnePlaceEach
  <2> QED
    BY <1>2, <1>4, <2>1 DEF IInv, OnePlaceEach
<1>14. CalledInTurn' /\ OvertakesOnlyHeld'
  BY <1>2, <1>4 DEF IInv, CalledInTurn, OvertakesOnlyHeld
<1>15. OvertakenWereHeld'
  <2> SUFFICES ASSUME NEW s \in 1 .. MaxSubs, NEW a \in DOMAIN received[s],
                      NEW j \in Open', q'[j].id < received[s][a]
               PROVE  q'[j].id \in held
    BY <1>2 DEF OvertakenWereHeld
  <2> QED
    BY <1>8, <1>9 DEF IInv, OvertakenWereHeld
<1>16. NoneMissing'
  BY <1>2, <1>10 DEF IInv, NoneMissing, NothingLostSilently
<1> QED
  BY <1>5, <1>6, <1>11, <1>12, <1>13, <1>14, <1>15, <1>16, <1>10 DEF IInv

(* The entry handed out leaves the queue and joins what was delivered.     *)
LEMMA PollDeliverKeepsIInv ==
  ASSUME IInv, PollDeliver
  PROVE  /\ IInv'
         /\ q[poll.i + 1].id \in InFlight
         /\ InFlight' = InFlight \ {q[poll.i + 1].id}
         /\ delivered' = delivered \cup {q[poll.i + 1].id}
<1> USE LoopbackAssumption
<1> DEFINE i == poll.i + 1
           k == poll.kept
           L == Len(q)
<1>1. /\ i \in Nat /\ k \in Nat /\ k < i /\ i <= poll.pending /\ poll.pending <= L
      /\ L \in Nat /\ L <= QueueSize /\ poll.sub = 0
      /\ ~CallbacksPublish => poll.pending = L
      /\ i \in 1 .. L /\ poll.at = "scan"
  BY DEF IInv, TypeOK, PollRecord, PollInBounds, PollDeliver
<1>2. /\ delivered' = delivered \cup {q[i].id}
      /\ poll' = [poll EXCEPT !.at = "deliver", !.i = i, !.sub = 0]
      /\ UNCHANGED <<q, published, dropEvery, deferEvery, subs, sent, lost, held, received>>
  BY DEF PollDeliver
<1>3. /\ poll'.i = i /\ poll'.kept = k /\ poll'.pending = poll.pending
      /\ poll'.at = "deliver" /\ poll'.sub = 0
  BY <1>1, <1>2 DEF IInv, TypeOK, PollRecord
<1>4. /\ Open = (1 .. k) \cup (i .. L) /\ Open' = Open
      /\ UnderWay = Open /\ UnderWay' = (1 .. k) \cup (i + 1 .. L)
  BY <1>1, <1>2, <1>3 DEF Open, UnderWay
<1>5. i \in Open /\ UnderWay = UnderWay' \cup {i}
  BY <1>1, <1>4
<1>6. \A j \in 1 .. L : q[j].id \in 1 .. MaxSent
  BY EntryIds DEF IInv
<1>7. ASSUME NEW j \in UnderWay'
      PROVE  q[j].id # q[i].id /\ j \in UnderWay
  <2>1. j \in Open /\ j \in 1 .. L /\ (j < i \/ i < j)
    BY <1>1, <1>4
  <2>2. q[j].id < q[i].id \/ q[i].id < q[j].id
    BY <1>5, <2>1 DEF IInv, QueueInOrder
  <2> QED
    BY <1>1, <1>4, <1>6, <2>1, <2>2
<1>8. q[i].id \in 1 .. sent /\ q[i].id \notin delivered \cup lost
  <2>1. q[i].id <= sent /\ q[i].id \in 1 .. MaxSent /\ sent \in Nat
    BY <1>1, <1>5, <1>6 DEF IInv, QueueInOrder, TypeOK, PollRecord
  <2> QED
    BY <1>4, <1>5, <2>1 DEF IInv, OnePlaceEach
<1>9. TypeOK'
  <2>1. poll' \in PollRecord
    <3>1. /\ poll \in PollRecord /\ i \in 0 .. QueueSize /\ k \in 0 .. QueueSize
          /\ 0 \in 0 .. MaxSubs
      BY <1>1 DEF IInv, TypeOK
    <3> QED
      BY <1>2, <3>1 DEF PollRecord
  <2>2. delivered' \subseteq 1 .. MaxSent
    BY <1>1, <1>2, <1>6 DEF IInv, TypeOK
  <2> QED
    BY <1>2, <2>1, <2>2 DEF IInv, TypeOK
<1>10. PollInBounds'
  BY <1>1, <1>2, <1>3 DEF PollInBounds
<1>11. QueueInOrder' /\ OvertakenWereHeld' /\ OvertakesOnlyHeld'
  BY <1>2, <1>4 DEF IInv, QueueInOrder, OvertakenWereHeld, OvertakesOnlyHeld
<1>12. KeptWereHeld'
  BY <1>1, <1>2, <1>3 DEF IInv, KeptWereHeld
<1>13. OnePlaceEach'
  BY <1>2, <1>3, <1>7, <1>8 DEF IInv, OnePlaceEach
<1>14. CalledInTurn'
  <2>1. \A s \in 1 .. MaxSubs : \A a \in DOMAIN received[s] : received[s][a] # q[i].id
    BY <1>8 DEF IInv, CalledInTurn
  <2> QED
    BY <1>2, <1>3, <2>1 DEF IInv, CalledInTurn
<1>15. InFlight = InFlight' \cup {q[i].id} /\ q[i].id \notin InFlight'
  BY <1>2, <1>5, <1>7 DEF InFlight
<1>16. NoneMissing'
  BY <1>2, <1>15 DEF IInv, NoneMissing, NothingLostSilently
<1> QED
  BY <1>2, <1>9, <1>10, <1>11, <1>12, <1>13, <1>14, <1>15, <1>16 DEF IInv

(* A subscription that is called gets the entry for the first time, and    *)
(* what it gets after a later message was held back.                       *)
LEMMA NotifyKeepsIInv ==
  ASSUME IInv, Notify
  PROVE  IInv' /\ InFlight' = InFlight
<1> USE LoopbackAssumption
<1> DEFINE s == Min(ToNotify)
           m == q[poll.i].id
<1>1. /\ poll.at = "deliver" /\ s \in ToNotify
      /\ received' = [received EXCEPT ![s] = Append(@, m)] /\ poll' = [poll EXCEPT !.sub = s]
      /\ UNCHANGED <<q, published, dropEvery, deferEvery, subs, sent, lost, held, delivered>>
  BY LeastToNotify DEF IInv, Notify
<1>2. /\ s \in DOMAIN subs /\ s > poll.sub /\ s \in 1 .. MaxSubs
      /\ poll.sub \in Nat /\ poll.kept < poll.i /\ poll.i <= poll.pending
      /\ poll.pending <= Len(q) /\ poll.i \in 1 .. Len(q) /\ poll.kept \in Nat
  <2>1. /\ poll.sub \in Nat /\ poll.kept \in Nat /\ poll.i \in Nat /\ Len(q) \in Nat
        /\ poll.pending \in Nat /\ poll.kept < poll.i /\ poll.i <= poll.pending
        /\ poll.pending <= Len(q)
    BY <1>1 DEF IInv, TypeOK, PollRecord, PollInBounds
  <2>2. subs \in Seq(Topic) /\ Len(subs) <= MaxSubs
    BY DEF IInv, TypeOK
  <2>3. s \in DOMAIN subs /\ s > poll.sub
    BY <1>1 DEF ToNotify
  <2>4. s \in 1 .. MaxSubs
    BY <2>2, <2>3
  <2> QED
    BY <2>1, <2>3, <2>4
<1> HIDE DEF s
<1>3. /\ poll'.at = "deliver" /\ poll'.i = poll.i /\ poll'.kept = poll.kept
      /\ poll'.pending = poll.pending /\ poll'.sub = s /\ poll' \in PollRecord
  <2>1. poll \in PollRecord /\ s \in 0 .. MaxSubs
    BY <1>2 DEF IInv, TypeOK
  <2> QED
    BY <1>1, <2>1 DEF PollRecord
<1>4. /\ m \in 1 .. MaxSent /\ m \in delivered
      /\ received \in [1 .. MaxSubs -> Seq(1 .. MaxSent)]
  BY <1>1, <1>2, EntryIds DEF IInv, OnePlaceEach, TypeOK
<1>5. /\ Open' = Open /\ UnderWay' = UnderWay /\ InFlight' = InFlight
      /\ q'[poll'.i].id = m
  BY <1>1, <1>3 DEF Open, UnderWay, InFlight
<1> HIDE DEF m
<1> DEFINE n == Len(received[s]) + 1
<1>6. /\ n \in Nat /\ n - 1 \in Nat /\ DOMAIN received[s] = 1 .. n - 1
      /\ received'[s] \in Seq(1 .. MaxSent) /\ DOMAIN received'[s] = 1 .. n
      /\ received'[s][n] = m /\ \A a \in 1 .. n - 1 : received'[s][a] = received[s][a]
      /\ \A r \in 1 .. MaxSubs : r # s => received'[r] = received[r]
  <2>1. received[s] \in Seq(1 .. MaxSent) /\ received'[s] = Append(received[s], m)
    BY <1>1, <1>2, <1>4
  <2>2. /\ received'[s] \in Seq(1 .. MaxSent) /\ Len(received'[s]) = n
        /\ \A a \in 1 .. Len(received[s]) : received'[s][a] = received[s][a]
        /\ received'[s][n] = m
    BY <1>4, <2>1, AppendProperties
  <2>3. /\ Len(received[s]) \in Nat /\ DOMAIN received[s] = 1 .. Len(received[s])
        /\ DOMAIN received'[s] = 1 .. Len(received'[s])
    BY <2>1, <2>2
  <2> QED
    BY <1>1, <1>2, <1>4, <2>2, <2>3
<1> HIDE DEF n
<1>7. TypeOK'
  <2>1. received' \in [1 .. MaxSubs -> Seq(1 .. MaxSent)]
    BY <1>1, <1>4, <1>6
  <2> QED
    BY <1>1, <1>3, <2>1 DEF IInv, TypeOK
<1>8. PollInBounds'
  BY <1>1, <1>2, <1>3 DEF IInv, PollInBounds
<1>9. QueueInOrder' /\ KeptWereHeld'
  BY <1>1, <1>3, <1>5 DEF IInv, QueueInOrder, KeptWereHeld
<1>10. OnePlaceEach'
  BY <1>1, <1>3, <1>4, <1>5 DEF IInv, OnePlaceEach
<1>11. \A a \in 1 .. n - 1 : received[s][a] # m
  BY <1>1, <1>2, <1>6 DEF IInv, CalledInTurn, m
<1>12. CalledInTurn'
  <2> SUFFICES ASSUME NEW r \in 1 .. MaxSubs
               PROVE  /\ \A a \in DOMAIN received'[r] : received'[r][a] \in delivered
                      /\ IsInjective(received'[r])
                      /\ r > s => \A a \in DOMAIN received'[r] : received'[r][a] # m
    BY <1>1, <1>3, <1>5 DEF CalledInTurn
  <2>1. CASE r = s
    <3>1. \A a \in 1 .. n - 1 : received[s][a] \in delivered
      BY <1>2, <1>6 DEF IInv, CalledInTurn
    <3>2. \A a, b \in 1 .. n - 1 : received[s][a] = received[s][b] => a = b
      BY <1>2, <1>6 DEF IInv, CalledInTurn, IsInjective
    <3>3. \A a \in 1 .. n : received'[s][a] \in delivered
      <4>1. \A a \in 1 .. n : a = n \/ a \in 1 .. n - 1
        BY <1>6
      <4> QED
        BY <1>4, <1>6, <3>1, <4>1
    <3>4. \A a, b \in 1 .. n : received'[s][a] = received'[s][b] => a = b
      <4>1. \A a \in 1 .. n - 1 : received'[s][a] = received[s][a] /\ received[s][a] # m
        BY <1>6, <1>11
      <4>2. \A a \in 1 .. n : a = n \/ a \in 1 .. n - 1
        BY <1>6
      <4>3. received'[s][n] = m
        BY <1>6
      <4> QED
        BY <3>2, <4>1, <4>2, <4>3, Zenon
    <3>5. IsInjective(received'[s])
      BY <1>6, <3>4 DEF IsInjective
    <3>6. ~(s > s)
      BY <1>2
    <3> QED
      BY <1>6, <2>1, <3>3, <3>5, <3>6
  <2>2. CASE r # s
    <3>1. received'[r] = received[r]
      BY <1>6, <2>2
    <3>2. r > s => r > poll.sub
      BY <1>2
    <3> QED
      BY <1>1, <3>1, <3>2 DEF IInv, CalledInTurn, m
  <2> QED
    BY <2>1, <2>2
(* Everything under way in front of the entry was kept, so held back.      *)
<1>13. \A j \in Open : q[j].id < m => q[j].id \in held
  <2> SUFFICES ASSUME NEW j \in Open, q[j].id < m
               PROVE  q[j].id \in held
    OBVIOUS
  <2>1. poll.i \in Open /\ (j \in 1 .. poll.kept \/ j = poll.i \/ (j > poll.i /\ j \in Nat))
    BY <1>1, <1>2 DEF Open
  <2>2. CASE j \in 1 .. poll.kept
    BY <2>2 DEF IInv, KeptWereHeld
  <2>3. CASE j = poll.i
    BY <1>4, <2>3 DEF m
  <2>4. CASE j > poll.i /\ j \in Nat
    <3>1. m < q[j].id
      BY <1>2, <2>1, <2>4 DEF IInv, QueueInOrder, m
    <3>2. q[j].id \in Nat
      <4>1. j \in 1 .. Len(q)
        BY <1>1, <1>2 DEF Open
      <4> QED
        BY <4>1, EntryIds DEF IInv
    <3> QED
      BY <1>4, <3>1, <3>2
  <2> QED
    BY <2>1, <2>2, <2>3, <2>4
<1>14. \A a \in 1 .. n - 1 : m < received[s][a] => m \in held
  <2>1. poll.i \in Open
    BY <1>1, <1>2 DEF Open
  <2> QED
    BY <1>2, <1>6, <2>1 DEF IInv, OvertakenWereHeld, m
<1>15. OvertakenWereHeld'
  <2> SUFFICES ASSUME NEW r \in 1 .. MaxSubs, NEW a \in DOMAIN received'[r],
                      NEW j \in Open, q[j].id < received'[r][a]
               PROVE  q[j].id \in held
    BY <1>1, <1>5 DEF OvertakenWereHeld
  <2>1. CASE r = s /\ a = n
    BY <1>6, <1>13, <2>1
  <2>2. CASE r # s \/ a # n
    <3>1. received'[r][a] = received[r][a] /\ a \in DOMAIN received[r]
      BY <1>6, <2>2
    <3> QED
      BY <3>1 DEF IInv, OvertakenWereHeld
  <2> QED
    BY <2>1, <2>2
<1>16. OvertakesOnlyHeld'
  <2> SUFFICES ASSUME NEW r \in 1 .. MaxSubs, NEW a \in DOMAIN received'[r],
                      NEW b \in DOMAIN received'[r], a < b,
                      received'[r][b] < received'[r][a]
               PROVE  received'[r][b] \in held
    BY <1>1 DEF OvertakesOnlyHeld
  <2>1. CASE r = s /\ b = n
    <3>1. a \in 1 .. n - 1
      BY <1>6, <2>1
    <3> QED
      BY <1>6, <1>14, <2>1, <3>1
  <2>2. CASE r = s /\ b # n
    <3>1. a \in 1 .. n - 1 /\ b \in 1 .. n - 1
      BY <1>6, <2>2
    <3> QED
      BY <1>2, <1>6, <2>2, <3>1 DEF IInv, OvertakesOnlyHeld
  <2>3. CASE r # s
    <3>1. received'[r] = received[r]
      BY <1>6, <2>3
    <3> QED
      BY <3>1 DEF IInv, OvertakesOnlyHeld
  <2> QED
    BY <2>1, <2>2, <2>3
<1>17. NoneMissing'
  BY <1>1, <1>5 DEF IInv, NoneMissing, NothingLostSilently
<1> QED
  BY <1>7, <1>8, <1>9, <1>10, <1>12, <1>15, <1>16, <1>17, <1>5 DEF IInv

(* All its subscriptions called, the entry is done with.                   *)
LEMMA AllNotifiedKeepsIInv ==
  ASSUME IInv, AllNotified
  PROVE  IInv' /\ InFlight' = InFlight
<1> USE LoopbackAssumption
<1>1. /\ poll.at = "deliver" /\ poll' = [poll EXCEPT !.at = "scan", !.sub = 0]
      /\ UNCHANGED <<q, published, dropEvery, deferEvery, subs, sent, lost, held, delivered,
                     received>>
  BY DEF AllNotified, history
<1>2. /\ poll'.at = "scan" /\ poll'.i = poll.i /\ poll'.kept = poll.kept
      /\ poll'.pending = poll.pending /\ poll'.sub = 0 /\ poll' \in PollRecord
  <2>1. poll \in PollRecord /\ 0 \in 0 .. MaxSubs
    BY DEF IInv, TypeOK
  <2> QED
    BY <1>1, <2>1 DEF PollRecord
<1>3. Open' \subseteq Open /\ UnderWay' = UnderWay /\ InFlight' = InFlight
  <2>1. poll.i \in Nat /\ Len(q) \in Nat
    BY DEF IInv, TypeOK, PollRecord
  <2> QED
    BY <1>1, <1>2, <2>1 DEF Open, UnderWay, InFlight
<1>4. TypeOK'
  BY <1>1, <1>2 DEF IInv, TypeOK
<1>5. PollInBounds' /\ QueueInOrder' /\ KeptWereHeld' /\ OnePlaceEach'
  <2>1. PollInBounds'
    BY <1>1, <1>2 DEF IInv, PollInBounds
  <2>2. QueueInOrder' /\ KeptWereHeld'
    BY <1>1, <1>2, <1>3 DEF IInv, QueueInOrder, KeptWereHeld
  <2>3. OnePlaceEach'
    BY <1>1, <1>2, <1>3 DEF IInv, OnePlaceEach
  <2> QED
    BY <2>1, <2>2, <2>3
<1>6. (CalledInTurn /\ OvertakenWereHeld /\ OvertakesOnlyHeld /\ NoneMissing)'
  BY <1>1, <1>2, <1>3
     DEF IInv, CalledInTurn, OvertakenWereHeld, OvertakesOnlyHeld, NoneMissing,
         NothingLostSilently
<1> QED
  BY <1>4, <1>5, <1>6, <1>3 DEF IInv

(* The queue is cut to what was kept, which without reentrant publishing   *)
(* is all that was still under way.                                        *)
LEMMA PollEndKeepsIInv ==
  ASSUME IInv, PollEnd
  PROVE  IInv' /\ (~CallbacksPublish => InFlight' = InFlight)
<1> USE LoopbackAssumption
<1> DEFINE k == poll.kept
<1>1. /\ poll.at = "scan" /\ poll.i = poll.pending /\ q' = SubSeq(q, 1, k)
      /\ poll' = NotPolling
      /\ UNCHANGED <<published, dropEvery, deferEvery, subs, sent, lost, held, delivered,
                     received>>
  BY DEF PollEnd, Left, history
<1>2. /\ k \in Nat /\ k <= poll.i /\ poll.i \in Nat /\ poll.i <= Len(q) /\ Len(q) \in Nat
      /\ Len(q) <= QueueSize /\ q \in Seq(Entry)
  BY <1>1 DEF IInv, TypeOK, PollRecord, PollInBounds
<1>3. /\ q' \in Seq(Entry) /\ Len(q') = k
      /\ \A j \in 1 .. k : q'[j] = q[j]
  <2>1. \A j \in 1 .. k : q[j] \in Entry
    BY <1>2
  <2> HIDE DEF k
  <2> QED
    BY <1>1, <1>2, <2>1, SubSeqProperties
<1>4. /\ poll'.at = "idle" /\ poll'.i = 0 /\ poll'.kept = 0 /\ poll'.sub = 0
      /\ poll' \in PollRecord
  BY <1>1 DEF NotPolling, PollRecord
<1>5. /\ Open' = 1 .. k /\ UnderWay' = 1 .. k
      /\ 1 .. k \subseteq Open /\ 1 .. k \subseteq UnderWay
  BY <1>2, <1>3, <1>4 DEF Open, UnderWay
<1>6. TypeOK'
  BY <1>1, <1>2, <1>3, <1>4 DEF IInv, TypeOK
<1>7. PollInBounds'
  BY <1>1, <1>4 DEF PollInBounds
<1>8. QueueInOrder'
  BY <1>1, <1>3, <1>5 DEF IInv, QueueInOrder
<1>9. KeptWereHeld'
  BY <1>1, <1>3, <1>4 DEF IInv, KeptWereHeld
<1>10. OnePlaceEach'
  BY <1>1, <1>3, <1>4, <1>5 DEF IInv, OnePlaceEach
<1>11. CalledInTurn' /\ OvertakesOnlyHeld'
  BY <1>1, <1>4 DEF IInv, CalledInTurn, OvertakesOnlyHeld
<1>12. OvertakenWereHeld'
  BY <1>1, <1>3, <1>5 DEF IInv, OvertakenWereHeld
<1>13. ~CallbacksPublish => InFlight' = InFlight
  <2> SUFFICES ASSUME ~CallbacksPublish
               PROVE  InFlight' = InFlight
    OBVIOUS
  <2>1. poll.i = Len(q)
    BY <1>1 DEF IInv, PollInBounds
  <2>2. UnderWay = 1 .. k
    BY <1>2, <2>1 DEF UnderWay
  <2> QED
    BY <1>3, <1>5, <2>2 DEF InFlight
<1>14. NoneMissing'
  BY <1>1, <1>13 DEF IInv, NoneMissing, NothingLostSilently
<1> QED
  BY <1>6, <1>7, <1>8, <1>9, <1>10, <1>11, <1>12, <1>13, <1>14 DEF IInv

(* Every step of the transport keeps the invariant.                        *)
LEMMA LoopbackInvariant == Spec => []IInv
<1>1. IInv /\ [Next]_vars => IInv'
  <2> SUFFICES ASSUME IInv, [Next]_vars
               PROVE  IInv'
    OBVIOUS
  <2>1. ASSUME NEW drop \in Period, NEW defer \in Period, SetLoss(drop, defer)
        PROVE  IInv'
    BY <2>1, SetLossKeepsIInv
  <2>2. ASSUME NEW t \in Topic, Subscribe(t)
        PROVE  IInv'
    BY <2>2, SubscribeKeepsIInv
  <2>3. ASSUME sent < MaxSent, NEW t \in Topic, Publish(t)
        PROVE  IInv'
    BY <2>3, PublishKeepsIInv
  <2>4. CASE Poll
    BY <2>4, PollBeginKeepsIInv, PollKeepKeepsIInv, PollDeliverKeepsIInv, NotifyKeepsIInv,
       AllNotifiedKeepsIInv, PollEndKeepsIInv DEF Poll
  <2>5. CASE Close
    BY <2>5, CloseKeepsIInv
  <2>6. CASE UNCHANGED vars
    <3>1. UNCHANGED <<q, published, dropEvery, deferEvery, subs, poll, sent, lost, held,
                      delivered, received>>
      BY <2>6 DEF vars, history
    <3>2. (TypeOK /\ PollInBounds /\ Open = Open /\ UnderWay = UnderWay)'
      BY <3>1 DEF IInv, TypeOK, PollInBounds
    <3>3. Open' = Open /\ UnderWay' = UnderWay /\ InFlight' = InFlight
      BY <3>1 DEF Open, UnderWay, InFlight
    <3>4. (QueueInOrder /\ KeptWereHeld /\ OnePlaceEach)'
      BY <3>1, <3>3 DEF IInv, QueueInOrder, KeptWereHeld, OnePlaceEach
    <3>5. (CalledInTurn /\ OvertakenWereHeld /\ OvertakesOnlyHeld /\ NoneMissing)'
      BY <3>1, <3>3
         DEF IInv, CalledInTurn, OvertakenWereHeld, OvertakesOnlyHeld, NoneMissing,
             NothingLostSilently
    <3> QED
      BY <3>2, <3>4, <3>5 DEF IInv
  <2> QED
    BY <2>1, <2>2, <2>3, <2>4, <2>5, <2>6 DEF Next
<1> QED
  BY InitIInv, <1>1, PTL DEF Spec

(* The transport keeps its types: loop_poll's indices stay inside the      *)
(* queue, and the queue inside its array, a publishing callback included.  *)
THEOREM LoopbackTypeCorrect == Spec => []TypeOK
<1>1. IInv => TypeOK
  BY DEF IInv
<1> QED
  BY <1>1, LoopbackInvariant, PTL

(* "Exactly once" (transport_loop.c), a publishing callback included.      *)
THEOREM LoopbackExactlyOnce == Spec => []ExactlyOnce
<1>1. IInv => ExactlyOnce
  BY DEF IInv, ExactlyOnce, OnePlaceEach, CalledInTurn, InFlight
<1> QED
  BY <1>1, LoopbackInvariant, PTL

(* Reordering is what defer_every asked for and nothing else, although     *)
(* the queue is compacted while it is scanned.                             *)
THEOREM LoopbackOvertakesOnlyHeld == Spec => []OvertakesOnlyHeld
<1>1. IInv => OvertakesOnlyHeld
  BY DEF IInv
<1> QED
  BY <1>1, LoopbackInvariant, PTL

(* Where no callback publishes, every message accepted is delivered, under *)
(* way or taken by the configured loss.                                    *)
THEOREM LoopbackLosesNothing ==
  ASSUME ~CallbacksPublish
  PROVE  Spec => []NothingLostSilently
<1>1. IInv => NothingLostSilently
  BY DEF IInv, NoneMissing
<1> QED
  BY <1>1, LoopbackInvariant, PTL

(* Between polls no more is under way than the queue has entries.          *)
LEMMA FlightFitsQueue ==
  ASSUME IInv, poll.at = "idle"
  PROVE  Cardinality(InFlight) \in Nat /\ Cardinality(InFlight) <= Len(q)
<1> DEFINE f == [j \in 1 .. Len(q) |-> q[j].id]
<1>1. Len(q) \in Nat
  BY DEF IInv, TypeOK
<1>2. UnderWay = 1 .. Len(q)
  BY <1>1 DEF IInv, PollInBounds, NotPolling, UnderWay
<1>3. f \in Surjection(1 .. Len(q), InFlight)
  BY <1>2 DEF InFlight, Surjection
<1>4. IsFiniteSet(1 .. Len(q)) /\ Cardinality(1 .. Len(q)) = Len(q)
  <2> DEFINE n == Len(q)
  <2>1. 1 \in Int /\ n \in Int /\ n >= 0
    BY <1>1
  <2> HIDE DEF n
  <2>2. IsFiniteSet(1 .. n) /\ Cardinality(1 .. n) = IF 1 > n THEN 0 ELSE n - 1 + 1
    BY <2>1, FS_Interval
  <2>3. Cardinality(1 .. n) = n
    BY <2>1, <2>2
  <2> QED
    BY <2>2, <2>3 DEF n
<1> HIDE DEF f
<1>5. IsFiniteSet(InFlight) /\ Cardinality(InFlight) <= Cardinality(1 .. Len(q))
  BY <1>3, <1>4, FS_Surjection
<1> QED
  BY <1>4, <1>5, FS_CardinalityType

(* The loopback whose callbacks do not publish implements the link that    *)
(* loses only what it was told to lose: the compaction, the scan and the   *)
(* callbacks are not seen, and a message leaves when its entry is reached. *)
THEOREM LoopbackImplementsLink ==
  ASSUME ~CallbacksPublish
  PROVE  Spec => ImplementsLink
<1>1. Init => Link!Init
  BY DEF Init, Link!Init, InFlight, UnderWay, NotPolling
<1>2. IInv /\ [Next]_vars => [Link!Next]_(Link!vars)
  <2> SUFFICES ASSUME IInv, [Next]_vars
               PROVE  [Link!Next]_(Link!vars)
    OBVIOUS
  <2>1. ASSUME NEW drop \in Period, NEW defer \in Period, SetLoss(drop, defer)
        PROVE  UNCHANGED Link!vars
    BY <2>1, SetLossKeepsIInv DEF SetLoss, history, Link!vars
  <2>2. ASSUME NEW t \in Topic, Subscribe(t)
        PROVE  UNCHANGED Link!vars
    BY <2>2, SubscribeKeepsIInv DEF Subscribe, history, Link!vars
  <2>3. ASSUME sent < MaxSent, NEW t \in Topic, Publish(t)
        PROVE  Link!Send
    <3>1. poll.at = "idle" /\ Len(q) < QueueSize /\ sent' = sent + 1 /\ UNCHANGED delivered
      BY <2>3 DEF Publish, MayPublish, HasRoom
    <3>2. Cardinality(InFlight) < QueueSize
      <4>1. Cardinality(InFlight) \in Nat /\ Cardinality(InFlight) <= Len(q)
        BY <3>1, FlightFitsQueue
      <4> QED
        BY <3>1, <4>1, LoopbackAssumption DEF IInv, TypeOK
    <3>3. Link!Cardinality(InFlight) = Cardinality(InFlight)
      BY DEF Link!Cardinality, Cardinality
    <3> QED
      BY <2>3, <3>1, <3>2, <3>3, PublishKeepsIInv DEF Link!Send
  <2>4. CASE PollDeliver
    BY <2>4, PollDeliverKeepsIInv DEF PollDeliver, Link!Next, Link!Deliver
  <2>5. CASE PollBegin \/ PollKeep \/ Notify \/ AllNotified \/ PollEnd
    <3>1. InFlight' = InFlight
      BY <2>5, PollBeginKeepsIInv, PollKeepKeepsIInv, NotifyKeepsIInv,
         AllNotifiedKeepsIInv, PollEndKeepsIInv
    <3>2. UNCHANGED <<sent, delivered, lost>>
      BY <2>5 DEF PollBegin, PollKeep, Notify, AllNotified, PollEnd, history
    <3> QED
      BY <3>1, <3>2 DEF Link!vars
  <2>6. CASE Close
    <3>1. InFlight' = {}
      BY <2>6 DEF Close, InFlight, UnderWay, NotPolling
    <3> QED
      BY <2>6, <3>1 DEF Close, Link!Next, Link!Close
  <2>7. CASE UNCHANGED vars
    BY <2>7 DEF vars, history, Link!vars, InFlight, UnderWay
  <2> QED
    BY <2>1, <2>2, <2>3, <2>4, <2>5, <2>6, <2>7 DEF Next, Poll, Link!Next
<1> QED
  BY <1>1, <1>2, LoopbackInvariant, PTL DEF Spec, ImplementsLink, Link!Spec
=============================================================================

----------------------------- MODULE QueueProofs -----------------------------
(***************************************************************************)
(* What the system's queues keep.  The ring of src/queue.c is the bounded  *)
(* history, whatever the capacity: it keeps the newest states.  The queues *)
(* of the brokers keep every packet, in order, until another answers for   *)
(* it: what at least once, in order and kept until acknowledged come to,   *)
(* for any number of boats, outages, crashes and restarts.                 *)
(***************************************************************************)
EXTENDS StateQueue, MqttLink, RingQueueProofs, SequenceTheorems, TLAPS

-----------------------------------------------------------------------------
(* The queue of a twin (StateQueue).                                       *)

(* The queue and its log keep their types.                                 *)
THEOREM QueueTypeCorrect == Spec => []TypeOK
<1> USE QueueAssumption
<1>1. Init => TypeOK
  BY DEF Init, TypeOK, EmptyQueue, QueueOf
<1>2. TypeOK /\ [Next]_vars => TypeOK'
  <2> SUFFICES ASSUME TypeOK, [Next]_vars
               PROVE  TypeOK'
    OBVIOUS
  <2>1. ASSUME NEW b \in State, PushState(b)
        PROVE  TypeOK'
    BY <2>1, PushType DEF PushState, TypeOK
  <2>2. CASE UNCHANGED vars
    BY <2>2 DEF vars, TypeOK
  <2> QED
    BY <2>1, <2>2 DEF Next
<1> QED
  BY <1>1, <1>2, PTL DEF Spec

(* One push, seen index by index against the log.                          *)
LEMMA PushKeepsIInv ==
  ASSUME IInv, NEW b \in State, PushState(b)
  PROVE  IInv'
<1> USE QueueAssumption
<1>1. /\ q \in QueueOf(Cap, State) /\ log \in Seq(State)
      /\ q' = Push(q, b) /\ log' = Append(log, b)
      /\ q.len \in 0 .. Cap /\ Len(log) \in Nat
  BY DEF IInv, TypeOK, PushState, QueueOf
<1>2. /\ Len(log') = Len(log) + 1 /\ log'[Len(log) + 1] = b
      /\ \A j \in 1 .. Len(log) : log'[j] = log[j]
  BY <1>1
<1>3. TypeOK'
  BY <1>1, PushType DEF TypeOK
<1>4. CASE q.len < Cap
  <2>1. /\ q'.len = q.len + 1 /\ At(q', q.len) = b
        /\ \A i \in 0 .. q.len - 1 : At(q', i) = At(q, i)
    BY <1>1, <1>4, PushGrows
  <2>2. HoldsWhatFits'
    BY <1>1, <1>2, <1>4, <2>1 DEF IInv, HoldsWhatFits
  <2>3. ASSUME NEW i \in 0 .. q.len
        PROVE  At(q', i) = log'[Len(log') - q'.len + i + 1]
    <3>1. Len(log') - q'.len + i + 1 = Len(log) - q.len + i + 1
      BY <1>1, <1>2, <2>1
    <3>2. CASE i = q.len
      <4>1. Len(log) - q.len + i + 1 = Len(log) + 1
        BY <1>1, <3>2
      <4> QED
        BY <1>2, <2>1, <3>1, <3>2, <4>1
    <3>3. CASE i < q.len
      <4>1. i \in 0 .. q.len - 1 /\ Len(log) - q.len + i + 1 \in 1 .. Len(log)
        BY <1>1, <3>3 DEF IInv, HoldsTheNewest
      <4>2. At(q, i) = log[Len(log) - q.len + i + 1]
        BY <4>1 DEF IInv, HoldsTheNewest
      <4> QED
        BY <1>2, <2>1, <3>1, <4>1, <4>2
    <3>4. i = q.len \/ i < q.len
      BY <1>1
    <3> QED
      BY <3>2, <3>3, <3>4
  <2>4. q'.len <= Len(log')
    BY <1>1, <1>2, <2>1 DEF IInv, HoldsTheNewest
  <2> QED
    BY <1>1, <1>3, <2>1, <2>2, <2>3, <2>4 DEF IInv, HoldsTheNewest
<1>5. CASE q.len = Cap
  <2>1. /\ q'.len = Cap /\ At(q', Cap - 1) = b
        /\ \A i \in 0 .. Cap - 2 : At(q', i) = At(q, i + 1)
    BY <1>1, <1>5, PushEvicts
  <2>2. HoldsWhatFits'
    BY <1>1, <1>2, <1>5, <2>1 DEF IInv, HoldsWhatFits
  <2>3. ASSUME NEW i \in 0 .. Cap - 1
        PROVE  At(q', i) = log'[Len(log') - q'.len + i + 1]
    <3>1. Len(log') - q'.len + i + 1 = Len(log) - Cap + (i + 1) + 1
      BY <1>1, <1>2, <2>1
    <3>2. CASE i = Cap - 1
      <4>1. Len(log) - Cap + (i + 1) + 1 = Len(log) + 1
        BY <1>1, <3>2
      <4> QED
        BY <1>2, <2>1, <3>1, <3>2, <4>1
    <3>3. CASE i < Cap - 1
      <4>1. /\ i \in 0 .. Cap - 2 /\ i + 1 \in 0 .. q.len - 1
            /\ Len(log) - Cap + (i + 1) + 1 \in 1 .. Len(log)
        BY <1>1, <1>5, <3>3 DEF IInv, HoldsTheNewest
      <4>2. At(q, i + 1) = log[Len(log) - Cap + (i + 1) + 1]
        BY <1>5, <4>1 DEF IInv, HoldsTheNewest
      <4> QED
        BY <1>2, <2>1, <3>1, <4>1, <4>2
    <3> QED
      BY <3>2, <3>3
  <2>4. q'.len <= Len(log')
    BY <1>1, <1>2, <1>5, <2>1 DEF IInv, HoldsTheNewest
  <2> QED
    BY <1>3, <2>1, <2>2, <2>3, <2>4 DEF IInv, HoldsTheNewest
<1> QED
  BY <1>1, <1>4, <1>5

(* What the ring holds is the tail of its log, for ever.                   *)
LEMMA QueueInvariant == Spec => []IInv
<1> USE QueueAssumption
<1>1. Init => IInv
  BY DEF Init, IInv, TypeOK, EmptyQueue, QueueOf, HoldsWhatFits, HoldsTheNewest
<1>2. IInv /\ [Next]_vars => IInv'
  <2>1. ASSUME IInv, UNCHANGED vars
        PROVE  IInv'
    BY <2>1 DEF vars, IInv, TypeOK, HoldsWhatFits, HoldsTheNewest
  <2> QED
    BY <2>1, PushKeepsIInv DEF Next
<1> QED
  BY <1>1, <1>2, PTL DEF Spec

(* The window of equation (3), asked anything, answers with the past and   *)
(* with nothing else: the wrapping ring, its eviction and the reversed     *)
(* index of fdt_window_at agree at every capacity.                         *)
THEOREM QueueWindowIsThePast == Spec => []WindowIsThePast
<1> USE QueueAssumption
<1>1. IInv => WindowIsThePast
  <2> SUFFICES ASSUME IInv, NEW n \in 0 .. Cap + 1, NEW k \in 0 .. Cap + 1
               PROVE  WindowAt(q, n, k) =
                        IF k < n /\ n <= q.len THEN log[Len(log) - k] ELSE NoState
    BY DEF WindowIsThePast
  <2>1. q.len \in 0 .. Cap /\ Len(log) \in Nat
    BY DEF IInv, TypeOK, QueueOf
  <2>2. CASE k < n /\ n <= q.len
    <3>1. q.len - 1 - k \in 0 .. q.len - 1
      BY <2>1, <2>2
    <3>2. Len(log) - q.len + (q.len - 1 - k) + 1 = Len(log) - k
      BY <2>1
    <3>3. At(q, q.len - 1 - k) = log[Len(log) - k]
      BY <3>1, <3>2 DEF IInv, HoldsTheNewest
    <3> QED
      BY <2>1, <2>2, <3>3 DEF WindowAt
  <2>3. CASE ~(k < n /\ n <= q.len)
    BY <2>1, <2>3 DEF WindowAt
  <2> QED
    BY <2>2, <2>3
<1> QED
  BY <1>1, QueueInvariant, PTL

(* The ring implements the bounded history.                                *)
THEOREM QueueImplementsHistory == Spec => ImplementsHistory
<1> USE QueueAssumption
<1>1. Init => History!Init
  BY DEF Init, History!Init, Contents, EmptyQueue
<1>2. TypeOK /\ [Next]_vars => [History!Next]_(Contents(q))
  <2>1. ASSUME TypeOK, NEW b \in State, PushState(b)
        PROVE  History!Next
    <3>1. Contents(q)' = History!Remember(b)
      BY <2>1, ContentsOfPush DEF PushState, TypeOK, History!Remember
    <3> QED
      BY <3>1 DEF History!Next
  <2>2. ASSUME UNCHANGED vars
        PROVE  UNCHANGED Contents(q)
    BY <2>2 DEF vars
  <2> QED
    BY <2>1, <2>2 DEF Next
<1> QED
  BY <1>1, <1>2, QueueTypeCorrect, PTL DEF Spec, ImplementsHistory, History!Spec

-----------------------------------------------------------------------------
(* The queues between boats and ground (MqttLink).                         *)

LEMMA TailSet ==
  ASSUME NEW S, NEW s \in Seq(S), s # <<>>
  PROVE  /\ Tail(s) \in Seq(S) /\ Len(Tail(s)) = Len(s) - 1 /\ Len(s) \in Nat \ {0}
         /\ DOMAIN s = 1 .. Len(s) /\ DOMAIN Tail(s) = 1 .. Len(s) - 1
         /\ \A i \in 1 .. Len(s) - 1 : Tail(s)[i] = s[i + 1]
         /\ Head(s) = s[1] /\ s[1] \in S
         /\ ToSet(s) = {s[1]} \cup ToSet(Tail(s))
<1>1. /\ Tail(s) \in Seq(S) /\ Len(Tail(s)) = Len(s) - 1 /\ Len(s) \in Nat \ {0}
      /\ DOMAIN s = 1 .. Len(s) /\ DOMAIN Tail(s) = 1 .. Len(s) - 1
      /\ \A i \in 1 .. Len(s) - 1 : Tail(s)[i] = s[i + 1]
      /\ Head(s) = s[1] /\ s[1] \in S
  OBVIOUS
<1>2. ASSUME NEW x \in ToSet(s) PROVE x = s[1] \/ x \in ToSet(Tail(s))
  <2>1. PICK i \in 1 .. Len(s) : x = s[i]
    BY <1>1, <1>2 DEF ToSet
  <2>2. CASE i = 1
    BY <2>1, <2>2
  <2>3. CASE i # 1
    <3>1. i - 1 \in 1 .. Len(s) - 1 /\ Tail(s)[i - 1] = s[i]
      BY <1>1, <2>1, <2>3
    <3> QED BY <1>1, <2>1, <3>1 DEF ToSet
  <2> QED BY <2>2, <2>3
<1>3. ASSUME NEW x \in ToSet(Tail(s)) PROVE x \in ToSet(s)
  <2>1. PICK i \in 1 .. Len(s) - 1 : x = s[i + 1]
    BY <1>1, <1>3 DEF ToSet
  <2>2. i + 1 \in 1 .. Len(s)
    BY <1>1, <2>1
  <2> QED BY <1>1, <2>1, <2>2 DEF ToSet
<1>4. s[1] \in ToSet(s)
  BY <1>1 DEF ToSet
<1> QED BY <1>1, <1>2, <1>3, <1>4

LEMMA AppendSet ==
  ASSUME NEW S, NEW s \in Seq(S), NEW x \in S
  PROVE  /\ Append(s, x) \in Seq(S) /\ Len(Append(s, x)) = Len(s) + 1 /\ Len(s) \in Nat
         /\ DOMAIN s = 1 .. Len(s) /\ DOMAIN Append(s, x) = 1 .. Len(s) + 1
         /\ \A i \in 1 .. Len(s) : Append(s, x)[i] = s[i]
         /\ Append(s, x)[Len(s) + 1] = x
         /\ ToSet(Append(s, x)) = ToSet(s) \cup {x}
<1>1. /\ Append(s, x) \in Seq(S) /\ Len(Append(s, x)) = Len(s) + 1 /\ Len(s) \in Nat
      /\ DOMAIN s = 1 .. Len(s) /\ DOMAIN Append(s, x) = 1 .. Len(s) + 1
      /\ \A i \in 1 .. Len(s) : Append(s, x)[i] = s[i]
      /\ Append(s, x)[Len(s) + 1] = x
  OBVIOUS
<1>2. ASSUME NEW y \in ToSet(Append(s, x)) PROVE y \in ToSet(s) \cup {x}
  <2>1. PICK i \in 1 .. Len(s) + 1 : y = Append(s, x)[i]
    BY <1>1, <1>2 DEF ToSet
  <2>2. i = Len(s) + 1 \/ i \in 1 .. Len(s)
    BY <1>1, <2>1
  <2> QED BY <1>1, <2>1, <2>2 DEF ToSet
<1>3. ASSUME NEW y \in ToSet(s) PROVE y \in ToSet(Append(s, x))
  <2>1. PICK i \in 1 .. Len(s) : y = s[i]
    BY <1>1, <1>3 DEF ToSet
  <2>2. i \in 1 .. Len(s) + 1
    BY <1>1, <2>1
  <2> QED BY <1>1, <2>1, <2>2 DEF ToSet
<1>4. x \in ToSet(Append(s, x))
  <2>1. Len(s) + 1 \in 1 .. Len(s) + 1
    BY <1>1
  <2> QED BY <1>1, <2>1 DEF ToSet
<1> QED BY <1>1, <1>2, <1>3, <1>4

(* Publishing is a strict total order of a boat's packets.                 *)
LEMMA BeforeIsAnOrder ==
  ASSUME NEW p \in Packet, NEW r \in Packet
  PROVE  /\ ~Before(p, p)
         /\ Before(p, r) => ~Before(r, p)
         /\ p.vessel = r.vessel => p = r \/ Before(p, r) \/ Before(r, p)
         /\ \A s \in Packet : Before(p, r) /\ Before(r, s) => Before(p, s)
<1>1. /\ p.vessel \in Vessel /\ p.life \in Nat /\ p.seq \in Nat
      /\ r.vessel \in Vessel /\ r.life \in Nat /\ r.seq \in Nat
      /\ p = [vessel |-> p.vessel, life |-> p.life, seq |-> p.seq]
      /\ r = [vessel |-> r.vessel, life |-> r.life, seq |-> r.seq]
  BY DEF Packet
<1>2. ~Before(p, p) /\ (Before(p, r) => ~Before(r, p))
  BY <1>1 DEF Before
<1>3. p.vessel = r.vessel => p = r \/ Before(p, r) \/ Before(r, p)
  BY <1>1 DEF Before
<1>4. ASSUME NEW s \in Packet, Before(p, r), Before(r, s) PROVE Before(p, s)
  <2>1. s.life \in Nat /\ s.seq \in Nat
    BY DEF Packet
  <2> QED BY <1>1, <1>4, <2>1 DEF Before
<1> QED BY <1>2, <1>3, <1>4

LEMMA ToSetOf ==
  ASSUME NEW S, NEW s \in Seq(S)
  PROVE  /\ DOMAIN s = 1 .. Len(s) /\ Len(s) \in Nat /\ ToSet(s) \subseteq S
         /\ \A x : x \in ToSet(s) <=> \E i \in 1 .. Len(s) : s[i] = x
<1> QED BY DEF ToSet

-----------------------------------------------------------------------------

(* The subscriptions of a client that polls are all vessels.               *)
LEMMA PollsHearEveryone ==
  ASSUME LinkTypeOK, Polls, NEW v \in Vessel
  PROVE  v \in ToSet(subs)
<1>1. /\ Len(subs) = N /\ subs \in Seq(Vessel) /\ v \in 0 .. N - 1
      /\ \A i \in DOMAIN subs : subs[i] = i - 1
  BY DEF LinkTypeOK, Polls, Vessel
<1>2. v + 1 \in DOMAIN subs /\ (v + 1) - 1 = v
  BY <1>1, FleetOfBoatsAssumption
<1>3. subs[v + 1] = v
  BY <1>1, <1>2
<1> QED BY <1>2, <1>3 DEF ToSet

(* What on_lsdt is given, and what it leaves.                              *)
LEMMA MessageFacts ==
  ASSUME LinkInv, OnMessage
  PROVE  /\ inbox # <<>> /\ inbox[1] \in published /\ inbox[1] \in Packet
         /\ arrived' = arrived \cup {inbox[1]}
         /\ decoded' = [decoded EXCEPT ![inbox[1].vessel] = inbox[1]]
         /\ inbox' = Tail(inbox) \/ inbox' = inbox
         /\ \/ /\ inbox[1].seq <= seq[inbox[1].vessel] /\ UNCHANGED <<seq, through>>
            \/ /\ inbox[1].seq > seq[inbox[1].vessel]
               /\ seq' = [seq EXCEPT ![inbox[1].vessel] = inbox[1].seq]
               /\ through' = through \cup {inbox[1]}
         /\ client' \in {client, "closed"} /\ (subs' = subs \/ subs' = <<>>)
         /\ UNCHANGED <<injectors, boats, session, disk, published, lost, disturbed>>
<1> DEFINE p == inbox[1]
<1>1. inbox # <<>> /\ Head(inbox) = p /\ p \in Packet /\ p \in ToSet(inbox)
  BY TailSet DEF OnMessage, LinkInv, LinkTypeOK
<1>2. p \in published /\ p.vessel \in Vessel
  BY <1>1 DEF LinkInv, FirstArrivalsInOrder, NoneOvertaken, Packet
<1>3. p.vessel \in ToSet(subs)
  BY <1>2, PollsHearEveryone DEF OnMessage, LinkInv
<1>4. OnLsdt(p)
  BY <1>1, <1>3 DEF OnMessage
<1>5. Monitor!IsStale(p.vessel, p.seq) <=> p.seq <= seq[p.vessel]
  BY DEF Monitor!IsStale
<1>6. p.seq \in Nat /\ seq[p.vessel] \in Nat
  BY <1>1, <1>2 DEF LinkInv, LinkTypeOK, Packet
<1>7. \/ p.seq <= seq[p.vessel] /\ UNCHANGED <<seq, through>>
      \/ /\ p.seq > seq[p.vessel] /\ seq' = [seq EXCEPT ![p.vessel] = p.seq]
         /\ through' = through \cup {p}
  BY <1>4, <1>5, <1>6 DEF OnLsdt
<1>8. arrived' = arrived \cup {p} /\ decoded' = [decoded EXCEPT ![p.vessel] = p]
  BY <1>4 DEF OnLsdt, Decodes
<1>9. /\ inbox' = Tail(inbox) \/ inbox' = inbox
      /\ client' \in {client, "closed"} /\ (subs' = subs \/ subs' = <<>>)
      /\ UNCHANGED <<injectors, boats, session, disk, published, lost, disturbed>>
  BY DEF OnMessage, Disconnected
<1> QED BY <1>1, <1>2, <1>7, <1>8, <1>9

LEMMA ForwardFacts ==
  ASSUME LinkInv, NEW v \in Vessel, Forward(v)
  PROVE  /\ sent[v] + 1 \in 1 .. Len(backlog[v]) /\ backlog[v] \in Seq(Packet)
         /\ backlog[v][sent[v] + 1] \in Packet
         /\ backlog[v][sent[v] + 1] \in published /\ backlog[v][sent[v] + 1].vessel = v
         /\ \/ /\ inbox' = Append(inbox, backlog[v][sent[v] + 1])
               /\ UNCHANGED <<lost, disturbed>>
            \/ /\ lost' = lost \cup ({backlog[v][sent[v] + 1]} \ (ToSet(inbox) \cup arrived))
               /\ inbox' = inbox /\ disturbed' = disturbed \cup {v}
         /\ sent' = [sent EXCEPT ![v] = @ + 1]
         /\ UNCHANGED <<injectors, backlog, linkUp, saved, crashes, session,
                        client, subs, disk, twins, published, arrived, through>>
<1>1. /\ sent[v] \in Nat /\ sent[v] < Len(backlog[v]) /\ backlog[v] \in Seq(Packet)
      /\ InTurn(backlog[v], v)
  BY DEF Forward, LinkInv, LinkTypeOK, BrokersKeep
<1>2. sent[v] + 1 \in 1 .. Len(backlog[v]) /\ DOMAIN backlog[v] = 1 .. Len(backlog[v])
  BY <1>1
<1>3. /\ backlog[v][sent[v] + 1] \in Packet
      /\ backlog[v][sent[v] + 1] \in published /\ backlog[v][sent[v] + 1].vessel = v
  BY <1>1, <1>2 DEF InTurn
<1> QED BY <1>1, <1>2, <1>3 DEF Forward, NextToSend

LEMMA TypeStep == LinkInv /\ [MqttNext]_mqttVars => LinkTypeOK'
<1> SUFFICES ASSUME LinkInv, [MqttNext]_mqttVars PROVE LinkTypeOK'
  OBVIOUS
<1>0. LinkTypeOK
  BY DEF LinkInv
<1>a. inbox \in Seq(Packet)
  BY <1>0 DEF LinkTypeOK
<1>b. subs \in Seq(Vessel) /\ \A i \in DOMAIN subs : subs[i] = i - 1
  BY <1>0 DEF LinkTypeOK
<1>c. N \in Nat \ {0}
  BY FleetOfBoatsAssumption
<1> USE DEF LinkTypeOK
<1>1. ASSUME NEW v \in Vessel, Publish(v) PROVE LinkTypeOK'
  <2> DEFINE p == [vessel |-> v, life |-> life[v], seq |-> next[v]]
  <2>1. p \in Packet
    BY <1>0 DEF Packet
  <2>2. Append(backlog[v], p) \in Seq(Packet)
    BY <1>0, <2>1, AppendSet
  <2>3. /\ published' = published \cup {p} /\ next' = [next EXCEPT ![v] = @ + 1]
        /\ \/ backlog' = [backlog EXCEPT ![v] = Append(@, p)] /\ lost' = lost
           \/ backlog' = backlog /\ lost' = lost \cup {p}
        /\ UNCHANGED <<life, sent, saved, crashes, inbox, keptInbox, groundCrashes, subs,
                       seq, decoded, arrived, through>>
    BY <1>1 DEF Publish, ground, disk, twins
  <2> HIDE DEF p
  <2>a. next' \in [Vessel -> Nat \ {0}] /\ published' \subseteq Packet
    BY <1>0, <2>1, <2>3
  <2>b. backlog' \in [Vessel -> Seq(Packet)] /\ lost' \subseteq published'
    <3>1. CASE backlog' = [backlog EXCEPT ![v] = Append(@, p)] /\ lost' = lost
      BY <1>0, <2>2, <2>3, <3>1
    <3>2. CASE backlog' = backlog /\ lost' = lost \cup {p}
      BY <1>0, <2>3, <3>2
    <3> QED BY <2>3, <3>1, <3>2
  <2>4. /\ backlog' \in [Vessel -> Seq(Packet)] /\ next' \in [Vessel -> Nat \ {0}]
        /\ published' \subseteq Packet /\ lost' \subseteq published'
    BY <2>a, <2>b
  <2> QED BY <1>0, <2>3, <2>4
<1>2. ASSUME NEW v \in Vessel, RestartInjector(v) PROVE LinkTypeOK'
  BY <1>0, <1>2 DEF RestartInjector, boats, ground, disk, twins, history
<1>3. ASSUME NEW v \in Vessel, LinkUp(v) \/ LinkDown(v) \/ Autosave(v) PROVE LinkTypeOK'
  <2>1. CASE LinkUp(v)
    BY <1>0, <2>1 DEF LinkUp, injectors, ground, disk, twins, history
  <2>2. CASE LinkDown(v)
    BY <1>0, <2>2 DEF LinkDown, injectors, ground, disk, twins, history
  <2>3. CASE Autosave(v)
    BY <1>0, <2>3 DEF Autosave, injectors, ground, disk, twins, history
  <2> QED BY <1>3, <2>1, <2>2, <2>3
<1>4. ASSUME NEW v \in Vessel, BrokerCrash(v) PROVE LinkTypeOK'
  <2>1. ToSet(backlog[v]) \subseteq published
    BY DEF LinkInv, BrokersKeep, InTurn, ToSet
  <2>2. lost' \subseteq published
    BY <1>0, <1>4, <2>1 DEF BrokerCrash
  <2>3. /\ crashes' = [crashes EXCEPT ![v] = @ - 1] /\ crashes[v] > 0
        /\ backlog' = [backlog EXCEPT ![v] = saved[v]] /\ sent' = [sent EXCEPT ![v] = 0]
        /\ saved' = [saved EXCEPT ![v] = saved[v]] \/ saved' = [saved EXCEPT ![v] = <<>>]
        /\ UNCHANGED <<next, life, inbox, keptInbox, groundCrashes, subs, seq, decoded,
                       published, arrived, through>>
    BY <1>4 DEF BrokerCrash, AfterCrash, injectors, ground, disk, twins
  <2>a. crashes[v] - 1 \in Nat /\ saved[v] \in Seq(Packet) /\ <<>> \in Seq(Packet)
    BY <1>0, <2>3
  <2>b. crashes' \in [Vessel -> Nat] /\ sent' \in [Vessel -> Nat]
    BY <1>0, <2>3, <2>a
  <2>c. saved' \in [Vessel -> Seq(Packet)] /\ backlog' \in [Vessel -> Seq(Packet)]
    BY <1>0, <2>3, <2>a
  <2>4. /\ crashes' \in [Vessel -> Nat] /\ saved' \in [Vessel -> Seq(Packet)]
        /\ backlog' \in [Vessel -> Seq(Packet)] /\ sent' \in [Vessel -> Nat]
    BY <2>b, <2>c
  <2> QED BY <1>0, <2>2, <2>3, <2>4
<1>5. ASSUME NEW v \in Vessel, Forward(v) PROVE LinkTypeOK'
  <2> DEFINE p == backlog[v][sent[v] + 1]
  <2>1. /\ p \in Packet /\ p \in published
        /\ \/ inbox' = Append(inbox, p) /\ lost' = lost
           \/ inbox' = inbox /\ lost' \subseteq lost \cup {p}
        /\ sent' = [sent EXCEPT ![v] = @ + 1]
        /\ UNCHANGED <<injectors, backlog, saved, crashes, subs, disk, twins,
                       published, arrived, through>>
    BY <1>5, ForwardFacts
  <2>2. inbox \in Seq(Packet) /\ Append(inbox, p) \in Seq(Packet)
    BY <1>0, <2>1, AppendSet
  <2>3. inbox' \in Seq(Packet) /\ lost' \subseteq published
    BY <1>0, <2>1, <2>2
  <2>4. sent' \in [Vessel -> Nat]
    BY <1>0, <2>1
  <2> HIDE DEF p
  <2> QED BY <1>0, <2>1, <2>3, <2>4 DEF injectors, disk, twins
<1>6. ASSUME NEW v \in Vessel, Acknowledged(v) PROVE LinkTypeOK'
  <2>1. sent[v] - 1 \in Nat /\ backlog[v] # <<>> /\ backlog[v] \in Seq(Packet)
    BY <1>0, <1>6 DEF Acknowledged, LinkInv, BrokersKeep
  <2>2. Tail(backlog[v]) \in Seq(Packet)
    BY <2>1, TailSet
  <2> QED BY <1>0, <1>6, <2>1, <2>2 DEF Acknowledged, injectors, ground, disk, twins, history
<1>7. CASE Open \/ Close
  <2>1. /\ subs' = <<>>
        /\ UNCHANGED <<next, life, backlog, saved, sent, crashes, inbox, keptInbox, groundCrashes,
                       seq, decoded, published, arrived, through, lost>>
    BY <1>7 DEF Open, Close, Disconnected, injectors, boats, disk, twins, history
  <2> QED BY <1>0, <2>1
<1>8. CASE Subscribe
  <2>1. /\ subs' = Append(subs, Len(subs)) /\ Len(subs) < N
        /\ UNCHANGED <<next, life, backlog, saved, sent, crashes, inbox, keptInbox, groundCrashes,
                       seq, decoded, published, arrived, through, lost>>
    BY <1>8 DEF Subscribe, injectors, boats, disk, twins, history
  <2>2. Len(subs) \in Vessel /\ subs \in Seq(Vessel)
    <3> HIDE DEF LinkTypeOK
    <3> QED BY <1>b, <1>c, <2>1 DEF Vessel
  <2>3. /\ subs' \in Seq(Vessel) /\ DOMAIN subs' = 1 .. Len(subs) + 1 /\ Len(subs) \in Nat
        /\ \A i \in 1 .. Len(subs) : subs'[i] = subs[i]
        /\ subs'[Len(subs) + 1] = Len(subs) /\ DOMAIN subs = 1 .. Len(subs)
    BY <2>1, <2>2, AppendSet
  <2>4. \A i \in DOMAIN subs' : subs'[i] = i - 1
    <3> HIDE DEF LinkTypeOK
    <3> QED BY <1>b, <2>3
  <2> QED BY <1>0, <2>1, <2>3, <2>4
<1>9. CASE OnMessage
  <2> DEFINE p == inbox[1]
  <2>1. /\ inbox # <<>> /\ p \in published /\ p \in Packet
        /\ arrived' = arrived \cup {p} /\ decoded' = [decoded EXCEPT ![p.vessel] = p]
        /\ inbox' = Tail(inbox) \/ inbox' = inbox
        /\ \/ UNCHANGED <<seq, through>>
           \/ seq' = [seq EXCEPT ![p.vessel] = p.seq] /\ through' = through \cup {p}
        /\ subs' = subs \/ subs' = <<>>
        /\ UNCHANGED <<next, life, backlog, saved, sent, crashes, keptInbox, groundCrashes,
                       published, lost>>
    BY <1>9, MessageFacts DEF injectors, boats, disk
  <2>2. p.vessel \in Vessel /\ p.seq \in Nat
    BY <2>1 DEF Packet
  <2>3. inbox' \in Seq(Packet)
    <3> HIDE DEF LinkTypeOK
    <3> QED BY <1>a, <2>1, TailSet
  <2>4. /\ arrived' \subseteq published /\ through' \subseteq arrived'
        /\ seq' \in [Vessel -> Nat] /\ decoded' \in [Vessel -> Packet \cup {Nothing}]
    BY <1>0, <2>1, <2>2
  <2>5. subs' \in Seq(Vessel) /\ \A i \in DOMAIN subs' : subs'[i] = i - 1
    <3> HIDE DEF LinkTypeOK
    <3>1. CASE subs' = subs
      BY <1>b, <3>1
    <3>2. CASE subs' = <<>>
      BY <3>2
    <3> QED BY <2>1, <3>1, <3>2
  <2> HIDE DEF p
  <2> QED BY <1>0, <2>1, <2>3, <2>4, <2>5
<1>10. CASE UNCHANGED mqttVars
  BY <1>0, <1>10 DEF mqttVars, injectors, boats, ground, disk, twins, history
<1>11. CASE GroundAutosave
  BY <1>0, <1>11 DEF GroundAutosave, injectors, boats, twins, history
<1>12. CASE GroundCrash
  <2>1. /\ subs' = <<>> /\ inbox' = keptInbox /\ keptInbox' \in {keptInbox, <<>>}
        /\ groundCrashes' = groundCrashes - 1 /\ groundCrashes > 0
        /\ sent' = [v \in Vessel |-> 0] /\ lost' \subseteq lost \cup ToSet(inbox)
        /\ UNCHANGED <<next, life, backlog, saved, crashes, seq, decoded,
                       published, arrived, through>>
    BY <1>12 DEF GroundCrash, injectors, twins
  <2>2. ToSet(inbox) \subseteq published
    BY DEF LinkInv, FirstArrivalsInOrder, NoneOvertaken
  <2>b. groundCrashes \in Nat /\ keptInbox \in Seq(Packet) /\ <<>> \in Seq(Packet)
    BY <1>0
  <2>a. inbox' \in Seq(Packet) /\ keptInbox' \in Seq(Packet)
    <3> HIDE DEF LinkTypeOK
    <3> QED BY <2>1, <2>b
  <2>c. groundCrashes' \in Nat
    <3> HIDE DEF LinkTypeOK
    <3> QED BY <2>1, <2>b
  <2>3. inbox' \in Seq(Packet) /\ keptInbox' \in Seq(Packet) /\ groundCrashes' \in Nat
    BY <2>a, <2>c
  <2>4. sent' \in [Vessel -> Nat] /\ lost' \subseteq published
    BY <1>0, <2>1, <2>2
  <2>5. subs' \in Seq(Vessel) /\ \A i \in DOMAIN subs' : subs'[i] = i - 1
    BY <2>1
  <2> QED BY <1>0, <2>1, <2>3, <2>4, <2>5
<1> QED
  BY <1>1, <1>2, <1>3, <1>4, <1>5, <1>6, <1>7, <1>8, <1>9, <1>10, <1>11, <1>12
    DEF MqttNext, Boat, Ground

-----------------------------------------------------------------------------

LEMMA PublishFacts ==
  ASSUME LinkInv, NEW v \in Vessel, Publish(v), NEW p,
         p = [vessel |-> v, life |-> life[v], seq |-> next[v]]
  PROVE  /\ p \in Packet /\ p \notin published /\ p.vessel = v
         /\ published' = published \cup {p}
         /\ \A r \in published : r.vessel = v => Before(r, p) /\ ~Before(p, r)
         /\ \A r \in published : Before(r, p) => r.vessel = v
         /\ \A r \in published : ~Before(p, r)
         /\ next' = [next EXCEPT ![v] = @ + 1]
         /\ \/ backlog' = [backlog EXCEPT ![v] = Append(@, p)] /\ UNCHANGED <<lost, disturbed>>
            \/ /\ lost' = lost \cup {p} /\ disturbed' = disturbed \cup {v}
               /\ UNCHANGED backlog
         /\ UNCHANGED <<life, sent, linkUp, saved, crashes, ground, twins, arrived, through>>
<1>1. p \in Packet /\ p.vessel = v
  BY DEF LinkInv, LinkTypeOK, Packet
<1>2. \A r \in published : r \in Packet
  BY DEF LinkInv, LinkTypeOK
<1>3. \A r \in published : r.vessel = v => Before(r, p)
  BY DEF LinkInv, NextIsNew
<1>4. \A r \in published : Before(r, p) => r.vessel = v
  BY <1>1 DEF Before
<1>5. \A r \in published : ~Before(p, r)
  <2> SUFFICES ASSUME NEW r \in published, Before(p, r) PROVE FALSE
    OBVIOUS
  <2>1. r.vessel = v
    BY <1>1 DEF Before
  <2> QED BY <1>1, <1>2, <1>3, <2>1, BeforeIsAnOrder
<1>6. p \notin published
  BY <1>1, <1>3, BeforeIsAnOrder
<1> QED BY <1>1, <1>3, <1>4, <1>5, <1>6 DEF Publish

LEMMA NumberedStep == LinkInv /\ [MqttNext]_mqttVars => NextIsNew'
<1> SUFFICES ASSUME LinkInv, [MqttNext]_mqttVars, NEW r \in published'
             PROVE  Before(r, [vessel |-> r.vessel, life |-> life'[r.vessel], seq |-> next'[r.vessel]])
  BY DEF NextIsNew, Before
<1>0. /\ next \in [Vessel -> Nat] /\ life \in [Vessel -> Nat] /\ published \subseteq Packet
      /\ \A p \in published : /\ p.vessel \in Vessel /\ p.life \in Nat /\ p.seq \in Nat
                              /\ \/ p.life < life[p.vessel]
                                 \/ p.life = life[p.vessel] /\ p.seq < next[p.vessel]
  BY DEF LinkInv, LinkTypeOK, NextIsNew, Before, Packet
<1>1. ASSUME NEW v \in Vessel, Publish(v)
      PROVE  \/ r.life < life'[r.vessel]
             \/ r.life = life'[r.vessel] /\ r.seq < next'[r.vessel]
  <2>1. life' = life /\ next' = [next EXCEPT ![v] = @ + 1]
    BY <1>1 DEF Publish
  <2>2. r \in published \/ r = [vessel |-> v, life |-> life[v], seq |-> next[v]]
    BY <1>1 DEF Publish
  <2>3. CASE r \in published
    BY <1>0, <2>1, <2>3
  <2>4. CASE r = [vessel |-> v, life |-> life[v], seq |-> next[v]]
    BY <1>0, <2>1, <2>4
  <2> QED BY <2>2, <2>3, <2>4
<1>2. ASSUME NEW v \in Vessel, RestartInjector(v)
      PROVE  \/ r.life < life'[r.vessel]
             \/ r.life = life'[r.vessel] /\ r.seq < next'[r.vessel]
  <2>1. /\ life' = [life EXCEPT ![v] = @ + 1] /\ next' = [next EXCEPT ![v] = 1]
        /\ r \in published
    BY <1>2 DEF RestartInjector, history
  <2> QED BY <1>0, <2>1
<1>3. CASE UNCHANGED <<next, life, published>>
  BY <1>0, <1>3 DEF Before
<1>4. \/ \E v \in Vessel : Publish(v) \/ RestartInjector(v)
      \/ UNCHANGED <<next, life, published>>
  BY MessageFacts DEF MqttNext, Boat, Ground, LinkUp, LinkDown, Autosave, BrokerCrash, Forward,
    Acknowledged, Open, Subscribe, OnMessage, Close, GroundAutosave, GroundCrash,
    injectors, history, mqttVars
<1> QED BY <1>1, <1>2, <1>3, <1>4 DEF Before

LEMMA PacketSteps ==
  ASSUME [MqttNext]_mqttVars
  PROVE  \/ \E v \in Vessel : \/ Publish(v) \/ RestartInjector(v) \/ LinkUp(v) \/ LinkDown(v)
                              \/ Autosave(v) \/ BrokerCrash(v) \/ Forward(v) \/ Acknowledged(v)
         \/ OnMessage \/ GroundCrash \/ GroundAutosave
         \/ UNCHANGED <<injectors, boats, inbox, disk, twins, history>>
<1> QED BY DEF MqttNext, Boat, Ground, Open, Subscribe, Close, mqttVars, ground

LEMMA SavingChangesNothing ==
  GroundAutosave => UNCHANGED <<injectors, boats, inbox, twins, history>>
<1> QED BY DEF GroundAutosave

(* The history only grows, and at its end.                                 *)
LEMMA HistoryGrows ==
  ASSUME LinkInv, [MqttNext]_mqttVars
  PROVE  /\ arrived \subseteq arrived' /\ lost \subseteq lost'
         /\ \A v \in Vessel : v \in disturbed => v \in disturbed'
         /\ through \subseteq through' /\ published \subseteq published'
         /\ \A p \in published', r \in published : Before(p, r) => p \in published
<1> DEFINE G == /\ arrived \subseteq arrived' /\ lost \subseteq lost'
                /\ \A w \in Vessel : w \in disturbed => w \in disturbed'
                /\ through \subseteq through' /\ published \subseteq published'
                /\ \A p \in published', r \in published : Before(p, r) => p \in published
<1>1. ASSUME NEW v \in Vessel, Publish(v) PROVE G
  <2> DEFINE x == [vessel |-> v, life |-> life[v], seq |-> next[v]]
  <2>1. /\ published' = published \cup {x} /\ UNCHANGED <<arrived, through>>
        /\ \A r \in published : ~Before(x, r)
        /\ lost \subseteq lost' /\ disturbed \subseteq disturbed'
    BY <1>1, PublishFacts
  <2> HIDE DEF x
  <2> QED BY <2>1
<1>2. ASSUME NEW v \in Vessel, Forward(v) PROVE G
  BY <1>2, ForwardFacts
<1>3. ASSUME OnMessage PROVE G
  BY <1>3, MessageFacts
<1>4. ASSUME NEW v \in Vessel, BrokerCrash(v) PROVE G
  BY <1>4 DEF BrokerCrash
<1>5. ASSUME GroundCrash PROVE G
  BY <1>5 DEF GroundCrash
<1>6. ASSUME UNCHANGED history PROVE G
  BY <1>6 DEF history
<1>7. ASSUME NEW v \in Vessel, \/ RestartInjector(v) \/ LinkUp(v) \/ LinkDown(v)
                               \/ Autosave(v) \/ Acknowledged(v)
      PROVE  UNCHANGED history
  BY <1>7 DEF RestartInjector, LinkUp, LinkDown, Autosave, Acknowledged
<1>8. UNCHANGED <<injectors, boats, inbox, disk, twins, history>> \/ GroundAutosave
        => UNCHANGED history
  BY SavingChangesNothing
<1> HIDE DEF G
<1>9. UNCHANGED history => G
  BY <1>6
<1>10. G
  BY <1>1, <1>2, <1>3, <1>4, <1>5, <1>7, <1>8, <1>9, PacketSteps
<1> QED
  BY <1>10 DEF G

(* What the ground answers for, it goes on answering for, unless its       *)
(* broker crashes: then a boat has it still, or it is lost.                *)
LEMMA CarriedStays ==
  ASSUME LinkInv, [MqttNext]_mqttVars
  PROVE  \/ Carried \subseteq Carried'
         \/ /\ GroundCrash
            /\ Carried \subseteq Carried' \cup InBacklogs
<1>0. inbox \in Seq(Packet)
  BY DEF LinkInv, LinkTypeOK
<1>1. ASSUME NEW v \in Vessel, Forward(v) PROVE Carried \subseteq Carried'
  <2> DEFINE p == backlog[v][sent[v] + 1]
  <2>1. p \in Packet /\ (inbox' = Append(inbox, p) \/ inbox' = inbox)
    BY <1>1, ForwardFacts
  <2>2. ToSet(Append(inbox, p)) = ToSet(inbox) \cup {p}
    BY <1>0, <2>1, AppendSet
  <2> QED BY <2>1, <2>2, HistoryGrows DEF Carried
<1>2. CASE OnMessage
  <2>1. /\ inbox # <<>> /\ arrived' = arrived \cup {inbox[1]}
        /\ inbox' = Tail(inbox) \/ inbox' = inbox
        /\ lost' = lost
    BY <1>2, MessageFacts
  <2>2. ToSet(inbox) = {inbox[1]} \cup ToSet(Tail(inbox))
    BY <1>0, <2>1, TailSet
  <2> QED BY <2>1, <2>2 DEF Carried
<1>3. CASE UNCHANGED inbox
  BY <1>3, HistoryGrows DEF Carried
<1>4. ASSUME NEW v \in Vessel, \/ Publish(v) \/ RestartInjector(v) \/ LinkUp(v) \/ LinkDown(v)
                               \/ Autosave(v) \/ BrokerCrash(v) \/ Acknowledged(v)
      PROVE  UNCHANGED inbox
  BY <1>4 DEF Publish, RestartInjector, LinkUp, LinkDown, Autosave, BrokerCrash, Acknowledged, ground
<1>5. CASE GroundCrash
  <2>1. /\ inbox' = keptInbox /\ arrived' = arrived
        /\ lost' = lost \cup (ToSet(inbox) \ (ToSet(keptInbox) \cup arrived \cup InBacklogs))
    BY <1>5 DEF GroundCrash
  <2> QED BY <1>5, <2>1 DEF Carried
<1> QED
  BY <1>1, <1>2, <1>3, <1>4, <1>5, PacketSteps, SavingChangesNothing

LEMMA BrokersStep == LinkInv /\ [MqttNext]_mqttVars => BrokersKeep'
<1> DEFINE Kept(w) == /\ InTurn(backlog[w], w) /\ InTurn(saved[w], w)
                      /\ sent[w] <= Len(backlog[w])
                      /\ \A i \in 1 .. sent[w] : backlog[w][i] \in Carried
<1> SUFFICES ASSUME LinkInv, [MqttNext]_mqttVars, NEW w \in Vessel PROVE Kept(w)'
  BY DEF BrokersKeep
<1>0. /\ backlog \in [Vessel -> Seq(Packet)] /\ saved \in [Vessel -> Seq(Packet)]
      /\ sent \in [Vessel -> Nat] /\ published \subseteq Packet
      /\ backlog[w] \in Seq(Packet) /\ saved[w] \in Seq(Packet) /\ sent[w] \in Nat
      /\ DOMAIN backlog[w] = 1 .. Len(backlog[w]) /\ Len(backlog[w]) \in Nat
  BY DEF LinkInv, LinkTypeOK
<1>a. Kept(w) /\ published \subseteq published'
  BY HistoryGrows DEF LinkInv, BrokersKeep
<1>b. CASE GroundCrash
  <2>1. /\ backlog'[w] = backlog[w] /\ saved'[w] = saved[w] /\ sent'[w] = 0
        /\ published' = published
    BY <1>b DEF GroundCrash
  <2>2. InTurn(saved[w], w)' /\ InTurn(backlog[w], w)'
    BY <1>a, <2>1 DEF InTurn, Before
  <2> QED BY <1>0, <2>1, <2>2
<1> SUFFICES ASSUME Carried \subseteq Carried' PROVE Kept(w)'
  BY <1>b, CarriedStays
<1>1. /\ Kept(w) /\ Carried \subseteq Carried' /\ published \subseteq published'
  BY <1>a
<1>2. ASSUME NEW b, InTurn(b, w), NEW c, c = b
      PROVE  /\ \A i \in DOMAIN c : c[i] \in published' /\ c[i].vessel = w
             /\ \A i, j \in DOMAIN c : i < j => Before(c[i], c[j])
  BY <1>1, <1>2 DEF InTurn
<1>3. ASSUME \/ backlog'[w] = backlog[w] /\ sent'[w] = sent[w]
             \/ backlog'[w] = backlog[w] /\ sent'[w] = 0
             \/ backlog'[w] = saved[w] /\ sent'[w] = 0,
             saved'[w] \in {saved[w], backlog[w], <<>>}
      PROVE  Kept(w)'
  <2>1. InTurn(saved[w], w)' /\ InTurn(backlog[w], w)'
    BY <1>1, <1>2, <1>3 DEF InTurn, Before
  <2>2. sent'[w] <= Len(backlog'[w])
    BY <1>0, <1>1, <1>3
  <2>3. \A i \in 1 .. sent'[w] : backlog'[w][i] \in Carried'
    BY <1>0, <1>1, <1>3
  <2> QED BY <2>1, <2>2, <2>3
<1>4. CASE Publish(w)
  <2> DEFINE p == [vessel |-> w, life |-> life[w], seq |-> next[w]]
  <2>1. /\ p \in Packet /\ p.vessel = w /\ published' = published \cup {p}
        /\ \A r \in published : r.vessel = w => Before(r, p)
        /\ backlog' = [backlog EXCEPT ![w] = Append(@, p)] \/ backlog' = backlog
        /\ saved' = saved /\ sent' = sent
    BY <1>4, PublishFacts
  <2> HIDE DEF p
  <2>a. CASE backlog' = backlog
    BY <1>3, <2>1, <2>a
  <2> SUFFICES ASSUME backlog' = [backlog EXCEPT ![w] = Append(@, p)] PROVE Kept(w)'
    BY <2>1, <2>a
  <2>2. /\ backlog'[w] = Append(backlog[w], p) /\ saved'[w] = saved[w] /\ sent'[w] = sent[w]
    BY <1>0, <2>1
  <2>3. /\ Len(backlog'[w]) = Len(backlog[w]) + 1 /\ DOMAIN backlog'[w] = 1 .. Len(backlog[w]) + 1
        /\ \A i \in 1 .. Len(backlog[w]) : backlog'[w][i] = backlog[w][i]
        /\ backlog'[w][Len(backlog[w]) + 1] = p
    BY <1>0, <2>1, <2>2, AppendSet
  <2>4. InTurn(saved[w], w)'
    BY <1>1, <1>2, <2>2 DEF InTurn, Before
  <2>5. InTurn(backlog[w], w)'
    <3>1. \A i \in 1 .. Len(backlog[w]) : backlog[w][i] \in published /\ backlog[w][i].vessel = w
      BY <1>0, <1>1 DEF InTurn
    <3>2. ASSUME NEW i \in 1 .. Len(backlog[w]) + 1
          PROVE  backlog'[w][i] \in published' /\ backlog'[w][i].vessel = w
      BY <1>0, <2>1, <2>3, <3>1
    <3>3. ASSUME NEW i \in 1 .. Len(backlog[w]) + 1, NEW j \in 1 .. Len(backlog[w]) + 1, i < j
          PROVE  Before(backlog'[w][i], backlog'[w][j])
      <4>1. i \in 1 .. Len(backlog[w]) /\ backlog'[w][i] = backlog[w][i]
        BY <1>0, <2>3, <3>3
      <4>2. CASE j = Len(backlog[w]) + 1
        BY <2>1, <2>3, <3>1, <4>1, <4>2
      <4>3. CASE j \in 1 .. Len(backlog[w])
        BY <1>0, <1>1, <2>3, <3>3, <4>1, <4>3 DEF InTurn
      <4> QED BY <1>0, <4>2, <4>3
    <3> QED BY <2>3, <3>2, <3>3 DEF InTurn, Before
  <2>6. sent'[w] <= Len(backlog'[w])
    BY <1>0, <1>1, <2>2, <2>3
  <2>7. \A i \in 1 .. sent'[w] : backlog'[w][i] \in Carried'
    BY <1>0, <1>1, <2>2, <2>3
  <2> QED BY <2>4, <2>5, <2>6, <2>7
<1>5. CASE Forward(w)
  <2>1. /\ sent[w] + 1 \in 1 .. Len(backlog[w]) /\ backlog[w][sent[w] + 1] \in Packet
        /\ \/ inbox' = Append(inbox, backlog[w][sent[w] + 1])
           \/ /\ lost' = lost \cup ({backlog[w][sent[w] + 1]} \ (ToSet(inbox) \cup arrived))
              /\ UNCHANGED <<inbox, arrived>>
        /\ sent' = [sent EXCEPT ![w] = @ + 1] /\ UNCHANGED <<backlog, saved>>
    BY <1>5, ForwardFacts
  <2>2. inbox \in Seq(Packet)
    BY DEF LinkInv, LinkTypeOK
  <2>3. backlog[w][sent[w] + 1] \in Carried'
    <3>1. CASE inbox' = Append(inbox, backlog[w][sent[w] + 1])
      BY <2>1, <2>2, <3>1, AppendSet DEF Carried
    <3>2. CASE /\ lost' = lost \cup ({backlog[w][sent[w] + 1]} \ (ToSet(inbox) \cup arrived))
               /\ UNCHANGED <<inbox, arrived>>
      BY <3>2 DEF Carried
    <3> QED BY <2>1, <3>1, <3>2
  <2>4. InTurn(saved[w], w)' /\ InTurn(backlog[w], w)'
    BY <1>1, <1>2, <2>1 DEF InTurn, Before
  <2>5. sent'[w] = sent[w] + 1
    BY <1>0, <2>1
  <2>6. \A i \in 1 .. sent'[w] : i \in 1 .. sent[w] \/ i = sent[w] + 1
    BY <1>0, <2>5
  <2>7. \A i \in 1 .. sent'[w] : backlog'[w][i] \in Carried'
    BY <1>1, <2>1, <2>3, <2>6
  <2> QED BY <1>0, <2>1, <2>4, <2>5, <2>7
<1>6. CASE Acknowledged(w)
  <2>1. /\ sent[w] > 0 /\ backlog' = [backlog EXCEPT ![w] = Tail(@)]
        /\ sent' = [sent EXCEPT ![w] = @ - 1] /\ saved' = saved
    BY <1>6 DEF Acknowledged
  <2>2. backlog'[w] = Tail(backlog[w]) /\ sent'[w] = sent[w] - 1 /\ backlog[w] # <<>>
    BY <1>0, <1>1, <2>1
  <2>3. /\ Len(backlog'[w]) = Len(backlog[w]) - 1 /\ DOMAIN backlog'[w] = 1 .. Len(backlog[w]) - 1
        /\ \A i \in 1 .. Len(backlog[w]) - 1 : backlog'[w][i] = backlog[w][i + 1]
    BY <1>0, <2>2, TailSet
  <2>4. InTurn(saved[w], w)'
    BY <1>1, <1>2, <2>1 DEF InTurn, Before
  <2>5. \A i \in 1 .. Len(backlog[w]) - 1 : i + 1 \in 1 .. Len(backlog[w])
    BY <1>0
  <2>6. InTurn(backlog[w], w)'
    <3>1. ASSUME NEW i \in 1 .. Len(backlog[w]) - 1
          PROVE  backlog'[w][i] \in published' /\ backlog'[w][i].vessel = w
      BY <1>0, <1>1, <2>3, <2>5 DEF InTurn
    <3>2. ASSUME NEW i \in 1 .. Len(backlog[w]) - 1, NEW j \in 1 .. Len(backlog[w]) - 1, i < j
          PROVE  Before(backlog'[w][i], backlog'[w][j])
      <4>1. i + 1 < j + 1 /\ i + 1 \in 1 .. Len(backlog[w]) /\ j + 1 \in 1 .. Len(backlog[w])
        BY <1>0, <3>2
      <4> QED BY <1>0, <1>1, <2>3, <4>1 DEF InTurn
    <3> QED BY <2>3, <3>1, <3>2 DEF InTurn, Before
  <2>7. ASSUME NEW i \in 1 .. sent'[w] PROVE backlog'[w][i] \in Carried'
    <3>1. i + 1 \in 1 .. sent[w] /\ i \in 1 .. Len(backlog[w]) - 1
      BY <1>0, <1>1, <2>2
    <3> QED BY <1>1, <2>3, <3>1
  <2>8. sent'[w] <= Len(backlog'[w])
    BY <1>0, <1>1, <2>2, <2>3
  <2> QED BY <2>4, <2>6, <2>7, <2>8
<1>7. ASSUME NEW v \in Vessel,
             LinkUp(v) \/ LinkDown(v) \/ Autosave(v) \/ BrokerCrash(v) \/ RestartInjector(v)
      PROVE  Kept(w)'
  <2>1. /\ \/ backlog'[w] = backlog[w] /\ sent'[w] = sent[w]
           \/ backlog'[w] = backlog[w] /\ sent'[w] = 0
           \/ backlog'[w] = saved[w] /\ sent'[w] = 0
        /\ saved'[w] \in {saved[w], backlog[w], <<>>}
    BY <1>0, <1>7 DEF LinkUp, LinkDown, Autosave, BrokerCrash, AfterCrash, RestartInjector, boats
  <2> QED BY <1>3, <2>1
<1>8. ASSUME NEW v \in Vessel, v # w, Publish(v) \/ Forward(v) \/ Acknowledged(v)
      PROVE  Kept(w)'
  <2>1. backlog'[w] = backlog[w] /\ sent'[w] = sent[w] /\ saved'[w] = saved[w]
    BY <1>0, <1>8 DEF Publish, Forward, Acknowledged
  <2> QED BY <1>3, <2>1
<1>9. ASSUME UNCHANGED boats PROVE Kept(w)'
  BY <1>3, <1>9 DEF boats
<1> DEFINE G == Kept(w)'
<1> HIDE DEF G
<1>10. (Publish(w) => G) /\ (Forward(w) => G) /\ (Acknowledged(w) => G)
  BY <1>4, <1>5, <1>6 DEF G
<1>11. ASSUME NEW v \in Vessel
       PROVE  LinkUp(v) \/ LinkDown(v) \/ Autosave(v) \/ BrokerCrash(v) \/ RestartInjector(v) => G
  BY <1>7 DEF G
<1>12. ASSUME NEW v \in Vessel
       PROVE  v # w /\ (Publish(v) \/ Forward(v) \/ Acknowledged(v)) => G
  BY <1>8 DEF G
<1>13. (UNCHANGED boats => G) /\ (OnMessage => G)
  BY <1>9 DEF OnMessage, G
<1>14. G
  BY <1>10, <1>11, <1>12, <1>13, <1>b, PacketSteps, SavingChangesNothing DEF G
<1> QED
  BY <1>14 DEF G

-----------------------------------------------------------------------------

LEMMA KeptSomewhere ==
  NoOutageLoses <=>
    \A p \in published : p \in Carried \/ \E v \in Vessel : p \in ToSet(backlog[v])
<1> QED BY DEF NoOutageLoses, UnderWay, InBacklogs, Carried

(* A packet leaves a broker once the ground answers for it, or in a crash. *)
LEMMA OutageStep == LinkInv /\ [MqttNext]_mqttVars => NoOutageLoses'
<1> SUFFICES ASSUME LinkInv, [MqttNext]_mqttVars, NEW p \in published'
             PROVE  p \in Carried' \/ \E v \in Vessel : p \in ToSet(backlog'[v])
  BY DEF NoOutageLoses, UnderWay, InBacklogs, Carried
<1>0. /\ backlog \in [Vessel -> Seq(Packet)] /\ saved \in [Vessel -> Seq(Packet)]
      /\ sent \in [Vessel -> Nat] /\ life \in [Vessel -> Nat] /\ next \in [Vessel -> Nat]
  BY DEF LinkInv, LinkTypeOK
<1>a. CASE GroundCrash
  <2>1. backlog' = backlog /\ published' = published
    BY <1>a DEF GroundCrash
  <2>2. p \in Carried' \cup InBacklogs
    <3>1. p \in Carried \/ p \in InBacklogs
      BY <2>1, KeptSomewhere DEF LinkInv, InBacklogs
    <3> QED BY <3>1, CarriedStays
  <2> QED BY <2>1, <2>2 DEF InBacklogs
<1> SUFFICES ASSUME Carried \subseteq Carried', ~GroundCrash
             PROVE  p \in Carried' \/ \E v \in Vessel : p \in ToSet(backlog'[v])
  BY <1>a, CarriedStays
<1>1. Carried \subseteq Carried'
  OBVIOUS
<1>2. ASSUME NEW v \in Vessel, Publish(v), p \notin published
      PROVE  p \in Carried' \/ p \in ToSet(backlog'[v])
  <2> DEFINE r == [vessel |-> v, life |-> life[v], seq |-> next[v]]
  <2>1. /\ r \in Packet /\ published' = published \cup {r}
        /\ backlog' = [backlog EXCEPT ![v] = Append(@, r)] \/ lost' = lost \cup {r}
    BY <1>2, PublishFacts
  <2> HIDE DEF r
  <2>2. /\ p = r /\ backlog[v] \in Seq(Packet)
        /\ (backlog'[v] = Append(backlog[v], r) \/ p \in lost')
    BY <1>0, <1>2, <2>1
  <2>3. p \in lost' => p \in Carried'
    BY DEF Carried
  <2>4. backlog'[v] = Append(backlog[v], r) => p \in ToSet(backlog'[v])
    BY <2>1, <2>2, AppendSet
  <2> QED BY <2>2, <2>3, <2>4
<1>3. (\A v \in Vessel : ~Publish(v)) => p \in published
  BY PacketSteps, SavingChangesNothing, MessageFacts, ForwardFacts
    DEF RestartInjector, LinkUp, LinkDown, Autosave, BrokerCrash, Acknowledged, history
<1>4. ASSUME p \in published PROVE p \in Carried' \/ \E v \in Vessel : p \in ToSet(backlog'[v])
  <2>1. CASE p \in Carried
    BY <1>1, <2>1
  <2>2. CASE \E v \in Vessel : p \in ToSet(backlog[v])
    <3>1. PICK v \in Vessel : p \in ToSet(backlog[v])
      BY <2>2
    <3>2. backlog[v] \in Seq(Packet) /\ sent[v] \in Nat /\ sent[v] <= Len(backlog[v])
          /\ \A i \in 1 .. sent[v] : backlog[v][i] \in Carried
      BY <1>0 DEF LinkInv, BrokersKeep
    <3>3. CASE Publish(v)
      <4> DEFINE r == [vessel |-> v, life |-> life[v], seq |-> next[v]]
      <4>1. r \in Packet /\ (backlog' = [backlog EXCEPT ![v] = Append(@, r)] \/ backlog' = backlog)
        BY <3>3, PublishFacts
      <4> HIDE DEF r
      <4>2. backlog'[v] = Append(backlog[v], r) \/ backlog'[v] = backlog[v]
        BY <1>0, <4>1
      <4>3. backlog'[v] = Append(backlog[v], r) => p \in ToSet(backlog'[v])
        BY <3>1, <3>2, <4>1, AppendSet
      <4>4. backlog'[v] = backlog[v] => p \in ToSet(backlog'[v])
        BY <3>1
      <4> QED BY <4>2, <4>3, <4>4
    <3>4. CASE Acknowledged(v)
      <4>1. backlog'[v] = Tail(backlog[v]) /\ sent[v] > 0
        BY <1>0, <3>4 DEF Acknowledged
      <4>2. backlog[v] # <<>> /\ 1 \in 1 .. sent[v]
        BY <3>2, <4>1
      <4>3. p = backlog[v][1] \/ p \in ToSet(backlog'[v])
        BY <3>1, <3>2, <4>1, <4>2, TailSet
      <4> QED BY <1>1, <3>2, <4>2, <4>3
    <3>5. CASE BrokerCrash(v)
      <4>1. /\ backlog'[v] = saved[v] /\ UNCHANGED <<inbox, arrived>>
            /\ lost' = lost \cup (ToSet(backlog[v]) \ (ToSet(saved[v]) \cup ToSet(inbox) \cup arrived))
        BY <1>0, <3>5 DEF BrokerCrash, AfterCrash, ground
      <4> QED BY <3>1, <4>1 DEF Carried
    <3>6. CASE backlog'[v] = backlog[v]
      BY <3>1, <3>6
    <3>7. ASSUME NEW w \in Vessel, w # v, Publish(w) \/ Acknowledged(w) \/ BrokerCrash(w)
          PROVE  backlog'[v] = backlog[v]
      BY <1>0, <3>7 DEF Publish, Acknowledged, BrokerCrash
    <3>8. ASSUME NEW w \in Vessel, \/ RestartInjector(w) \/ LinkUp(w) \/ LinkDown(w)
                                   \/ Autosave(w) \/ Forward(w)
          PROVE  backlog'[v] = backlog[v]
      BY <3>8 DEF RestartInjector, LinkUp, LinkDown, Autosave, Forward, boats
    <3>9. OnMessage \/ UNCHANGED boats => backlog'[v] = backlog[v]
      BY DEF OnMessage, boats
    <3>10. Publish(v) \/ Acknowledged(v) \/ BrokerCrash(v) \/ backlog'[v] = backlog[v]
      BY <3>7, <3>8, <3>9, PacketSteps, SavingChangesNothing
    <3> QED BY <3>3, <3>4, <3>5, <3>6, <3>10
  <2> QED BY <1>4, <2>1, <2>2, KeptSomewhere DEF LinkInv
<1> QED
  BY <1>2, <1>3, <1>4

(* A packet that the bridge sends next has all earlier ones of its boat on *)
(* the ground already, or they were lost.                                  *)
LEMMA EarlierWereCarried ==
  ASSUME LinkInv, NEW v \in Vessel, NEW n \in 1 .. Len(backlog[v]), n = sent[v] + 1,
         NEW p \in published, Before(p, backlog[v][n])
  PROVE  p \in Carried
<1>0. /\ backlog[v] \in Seq(Packet) /\ sent[v] \in Nat /\ Len(backlog[v]) \in Nat
      /\ DOMAIN backlog[v] = 1 .. Len(backlog[v])
      /\ InTurn(backlog[v], v) /\ \A i \in 1 .. sent[v] : backlog[v][i] \in Carried
  BY DEF LinkInv, LinkTypeOK, BrokersKeep
<1>1. p \in Packet /\ p.vessel = v
  BY <1>0 DEF LinkInv, LinkTypeOK, InTurn, Before
<1> SUFFICES ASSUME p \notin Carried PROVE FALSE
  OBVIOUS
<1>2. PICK w \in Vessel : p \in ToSet(backlog[w])
  BY KeptSomewhere DEF LinkInv
<1>3. w = v
  BY <1>1, <1>2 DEF LinkInv, BrokersKeep, InTurn, ToSet
<1>4. PICK i \in 1 .. Len(backlog[v]) : backlog[v][i] = p
  BY <1>0, <1>2, <1>3 DEF ToSet
<1>5. i >= n
  BY <1>0, <1>4
<1>6. backlog[v][n] \in Packet
  BY <1>0
<1>7. i = n \/ Before(backlog[v][n], p)
  BY <1>0, <1>4, <1>5 DEF InTurn
<1> QED BY <1>1, <1>4, <1>6, <1>7, BeforeIsAnOrder

-----------------------------------------------------------------------------

(* What the monitor and on_lsdt see changes with a message, a packet on    *)
(* its way, a new one, or a crash, and with nothing else.                  *)
LEMMA GroundSteps ==
  ASSUME LinkInv, [MqttNext]_mqttVars
  PROVE  \/ \E v \in Vessel : Publish(v) \/ Forward(v)
         \/ OnMessage \/ GroundCrash \/ GroundAutosave
         \/ UNCHANGED <<inbox, keptInbox, arrived, published, through, seq, decoded>>
<1>1. ASSUME NEW v \in Vessel, \/ RestartInjector(v) \/ LinkUp(v) \/ LinkDown(v) \/ Autosave(v)
                               \/ Acknowledged(v)
      PROVE  UNCHANGED <<inbox, keptInbox, arrived, published, through, seq, decoded>>
  BY <1>1 DEF RestartInjector, LinkUp, LinkDown, Autosave, Acknowledged, ground, disk, twins, history
<1>2. ASSUME NEW v \in Vessel, BrokerCrash(v)
      PROVE  UNCHANGED <<inbox, keptInbox, arrived, published, through, seq, decoded>>
  BY <1>2 DEF BrokerCrash, ground, disk, twins
<1>3. ASSUME UNCHANGED <<injectors, boats, inbox, disk, twins, history>>
      PROVE  UNCHANGED <<inbox, keptInbox, arrived, published, through, seq, decoded>>
  BY <1>3 DEF disk, twins, history
<1> QED BY <1>1, <1>2, <1>3, PacketSteps

(* A queue that stays as it is stays in order while the history grows.     *)
LEMMA StillNoneOvertaken ==
  ASSUME LinkInv, [MqttNext]_mqttVars, NEW line \in Seq(Packet), NoneOvertaken(line)
  PROVE  /\ ToSet(line) \subseteq published'
         /\ \A j \in DOMAIN line, p \in published' :
              Before(p, line[j]) =>
                p \in arrived' \cup lost' \/ \E i \in DOMAIN line : i < j /\ line[i] = p
<1>1. \A j \in DOMAIN line : line[j] \in published
  BY DEF NoneOvertaken, ToSet
<1> QED BY <1>1, HistoryGrows DEF NoneOvertaken

LEMMA KeptStep == LinkInv /\ [MqttNext]_mqttVars => NoneOvertaken(keptInbox)'
<1> SUFFICES ASSUME LinkInv, [MqttNext]_mqttVars PROVE NoneOvertaken(keptInbox)'
  OBVIOUS
<1>0. /\ inbox \in Seq(Packet) /\ keptInbox \in Seq(Packet)
      /\ NoneOvertaken(inbox) /\ NoneOvertaken(keptInbox)
  BY DEF LinkInv, LinkTypeOK, FirstArrivalsInOrder
<1>1. CASE keptInbox' = inbox
  BY <1>0, <1>1, StillNoneOvertaken DEF NoneOvertaken, Before
<1>2. CASE keptInbox' = keptInbox
  BY <1>0, <1>2, StillNoneOvertaken DEF NoneOvertaken, Before
<1>3. CASE keptInbox' = <<>>
  BY <1>3 DEF NoneOvertaken, ToSet
<1>4. ASSUME NEW v \in Vessel, Publish(v) \/ Forward(v) PROVE keptInbox' = keptInbox
  BY <1>4 DEF Publish, Forward, ground, disk
<1>5. OnMessage => keptInbox' = keptInbox
  BY DEF OnMessage, disk
<1>6. /\ GroundCrash => keptInbox' = keptInbox \/ keptInbox' = <<>>
      /\ GroundAutosave => keptInbox' = inbox
  BY DEF GroundCrash, GroundAutosave
<1> QED
  BY <1>1, <1>2, <1>3, <1>4, <1>5, <1>6, GroundSteps

(* What has arrived, and the queue to the client.                          *)
LEMMA ArrivalsStep == LinkInv /\ [MqttNext]_mqttVars => FirstArrivalsInOrder'
<1> DEFINE InOrder == /\ NoneOvertaken(inbox)
                      /\ \A r \in arrived, p \in published : Before(p, r) => p \in arrived \cup lost
<1> SUFFICES ASSUME LinkInv, [MqttNext]_mqttVars PROVE InOrder'
  BY KeptStep DEF FirstArrivalsInOrder
<1>0. /\ inbox \in Seq(Packet) /\ DOMAIN inbox = 1 .. Len(inbox) /\ Len(inbox) \in Nat
      /\ arrived \subseteq published /\ lost \subseteq published /\ published \subseteq Packet
  BY DEF LinkInv, LinkTypeOK
<1>1. /\ ToSet(inbox) \subseteq published
      /\ \A i \in 1 .. Len(inbox) : inbox[i] \in published
      /\ \A r \in arrived, p \in published : Before(p, r) => p \in arrived \cup lost
      /\ \A j \in 1 .. Len(inbox), p \in published :
           Before(p, inbox[j]) =>
             p \in arrived \cup lost \/ \E i \in 1 .. Len(inbox) : i < j /\ inbox[i] = p
  BY <1>0 DEF LinkInv, FirstArrivalsInOrder, NoneOvertaken, ToSet
<1>2. ASSUME NEW v \in Vessel, Publish(v) PROVE InOrder'
  <2> DEFINE x == [vessel |-> v, life |-> life[v], seq |-> next[v]]
  <2>1. /\ published' = published \cup {x} /\ UNCHANGED <<inbox, arrived>>
        /\ \A r \in published : ~Before(x, r)
        /\ lost \subseteq lost'
    BY <1>2, PublishFacts, HistoryGrows DEF ground
  <2> HIDE DEF x
  <2>2. ToSet(inbox)' \subseteq published'
    BY <1>1, <2>1
  <2>3. \A r \in arrived', p \in published' : Before(p, r) => p \in arrived' \cup lost'
    BY <1>0, <1>1, <2>1
  <2>4. \A j \in 1 .. Len(inbox), p \in published' :
           Before(p, inbox[j]) =>
             p \in arrived \cup lost' \/ \E i \in 1 .. Len(inbox) : i < j /\ inbox[i] = p
    BY <1>1, <2>1
  <2> QED BY <1>0, <2>1, <2>2, <2>3, <2>4 DEF NoneOvertaken, Before
<1>3. ASSUME NEW v \in Vessel, Forward(v) PROVE InOrder'
  <2> DEFINE n == sent[v] + 1
             x == backlog[v][n]
  <2>1. /\ n \in 1 .. Len(backlog[v]) /\ x \in Packet /\ x \in published
        /\ UNCHANGED <<published, arrived>>
        /\ \/ inbox' = Append(inbox, x) /\ lost' = lost
           \/ inbox' = inbox
        /\ lost \subseteq lost'
    BY <1>3, ForwardFacts
  <2>2. \A p \in published : Before(p, x) => p \in Carried
    BY <2>1, EarlierWereCarried
  <2> HIDE DEF x, n
  <2>3. \A r \in arrived', p \in published' : Before(p, r) => p \in arrived' \cup lost'
    BY <1>1, <2>1
  <2>4. CASE inbox' = inbox
    <3>1. \A j \in 1 .. Len(inbox), p \in published' :
             Before(p, inbox[j]) =>
               p \in arrived' \cup lost' \/ \E i \in 1 .. Len(inbox) : i < j /\ inbox[i] = p
      BY <1>1, <2>1, <2>4
    <3>2. ToSet(inbox') \subseteq published'
      BY <1>1, <2>1, <2>4
    <3> QED BY <1>0, <2>3, <2>4, <3>1, <3>2 DEF NoneOvertaken, Before
  <2>5. CASE inbox' = Append(inbox, x) /\ lost' = lost
    <3>1. /\ DOMAIN inbox' = 1 .. Len(inbox) + 1 /\ inbox'[Len(inbox) + 1] = x
          /\ \A i \in 1 .. Len(inbox) : inbox'[i] = inbox[i]
          /\ ToSet(inbox') = ToSet(inbox) \cup {x}
      BY <1>0, <2>1, <2>5, AppendSet
    <3>2. ASSUME NEW j \in 1 .. Len(inbox) + 1, NEW p \in published', Before(p, inbox'[j]),
                 p \notin arrived \cup lost
          PROVE  \E i \in 1 .. Len(inbox) + 1 : i < j /\ inbox'[i] = p
      <4>1. CASE j \in 1 .. Len(inbox)
        <5>1. PICK i \in 1 .. Len(inbox) : i < j /\ inbox[i] = p
          BY <1>1, <2>1, <3>1, <3>2, <4>1
        <5> QED BY <1>0, <3>1, <5>1
      <4>2. CASE j = Len(inbox) + 1
        <5>1. p \in ToSet(inbox)
          BY <2>1, <2>2, <3>1, <3>2, <4>2 DEF Carried
        <5>2. PICK i \in 1 .. Len(inbox) : inbox[i] = p
          BY <1>0, <5>1 DEF ToSet
        <5> QED BY <1>0, <3>1, <4>2, <5>2
      <4> QED BY <1>0, <4>1, <4>2
    <3>3. ToSet(inbox') \subseteq published'
      BY <1>1, <2>1, <3>1
    <3>4. \A j \in DOMAIN inbox', p \in published' :
             Before(p, inbox'[j]) =>
               p \in arrived' \cup lost' \/ \E i \in DOMAIN inbox' : i < j /\ inbox'[i] = p
      <4>1. arrived' = arrived /\ lost' = lost
        BY <2>1, <2>5
      <4> QED BY <3>1, <3>2, <4>1
    <3> QED BY <2>3, <3>3, <3>4 DEF NoneOvertaken, Before
  <2> QED BY <2>1, <2>4, <2>5
<1>4. CASE OnMessage
  <2>1. /\ inbox # <<>> /\ inbox[1] \in published /\ arrived' = arrived \cup {inbox[1]}
        /\ inbox' = Tail(inbox) \/ inbox' = inbox
        /\ UNCHANGED <<published, lost>>
    BY <1>4, MessageFacts
  <2>2. 1 \in 1 .. Len(inbox)
    BY <1>0, <2>1
  <2>3. \A p \in published : Before(p, inbox[1]) => p \in arrived \cup lost
    BY <1>0, <1>1, <2>2
  <2>4. \A r \in arrived', p \in published' : Before(p, r) => p \in arrived' \cup lost'
    BY <1>1, <2>1, <2>3
  <2>5. CASE inbox' = inbox
    <3>1. \A j \in 1 .. Len(inbox), p \in published' :
             Before(p, inbox[j]) =>
               p \in arrived' \cup lost' \/ \E i \in 1 .. Len(inbox) : i < j /\ inbox[i] = p
      BY <1>1, <2>1
    <3>2. ToSet(inbox') \subseteq published'
      BY <1>1, <2>1, <2>5
    <3> QED BY <1>0, <2>4, <2>5, <3>1, <3>2 DEF NoneOvertaken, Before
  <2>6. CASE inbox' = Tail(inbox)
    <3>1. /\ DOMAIN inbox' = 1 .. Len(inbox) - 1
          /\ \A i \in 1 .. Len(inbox) - 1 : inbox'[i] = inbox[i + 1]
          /\ ToSet(inbox') \subseteq ToSet(inbox)
      BY <1>0, <2>1, <2>6, TailSet
    <3>2. ASSUME NEW j \in 1 .. Len(inbox) - 1, NEW p \in published', Before(p, inbox'[j]),
                 p \notin arrived' \cup lost'
          PROVE  \E i \in 1 .. Len(inbox) - 1 : i < j /\ inbox'[i] = p
      <4>1. j + 1 \in 1 .. Len(inbox) /\ inbox'[j] = inbox[j + 1]
        BY <1>0, <3>1
      <4>2. PICK i \in 1 .. Len(inbox) : i < j + 1 /\ inbox[i] = p
        BY <1>1, <2>1, <3>2, <4>1
      <4>3. i # 1
        BY <2>1, <3>2, <4>2
      <4>4. i - 1 \in 1 .. Len(inbox) - 1 /\ (i - 1) + 1 = i /\ i - 1 < j
        BY <1>0, <4>2, <4>3
      <4>5. inbox'[i - 1] = p
        BY <3>1, <4>2, <4>4
      <4> QED BY <4>4, <4>5
    <3>3. ToSet(inbox') \subseteq published'
      BY <1>1, <2>1, <3>1
    <3>4. \A j \in DOMAIN inbox', p \in published' :
             Before(p, inbox'[j]) =>
               p \in arrived' \cup lost' \/ \E i \in DOMAIN inbox' : i < j /\ inbox'[i] = p
      BY <3>1, <3>2
    <3> QED BY <2>4, <3>3, <3>4 DEF NoneOvertaken, Before
  <2> QED BY <2>1, <2>5, <2>6
<1>5. ASSUME inbox' \in {inbox, keptInbox}, UNCHANGED <<arrived, published>>
      PROVE  InOrder'
  <2>1. \A r \in arrived', p \in published' : Before(p, r) => p \in arrived' \cup lost'
    BY <1>1, <1>5, HistoryGrows
  <2>2. /\ inbox \in Seq(Packet) /\ keptInbox \in Seq(Packet)
        /\ NoneOvertaken(inbox) /\ NoneOvertaken(keptInbox)
    BY DEF LinkInv, LinkTypeOK, FirstArrivalsInOrder
  <2>3. CASE inbox' = inbox
    BY <2>1, <2>2, <2>3, StillNoneOvertaken DEF NoneOvertaken, Before
  <2>4. CASE inbox' = keptInbox
    BY <2>1, <2>2, <2>4, StillNoneOvertaken DEF NoneOvertaken, Before
  <2> QED BY <1>5, <2>3, <2>4
<1>6. CASE GroundCrash
  BY <1>5, <1>6 DEF GroundCrash
<1>7. CASE GroundAutosave
  BY <1>5, <1>7 DEF GroundAutosave, history
<1> HIDE DEF InOrder
<1> QED
  BY <1>2, <1>3, <1>4, <1>5, <1>6, <1>7, GroundSteps

LEMMA MarksStep == LinkInv /\ [MqttNext]_mqttVars => MarksAreTaken'
<1> SUFFICES ASSUME LinkInv, [MqttNext]_mqttVars, NEW v \in Vessel, seq'[v] > 0
             PROVE  \E r \in through' : r.vessel = v /\ r.seq = seq'[v]
  BY DEF MarksAreTaken
<1>0. seq \in [Vessel -> Nat] /\ (seq[v] > 0 => \E r \in through : r.vessel = v /\ r.seq = seq[v])
  BY DEF LinkInv, LinkTypeOK, MarksAreTaken
<1>1. CASE OnMessage
  <2> DEFINE p == inbox[1]
  <2>1. \/ UNCHANGED <<seq, through>>
        \/ seq' = [seq EXCEPT ![p.vessel] = p.seq] /\ through' = through \cup {p}
    BY <1>1, MessageFacts
  <2> HIDE DEF p
  <2>2. CASE p.vessel = v
    BY <1>0, <2>1, <2>2
  <2>3. CASE p.vessel # v
    BY <1>0, <2>1, <2>3
  <2> QED BY <2>2, <2>3
<1>2. CASE UNCHANGED <<seq, through>>
  BY <1>0, <1>2
<1>3. ASSUME NEW w \in Vessel, Publish(w) \/ Forward(w)
      PROVE  UNCHANGED <<seq, through>>
  BY <1>3 DEF Publish, Forward, twins
<1>4. GroundCrash \/ GroundAutosave => UNCHANGED <<seq, through>>
  BY DEF GroundCrash, GroundAutosave, twins, history
<1> QED
  BY <1>1, <1>2, <1>3, <1>4, GroundSteps

(* A packet the monitor refuses on its first arrival is refused for one of *)
(* an earlier life: a later one of its own life cannot have come before it. *)
LEMMA RefusedStep == LinkInv /\ [MqttNext]_mqttVars => RefusedOnlyAfterRestart'
<1> SUFFICES ASSUME LinkInv, [MqttNext]_mqttVars, NEW p \in arrived', p \notin through', p \notin lost'
             PROVE  \E r \in through' : r.vessel = p.vessel /\ r.life < p.life /\ r.seq >= p.seq
  BY DEF RefusedOnlyAfterRestart
<1>0. /\ through \subseteq arrived /\ arrived \subseteq published /\ published \subseteq Packet
      /\ seq \in [Vessel -> Nat]
      /\ \A x \in arrived \ (through \cup lost) :
           \E r \in through : r.vessel = x.vessel /\ r.life < x.life /\ r.seq >= x.seq
  BY DEF LinkInv, LinkTypeOK, RefusedOnlyAfterRestart
<1>1. ASSUME p \in arrived
      PROVE  \E r \in through' : r.vessel = p.vessel /\ r.life < p.life /\ r.seq >= p.seq
  BY <1>0, <1>1, HistoryGrows
<1>2. CASE OnMessage
  <2>1. /\ inbox # <<>> /\ inbox[1] \in published /\ arrived' = arrived \cup {inbox[1]}
        /\ \/ inbox[1].seq <= seq[inbox[1].vessel] /\ through' = through
           \/ through' = through \cup {inbox[1]}
        /\ lost' = lost
    BY <1>2, MessageFacts
  <2>2. CASE p \in arrived
    BY <1>1, <2>1, <2>2
  <2>3. CASE p \notin arrived
    <3>1. p = inbox[1] /\ p.seq <= seq[p.vessel] /\ through' = through
      BY <2>1, <2>3
    <3>2. p \in published /\ p \in Packet /\ p.vessel \in Vessel /\ p.seq \in Nat \ {0} /\ p.life \in Nat
      BY <1>0, <2>1, <3>1 DEF Packet
    <3>3. PICK r \in through : r.vessel = p.vessel /\ r.seq = seq[p.vessel]
      BY <1>0, <3>1, <3>2 DEF LinkInv, MarksAreTaken
    <3>4. r \in arrived /\ r \in Packet /\ r.life \in Nat /\ r.seq \in Nat /\ r # p
      BY <1>0, <2>3 DEF Packet
    <3>5. CASE r.life < p.life
      BY <3>1, <3>2, <3>3, <3>4, <3>5
    <3>6. CASE ~(r.life < p.life)
      <4>1. ~Before(r, p)
        BY <3>1, <3>2, <3>3, <3>4, <3>6 DEF Before
      <4>2. Before(p, r)
        BY <3>2, <3>3, <3>4, <4>1, BeforeIsAnOrder
      <4>3. p \in arrived \cup lost
        BY <3>2, <3>4, <4>2 DEF LinkInv, FirstArrivalsInOrder
      <4> QED BY <2>1, <2>3, <4>3
    <3> QED BY <3>5, <3>6
  <2> QED BY <2>2, <2>3
<1>3. ASSUME NEW w \in Vessel, Publish(w) \/ Forward(w)
      PROVE  p \in arrived
  BY <1>3 DEF Publish, Forward
<1>4. GroundCrash \/ GroundAutosave => p \in arrived
  BY DEF GroundCrash, GroundAutosave, history
<1> QED
  BY <1>1, <1>2, <1>3, <1>4, GroundSteps

-----------------------------------------------------------------------------

(* What a queue ends on, when one message is added or taken.               *)
LEMMA AnotherAdded ==
  ASSUME NEW line \in Seq(Packet), NEW x \in Packet, NEW v, NEW P, x.vessel # v
  PROVE  /\ LastIsNewest(line, v, P) => LastIsNewest(Append(line, x), v, P)
         /\ NoneOf(Append(line, x), v) => NoneOf(line, v)
<1>1. /\ DOMAIN line = 1 .. Len(line) /\ Len(line) \in Nat /\ DOMAIN Append(line, x) = 1 .. Len(line) + 1
      /\ \A i \in 1 .. Len(line) : Append(line, x)[i] = line[i]
      /\ Append(line, x)[Len(line) + 1] = x
  BY AppendSet
<1> DEFINE r == Append(line, x)
<1> HIDE DEF r
<1>2. ASSUME LastIsNewest(line, v, P), NEW j \in 1 .. Len(line) + 1, r[j].vessel = v,
             \A i \in 1 .. Len(line) + 1 : i > j => r[i].vessel # v
      PROVE  NewestOf(r[j], P)
  <2>1. j \in 1 .. Len(line) /\ r[j] = line[j]
    BY <1>1, <1>2 DEF r
  <2>2. \A i \in 1 .. Len(line) : i > j => line[i].vessel # v
    BY <1>1, <1>2 DEF r
  <2> QED BY <1>1, <1>2, <2>1, <2>2 DEF LastIsNewest
<1>3. LastIsNewest(line, v, P) => LastIsNewest(r, v, P)
  BY <1>1, <1>2 DEF LastIsNewest, r
<1>4. NoneOf(r, v) => NoneOf(line, v)
  BY <1>1 DEF NoneOf, r
<1> QED BY <1>3, <1>4 DEF r

LEMMA NewestAdded ==
  ASSUME NEW line \in Seq(Packet), NEW x \in Packet, NEW P, NewestOf(x, P)
  PROVE  /\ LastIsNewest(Append(line, x), x.vessel, P)
         /\ ~NoneOf(Append(line, x), x.vessel)
<1>1. /\ Len(line) \in Nat /\ DOMAIN Append(line, x) = 1 .. Len(line) + 1
      /\ Append(line, x)[Len(line) + 1] = x
  BY AppendSet
<1>2. Len(line) + 1 \in DOMAIN Append(line, x)
  BY <1>1
<1>3. ~NoneOf(Append(line, x), x.vessel)
  BY <1>1, <1>2 DEF NoneOf
<1>4. ASSUME NEW j \in 1 .. Len(line) + 1,
             \A i \in DOMAIN Append(line, x) : i > j => Append(line, x)[i].vessel # x.vessel
      PROVE  NewestOf(Append(line, x)[j], P)
  <2>1. j = Len(line) + 1
    BY <1>1, <1>2, <1>4
  <2> QED BY <1>1, <2>1
<1> QED BY <1>1, <1>3, <1>4 DEF LastIsNewest

LEMMA FirstTaken ==
  ASSUME NEW line \in Seq(Packet), line # <<>>, NEW v, NEW P, LastIsNewest(line, v, P)
  PROVE  /\ LastIsNewest(Tail(line), v, P)
         /\ NoneOf(Tail(line), v) /\ line[1].vessel = v => NewestOf(line[1], P)
         /\ NoneOf(Tail(line), v) /\ line[1].vessel # v => NoneOf(line, v)
<1> DEFINE t == Tail(line)
<1>1. /\ DOMAIN line = 1 .. Len(line) /\ Len(line) \in Nat \ {0} /\ DOMAIN t = 1 .. Len(line) - 1
      /\ \A i \in 1 .. Len(line) - 1 : t[i] = line[i + 1]
  BY TailSet
<1> HIDE DEF t
<1>2. ASSUME NEW i \in 1 .. Len(line), i # 1
      PROVE  i - 1 \in 1 .. Len(line) - 1 /\ t[i - 1] = line[i]
  <2>1. i - 1 \in 1 .. Len(line) - 1 /\ (i - 1) + 1 = i
    BY <1>1, <1>2
  <2> QED BY <1>1, <2>1
<1>3. ASSUME NEW j \in 1 .. Len(line) - 1, t[j].vessel = v,
             \A i \in 1 .. Len(line) - 1 : i > j => t[i].vessel # v
      PROVE  NewestOf(t[j], P)
  <2>1. j + 1 \in 1 .. Len(line) /\ t[j] = line[j + 1]
    BY <1>1
  <2>2. ASSUME NEW i \in 1 .. Len(line), i > j + 1 PROVE line[i].vessel # v
    <3>1. i # 1 /\ i - 1 > j
      BY <2>2
    <3> QED BY <1>2, <1>3, <3>1
  <2> QED BY <1>1, <1>3, <2>1, <2>2 DEF LastIsNewest
<1>4. LastIsNewest(t, v, P)
  BY <1>1, <1>3 DEF LastIsNewest
<1>5. ASSUME NoneOf(t, v) PROVE \A i \in 1 .. Len(line) : i # 1 => line[i].vessel # v
  BY <1>1, <1>2, <1>5 DEF NoneOf
<1>6. 1 \in 1 .. Len(line) /\ \A i \in 1 .. Len(line) : i > 1 => i # 1
  BY <1>1
<1>7. NoneOf(t, v) /\ line[1].vessel = v => NewestOf(line[1], P)
  BY <1>1, <1>5, <1>6 DEF LastIsNewest
<1>8. NoneOf(t, v) /\ line[1].vessel # v => NoneOf(line, v)
  BY <1>1, <1>5 DEF NoneOf
<1> QED BY <1>4, <1>7, <1>8 DEF t

(* A packet of another boat changes nothing for this one.                  *)
LEMMA AnotherPublished ==
  ASSUME NEW P, NEW x, NEW v, x.vessel # v
  PROVE  /\ \A p : p.vessel = v /\ NewestOf(p, P) => NewestOf(p, P \cup {x})
         /\ \A line : LastIsNewest(line, v, P) => LastIsNewest(line, v, P \cup {x})
         /\ \A p : TwinHasNewest(p, v, P) => TwinHasNewest(p, v, P \cup {x})
<1>1. \A p : p.vessel = v /\ NewestOf(p, P) => NewestOf(p, P \cup {x})
  BY DEF NewestOf
<1> QED BY <1>1 DEF LastIsNewest, TwinHasNewest

LEMMA EndsStep == LinkInv /\ [MqttNext]_mqttVars => EndsOnNewest'
<1> SUFFICES ASSUME LinkInv, [MqttNext]_mqttVars, NEW v \in Vessel, v \notin disturbed'
             PROVE  /\ backlog'[v] # <<>> => NewestOf(backlog'[v][Len(backlog'[v])], published')
                    /\ sent'[v] = Len(backlog'[v]) =>
                         /\ LastIsNewest(inbox', v, published')
                         /\ NoneOf(inbox', v) => TwinHasNewest(decoded'[v], v, published')
  BY DEF EndsOnNewest, NewestOf, LastIsNewest, NoneOf, TwinHasNewest, Before
<1> DEFINE E(b, s, way, d, P) ==
             /\ b # <<>> => NewestOf(b[Len(b)], P)
             /\ s = Len(b) => /\ LastIsNewest(way, v, P)
                              /\ NoneOf(way, v) => TwinHasNewest(d, v, P)
           G == E(backlog'[v], sent'[v], inbox', decoded'[v], published')
<1> HIDE DEF E
<1> SUFFICES G
  BY DEF E
<1> HIDE DEF G
<1>0. /\ backlog \in [Vessel -> Seq(Packet)] /\ sent \in [Vessel -> Nat]
      /\ inbox \in Seq(Packet) /\ published \subseteq Packet
      /\ decoded \in [Vessel -> Packet \cup {Nothing}]
      /\ backlog[v] \in Seq(Packet) /\ sent[v] \in Nat /\ Len(backlog[v]) \in Nat
      /\ sent[v] <= Len(backlog[v])
  BY DEF LinkInv, LinkTypeOK, BrokersKeep
<1>1. E(backlog[v], sent[v], inbox, decoded[v], published)
  BY HistoryGrows DEF LinkInv, EndsOnNewest, E
<1>2. CASE Publish(v)
  <2> DEFINE x == [vessel |-> v, life |-> life[v], seq |-> next[v]]
  <2>1. /\ x \in Packet /\ x.vessel = v /\ published' = published \cup {x}
        /\ \A r \in published : r.vessel = v => Before(r, x)
        /\ backlog' = [backlog EXCEPT ![v] = Append(@, x)] \/ v \in disturbed'
        /\ sent' = sent
    BY <1>2, PublishFacts
  <2> HIDE DEF x
  <2>2. backlog'[v] = Append(backlog[v], x) /\ sent'[v] = sent[v]
    BY <1>0, <2>1
  <2>3. /\ Len(backlog'[v]) = Len(backlog[v]) + 1 /\ backlog'[v][Len(backlog[v]) + 1] = x
    BY <1>0, <2>1, <2>2, AppendSet
  <2>4. NewestOf(x, published')
    BY <2>1 DEF NewestOf
  <2>5. sent'[v] # Len(backlog'[v])
    BY <1>0, <2>2, <2>3
  <2> QED BY <2>3, <2>4, <2>5 DEF G, E
<1>3. ASSUME NEW w \in Vessel, w # v, Publish(w) PROVE G
  <2> DEFINE x == [vessel |-> w, life |-> life[w], seq |-> next[w]]
  <2>1. /\ x.vessel = w /\ published' = published \cup {x}
        /\ backlog' = [backlog EXCEPT ![w] = Append(@, x)] \/ backlog' = backlog
        /\ UNCHANGED <<sent, inbox, decoded>>
    BY <1>3, PublishFacts DEF ground, twins
  <2> HIDE DEF x
  <2>2. backlog'[v] = backlog[v]
    BY <1>0, <1>3, <2>1
  <2>3. E(backlog[v], sent[v], inbox, decoded[v], published)
    BY <1>1
  <2>4. backlog[v] # <<>> => backlog[v][Len(backlog[v])].vessel = v
    <3>1. backlog[v] # <<>> => Len(backlog[v]) \in DOMAIN backlog[v]
      BY <1>0
    <3> QED BY <3>1 DEF LinkInv, BrokersKeep, InTurn
  <2>5. E(backlog[v], sent[v], inbox, decoded[v], published \cup {x})
    BY <1>3, <2>1, <2>3, <2>4, AnotherPublished DEF E
  <2> QED BY <2>1, <2>2, <2>5 DEF G
<1>4. CASE Forward(v)
  <2> DEFINE x == backlog[v][sent[v] + 1]
  <2>1. /\ x \in Packet /\ x.vessel = v
        /\ inbox' = Append(inbox, x) \/ v \in disturbed'
        /\ sent' = [sent EXCEPT ![v] = @ + 1]
        /\ UNCHANGED <<backlog, decoded, published>>
    BY <1>4, ForwardFacts DEF twins
  <2>2. inbox' = Append(inbox, x) /\ sent'[v] = sent[v] + 1
    BY <1>0, <2>1
  <2>3. E(backlog[v], sent[v], inbox, decoded[v], published)
    BY <1>1
  <2>4. backlog[v] # <<>> => NewestOf(backlog[v][Len(backlog[v])], published)
    BY <2>3 DEF E
  <2>5. ASSUME sent[v] + 1 = Len(backlog[v])
        PROVE  LastIsNewest(inbox', v, published) /\ ~NoneOf(inbox', v)
    <3>1. x = backlog[v][Len(backlog[v])] /\ backlog[v] # <<>>
      BY <1>0, <2>5
    <3>2. NewestOf(x, published)
      BY <2>4, <3>1
    <3> HIDE DEF x
    <3> QED BY <1>0, <2>1, <2>2, <3>2, NewestAdded
  <2> HIDE DEF x
  <2> QED BY <2>1, <2>2, <2>4, <2>5 DEF G, E
<1>5. ASSUME NEW w \in Vessel, w # v, Forward(w) PROVE G
  <2> DEFINE x == backlog[w][sent[w] + 1]
  <2>1. /\ x \in Packet /\ x.vessel = w
        /\ inbox' = Append(inbox, x) \/ inbox' = inbox
        /\ sent' = [sent EXCEPT ![w] = @ + 1]
        /\ UNCHANGED <<backlog, decoded, published>>
    BY <1>5, ForwardFacts DEF twins
  <2> HIDE DEF x
  <2>2. sent'[v] = sent[v]
    BY <1>0, <1>5, <2>1
  <2>3. E(backlog[v], sent[v], inbox, decoded[v], published)
    BY <1>1
  <2>4. CASE inbox' = inbox
    BY <2>1, <2>2, <2>3, <2>4 DEF G
  <2>5. CASE inbox' = Append(inbox, x)
    <3>1. /\ LastIsNewest(inbox, v, published) => LastIsNewest(inbox', v, published)
          /\ NoneOf(inbox', v) => NoneOf(inbox, v)
      BY <1>0, <1>5, <2>1, <2>5, AnotherAdded
    <3> QED BY <2>1, <2>2, <2>3, <3>1 DEF G, E
  <2> QED BY <2>1, <2>4, <2>5
<1>6. CASE Acknowledged(v)
  <2>1. /\ sent[v] > 0 /\ backlog' = [backlog EXCEPT ![v] = Tail(@)]
        /\ sent' = [sent EXCEPT ![v] = @ - 1]
        /\ UNCHANGED <<inbox, decoded, published>>
    BY <1>6 DEF Acknowledged, ground, twins, history
  <2>2. /\ backlog'[v] = Tail(backlog[v]) /\ sent'[v] = sent[v] - 1 /\ backlog[v] # <<>>
    BY <1>0, <2>1
  <2>3. /\ Len(backlog'[v]) = Len(backlog[v]) - 1
        /\ \A i \in 1 .. Len(backlog[v]) - 1 : backlog'[v][i] = backlog[v][i + 1]
        /\ backlog'[v] \in Seq(Packet)
    BY <1>0, <2>2, TailSet
  <2>4. E(backlog[v], sent[v], inbox, decoded[v], published)
    BY <1>1
  <2>5. backlog'[v] # <<>> => backlog'[v][Len(backlog'[v])] = backlog[v][Len(backlog[v])]
    <3>1. backlog'[v] # <<>> => Len(backlog'[v]) \in 1 .. Len(backlog[v]) - 1
      BY <1>0, <2>3
    <3>2. Len(backlog'[v]) + 1 = Len(backlog[v])
      BY <1>0, <2>3
    <3> QED BY <2>3, <3>1, <3>2
  <2>6. sent'[v] = Len(backlog'[v]) => sent[v] = Len(backlog[v])
    BY <1>0, <2>2, <2>3
  <2> QED BY <2>1, <2>2, <2>4, <2>5, <2>6 DEF G, E
<1>7. CASE OnMessage
  <2> DEFINE x == inbox[1]
  <2>1. /\ inbox # <<>> /\ x \in Packet /\ decoded' = [decoded EXCEPT ![x.vessel] = x]
        /\ inbox' = Tail(inbox) \/ inbox' = inbox
        /\ UNCHANGED <<backlog, sent, published>>
    BY <1>7, MessageFacts DEF boats
  <2>2. x.vessel \in Vessel
    BY <2>1 DEF Packet
  <2>3. E(backlog[v], sent[v], inbox, decoded[v], published)
    BY <1>1
  <2>4. decoded'[v] = IF x.vessel = v THEN x ELSE decoded[v]
    BY <1>0, <2>1, <2>2
  <2>5. CASE inbox' = inbox
    <3>1. CASE x.vessel = v
      <4>1. 1 \in DOMAIN inbox
        BY <1>0, <2>1
      <4>2. ~NoneOf(inbox, v)
        BY <3>1, <4>1 DEF NoneOf
      <4> HIDE DEF x
      <4> QED BY <2>1, <2>3, <2>5, <4>2 DEF G, E
    <3>2. CASE x.vessel # v
      BY <2>1, <2>3, <2>4, <2>5, <3>2 DEF G
    <3> QED BY <3>1, <3>2
  <2>6. CASE inbox' = Tail(inbox)
    <3>1. ASSUME sent[v] = Len(backlog[v])
          PROVE  /\ LastIsNewest(inbox', v, published)
                 /\ NoneOf(inbox', v) => TwinHasNewest(decoded'[v], v, published)
      <4>1. /\ LastIsNewest(inbox, v, published)
            /\ NoneOf(inbox, v) => TwinHasNewest(decoded[v], v, published)
        BY <2>3, <3>1 DEF E
      <4>2. /\ LastIsNewest(inbox', v, published)
            /\ NoneOf(inbox', v) /\ x.vessel = v => NewestOf(x, published)
            /\ NoneOf(inbox', v) /\ x.vessel # v => NoneOf(inbox, v)
        BY <1>0, <2>1, <2>6, <4>1, FirstTaken
      <4> HIDE DEF x
      <4> QED BY <2>4, <4>1, <4>2 DEF TwinHasNewest
    <3> HIDE DEF x
    <3> QED BY <2>1, <2>3, <3>1 DEF G, E
  <2> QED BY <2>1, <2>5, <2>6
<1>8. ASSUME UNCHANGED <<backlog, inbox, decoded, published>>,
             sent'[v] = sent[v] \/ sent'[v] = 0
      PROVE  G
  <2>1. E(backlog[v], sent[v], inbox, decoded[v], published)
    BY <1>1
  <2>2. sent'[v] = Len(backlog[v]) => sent[v] = Len(backlog[v])
    BY <1>0, <1>8
  <2> QED BY <1>8, <2>1, <2>2 DEF G, E
<1>9. ASSUME backlog'[v] = backlog[v], sent'[v] = sent[v], UNCHANGED <<inbox, decoded, published>>
      PROVE  G
  <2>1. E(backlog[v], sent[v], inbox, decoded[v], published)
    BY <1>1
  <2> QED BY <1>9, <2>1 DEF G
<1>10. ASSUME NEW w \in Vessel, RestartInjector(w) \/ LinkUp(w) \/ LinkDown(w) \/ Autosave(w)
       PROVE  G
  <2>1. /\ UNCHANGED <<backlog, inbox, decoded, published>>
        /\ sent'[v] = sent[v] \/ sent'[v] = 0
    BY <1>0, <1>10 DEF RestartInjector, LinkUp, LinkDown, Autosave, boats, ground, twins, history
  <2> QED BY <1>8, <2>1
<1>11. ASSUME NEW w \in Vessel, w # v, BrokerCrash(w) \/ Acknowledged(w)
       PROVE  G
  <2>1. /\ backlog'[v] = backlog[v] /\ sent'[v] = sent[v]
        /\ UNCHANGED <<inbox, decoded, published>>
    BY <1>0, <1>11 DEF BrokerCrash, Acknowledged, ground, twins, history
  <2> QED BY <1>9, <2>1
<1>12. ~BrokerCrash(v) /\ ~GroundCrash
  BY DEF BrokerCrash, GroundCrash
<1>13. ASSUME UNCHANGED <<injectors, boats, inbox, twins, history>> PROVE G
  <2>1. UNCHANGED <<backlog, sent, inbox, decoded, published>>
    BY <1>13 DEF boats, twins, history
  <2> QED BY <1>9, <2>1
<1> QED
  BY <1>2, <1>3, <1>4, <1>5, <1>6, <1>7, <1>10, <1>11, <1>12, <1>13, PacketSteps, SavingChangesNothing

-----------------------------------------------------------------------------

LEMMA LinkInvInit == MqttInit => LinkInv
<1> SUFFICES ASSUME MqttInit PROVE LinkInv
  OBVIOUS
<1>1. /\ ToSet(inbox) = {} /\ DOMAIN inbox = {} /\ ToSet(keptInbox) = {} /\ DOMAIN keptInbox = {}
      /\ published = {} /\ arrived = {}
      /\ through = {} /\ lost = {}
      /\ \A v \in Vessel : /\ backlog[v] = <<>> /\ saved[v] = <<>> /\ sent[v] = 0 /\ seq[v] = 0
  BY DEF MqttInit, ToSet
<1>2. LinkTypeOK
  BY DEF MqttInit, LinkTypeOK
<1>3. NextIsNew /\ BrokersKeep /\ FirstArrivalsInOrder /\ MarksAreTaken
  BY <1>1 DEF NextIsNew, BrokersKeep, InTurn, FirstArrivalsInOrder, NoneOvertaken, MarksAreTaken
<1>4. NoOutageLoses /\ RefusedOnlyAfterRestart
  BY <1>1 DEF NoOutageLoses, RefusedOnlyAfterRestart
<1>5. EndsOnNewest
  BY <1>1 DEF EndsOnNewest, LastIsNewest, NoneOf, TwinHasNewest
<1> QED BY <1>2, <1>3, <1>4, <1>5 DEF LinkInv

LEMMA LinkInvariant == MqttSpec => []LinkInv
<1>1. LinkInv /\ [MqttNext]_mqttVars => LinkInv'
  BY TypeStep, NumberedStep, BrokersStep, ArrivalsStep, MarksStep, OutageStep, RefusedStep, EndsStep
    DEF LinkInv
<1> QED
  BY <1>1, LinkInvInit, PTL DEF MqttSpec

(* config/mosquitto/README.md, "no outage loses a frame": whatever outages, *)
(* lost acknowledgements, crashes and restarts there are, a packet is under *)
(* way, has reached on_lsdt, or went in one of the ways NoOutageLoses lists. *)
THEOREM MqttNoOutageLoses == MqttSpec => []NoOutageLoses
<1>1. LinkInv => NoOutageLoses
  BY DEF LinkInv
<1> QED
  BY <1>1, LinkInvariant, PTL

(* A retransmission is never what makes the monitor refuse new telemetry.  *)
THEOREM MqttRefusedOnlyAfterRestart == MqttSpec => []RefusedOnlyAfterRestart
<1>1. LinkInv => RefusedOnlyAfterRestart
  BY DEF LinkInv
<1> QED
  BY <1>1, LinkInvariant, PTL

(* Although on_lsdt decodes what the monitor refuses, a twin ends up on    *)
(* the last packet of its boat once everything has been delivered, unless  *)
(* a broker dropped a packet of the boat on the way or crashed.            *)
THEOREM MqttDrainedIsNewest == MqttSpec => []DrainedIsNewest
<1>1. ASSUME LinkInv, NEW v \in Vessel, v \notin disturbed, NEW a \in arrived, a.vessel = v,
             \A p \in UnderWay : p.vessel # v
      PROVE  decoded[v] = LastPublished(v)
  <2>1. /\ backlog[v] \in Seq(Packet) /\ inbox \in Seq(Packet) /\ sent[v] \in Nat
        /\ sent[v] <= Len(backlog[v]) /\ InTurn(backlog[v], v)
        /\ a \in published /\ published \subseteq Packet
    BY <1>1 DEF LinkInv, LinkTypeOK, BrokersKeep
  <2>2. backlog[v] = <<>>
    <3> SUFFICES ASSUME backlog[v] # <<>> PROVE FALSE
      OBVIOUS
    <3>1. 1 \in DOMAIN backlog[v]
      BY <2>1
    <3>2. backlog[v][1] \in UnderWay
      BY <3>1 DEF UnderWay, InBacklogs, ToSet
    <3> QED BY <1>1, <2>1, <3>1, <3>2 DEF InTurn
  <2>3. sent[v] = Len(backlog[v])
    BY <2>1, <2>2
  <2>4. NoneOf(inbox, v)
    BY <1>1 DEF NoneOf, UnderWay, ToSet
  <2>5. NewestOf(decoded[v], published) /\ decoded[v].vessel = v
    BY <1>1, <2>1, <2>3, <2>4 DEF LinkInv, EndsOnNewest, TwinHasNewest
  <2> DEFINE Top(p) == /\ p.vessel = v
                       /\ \A r \in published : r.vessel = v =>
                            r.life < p.life \/ (r.life = p.life /\ r.seq <= p.seq)
  <2>6. \A p \in published : p.life \in Nat /\ p.seq \in Nat
    BY <2>1 DEF Packet
  <2>7. decoded[v] \in published /\ Top(decoded[v])
    BY <2>5, <2>6 DEF NewestOf, Before
  <2>8. ASSUME NEW p \in published, Top(p) PROVE p = decoded[v]
    <3>1. ~Before(p, decoded[v])
      BY <2>6, <2>7, <2>8 DEF Before
    <3> QED BY <2>5, <2>8, <3>1 DEF NewestOf
  <2>9. LastPublished(v) = CHOOSE p \in published : Top(p)
    BY DEF LastPublished
  <2> HIDE DEF Top
  <2> QED BY <2>7, <2>8, <2>9
<1>2. LinkInv => DrainedIsNewest
  BY <1>1 DEF DrainedIsNewest
<1> QED
  BY <1>2, LinkInvariant, PTL
=============================================================================

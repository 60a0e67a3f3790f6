------------------------------ MODULE MqttLink ------------------------------
(***************************************************************************)
(* Telemetry over MQTT: each boat publishes to the broker aboard, whose    *)
(* bridge carries it to the ground whenever the link is up                 *)
(* (config/mosquitto/boat.conf), and the ground's client                   *)
(* (adapters/mqtt/fdt_mqtt.c) hands it to on_lsdt, which has the frame     *)
(* monitor judge it and decodes it whatever the verdict.                   *)
(*                                                                         *)
(* Delivery is at least once on both hops: a message stays at the head of  *)
(* its queue until it is acknowledged, and an outage before that sends it  *)
(* again.  A packet is its vessel, its number and the life of the injector *)
(* that numbered it; the life is not on the wire.  published, arrived,     *)
(* through, lost and disturbed (the vessels on whose way a broker dropped  *)
(* a packet, be it a copy, or crashed) are history.  No application of the *)
(* repository links the client in yet; the loop around it is               *)
(* fdt_controller.c's.                                                     *)
(*                                                                         *)
(* Both brokers save every thirty seconds and have, after a crash, what    *)
(* they saved last; both drop what does not fit into a queue they bound,   *)
(* as no file of config/mosquitto lifts mosquitto's limit.                 *)
(*                                                                         *)
(* An operator named for a slip is the one after it with that slip made.   *)
(***************************************************************************)
EXTENDS Integers, Sequences, SequencesExt, FiniteSets

CONSTANTS
  N,              \* vessels, each with a boat's broker of its own
  MaxSubs,        \* MQTT_SUBS
  MaxPublished,   \* bound: packets of all lives of the injectors
  MaxLives,       \* bound: lives of an injector
  MaxCrashes,     \* bound: crashes of all brokers
  BacklogSize,    \* messages a boat's broker queues for its bridge at most
  InboxSize       \* messages the ground's broker queues for its client at most

Vessel == 0 .. N - 1
Packet == [vessel : Vessel, life : Nat, seq : Nat \ {0}]

ASSUME FleetOfBoatsAssumption == N \in Nat \ {0}

VARIABLES
  next, life,                 \* the injectors
  backlog, sent, linkUp,      \* the boats' brokers: queue, how far it is sent
  saved, crashes,             \* what is on their disks; crashes to come (bounded)
  session,                    \* the topics the ground broker keeps for the client
  inbox,                      \* its queue for the client
  keptSession, keptInbox, groundCrashes,  \* the same of the ground's broker
  client, subs,               \* fdt_transport_t: open or closed; its slots
  seq, decoded,               \* the monitor's marks and g_decoded
  published, arrived, through, lost, disturbed

injectors == <<next, life>>
boats == <<backlog, sent, linkUp, saved, crashes>>
disk == <<keptSession, keptInbox, groundCrashes>>
ground == <<session, inbox, client, subs, disk>>
twins == <<seq, decoded>>
history == <<published, arrived, through, lost, disturbed>>
mqttVars == <<injectors, boats, ground, twins, history>>

Monitor == INSTANCE FrameSync WITH
  MaxSeq <- MaxPublished, MaxFrames <- 0, MaxPackets <- 0, hit <- <<>>, taken <- <<>>, open <- TRUE,
  frames <- 0, partialFrames <- 0, missingVessels <- 0,
  doubleUpdates <- 0, stalePackets <- 0, accepted <- 0

Nothing == [seq |-> 0]

InBacklogs == UNION {ToSet(backlog[v]) : v \in Vessel}

CrashesToCome == FoldFunction(+, groundCrashes, crashes)

MqttInit ==
  /\ next = [v \in Vessel |-> 1] /\ life = [v \in Vessel |-> 1]
  /\ backlog = [v \in Vessel |-> <<>>] /\ saved = backlog
  /\ sent = [v \in Vessel |-> 0]
  /\ linkUp = [v \in Vessel |-> FALSE]
  /\ session = {} /\ inbox = <<>>
  /\ keptSession = {} /\ keptInbox = <<>>
  /\ crashes \in [Vessel -> 0 .. MaxCrashes] /\ groundCrashes \in 0 .. MaxCrashes
  /\ CrashesToCome = MaxCrashes
  /\ client = "closed" /\ subs = <<>>
  /\ seq = [v \in Vessel |-> 0] /\ decoded = [v \in Vessel |-> Nothing]
  /\ published = {} /\ arrived = {} /\ through = {} /\ lost = {} /\ disturbed = {}

-----------------------------------------------------------------------------
(* A boat.                                                                 *)

(* fdt_inj_tick for its vessel: mqtt_publish to the broker aboard, which   *)
(* takes it whether or not the link is up, and queues it if there is room. *)
Publish(v) ==
  LET p == [vessel |-> v, life |-> life[v], seq |-> next[v]] IN
  /\ Cardinality(published) < MaxPublished
  /\ IF Len(backlog[v]) < BacklogSize
       THEN backlog' = [backlog EXCEPT ![v] = Append(@, p)] /\ UNCHANGED <<lost, disturbed>>
       ELSE lost' = lost \cup {p} /\ disturbed' = disturbed \cup {v} /\ UNCHANGED backlog
  /\ next' = [next EXCEPT ![v] = @ + 1]
  /\ published' = published \cup {p}
  /\ UNCHANGED <<life, sent, linkUp, saved, crashes, ground, twins, arrived, through>>

(* fdt_inj_init in a new process: numbers start again from 1.  A process   *)
(* that published nothing leaves no trace, and its end is no step.         *)
RestartInjector(v) ==
  /\ life[v] < MaxLives /\ next[v] > 1
  /\ life' = [life EXCEPT ![v] = @ + 1]
  /\ next' = [next EXCEPT ![v] = 1]
  /\ UNCHANGED <<boats, ground, twins, history>>

(* The bridge connects, and what was not acknowledged is sent again.       *)
LinkUpCleanSession(v) ==
  /\ ~linkUp[v]
  /\ linkUp' = [linkUp EXCEPT ![v] = TRUE]
  /\ backlog' = [backlog EXCEPT ![v] = <<>>]
  /\ UNCHANGED <<injectors, sent, saved, crashes, ground, twins, history>>

LinkUp(v) ==
  /\ ~linkUp[v]
  /\ linkUp' = [linkUp EXCEPT ![v] = TRUE]
  /\ UNCHANGED <<injectors, backlog, sent, saved, crashes, ground, twins, history>>

LinkDown(v) ==
  /\ linkUp[v]
  /\ linkUp' = [linkUp EXCEPT ![v] = FALSE]
  /\ sent' = [sent EXCEPT ![v] = 0]
  /\ UNCHANGED <<injectors, backlog, saved, crashes, ground, twins, history>>

(* autosave_interval, and a crash, after which the broker has what it last *)
(* saved.  The file is of no interest, and left out of the state, when no  *)
(* crash is left to come.                                                  *)
Autosave(v) ==
  /\ crashes[v] > 0
  /\ saved' = [saved EXCEPT ![v] = backlog[v]]
  /\ UNCHANGED <<injectors, backlog, sent, linkUp, crashes, ground, twins, history>>

AfterCrashNothing(v) == <<>>
AfterCrash(v) == saved[v]

BrokerCrash(v) ==
  /\ crashes[v] > 0
  /\ crashes' = [crashes EXCEPT ![v] = @ - 1]
  /\ backlog' = [backlog EXCEPT ![v] = AfterCrash(v)]
  /\ sent' = [sent EXCEPT ![v] = 0]
  /\ linkUp' = [linkUp EXCEPT ![v] = FALSE]
  /\ lost' = lost \cup (ToSet(backlog[v]) \ (ToSet(saved[v]) \cup ToSet(inbox) \cup arrived))
  /\ disturbed' = disturbed \cup {v}
  /\ saved' = [saved EXCEPT ![v] = IF crashes[v] > 1 THEN @ ELSE <<>>]
  /\ UNCHANGED <<injectors, ground, twins, published, arrived, through>>

(* topic fleet/# out 1: in order.  The ground's broker queues it if it     *)
(* knows a subscriber and has room, and acknowledges it in any case.       *)
NextToSendNewest(v) == Len(backlog[v]) - sent[v]
NextToSend(v) == sent[v] + 1

Forward(v) ==
  /\ linkUp[v] /\ sent[v] < Len(backlog[v])
  /\ LET p == backlog[v][NextToSend(v)] IN
     IF v \in session /\ Len(inbox) < InboxSize
       THEN inbox' = Append(inbox, p) /\ UNCHANGED <<lost, disturbed>>
       ELSE /\ lost' = lost \cup ({p} \ (ToSet(inbox) \cup arrived))
            /\ disturbed' = disturbed \cup {v}
            /\ UNCHANGED inbox
  /\ sent' = [sent EXCEPT ![v] = @ + 1]
  /\ UNCHANGED <<injectors, backlog, linkUp, saved, crashes, session,
                 client, subs, disk, twins, published, arrived, through>>

(* The oldest message sent is acknowledged.                                *)
Acknowledged(v) ==
  /\ linkUp[v] /\ sent[v] > 0
  /\ backlog' = [backlog EXCEPT ![v] = Tail(@)]
  /\ sent' = [sent EXCEPT ![v] = @ - 1]
  /\ UNCHANGED <<injectors, linkUp, saved, crashes, ground, twins, history>>

-----------------------------------------------------------------------------
(* The ground.                                                             *)

(* fdt_mqtt_open: a client with no slot taken, and the session the broker  *)
(* kept for its id.                                                        *)
Open ==
  /\ client = "closed"
  /\ client' = "open"
  /\ subs' = <<>>
  /\ UNCHANGED <<injectors, boats, session, inbox, disk, twins, history>>

(* mqtt_subscribe, vessel by vessel.                                       *)
Subscribe ==
  /\ client = "open" /\ Len(subs) < N
  /\ Len(subs) < MaxSubs
  /\ session' = session \cup {Len(subs)}
  /\ subs' = Append(subs, Len(subs))
  /\ UNCHANGED <<injectors, boats, inbox, client, disk, twins, history>>

Disconnected ==
  /\ client = "open"
  /\ client' = "closed"
  /\ subs' = <<>>

(* The application polls once it has subscribed to every vessel.           *)
Polls == client = "open" /\ Len(subs) = N

(* on_lsdt: judged, and decoded whatever the verdict was.                  *)
DecodesOnlyNew(p) ==
  decoded' = IF Monitor!IsStale(p.vessel, p.seq) THEN decoded
             ELSE [decoded EXCEPT ![p.vessel] = p]
Decodes(p) == decoded' = [decoded EXCEPT ![p.vessel] = p]

OnLsdt(p) ==
  /\ IF Monitor!IsStale(p.vessel, p.seq)
       THEN UNCHANGED <<seq, through>>
       ELSE /\ seq' = [seq EXCEPT ![p.vessel] = p.seq]
            /\ through' = through \cup {p}
  /\ Decodes(p)
  /\ arrived' = arrived \cup {p}

(* mqtt_poll: one message, for the slots of its topic.  It is acknowledged *)
(* after the callback, or the connection is lost before that.              *)
OnMessage ==
  /\ Polls /\ inbox # <<>>
  /\ LET p == Head(inbox) IN
     IF p.vessel \in ToSet(subs) THEN OnLsdt(p) ELSE UNCHANGED <<twins, through, arrived>>
  /\ \/ inbox' = Tail(inbox) /\ UNCHANGED <<client, subs>>
     \/ Disconnected /\ UNCHANGED inbox
  /\ UNCHANGED <<injectors, boats, session, disk, published, lost, disturbed>>

(* fdt_mqtt_close, or a connection lost: from there on mqtt_poll returns   *)
(* -1 and publish and subscribe fail, until a new client is opened.        *)
Close ==
  /\ Disconnected
  /\ UNCHANGED <<injectors, boats, session, inbox, disk, twins, history>>

(* The ground's broker saves as a boat's does, its client's session and    *)
(* the queue for it; in a crash it also loses every connection.            *)
GroundAutosave ==
  /\ groundCrashes > 0
  /\ keptSession' = session /\ keptInbox' = inbox
  /\ UNCHANGED <<injectors, boats, session, inbox, client, subs, groundCrashes, twins, history>>

GroundCrash ==
  /\ groundCrashes > 0
  /\ groundCrashes' = groundCrashes - 1
  /\ session' = keptSession /\ inbox' = keptInbox
  /\ client' = "closed" /\ subs' = <<>>
  /\ linkUp' = [v \in Vessel |-> FALSE] /\ sent' = [v \in Vessel |-> 0]
  /\ lost' = lost \cup (ToSet(inbox) \ (ToSet(keptInbox) \cup arrived \cup InBacklogs))
  /\ disturbed' = Vessel
  /\ keptSession' = IF groundCrashes > 1 THEN keptSession ELSE {}
  /\ keptInbox' = IF groundCrashes > 1 THEN keptInbox ELSE <<>>
  /\ UNCHANGED <<injectors, backlog, saved, crashes, twins,
                 published, arrived, through>>

-----------------------------------------------------------------------------

Boat(v) ==
  \/ Publish(v) \/ RestartInjector(v)
  \/ LinkUp(v) \/ LinkDown(v) \/ Autosave(v) \/ BrokerCrash(v)
  \/ Forward(v) \/ Acknowledged(v)

Ground == Open \/ Subscribe \/ OnMessage \/ Close \/ GroundAutosave \/ GroundCrash

MqttNext == (\E v \in Vessel : Boat(v)) \/ Ground

(* The bridge keeps reconnecting (restart_timeout) and outages end; each   *)
(* of them may be followed by another, but not for ever just before the    *)
(* next message or its acknowledgement.  The application subscribes and    *)
(* polls; nothing in the code makes it open a client.                      *)
Fairness ==
  /\ \A v \in Vessel : WF_mqttVars(LinkUp(v)) /\ SF_mqttVars(Forward(v)) /\ SF_mqttVars(Acknowledged(v))
  /\ WF_mqttVars(Subscribe) /\ WF_mqttVars(OnMessage)

MqttSpec == MqttInit /\ [][MqttNext]_mqttVars /\ Fairness

-----------------------------------------------------------------------------

UnderWay == ToSet(inbox) \cup InBacklogs

(* config/mosquitto/README.md: the three settings carry the behaviour that *)
(* no outage loses a frame.  What they leave is in lost, and nothing else  *)
(* is: a packet a broker took after its last save, when that broker        *)
(* crashed and no one else had it; one that found a queue at its limit,    *)
(* aboard or on the ground; and one of a vessel the ground's broker knew   *)
(* no subscription to, as none was made or a crash took it.                *)
NoOutageLoses == published \subseteq UnderWay \cup arrived \cup lost

(* A packet is refused on its first arrival only where an earlier life of  *)
(* its injector had got as far: neither a retransmission nor a crash makes *)
(* new telemetry look old.  The exception is a packet that was lost and    *)
(* that a broker's queue still had, or a crash brought back, after later   *)
(* ones were through.                                                      *)
RefusedOnlyAfterRestart ==
  \A p \in arrived \ (through \cup lost) :
    \E r \in through : /\ r.vessel = p.vessel
                       /\ r.life < p.life
                       /\ r.seq >= p.seq

(* Redelivery takes a twin's input back, as on_lsdt decodes stale packets  *)
(* too, but once all is delivered the twin has the last packet its boat    *)
(* published, of whichever life; only a broker's crash, or a packet or a   *)
(* copy of one that a broker dropped, leaves it on an older one.           *)
LastPublished(v) ==
  CHOOSE p \in published :
    /\ p.vessel = v
    /\ \A r \in published : r.vessel = v =>
         r.life < p.life \/ (r.life = p.life /\ r.seq <= p.seq)

DrainedIsNewest ==
  \A v \in Vessel \ disturbed :
    /\ \E p \in arrived : p.vessel = v
    /\ \A p \in UnderWay : p.vessel # v
    => decoded[v] = LastPublished(v)

(* Every packet the broker aboard accepted reaches on_lsdt, however often  *)
(* the link fails, unless it is lost as above or the ground's client is.   *)
EveryPacketArrives ==
  \A v \in Vessel : \A n \in 1 .. MaxPublished :
    LET p == [vessel |-> v, life |-> 1, seq |-> n] IN
    p \in published ~> (p \in arrived \cup lost \/ client # "open")
-----------------------------------------------------------------------------
(* The invariant the proofs rest on.                                       *)

LinkTypeOK ==
  /\ next \in [Vessel -> Nat \ {0}] /\ life \in [Vessel -> Nat]
  /\ backlog \in [Vessel -> Seq(Packet)] /\ saved \in [Vessel -> Seq(Packet)]
  /\ sent \in [Vessel -> Nat] /\ crashes \in [Vessel -> Nat]
  /\ inbox \in Seq(Packet) /\ keptInbox \in Seq(Packet) /\ groundCrashes \in Nat
  /\ seq \in [Vessel -> Nat] /\ decoded \in [Vessel -> Packet \cup {Nothing}]
  /\ published \subseteq Packet
  /\ through \subseteq arrived /\ arrived \subseteq published /\ lost \subseteq published
  /\ subs \in Seq(Vessel) /\ \A i \in DOMAIN subs : subs[i] = i - 1

(* In what order a boat published two packets.                             *)
Before(p, r) ==
  /\ p.vessel = r.vessel
  /\ p.life < r.life \/ (p.life = r.life /\ p.seq < r.seq)

(* The injector's next packet is after all it has published.               *)
NextIsNew ==
  \A p \in published : Before(p, [vessel |-> p.vessel, life |-> life[p.vessel], seq |-> next[p.vessel]])

(* A boat's broker holds packets of its boat in the order they came.       *)
InTurn(queue, v) ==
  /\ \A i \in DOMAIN queue : queue[i] \in published /\ queue[i].vessel = v
  /\ \A i, j \in DOMAIN queue : i < j => Before(queue[i], queue[j])

Carried == ToSet(inbox) \cup arrived \cup lost

(* What the bridge has sent may be acknowledged: the ground answers for it. *)
BrokersKeep ==
  \A v \in Vessel :
    /\ InTurn(backlog[v], v) /\ InTurn(saved[v], v)
    /\ sent[v] <= Len(backlog[v])
    /\ \A i \in 1 .. sent[v] : backlog[v][i] \in Carried

(* No packet reaches on_lsdt for the first time after a later one of its   *)
(* boat did, unless it was lost on the way.                                *)
NoneOvertaken(queue) ==
  /\ ToSet(queue) \subseteq published
  /\ \A j \in DOMAIN queue, p \in published :
       Before(p, queue[j]) =>
         p \in arrived \cup lost \/ \E i \in DOMAIN queue : i < j /\ queue[i] = p

FirstArrivalsInOrder ==
  /\ NoneOvertaken(inbox) /\ NoneOvertaken(keptInbox)
  /\ \A r \in arrived, p \in published : Before(p, r) => p \in arrived \cup lost

(* The monitor's mark is the number of a packet it let through.            *)
MarksAreTaken ==
  \A v \in Vessel : seq[v] > 0 => \E r \in through : r.vessel = v /\ r.seq = seq[v]

NewestOf(p, packets) ==
  p \in packets /\ \A r \in packets : r.vessel = p.vessel => r = p \/ Before(r, p)

NoneOf(queue, v) == \A j \in DOMAIN queue : queue[j].vessel # v

LastIsNewest(queue, v, packets) ==
  \A j \in DOMAIN queue :
    queue[j].vessel = v /\ (\A i \in DOMAIN queue : i > j => queue[i].vessel # v)
      => NewestOf(queue[j], packets)

TwinHasNewest(p, v, packets) ==
  (\E r \in packets : r.vessel = v) => NewestOf(p, packets) /\ p.vessel = v

(* What is on its way to a twin ends with the newest packet of its boat,   *)
(* however much of it is on its way again.                                 *)
EndsOnNewest ==
  \A v \in Vessel \ disturbed :
    /\ backlog[v] # <<>> => NewestOf(backlog[v][Len(backlog[v])], published)
    /\ sent[v] = Len(backlog[v]) =>
         /\ LastIsNewest(inbox, v, published)
         /\ NoneOf(inbox, v) => TwinHasNewest(decoded[v], v, published)

LinkInv ==
  /\ LinkTypeOK /\ NextIsNew /\ BrokersKeep /\ FirstArrivalsInOrder /\ MarksAreTaken
  /\ NoOutageLoses /\ RefusedOnlyAfterRestart /\ EndsOnNewest
=============================================================================

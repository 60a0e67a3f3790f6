# A TLA+ development of fleet-dt

fleet-dt is a C library for digital twins of a fleet of boats. Each vessel has
a *twin*: a bounded queue of its past states, a transition function that makes
the next state out of them, and a policy that turns the state into an
actuation. A *coordinator* advances all twins by one frame every 125 ms, keeps
the states of the frame in a store, computes one context for the fleet and sets
the next goals. Telemetry is assembled aboard from MAVLink messages, encoded,
and reaches the twins over a *transport*, in-process or MQTT through a broker
aboard each boat; a *frame monitor* judges each packet and counts partial
frames and double updates; a *regulator* decimates fast sensors; a *pacer*
keeps the frame rate, a *feasibility monitor* measures whether the frame's
delta fits in it, and a *digital twin environment* calls further simulations
once a frame. Benches measure all of it, plot what they measure and leave texts
and charts that a report is assembled from.

This directory holds TLA+ modules for those parts, the configurations that
model-check them with TLC, and proofs checked by TLAPS. `PROJECT.json` lists
the components, the runs, the mutants each property is known to notice, the
lines of code each definition stands for, the hazards, the findings and the
theorems.

All paths below are relative to the repository.

## 1. The system

### Components

| Part | Code | State | Operations |
|---|---|---|---|
| State queue | `src/queue.c` | `buf`, `cap`, `len`, `head` | init, push (evicting the oldest), at, newest |
| Window | `src/transition.c:3` | none | `fdt_window_at(q, n, k)`: k back from the newest |
| Twin | `src/transition.c` | its queue, `delta_e`, `pi` | init, seed, step |
| Fleet | `src/fleet.c` | its twins, the shared context | step: validate every twin, then step every twin |
| Coordinator, store | `src/coordinator.c` | slots of B^t | step: fleet step, store, context, goals |
| Frame monitor | `src/framesync.c` | per vessel a high-water mark and an arrival flag; six counters | begin frame, accept a packet, end frame |
| Loopback | `src/transport_loop.c` | a queue of 64 messages, 64 subscriptions, loss settings, one publish counter | publish, subscribe, poll, close, set loss |
| MQTT adapter | `adapters/mqtt/` | a client, 64 slots for topics | the same transport interface over mosquitto |
| Brokers | `config/mosquitto/` | persistent queues, a boat's for its bridge and the ground's for its client; the client's subscriptions | store and forward at QoS 1, autosave |
| Injector | `tools/injector/injector.c` | tick, sequence number, three counters | tick: one packet per vessel |
| MAVLink adapter | `adapters/mavlink/` | the input being assembled, a mask of families | clear, one handler per family, attach views, complete |
| RTSP adapter | `adapters/rtsp/` | two view buffers, a sequence number | next frame, attach, pending, close |
| Envelope, codec | `src/envelope.c`, `src/codec.c` | none | encode, decode |
| Regulator | `src/regulator.c` | accumulator, three counters | init, admit |
| Link budget | `src/linkbudget.c` | none | bit rate, utilisation, largest fleet |
| Geodesy, scene | `src/geo.c`, `fdt_controller.c:201` | one anchor, a pose per hull | offset from an anchor; render a vessel |
| Pacer | `src/tick.c` | next deadline, period, overruns | start, wait |
| Feasibility monitor | `src/feasibility.c` | begin, last, worst, total, two counters | init, begin, end |
| DTE | `src/dte.c` | registered simulations, tick | register, tick |
| Plotter | `src/plot.c` | a chart: series, rules, a log flag | init, series, rule, log axis, write SVG, write CSV |
| Benches, report | `tools/bench/`, `tools/report/`, `Makefile` | `results/*.txt`, `.svg`, `.csv`; `docs/RESULTS.md` | make bench, make report |
| CPU bench | `tools/bench/bench_webots_cpu.c` | figures and medians per world | fork WeBots, sample its process tree twice, compare |
| Applications | `examples/`, `tools/bench/`, `adapters/webots/` | arrays of all of the above | the frame loop |

### How they interact

The library runs in one thread, and all memory belongs to the caller. The frame
loop (`tools/bench/bench_scale.c:219-247`,
`adapters/webots/controllers/fdt_controller/fdt_controller.c:315-404`) opens a
frame in the monitor, has the injector publish one packet per vessel, polls the
transport, closes the frame, copies the decoded inputs, steps the coordinator
between the two calls of the feasibility monitor, draws the hulls and publishes
A^t (in the controller) and waits for the pacer; the daemon
(`examples/daemon.c:173-195`) ticks the environment before it waits. Inside the
poll the transport calls back `on_lsdt`, which has the monitor judge the packet
and decodes it. Inside `fdt_coord_step` the library calls back `delta_e` and
`pi` for each vessel and then `ctx_fn` and `plan_fn`, each of which reads state
the step has changed halfway. Inside `fdt_dte_tick` a simulation may register
another.

Over MQTT the injector aboard, the broker aboard, the broker on the ground and
the application are processes of their own, each of which may stop and start.
The benches are processes too: they share the directory `results/`, and one of
them starts a simulator, whose own processes come and go while it is sampled.

### What is hard here

There is no concurrency between threads. The difficulty is in

- callbacks that run halfway through an operation (a poll that compacts the
  queue it delivers from, a frame whose twins have not all stepped yet, a
  registry that grows while it is gone through);
- operations that can fail for one vessel, or one world, after others have
  changed;
- the order of hand-overs across frames: goals of t-1 and t, the context of
  the frame before, packets held back into the next frame;
- loss, deferral, refusal, redelivery and truncation of packets, counted at
  several places whose counts must agree;
- outages, the crash of either broker between two saves, queues at their
  limit, an injector that starts numbering again while the monitor on the
  ground remembers;
- boundaries: the ring's wrap, the queue's limit, wrap-around of the publish
  counter, the accumulator's clamp, `>=` in one module and `>` in the other,
  the carry of a timespec, a quotient truncated to a number of vessels, the
  ends of an axis;
- a clock that passes at any point of the loop, signals and late wake-ups;
- what is left behind by a bench that died, or one that was skipped.

`hazards` in `PROJECT.json` lists them at their lines.

## 2. Modules

| Module | Models | Composes or implements |
|---|---|---|
| `RingQueue` | the queue and the window as operators on a record | |
| `StateQueue` | one queue and all it was ever given | implements `BoundedHistory` |
| `BoundedHistory` | what a queue promises: the last Cap states | |
| `Coordinator` | twins, fleet, store, coordinator; one action per stretch of code between callbacks | extends `RingQueue`; implements `FleetFrame` |
| `FleetFrame` | what a frame promises: equations (2) to (6) in one step | |
| `TracedCoordinator` | an application whose states and actuations name the goal they were computed under | extends `Coordinator` |
| `MCCoordinator` | two such vessels | extends `TracedCoordinator` |
| `FrameSync` | the frame monitor | |
| `Loopback` | the in-process transport, its poll taken apart | implements `LossyLink` |
| `LossyLink` | what a transport promises for an accepted message | |
| `Scene` | the hulls in the world and the anchor they are placed from | |
| `FrameLoop` | injector, transport, monitor, `on_lsdt`, drawing and A^t in the applications' loop | extends `Scene`; instances of `Loopback` and `FrameSync` |
| `Regulator` | the bandwidth regulator | |
| `LinkBudget` | bit rates, utilisation, the largest fleet | |
| `Bandwidth`, `MCBandwidth` | regulators in front of sensors whose fleet the link budget sized | extends `Regulator`, `LinkBudget` |
| `FramePacing` | pacer and feasibility monitor on one clock | |
| `Dte` | the environment and its simulations | |
| `Daemon` | the daemon's loop | extends `FramePacing`, `Dte` |
| `Wire` | envelope and codec, byte by byte | |
| `MavIngest` | an input assembled from messages | |
| `StereoCamera` | the camera's buffers and the attachment of views | |
| `TelemetryPath` | a reading from the message to the twin, an actuation back | extends `MavIngest`, `Wire`, `StereoCamera` |
| `MqttLink` | injectors, brokers, outages, crashes, the MQTT client, `on_lsdt` | instance of `FrameSync` |
| `Charts` | a chart's axes, labels, marks and bars | |
| `WebotsCpu` | the CPU bench and the processes it measures | |
| `Campaign`, `MCCampaign` | make bench, make report, and the files between them | extends `WebotsCpu`, `Charts` |
| `RingQueueProofs`, `FrameSyncProofs`, `LoopbackProofs` | theorems | extend the module they are about |
| `QueueProofs` | theorems: the ring of a twin, the queues of the brokers | extends `StateQueue`, `MqttLink`, `RingQueueProofs` |
| `CoordinatorProofs` | theorems | extends `TracedCoordinator`, `RingQueueProofs` |
| `ApplicationProofs` | theorems: pacer, environment and daemon; envelope, codec and telemetry | extends `Daemon`, `TelemetryPath` |
| `BenchProofs` | theorems: regulator and link budget, CPU bench, campaign and charts | extends `Bandwidth`, `Campaign` |
| `FrameLoopProofs` | theorems | extends `FrameLoop`; instances of `LoopbackProofs` and `FrameSyncProofs` |

The parts of an inductive invariant that a run does not check on their own stand
at the end of the module they are about, below its properties.

Before a definition may stand a variant named for a slip
(`RetargetBeforeHandover`, `KeptInPlace`, ...), used by nothing: with it in
place of the definition after it TLC finds the property named in `mutants`
violated. They show that each property can fail when the code is wrong.

### State and actions against the code

**StateQueue.** `q` is `fdt_queue_t`. `log`, which no C variable holds, is every
state pushed. Slots never written hold `NoState`, so reading one would show.

**Coordinator.** `queue`, `store`, `ctx`, `goalsPrev`, `goalsNow`, `bOut`,
`aOut` are the C objects of those names. `call` and `args` are the program
counter and arguments of the running `fdt_coord_step`. `BeginFrame` and
`RefuseFrame` are the call up to the end of the validation pass; `StepTwin` is
one iteration of the second loop with the whole of `fdt_twin_step_ctx`, its own
failing check included; `UpdateContext` is the store and `ctx_fn`; `Retarget`
is the hand-over of the goals and `plan_fn`. `Seed` is `fdt_twin_seed` between
frames. The callbacks are constant operators, as the library knows nothing of
them. The context changes only between frames, so that delta_e and pi are
functions of it is exact; ctx_fn and plan_fn write their outputs whole.

**FrameSync.** One action per function; `Accept` is the three verdicts and the
packet of a vessel that is not covered. `open` is the callers' program counter
and `taken` a history variable.

**Loopback.** `q`, `published`, `dropEvery`, `deferEvery`, `subs` are the
fields of `fdt_loop_t`; `poll` holds the locals of `loop_poll`. The poll is one
action per entry kept (`PollKeep`), per entry delivered (`PollDeliver`) and per
callback (`Notify`), so whatever a callback may do can happen between any two.
Entries are indexed from 1. `dropped` and `deferred` of the code are the sizes
of `lost` and `held`. A payload longer than the slot or a topic that is too
long is refused like a full queue and is not modelled apart.

**FrameLoop.** `at` and `vessel` are the loop's program counter. A packet is
its topic and sequence number, `decoded` and `ins` the sequence number of the
packet an input was decoded from. `controller` tells the controller's loop,
which draws and publishes A^t, from the bench's. Seeding is deep enough that the coordinator's step succeeds,
which is `Coordinator`'s subject; here it is the copy of the inputs.

**Regulator.** The accumulator in fixed point: `One` is 1.0. `step` is the
quotient rounded down or up. That every addition of a double rounds again is
not modelled.

**FramePacing.** `clock` is CLOCK_MONOTONIC; `TimePasses` may happen between
any two actions. `at` says where the loop is: before the delta, in it, after
it, or asleep. `WaitOverrun` is the branch that returns at once; `WaitSleep`
and `Wake` are the other, whose loop over EINTR is the guard of `Wake`: it
returns at the deadline or after it, however often it was interrupted.

**Scene.** `anchor` is `g_anchor` with `g_anchored`, `pose` what was last
written to a hull's translation field. Degrees and metres are whole numbers and
the cosine is a scale that falls with the latitude, so that two anchors give
different distances. `World` is what the world file names: the hulls after a
gap in its numbering are not discovered.

**LinkBudget, Bandwidth.** Rates are whole hertz and the overhead and the share
whole percents, so the comparisons of the code are exact. One regulator stands
for all vessels of the fleet; `link`, `budget` and `profile` are chosen at the
start, and the profile carries the regulated rate as the benches enter it, with
a vessel count `fdt_link_max_vessels` must not use.

**Dte, Daemon.** `slots`, `tick` and the slots already `called` are the fields
and the loop variable of `fdt_dte_tick`; a callback is one action and may be
followed by registrations before the next. `joined` and `seen` are history. In
`Daemon` the tick of a frame lies between `FeasEnd` and the wait, so that time
spent in a simulation counts for the deadline and not for the delta.

**Wire, MavIngest, StereoCamera, TelemetryPath.** A byte is a number below
`Byte` and a float the bits it is stored in; integers are put and taken low byte
first with the divisions that stand for the shifts. An envelope that is cut is
decoded as far as the code decodes it. `reading` and `have` are
`fdt_mav_ingest_t`, a reading being known by the frame it arrived in. A view is
null, the sentinel of the wire, or one of the two buffers, and `painted` says
which pair a buffer shows. `wire` is the last frame published, which is
delivered whole, cut to any length, or again.

**MqttLink.** Per boat: the injector's next number and its life, the broker's
queue, how far it was sent and not acknowledged, what autosave left on disk. On
the ground: the session the broker keeps, the client's queue, what autosave left
of both, the client's slots, `seq` of the monitor and `decoded`. `mosquitto`
itself is external and modelled from what `boat.conf` and `ground.conf`
configure: in order, at least once, kept until acknowledged, kept over
reconnections, saved every thirty seconds. What they do not configure is as
mosquitto has it: a queue has a limit, and drops what comes after. `lost` is
every packet a broker dropped, or forgot in a crash, while no one else had it,
and `disturbed` the boats on whose way that happened. Delivery of a message is followed by its
acknowledgement or by the loss of the connection before it. A client that lost
its connection is closed for good, for `mqtt_poll` never reconnects; a new one
may be opened.

**Charts.** Numbers are hundredths, so padding, half gaps and tick steps are
exact; widths of bars are compared in pixels times a common denominator.
`Overhang` is how far the bars of a group stick out of the frame where the
floor of three pixels makes it wider than a gap.

**WebotsCpu.** `measure` is two sampling steps, with processes that consume,
start and die before, between and after. A dead root stays readable with its
time; a dead controller and its time are gone. A world none of whose runs
counted leaves its row at 0, and the increment of the next row is taken from it,
as in the code.

**Campaign.** A file is the number of the campaign that wrote it, 0 for what is
committed. The text of a bench is truncated when it opens, and complete only
once it closes, because it is buffered; `told` is its last part, which names
the artefacts. A bench may die wherever it measures or writes; make then stops.
The committed tree has a text beside every chart but the CPU bench's, whose
`results/webots_cpu.txt` is empty, and the report that quotes it; `home` is
`WEBOTS_HOME`. The camera's stream, 2,097,152 kbps under any regulator, is the
last of every chart of `bench_bandwidth`.

## 3. What is checked

| Run | Instance | States | Shows |
|---|---|---|---|
| `state_queue` | 3 slots, 3 states, 7 pushes | 3,280 | windows of any n and k are the past; the ring implements the bounded history |
| `coordinator` | 2 vessels, capacities 1 and 2, windows 0..2, 2 inputs, 2 goals | 245,056 | a frame is for all vessels or none; no callback sees a mixture of frames; the taken-apart step implements equations (2) to (6) |
| `frame_sync` | 2 vessels, numbers 0..3, 3 frames, 6 packets | 7,115 | counters of fresh, double, stale, missing add up for any delivery |
| `loopback` | queue of 3, 2 subscriptions, 2 topics, periods 0 and 2, 4 messages, counter mod 4 | 147,304 | messages leave once, in order unless held, and all leave |
| `frame_loop` | 2 vessels, queue of 4, all periods 0..7, 7 frames, counter mod 8 | 14,618 | the losses measured are the link's; twins step on the right input; hulls share one anchor |
| `regulator` | 6 rates against each other, 60 samples, 1.0 = 8192, 3 links, 3 shares, profiles of one to three streams | 513,864 | rate kept without drift or bursts; the fleet sized for a link keeps to its share |
| `frame_pacing` | second of 4 units, periods below, above a second, clock to 12, 2 slots for simulations | 2,553,690 | no drift, no frame before its time, no hidden infeasible delta; simulations in step with each other and with the frames |
| `telemetry_path` | bytes of 8 values, 2 families, 2 frames, 1 pair of the camera | 94,080 | what is decoded is what was sent, of one frame |
| `mqtt_fleet` | 1 vessel, 3 packets, 2 lives, 1 crash of either broker, 2 messages queued aboard, 1 on the ground | 471,387 | what outages, crashes, full queues and restarts cost, and what they do not |
| `campaign` | 6 benches, 2 campaigns, 3 worlds run twice | 787,207 | how far charts keep to their frame; in which order texts and charts differ in age; CPU figures are the simulator's |
| `loopback_reentrant` | as `loopback`, callbacks publish | | violated: see findings |
| `webots_dead` | 3 worlds run twice | | violated: see findings |

### The properties

- *Queue.* `WindowIsThePast` (the wrap, the eviction and the reversed index
  agree), `ImplementsHistory`.
- *Coordinator.* `AllOrNothing` ("On -1 no vessel steps"), `WindowStaysHeld`
  (what validation saw stays true), `GoalHandedOver` (the goal decided under is
  the goal of the next transition) and `ImplementsFrame`, which also says that
  the context is that of the states in the store.
- *Monitor.* `FrameAccounting`, `TakenOnce`.
- *Loopback.* `NothingLostSilently`, `ExactlyOnce`, `OvertakesOnlyHeld`,
  `EveryMessageLeaves`, `ImplementsLink`.
- *Loop.* `NeverStale` (docs/RESULTS.md: deferral preserves order),
  `MissingExplained`, `DoublesAreHeld`, `InputIsCurrent`,
  `OneFrameOfReference` (whichever vessel is heard first, and whenever the
  others are).
- *Bandwidth.* `RateKept`, `EvenSpacing`, `LargestFleet` (the quotient and the
  utilisation agree: the fleet fits and one vessel more does not),
  `FleetKeepsItsBudget` (at no time has the fleet so sized sent more than its
  share; a regulator that let a burst through at the start of each second would
  keep the rate and still break it).
- *Pacing and environment.* `NoDrift`, `NeverAhead` (w frames take w periods
  or more, whichever signals interrupt a sleep), `LateFrameCostsOneOverrun`,
  `FeasibleUnlessLate`, `SimsInLockstep` (every simulation, whenever it joined,
  saw every index since, once), `TickIsTheFrame`.
- *Telemetry.* `CompleteIsOfOneFrame`, `DecodedIsSent`, `NoStaleSentinel`.
- *MQTT.* `NoOutageLoses` (config/mosquitto/README.md). What may be lost in the
  model is what a broker, aboard or on the ground, took after its last autosave
  before it crashed; what found the queue of either at its limit; and what the
  ground's broker knew no subscription to, as none was made or a crash took it.
  `RefusedOnlyAfterRestart`: neither redelivery nor a crash makes new telemetry
  look old, but for a packet that was lost and that a crash brought back.
  `DrainedIsNewest`: redelivery takes a twin's input back, as `on_lsdt` decodes
  stale packets too, but not for good, unless a broker on the way crashed or
  dropped something. `EveryPacketArrives`.
- *Campaign.* `DrawnInsideFrame` (bars may stick out as far as the floor of
  three pixels makes them). `TextAndChartsAgree`: whatever died or failed, a
  text is no older than its charts and these are in the order they are written
  in; one that names its artefacts is of the run that wrote them, in
  `docs/RESULTS.md` too. `StoppedInOrder`. `VerdictsFromEveryWorld` (compared
  exactly when every world gave a figure). `MeasuredAtMostSpent`.

Type invariants of the modules proved about are theorems (section 4), and no
run repeats them.

### Bounds, and why they are enough

`MaxPushes` lets a ring of three wrap twice and more; capacity one and two in
the coordinator cover the ring without a wrap-free push and one with it, and a
window deeper than one vessel's queue but not than the other's. Two vessels are
what a partial step needs. Three frames and six packets let the monitor see a
packet of frame 1 in frame 3 with a double in between. `QueueSize` 3 or 4 fills
with held and fresh messages; `CounterMod` makes the publish counter wrap
within a run. In `FrameLoop` the periods cover those that divide the messages
of a frame, those that do not and those longer than a frame, so each vessel may
be the first heard. In `FramePacing` a second has 4 units and a period 2, 3
(the default for an argument of 0) or 6, so that deadlines land on, before and
beyond a full second; two slots are one simulation registered at the start and
one by a callback. `MaxSamples` 60 is several periods of every ratio of the
rates taken, and `One` is finer than their product (`PrecisionAssumption`: a
quotient rounded up adds up to a publication too many after so many samples; a
double has 53 digits, so at 100 Hz that is 2^46 samples away); the links are
one with overhead, one without and one without
capacity, the payloads include one that costs nothing, and `UintMax` is within
reach of a profile. In `TelemetryPath` a base of 8 keeps the carries of a
four-byte integer while there are few of them; two families are what a mixture
needs, and a frame is cut to every length. In `MqttLink` three packets are
enough for one arrived, one sent and not acknowledged and one still aboard, or
for an earlier life that got further than the later one. `BacklogSize` 2 lets
the third packet of an outage find the boat's queue full, and `InboxSize` 1 the
second of a burst the ground's; mosquitto's own limits are larger and are
reached by an outage as much longer. One crash, of whichever broker, may come
before a save or any time after it; vessels share nothing but the ground's
broker, and the proofs are for any number of them and of crashes. In `Campaign` the committed campaign and two more let a report
find texts and charts of three ages; a series has its first two abscissae and
its last, because the gap and the ends are all an axis depends on; loads are
zero or lie above some of the reference lines and below others, and deviations
are on either side of 0. `Charts` lists the nice steps up to 5,000,000.00, where
the code computes a power of ten; that is enough for ordinates up to
`LargestFigure`, 2,500,000.00 on either side, and `FigureAssumption` keeps the
measured figures below it (the largest figure the benches always plot is the
camera's 2,097,152 kbps, the largest reference line the frame of 125,000 µs). The
least nice step listed is 0.1; figures in whole units, as `Charts` takes them,
span at least 1 and never need a smaller one.

`CHECK_DEADLOCK FALSE` is given where the run stops at its bound:
`state_queue`, `frame_sync`, `frame_loop`, `regulator`, `frame_pacing`. The
other systems never stop, and deadlock is checked.

### Fairness

`EveryMessageLeaves` needs weak fairness of `Poll`, the steps of a poll
together: every application polls in every frame, and a poll that has begun
goes on. Nothing is assumed of publishers or of the loss settings.

`EveryPacketArrives` needs that the bridge reconnects (`restart_timeout` in
`boat.conf`; weak fairness, as nothing else disables it for good), that it is
not cut off for ever just before the next message or its acknowledgement
(strong fairness of `Forward` and `Acknowledged`, since an outage may come
between any two), and that the application subscribes and polls. Nothing makes
a lost client open again, and the property says so: it asks for arrival only
while the client is open.

### Findings

1. **A publish from inside a callback is lost silently**
   (`src/transport_loop.c:108`). The poll sets the length of the queue to what
   it kept of the entries it found at its start. A message published by a
   callback was accepted with 0 and is gone, not counted as dropped, against
   `include/fleet_dt/transport.h:48-51`. No callback in the repository
   publishes today.
2. **A simulator that did not stay up is measured at 0 %**
   (`tools/bench/bench_webots_cpu.c:177`), against line 154: "or -1.0 when
   WeBots failed to stay up". A child that died keeps its entry in /proc until
   it is waited for, which happens after the second reading. With a
   `WEBOTS_HOME` whose `webots` cannot be executed every world measures 0 %,
   "FAILED to run" is never printed, and the increments of 0 are marked as
   matching the paper.

### Other disagreements met while modelling

These are described by definitions or by this text, without a run.

- `include/fleet_dt/regulator.h:56` gives the saved ratio as "in [0, 1)"; it is
  1 while every sample so far was withheld, as the accumulator starts at 0
  (`src/regulator.c:71`; `Regulator!SavedRatioBelowOne`).
- `include/fleet_dt/tick.h:24` has overruns count "Frames whose work exceeded
  the period"; after a late wake-up less than a period is left, and a frame
  whose work fitted is counted (`src/tick.c:49`;
  `FramePacing!OverrunMeansLongWork`). The other direction is proved.
- `src/plot.c:225-226` says of the snap of an axis "so the axis begins and ends
  on a label rather than on a remainder". The labels' step is computed anew
  from the widened range, so it need not: `results/jitter_deviation.svg` runs
  from -0.75 to 0.75 with labels at -0.5, 0 and 0.5 (`Charts!EndsOnLabel`).
- `src/plot.c:214-215` says that a bar on the first abscissa would hang half
  outside the frame, "so the horizontal range widens by half a bar on each
  side". It widens by half a gap, and where the floor of three pixels makes a
  bar wider than a gap, the bar hangs outside: `results/regulator_saved.svg` has
  one from 70.80, left of the frame at 72.0, and one to 671.2, right of its end
  at 670. `InsideFrame` bounds by how much (`Overhang`).
- `src/plot.c:424-427` has the slot follow the spacing of the data because a
  width from the count "overlaps them where the data is dense". The floor does
  the same: the first bars of `results/regulator_saved.svg`, three pixels wide,
  begin at 70.80, 71.40 and 72.59. Nothing is stated about overlap.
- `tools/report/report.c:209-215` has the report say "Every figure below comes
  from a run on the machine that produced this file". When the CPU bench is
  skipped, or the report is made without a campaign, committed figures remain.
  A bench that died, or a world that failed, leaves a text cut short over the
  charts of an earlier campaign, and the report quotes the one and links the
  others; the committed `docs/RESULTS.md:297-302` quotes an empty
  `results/webots_cpu.txt` over its chart. Of such texts `TextAndChartsAgree`
  says only that they are the newer.
- `tools/bench/bench_webots_cpu.c:286` says, when a world failed, that "the
  differences below are not meaningful". They are above it: line 278 takes the
  increment of the world after the failed one from the row left at 0, and
  280-282 print it. Nothing is compared or plotted then.
- `config/mosquitto/README.md:14-16` says "the publish always succeeds, and the
  bridge carries the backlog across once the link returns". The publish does
  succeed; what the broker took after its last autosave is gone if it crashes,
  and what its queue has no room for, as neither file sets
  `max_queued_messages`, is dropped. `ground.conf` saves every thirty seconds
  too, so the ground may forget what it acknowledged to a boat.
- `mqtt_poll` returns -1 once the connection is lost and never reconnects; an
  application that ignores the result, as those of the loopback do, would go on
  with the last inputs.
- `include/fleet_dt/framesync.h:35` defines stale packets as "older than the
  vessel's high water"; one of the same number, redelivered, counts too.

## 4. What is proved

For every value of the constants that satisfies the named assumption of the
module; what the assumptions say is that capacities, vessels, periods and rates
are positive, that `NoState` is no state, that lengths fit the fields they
travel in, and that callbacks return what their types say.

- **QueueProofs.** Of a twin's ring: `QueueTypeCorrect`,
  `QueueWindowIsThePast`, `QueueImplementsHistory`. A window property is not inductive, for it says
  nothing of states beyond the window. The invariant `IInv` adds
  `HoldsTheNewest`, the ring against `log` index by index, and `HoldsWhatFits`.
  The lemmas of `RingQueueProofs` reduce `%` to one subtraction, give the
  states of a ring after a push index by index, and then its contents as a
  sequence. Of the path over MQTT, for any number of boats and any number of
  outages, crashes of either broker, restarts of an injector and queues of any
  size: `MqttNoOutageLoses`,
  `MqttRefusedOnlyAfterRestart`, `MqttDrainedIsNewest`. `LinkInv` says that what
  a broker counts as sent the ground answers for (`BrokersKeep`), that first
  arrivals come in the order of publication (`FirstArrivalsInOrder`), so that a
  mark which refuses a packet not seen before was left by an earlier life of the
  injector, and that what is still on its way to a twin ends on the newest
  packet (`EndsOnNewest`), which is then what a drained path leaves in the twin.
  TLC had found `LinkInv` to hold on the bounds of the run.
- **CoordinatorProofs.** `CoordinatorTypeCorrect`, `CoordinatorAllOrNothing`,
  `CoordinatorWindowStaysHeld`, `CoordinatorOutputsWritten`,
  `CoordinatorImplementsFrame`, `CoordinatorGoalHandedOver`. Type correctness
  is not inductive by itself: that `delta_e` returns a state depends on the
  window holding only states that were written (`HeldStatesWritten`) and on the
  window still being held (`WindowStaysHeld`). `AllOrNothing` needs the latter too, as it excludes the
  failing branch of `StepTwin`. The refinement maps a running call to the frame
  before it and its last action to the whole of `FleetFrame`'s step; the lemma
  `WindowOfContents` turns windows over rings into windows over sequences.
  `GoalHandedOver` is proved of any application whose callbacks leave the trace
  (`TraceAssumption`), from `GoalsInForce`: a decision that stands was made under
  the goals that are now the old ones, or under the new ones if it is of the
  running frame.
- **FrameSyncProofs.** `FrameSyncTypeCorrect`, `FrameSyncAccounting`,
  `FrameSyncTakesOnce`, `FrameSyncHighWater`. That no packet is taken twice
  follows from the mark being the highest number taken. The rest is
  cardinalities: a fresh packet adds one element to the vessels heard and to
  the packets taken.
- **BenchProofs.** Of the regulator: `RegulatorTypeCorrect`,
  `RegulatorCreditBalances`, `RegulatorSlowSensorUntouched`,
  `RegulatorRateKept`, `RegulatorEvenSpacing`. The rate is kept because the
  balance of credit is exact and the credit kept is below one publication; the
  rounding of the quotient is a Euclidean bound. Spacing is even because the
  credit left after a publication and the samples since determine each other to
  within one step. Of the link budget, for any link, share and profile:
  `BandwidthLargestFleet`, `BandwidthFleetKeepsItsBudget`. The load is the sum of
  its streams, n vessels cost n times one, and the quotient is Euclidean; the
  fleet keeps its share because no regulator publishes above the rate it was
  budgeted with, which needs `PrecisionAssumption`.
  Of the campaign, for any order of the benches that ends with the CPU bench
  and any number of campaigns: `CampaignTextAndChartsAgree`,
  `CampaignStoppedInOrder`. Their invariant says that the benches before the one
  that runs have finished in this campaign and those after it not begun
  (`BenchesInTurn`), that what a bench has not still to write is written
  (`WrittenOrToDo`), and that two benches have no artefact in common.
  Of the charts, for any figures up to `LargestFigure`:
  `CampaignDrawnInsideFrame`. Every bench puts its series on one grid (`Gridded`,
  shown chart by chart in `BenchCharts`) with half a gap of room at the ends.
  A group of bars takes 72 hundredths of the least gap and is inside; or each of
  its bars takes the floor, and the group sticks out by half of what it is wider
  than a gap (`BarsInside`). The baseline is inside because every chart with
  bars has a reference line above 0 or, the regulator's, shows a saving that is
  not negative (`Founded`). Below
  every nice step but the least there is one no less than two fifths of it
  (`StepBelow`), so the least step that is long enough for a range is less than
  half of it (`NiceStepFits`), and a range longer than two steps holds two
  neighbouring multiples, which are labels (`LabelsCounted`). Rounding the
  ordinates' range outwards adds less than two steps, so there is a nice step
  for the widened range too (`SnappedHolds`); where that is the least one and
  not below half the range, both ends are multiples of it. What is drawn needs history only for `FiguresOK`, and that, of the CPU
  bench, for `FiguresInv`: a median is one of the figures, and no figure exceeds
  what a window can hold (`WindowInv`). Of the CPU bench, for any processes: `CampaignVerdictsFromEveryWorld` (`ok`
  says that each world that ended gave a figure) and `CampaignMeasuredAtMostSpent`, from `WindowInv`: what
  the members of a tree consumed since its first sample was consumed in the
  window.
- **ApplicationProofs.** Of the pacer: `PacingTypeCorrect`, `PacingNeverAhead`,
  `PacingNoDrift`, `PacingLongFramesCounted`, `PacingMonitorConsistent`,
  `PacingFeasibleUnlessLate`, `PacingLateFrameCostsOneOverrun`. Lemmas show
  that `advance`, `passed` and the difference of two timespecs are addition,
  order and subtraction of the nanoseconds they stand for. The invariant adds
  `FrameBounds` (the deadline is at most a period after the frame's start, and
  exactly a period after an overrun) and `DeltaWithinFrame` (what was measured
  lies within the frame). Of the environment: `DteLockstep`, from an invariant
  that gives `seen` of every slot, those registered by a callback of the running
  tick included, as the indices from `joined` to the last one issued. Of the
  daemon: `DaemonPacesItsFrames` (its specification implies the pacer's, so the
  seven theorems hold of it), `DaemonLockstep`, `DaemonTickIsTheFrame`.
  Of the wire: `EnvelopeWholeOrRejected`, `TelemetryCompleteIsOfOneFrame`,
  `TelemetryNoStaleSentinel`, `TelemetryDecodedIsSent`. That integers put low
  byte first come back is Euclidean division; floats are compared index by
  index. `PathInv` adds that the frame on the wire is an encoding of what its
  sender held (`WireCarriesBody`). The assumptions (`WireAssumption`,
  `PathAssumption`) say that lengths and numbers fit the fields they travel in.
- **LoopbackProofs.** `LoopbackTypeCorrect`, `LoopbackExactlyOnce`,
  `LoopbackOvertakesOnlyHeld` whether callbacks publish or not;
  `LoopbackLosesNothing` and `LoopbackImplementsLink` when they do not. That
  hypothesis is what every application of the repository satisfies, and it
  cannot go: the run `loopback_reentrant` refutes the conclusion without it.
  While a poll compacts the queue in place, entries the poll has passed are
  still in the array above the kept ones. `Open` names the positions that
  count; the invariant says that these are in order but for what was held
  (`QueueInOrder`), that every message is in one place (`OnePlaceEach`), and
  what a subscription has still to be called with (`CalledInTurn`).
- **FrameLoopProofs.** `FrameLoopNeverStale`, `FrameLoopMissingExplained`,
  `FrameLoopDoublesAreHeld`, `FrameLoopInputIsCurrent`,
  `FrameLoopOneFrameOfReference`, for any fleet, queue and loss settings. The
  loop takes the loopback and the monitor by INSTANCE, and the proof does so
  with their proof modules: each step of the loop is a step of either, or leaves
  it alone, so their invariants are kept, and only what relates the two is
  proved anew. That is `LoopInv`: a vessel's packets are numbered in the order
  they were published (`NumberedInOrder`); whatever the monitor has still to
  judge is above its mark, and of this frame or held since the last
  (`QueueIsNews`); what it has heard is what was delivered (`HeardIsDelivered`).
  `NeverStale` follows from the second. The measures need cardinalities:
  `LossesAccount` weighs the vessels missing, now and still, against the packets
  lost, held and refused, since a frame has at most one packet of each vessel,
  and a double against the packet its successor superseded. The hulls share a
  frame of reference because the anchor is written once and before any pose
  (`SceneInv` in `Scene`).

### Induction

The library's induction theorems take an operator, which no installed prover can
instantiate. The sums of `BenchProofs` need induction all the same: over the
processes of a tree and over the streams of a profile. It is done with sets: the
natural numbers are well founded (`NatLessThanWellFounded`), so a set of numbers
that is not empty has a least member (`WFMin`), which gives `SetInduction`,
`SubsetInduction` and `UptoIn`. The folds of the community modules unfold to the
function they choose, which is shown to exist and to be the sum. Rings, counters
and queues are characterised index by index instead. No module declares a
RECURSIVE operator.

### What stays with TLC

- Liveness (`EveryMessageLeaves`, `EveryPacketArrives`) and anything with
  ENABLED: the prover has no rules for fairness that its backends can use here.

Everything else that a passing run checks is a theorem.

## 5. What is not modelled

- Arguments that are NULL, and topics or payloads longer than their slots.
- A simulation's callback that calls `fdt_dte_tick` itself, which issues the
  same index again; nothing in the repository does it.
- Rounding of single additions in doubles (regulator, link budget, charts) and
  `fdt_link_increase`.
- The sequence number's wrap at 2^32, after seventeen years at 8 Hz.
- The pulse widths of RC output (`adapters/mavlink/fdt_mavlink.c:126-154`), the
  unit conversions of the MAVLink handlers, the attitude of a hull.
- mosquitto's limit on messages in flight (`max_inflight_messages`), which only
  delays, and its limit on bytes queued; a queue's limit is in messages.
- The topic rule for goals: nothing in the repository publishes or reads goals
  over MQTT.
- The wording of texts, escaping, styles and the legend of a chart, the bytes
  of an SVG or CSV file; results of writing that fail, which the benches do not
  look at.
- The wall times the benches measure and their statistics, the Kalman filter of
  `examples/two_paths.c`, a process tree of the simulator deeper than one level
  and a sample of it that is not one step.
- The stubs of external libraries, which hold no code.

## 6. Plan

The plan is carried out: every component is modelled as far as it is going to
be, and every safety property, action property and refinement a passing run
checks is proved. What is left would be the two liveness properties, for which
the provers have no rules here, and the figures above `LargestFigure`, which
need nice steps for every power of ten and hence a function instead of a set
that TLC can enumerate.

---------------------------- MODULE TelemetryPath ----------------------------
(***************************************************************************)
(* What a sensor reading goes through from one end of the system to the    *)
(* other: MAVLink messages folded into an input (MavIngest), the input     *)
(* encoded and put into an envelope (Wire), the frame cut short or         *)
(* delivered twice on its way, decoded by on_lsdt, completed from the      *)
(* camera path on the ground (StereoCamera), and the actuation that goes   *)
(* back to the boat the same way.                                          *)
(*                                                                         *)
(* wire is the last frame published.  body is history: the vector it was   *)
(* made from, and its kind.  resolved is history too: whether the ground   *)
(* attached views since it last decoded an input.                          *)
(*                                                                         *)
(* An operator named for a slip is the one after it with that slip made.   *)
(***************************************************************************)
EXTENDS MavIngest, StereoCamera, Wire

CONSTANTS
  N,              \* vessels the ground knows
  MaxFrames,      \* bound: frames of the boat
  MaxPairs        \* bound: pairs of the camera

(* An I^t has the families' floats, and what travels fits its field.       *)
ASSUME PathAssumption ==
  /\ MaxFrames \in Nat \ {0}
  /\ InputFloats = Families
  /\ N \in 1 .. Short - 1
  /\ InputBytes < Word /\ StateBytes < Word /\ ActBytes < Word
  /\ MaxFrames + StateFloats < Word /\ MaxFrames * Byte + ActFloats < Word

VARIABLES
  wire, body,
  ground,         \* g_decoded[0]
  mirror,         \* the state a subscriber of B^t decoded last
  acted,          \* the actuation the boat decoded last
  resolved

ends == <<ground, mirror, acted, resolved>>
pathVars == <<mavVars, cameraVars, wire, body, ends>>

ZeroInput == [floats |-> NoReading, x_left |-> "null", x_right |-> "null"]
ZeroState == [i \in 1 .. StateFloats |-> 0]
ZeroAct == [i \in 1 .. ActFloats |-> 0]

PathInit ==
  /\ MavStart /\ CameraStart
  /\ wire = <<>> /\ body = <<>>
  /\ ground = ZeroInput /\ mirror = ZeroState /\ acted = ZeroAct
  /\ resolved = FALSE

(* A frame as the injector, the controller and the boats build it.         *)
Packet(kind, vessel, seq, payload) ==
  EnvEncode([vessel |-> vessel, kind |-> kind, flags |-> 0, seq |-> seq,
             payload_len |-> Len(payload)],
            payload, HeaderBytes + Len(payload))

PutOnWire(kind, vector, payload) ==
  /\ wire' = Packet(kind, 0, frame, payload)
  /\ body' = <<kind, vector>>
  /\ UNCHANGED <<mavVars, cameraVars, ends>>

(* The boat: messages in any order, views or none, and the input published *)
(* once it is complete.                                                    *)
Sense ==
  /\ \/ frame < MaxFrames /\ MavInit
     \/ \E g \in Family : MavOn(g)
     \/ \E l, r \in {"null", "onboard"} : MavAttachViews(l, r)
  /\ UNCHANGED <<cameraVars, wire, body, ends>>

PublishInput ==
  /\ MavComplete
  /\ PutOnWire(Kind.input, MavInput, EncInput(MavInput, InputBytes))

(* The ground: a state and an actuation that follow from the input.        *)
StateOf(in) == [i \in 1 .. StateFloats |-> in.floats[1] + i]
ActOf(in) == [i \in 1 .. ActFloats |-> in.floats[1] * Byte + i]

PublishState == PutOnWire(Kind.state, StateOf(ground), EncState(StateOf(ground), StateBytes))
PublishAct == PutOnWire(Kind.act, ActOf(ground), EncAct(ActOf(ground), ActBytes))

(* Frames nobody here asked for: of a vessel beyond the fleet, without a   *)
(* payload, or with the payload of an older, shorter input.                *)
Unasked(seq) ==
  {Packet(Kind.input, N, seq, EncInput(ZeroInput, InputBytes)),
   Packet(Kind.input, 0, seq, <<>>),
   Packet(Kind.input, 0, seq, [i \in 1 .. InputBytes - 1 |-> 1])}

PublishOther ==
  /\ wire' \in Unasked(frame)
  /\ body' = <<>>
  /\ UNCHANGED <<mavVars, cameraVars, ends>>

-----------------------------------------------------------------------------

(* What a callback does first: decode the envelope, and go on only with a  *)
(* payload of its own kind.                                                *)
PayloadOf(buf, kind) ==
  LET d == EnvDecode(buf)
  IN  IF d = Rejected THEN Rejected
      ELSE IF d.payload = <<>> \/ d.env.kind # kind \/ d.env.vessel >= N
           THEN Rejected ELSE d.payload

(* on_lsdt; on_act of the latency bench; a subscriber of the state topic.  *)
OnLsdt(buf) ==
  LET payload == PayloadOf(buf, Kind.input) IN
  /\ payload # Rejected
  /\ DecInput(payload) # Rejected
  /\ ground' = DecInput(payload)
  /\ resolved' = FALSE
  /\ UNCHANGED <<mirror, acted>>

OnAct(buf) ==
  LET payload == PayloadOf(buf, Kind.act) IN
  /\ payload # Rejected
  /\ DecAct(payload) # Rejected
  /\ acted' = DecAct(payload)
  /\ UNCHANGED <<ground, mirror, resolved>>

OnState(buf) ==
  LET payload == PayloadOf(buf, Kind.state) IN
  /\ payload # Rejected
  /\ DecState(payload) # Rejected
  /\ mirror' = DecState(payload)
  /\ UNCHANGED <<ground, acted, resolved>>

(* The last frame, or the first bytes of it, arrives; a callback that      *)
(* rejects it changes nothing and is a stutter.                            *)
Deliver ==
  /\ \E n \in 0 .. Len(wire) :
       LET buf == SubSeq(wire, 1, n) IN OnLsdt(buf) \/ OnAct(buf) \/ OnState(buf)
  /\ UNCHANGED <<mavVars, cameraVars, wire, body>>

(* The ground's camera, whose views replace the sentinels.                 *)
Camera ==
  /\ (camera < MaxPairs /\ NextFrame) \/ CameraClose
  /\ UNCHANGED <<mavVars, wire, body, ends>>

Attach ==
  /\ \E left \in {"null", "left"}, right \in {"null", "right"} :
       ground' = Attached(ground, left, right)
  /\ resolved' = TRUE
  /\ UNCHANGED <<mavVars, cameraVars, wire, body, mirror, acted>>

PathNext ==
  \/ Sense \/ PublishInput \/ PublishState \/ PublishAct \/ PublishOther
  \/ Deliver \/ Camera \/ Attach

PathSpec == PathInit /\ [][PathNext]_pathVars

-----------------------------------------------------------------------------

(* An input that is complete is of one frame: every family it was          *)
(* assembled from arrived since the accumulator was last cleared, in       *)
(* whatever order, and none is the zero the clearing left.                 *)
CompleteIsOfOneFrame ==
  body # <<>> /\ body[1] = Kind.input =>
    \E f \in 1 .. MaxFrames : \A g \in Family : body[2].floats[g] = f

(* Whatever the link cuts, repeats or puts on the wrong topic, what an end *)
(* decodes is exactly the vector the frame was made from, never a mixture, *)
(* never a part, never another kind; a view arrives as a sentinel, or not  *)
(* at all.                                                                 *)
Crossed(in) ==
  [floats |-> in.floats, x_left |-> View(Flag(in.x_left)), x_right |-> View(Flag(in.x_right))]

DecodedIsSent ==
  [][/\ ground'.floats # ground.floats \/ (resolved /\ ~resolved') =>
          body # <<>> /\ body[1] = Kind.input /\ ground' = Crossed(body[2])
     /\ mirror' # mirror => body = <<Kind.state, mirror'>>
     /\ acted' # acted => body = <<Kind.act, acted'>>]_pathVars

(* fdt_rtsp.h: after an attach "a downstream reader can never mistake      *)
(* 'a frame was attached upstream' for 'a frame is available here'", and   *)
(* an input that shows both views shows one pair.                          *)
NoStaleSentinel ==
  /\ resolved => ~Pending(ground)
  /\ {ground.x_left, ground.x_right} = {"left", "right"} => painted.left = painted.right
-----------------------------------------------------------------------------
(* The invariant the proofs rest on.                                       *)

(* A family that has not arrived still shows the zero the clearing left.   *)
ReadingsOfTheFrame ==
  /\ frame \in 1 .. MaxFrames /\ have \subseteq Family
  /\ reading = [g \in Family |-> IF g \in have THEN frame ELSE 0]

(* The ground has an input of readings, whatever it decoded or attached.   *)
GroundIsReadings ==
  /\ {"floats", "x_left", "x_right"} \subseteq DOMAIN ground
  /\ ground.floats \in [Family -> 0 .. MaxFrames]

Encoded(kind, vector) ==
  CASE kind = Kind.input -> EncInput(vector, InputBytes)
    [] kind = Kind.state -> EncState(vector, StateBytes)
    [] kind = Kind.act   -> EncAct(vector, ActBytes)

Vectors(kind) ==
  CASE kind = Kind.input -> [floats : [Family -> 0 .. MaxFrames],
                             x_left : {"null", "onboard"}, x_right : {"null", "onboard"}]
    [] kind = Kind.state -> [1 .. StateFloats -> 0 .. Word - 1]
    [] kind = Kind.act   -> [1 .. ActFloats -> 0 .. Word - 1]

(* What travels is the vector it was made from, or what no end accepts.    *)
WireCarriesBody ==
  \/ wire = <<>>
  \/ \E seq \in 1 .. MaxFrames : wire \in Unasked(seq)
  \/ /\ body = <<body[1], body[2]>>
     /\ body[1] \in {Kind.input, Kind.state, Kind.act} /\ body[2] \in Vectors(body[1])
     /\ \E seq \in 1 .. MaxFrames :
          wire = Packet(body[1], 0, seq, Encoded(body[1], body[2]))

PathInv ==
  /\ ReadingsOfTheFrame /\ GroundIsReadings /\ WireCarriesBody
  /\ views \in [left : {"null", "onboard"}, right : {"null", "onboard"}]
  /\ painted.left = painted.right
  /\ CompleteIsOfOneFrame /\ NoStaleSentinel
=============================================================================

--------------------------------- MODULE Wire ---------------------------------
(***************************************************************************)
(* The wire format: the envelope (src/envelope.c) and the fixed-width      *)
(* encodings of I^t, B^t and A^t (src/codec.c), byte by byte.              *)
(*                                                                         *)
(* A byte is 0 .. Byte - 1 and a float travels as the 32 bits it is stored *)
(* in, so a float is the number of those bits here.  The vectors are as    *)
(* long as the constants say, instead of 19, 12 and 2 floats.              *)
(*                                                                         *)
(* An operator named for a slip is the one after it with that slip made.   *)
(***************************************************************************)
EXTENDS Integers, Sequences

CONSTANTS
  Byte,                   \* 256: the values of a byte
  Magic,                  \* FDT_ENV_MAGIC
  InputFloats,            \* floats in an I^t
  StateFloats,            \* floats in a B^t
  ActFloats,              \* floats in an A^t
  Rejected                \* the -1 of every function here

(* The values of a uint16_t and of a uint32_t.                             *)
Short == Byte * Byte
Word == Short * Short

ASSUME WireAssumption ==
  /\ Byte \in Nat /\ Byte > 4
  /\ Magic \in 0 .. Word - 1
  /\ InputFloats \in Nat /\ StateFloats \in Nat /\ ActFloats \in Nat

(* put_u16, put_u32 and put_f32, and their get: the low byte first.        *)
Shifted(v) == v \div Byte

Put16(v) == <<v % Byte, Shifted(v) % Byte>>
Put32(v) == Put16(v) \o Put16(Shifted(Shifted(v)))

Get16(buf, at) == buf[at + 1] + Byte * buf[at + 2]
Get32(buf, at) == Get16(buf, at) + Short * Get16(buf, at + 2)

PutFloats(floats) ==
  [i \in 1 .. 4 * Len(floats) |-> Put32(floats[(i + 3) \div 4])[((i - 1) % 4) + 1]]
GetFloats(buf, n) == [i \in 1 .. n |-> Get32(buf, 4 * (i - 1))]

-----------------------------------------------------------------------------
(* The envelope.                                                           *)

HeaderBytes == 16
Kind == [input |-> 1, state |-> 2, act |-> 3, goal |-> 4]
KindKnown(kind) == kind \in {Kind[k] : k \in DOMAIN Kind}

(* fdt_env_encode.                                                         *)
EnvEncode(env, payload, cap) ==
  IF \/ env.payload_len # Len(payload)
     \/ ~KindKnown(env.kind)
     \/ cap < HeaderBytes + Len(payload)
  THEN Rejected
  ELSE Put32(Magic) \o Put16(env.vessel) \o <<env.kind, env.flags>>
         \o Put32(env.seq) \o Put32(Len(payload)) \o payload

(* The header fields of a buffer at least that long.                       *)
HeaderOf(buf) ==
  [vessel |-> Get16(buf, 4), kind |-> buf[7], flags |-> buf[8],
   seq |-> Get32(buf, 8), payload_len |-> Get32(buf, 12)]

(* Whether the payload the header announces is all there.                  *)
HasHeader(buf) == Len(buf) >= HeaderBytes
HasPayload(buf) == Len(buf) >= HeaderBytes + HeaderOf(buf).payload_len

(* fdt_env_decode: the header, and the payload, none when its length is 0. *)
EnvDecode(buf) ==
  IF \/ ~HasHeader(buf)
     \/ Get32(buf, 0) # Magic
     \/ ~KindKnown(buf[7])
     \/ ~HasPayload(buf)
  THEN Rejected
  ELSE [env |-> HeaderOf(buf),
        payload |-> SubSeq(buf, HeaderBytes + 1,
                           HeaderBytes + HeaderOf(buf).payload_len)]

-----------------------------------------------------------------------------
(* The payloads.                                                           *)

StateBytes == 4 * StateFloats
InputBytes == 4 * InputFloats + 2
ActBytes == 4 * ActFloats

EncState(b, cap) == IF cap < StateBytes THEN Rejected ELSE PutFloats(b)
DecState(buf) == IF Len(buf) < StateBytes THEN Rejected ELSE GetFloats(buf, StateFloats)

(* A view goes out as a flag and comes back as a sentinel, never as the    *)
(* pointer it was.                                                         *)
Flag(view) == IF view # "null" THEN 1 ELSE 0
View(flag) == IF flag # 0 THEN "present" ELSE "null"

EncInput(in, cap) ==
  IF cap < InputBytes
  THEN Rejected
  ELSE PutFloats(in.floats) \o <<Flag(in.x_left), Flag(in.x_right)>>

DecInputUnchecked(buf) ==
  [floats |-> GetFloats(buf \o [i \in 1 .. InputBytes |-> 0], InputFloats),
   x_left |-> "null", x_right |-> "null"]

DecInput(buf) ==
  IF Len(buf) < InputBytes
  THEN Rejected
  ELSE [floats |-> GetFloats(buf, InputFloats),
        x_left |-> View(buf[InputBytes - 1]), x_right |-> View(buf[InputBytes])]

EncAct(a, cap) == IF cap < ActBytes THEN Rejected ELSE PutFloats(a)
DecAct(buf) == IF Len(buf) < ActBytes THEN Rejected ELSE GetFloats(buf, ActFloats)
=============================================================================

------------------------------ MODULE MavIngest ------------------------------
(***************************************************************************)
(* The MAVLink adapter (adapters/mavlink/fdt_mavlink.c): messages folded   *)
(* one by one into the input of a frame, and a mask of the families that   *)
(* have arrived.                                                           *)
(*                                                                         *)
(* A reading is known by the frame it arrived in; 0 is the zero fdt_mav_   *)
(* init leaves.  frame is history: how often fdt_mav_init was called.      *)
(*                                                                         *)
(* An operator named for a slip is the one after it with that slip made.   *)
(***************************************************************************)
EXTENDS Integers

CONSTANT Families       \* 1 .. Families: IMU, GPS, NED, pressure, battery

ASSUME MavAssumption == Families \in Nat \ {0}

Family == 1 .. Families

VARIABLES
  reading,        \* ing->input, family by family
  views,          \* ing->input.x_left and x_right
  have,           \* ing->have
  frame

mavVars == <<reading, views, have, frame>>

NoViews == [left |-> "null", right |-> "null"]
NoReading == [g \in Family |-> 0]

MavStart ==
  /\ reading = NoReading /\ views = NoViews /\ have = {}
  /\ frame = 1

(* fdt_mav_init: "Clears the accumulator, ready for a new frame".          *)
MavInitKeepsMask ==
  /\ reading' = NoReading /\ views' = NoViews
  /\ frame' = frame + 1
  /\ UNCHANGED have

MavInit ==
  /\ reading' = NoReading /\ views' = NoViews /\ have' = {}
  /\ frame' = frame + 1

(* fdt_mav_on_scaled_imu, _gps_raw, _local_ned, _scaled_pressure and       *)
(* _battery: the family's fields are overwritten and its bit set.          *)
MavOn(g) ==
  /\ reading' = [reading EXCEPT ![g] = frame]
  /\ have' = have \cup {g}
  /\ UNCHANGED <<views, frame>>

MavAttachViews(left, right) ==
  /\ views' = [left |-> left, right |-> right]
  /\ UNCHANGED <<reading, have, frame>>

MavComplete == have = Family

(* fdt_mav_input.                                                          *)
MavInput == [floats |-> reading, x_left |-> views.left, x_right |-> views.right]
=============================================================================

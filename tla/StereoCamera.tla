---------------------------- MODULE StereoCamera ----------------------------
(***************************************************************************)
(* The camera path beside MQTT (adapters/rtsp/fdt_rtsp_fake.c): a source   *)
(* that paints every stereo pair into the same two buffers, and the calls  *)
(* that put its views into an input in place of the sentinels the wire     *)
(* brought.                                                                *)
(*                                                                         *)
(* A view is "null", "present" (FDT_VIEW_PRESENT), or a buffer's name.     *)
(***************************************************************************)
EXTENDS Integers

VARIABLES
  camera,         \* f->seq
  painted         \* the pair number each buffer shows

cameraVars == <<camera, painted>>

CameraStart == camera = 0 /\ painted = [left |-> 0, right |-> 0]

(* fake_next_frame.                                                        *)
NextFrame ==
  /\ camera' = camera + 1
  /\ painted' = [left |-> camera', right |-> camera']

(* fake_close: the numbers begin again; the buffers keep their paint.      *)
CameraClose ==
  /\ camera' = 0
  /\ UNCHANGED painted

(* fdt_rtsp_attach: a missing view clears the field rather than leaving    *)
(* the sentinel in it.                                                     *)
AttachedKeepsSentinel(in, left, right) ==
  [in EXCEPT !.x_left = IF left # "null" THEN left ELSE @,
             !.x_right = IF right # "null" THEN right ELSE @]
Attached(in, left, right) == [in EXCEPT !.x_left = left, !.x_right = right]

(* fdt_rtsp_pending.                                                       *)
Pending(in) == "present" \in {in.x_left, in.x_right}
=============================================================================

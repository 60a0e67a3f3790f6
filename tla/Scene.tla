------------------------------- MODULE Scene --------------------------------
(***************************************************************************)
(* The 3D world the controller writes the twins into (fdt_controller.c,    *)
(* render_vessel and the discovery of the hulls, src/geo.c): each hull is  *)
(* moved from where the world had put it by the way its vessel is from one *)
(* anchor, the first fix rendered.                                         *)
(*                                                                         *)
(* Degrees and metres are whole numbers; the cosine is a scale that falls  *)
(* as the latitude grows.  shown is history: the fix a hull was last drawn *)
(* at.                                                                     *)
(*                                                                         *)
(* An operator named for a slip is the one after it with that slip made.   *)
(***************************************************************************)
EXTENDS Integers

CONSTANTS
  N,              \* g_vessels
  World,          \* the entries of VESSEL_DEF that resolve
  Poses           \* FALSE where FDT_NO_POSE is set

(* main looks the names up in order and stops at the first that is not     *)
(* there: a hull after a gap is no vessel.                                 *)
Discovered(world) == {k \in world : 0 .. k \subseteq world}

ASSUME SceneAssumption ==
  /\ N \in Nat \ {0}
  /\ World \subseteq Nat
  /\ Discovered(World) = 0 .. N - 1
  /\ Poses \in BOOLEAN

Vessel == 0 .. N - 1

VARIABLES anchor, pose, shown

scene == <<anchor, pose, shown>>

NoFix == [lat |-> 0, lon |-> 0]
Unanchored == [lat |-> -1, lon |-> -1]

(* g_origin, and a fleet whose fixes are all to come.                      *)
Origin(k) == [east |-> 7 * k, north |-> 3 * k]

SceneInit ==
  /\ anchor = Unanchored
  /\ pose = [k \in Vessel |-> Origin(k)]
  /\ shown = [k \in Vessel |-> NoFix]

(* fdt_geo_m_per_deg_lon and fdt_geo_offset.                               *)
MetresPerDegLat == 100
MetresPerDegLon(lat) == MetresPerDegLat - lat

GeoOffset(ref, fix) ==
  [east |-> (fix.lon - ref.lon) * MetresPerDegLon(ref.lat),
   north |-> (fix.lat - ref.lat) * MetresPerDegLat]

Placed(k, offset) ==
  [east |-> Origin(k).east + offset.east, north |-> Origin(k).north + offset.north]

(* render_vessel: one anchor for the fleet, not one per vessel.            *)
AnchorPerVessel(k, fix) == IF shown[k] = NoFix THEN fix ELSE shown[k]
Anchor(k, fix) == IF anchor = Unanchored THEN fix ELSE anchor

Render(k, fix) ==
  IF ~Poses \/ fix = NoFix
  THEN UNCHANGED scene
  ELSE /\ anchor' = Anchor(k, fix)
       /\ pose' = [pose EXCEPT ![k] = Placed(k, GeoOffset(anchor', fix))]
       /\ shown' = [shown EXCEPT ![k] = fix]

-----------------------------------------------------------------------------

(* Whichever vessel is heard first, and in whichever frames the others     *)
(* were, two hulls are as far apart as the world had put them plus as far  *)
(* as their fixes are; a vessel without a fix stays where the world had it.*)
OneFrameOfReference ==
  /\ \A k \in Vessel : shown[k] = NoFix => pose[k] = Origin(k)
  /\ \A j, k \in Vessel :
       NoFix \notin {shown[j], shown[k]} =>
         /\ pose[k].north - pose[j].north =
              Origin(k).north - Origin(j).north + GeoOffset(shown[j], shown[k]).north
         /\ pose[k].east - pose[j].east =
              Origin(k).east - Origin(j).east
                + (shown[k].lon - shown[j].lon) * MetresPerDegLon(anchor.lat)
-----------------------------------------------------------------------------
(* The invariant the proofs rest on: a hull is off its place by the way    *)
(* from the anchor to the fix it was last drawn at.                        *)

Position == [lat : Int, lon : Int]
Pose == [east : Int, north : Int]

SceneInv ==
  /\ anchor \in Position /\ pose \in [Vessel -> Pose] /\ shown \in [Vessel -> Position]
  /\ anchor = Unanchored => \A k \in Vessel : shown[k] = NoFix
  /\ \A k \in Vessel :
       pose[k] = IF shown[k] = NoFix THEN Origin(k) ELSE Placed(k, GeoOffset(anchor, shown[k]))
=============================================================================

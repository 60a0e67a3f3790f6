------------------------------ MODULE MCCampaign ------------------------------
(***************************************************************************)
(* The campaign for TLC: the benches in the order of their file names.     *)
(***************************************************************************)
EXTENDS Campaign

MCBenches == <<"bandwidth", "jitter", "latency", "regulator", "scale", "webots_cpu">>

MCLoads == {0, 7 * Unit}
MCDeviations == {-2 * Unit, 0, 3 * Unit}
=============================================================================

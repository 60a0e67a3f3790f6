------------------------------ MODULE LinkBudget ------------------------------
(***************************************************************************)
(* The link budget (src/linkbudget.c): what streams cost on a shared link, *)
(* and how many vessels of one profile fit in a share of it.               *)
(*                                                                         *)
(* Rates are whole hertz, the overhead and the budget whole percents, so   *)
(* that a bit rate with its overhead is a whole number of hundredths; the  *)
(* rounding of the code's doubles is left out.                             *)
(*                                                                         *)
(* An operator named for a slip is the one after it with that slip made.   *)
(***************************************************************************)
EXTENDS Integers, Sequences, SequencesExt

CONSTANT UintMax        \* UINT_MAX

ASSUME LinkBudgetAssumption == UintMax \in Nat

(* fdt_link_stream_bps.                                                    *)
StreamBps(s) == s.payload * 8 * s.hz * s.vessels

(* What streams cost on a link without overhead.                           *)
SumBps(streams) == FoldLeft(LAMBDA sum, s : sum + StreamBps(s), 0, streams)

(* fdt_link_total_bps, in hundredths of a bit per second.                  *)
TotalBps(link, streams) == SumBps(streams) * (100 + link.overhead)

(* fdt_link_utilization, compared with a percentage; a link without        *)
(* capacity answers -1, which is below any.                                *)
OccupiesAtMost(link, streams, percent) ==
  link.capacity > 0 => TotalBps(link, streams) <= percent * link.capacity

(* The profile with its own vessel count replaced.                         *)
ForVessels(streams, n) == [i \in DOMAIN streams |-> [streams[i] EXCEPT !.vessels = n]]

(* fdt_link_max_vessels.                                                   *)
MaxVesselsOfProfile(link, streams, percent) ==
  LET perVessel == TotalBps(link, streams)
  IN  CASE link.capacity <= 0 \/ percent <= 0 -> 0
        [] OTHER -> IF perVessel <= 0 THEN UintMax
                    ELSE LET fits == (link.capacity * percent) \div perVessel
                         IN  IF fits >= UintMax THEN UintMax ELSE fits

MaxVessels(link, streams, percent) ==
  LET perVessel == TotalBps(link, ForVessels(streams, 1))
  IN  CASE link.capacity <= 0 \/ percent <= 0 -> 0
        [] OTHER -> IF perVessel <= 0 THEN UintMax
                    ELSE LET fits == (link.capacity * percent) \div perVessel
                         IN  IF fits >= UintMax THEN UintMax ELSE fits
=============================================================================

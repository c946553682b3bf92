---------------------------- MODULE RegionParams ----------------------------
(***************************************************************************)
(* The transmit power of a region (src/region.rs).  Parameters have the    *)
(* antenna gain and the largest EIRP of each channel, both in tenths of a  *)
(* decibel.                                                                *)
(***************************************************************************)
EXTENDS Integers

CONSTANTS None

max_eirp(params) ==
  CHOOSE max \in params.eirps : \A eirp \in params.eirps : eirp <= max

\* Defect: the power is rounded to the nearest decibel.
tx_power_rounded(params) ==
  IF params.eirps = {} \/ max_eirp(params) < params.gain THEN None
  ELSE (max_eirp(params) - params.gain + 5) \div 10

\* In decibels, or None: trunc, and to_u32 of what is not negative.
tx_power(params) ==
  IF params.eirps = {} \/ max_eirp(params) < params.gain THEN None
  ELSE (max_eirp(params) - params.gain) \div 10
=============================================================================

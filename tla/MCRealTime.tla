------------------------------ MODULE MCRealTime ------------------------------
(* RealTime with ratios whose conversions truncate, and corrections that   *)
(* speed the clock up and slow it down.  From the smaller offset the       *)
(* unsigned sum of hwtimer_get_pseudohost_rtc_time goes below 0 and wraps. *)
EXTENDS RealTime

MCRatios == {<<1, 1>>, <<2, 1>>}
MCCorrections == {<<3, 2>>, <<1, 2>>}
MCRtcOffsets == {1, 20}
MCOffsetDeltas == {-2, 5}
MCTickPeriods == {2, 3}
=============================================================================

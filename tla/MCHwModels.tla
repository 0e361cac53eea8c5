------------------------------ MODULE MCHwModels ------------------------------
(* HwModels with two contexts whose waits overlap each other, the ticks    *)
(* and the counter: the periods and waits are such that events come        *)
(* together, and apart.                                                    *)
EXTENDS HwModels

MCDurations == {1, 3}
MCTickPeriods == {2}
MCCounterPeriods == {3}
MCCounterTargets == {1}
MCSilences == {1}
MCEndTimes == {3, 20}
=============================================================================

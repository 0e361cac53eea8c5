------------------------------- MODULE RealTime -------------------------------
(***************************************************************************)
(* Simulated time against the host's clock on the native_posix board: the  *)
(* wait that holds each tick back to real time, the adjustments of the     *)
(* clock's ratio and offset while it runs, and the clocks of the RTC       *)
(* (timer_model.c, native_rtc.c).                                          *)
(*                                                                         *)
(* Of the event loop (HwModels) only this is kept: time goes from event to *)
(* event, ticks are some of them, and software runs in between.  All times *)
(* are whole microseconds, as in the code.  A ratio is a fraction and not  *)
(* a double: what the code truncates to an integer is truncated here, the  *)
(* rounding of a double itself is left out.                                *)
(***************************************************************************)
EXTENDS Integers

CONSTANTS Boot,          \* the host's clock at the start, not 0
          Ratios,        \* given by -rt-ratio or -rt-drift, as <<num, den>>
          Corrections,   \* given to native_rtc_adjust_clock
          RtcOffsets,    \* rtc_offset after hwtimer_init
          OffsetDeltas,  \* given to native_rtc_offset
          TickPeriods,
          WORD,          \* 2^64
          MaxTime, MaxHost, MaxAdjustments   \* bounds

ASSUME RealTimeAssumption ==
  /\ Boot \in Nat /\ MaxTime \in Nat /\ MaxHost \in Nat
  /\ MaxAdjustments \in Nat /\ WORD \in Nat \ {0}
  /\ Ratios \cup Corrections \subseteq (Nat \ {0}) \X (Nat \ {0})
  /\ RtcOffsets \cup OffsetDeltas \subseteq Int
  /\ TickPeriods \subseteq Nat \ {0}

VARIABLES simu_time, hw_timer_tick_timer, tick_p,
          host,          \* the host's monotonic clock
          real_time_mode, clock_ratio, rtc_offset,
          last_radj_rtime, last_radj_stime,
          signaled_end, exited,
          ideal,         \* history: the host time, a fraction, that belongs to
                         \* simu_time by the ratios in force meanwhile
          adjustments    \* counts up to MaxAdjustments

ticks == <<hw_timer_tick_timer, tick_p>>
radj == <<last_radj_rtime, last_radj_stime, clock_ratio>>
vars == <<simu_time, ticks, host, real_time_mode, radj, rtc_offset, signaled_end,
          exited, ideal, adjustments>>

num == clock_ratio[1]
den == clock_ratio[2]
NoTicks == hw_timer_tick_timer = 0

-----------------------------------------------------------------------------
(* In lowest terms, so that equal fractions are equal states. *)
Reduced(n, d) ==
  LET least == CHOOSE q \in 1 .. d :
                 /\ (n * q) % d = 0
                 /\ \A r \in 1 .. q - 1 : (n * r) % d # 0
  IN  <<(n * least) \div d, least>>

(* us of simulated time in microseconds of the host. *)
HostTimeFor(us) == (us * den) \div num

ExpectedRtFromBoot(time) == HostTimeFor(time) + Boot

(* The host time at which simulated time should be `time`. *)
ExpectedRt(time) == HostTimeFor(time - last_radj_stime) + last_radj_rtime

(* hwtimer_get_simu_rtc_time *)
SimuRtcTime == simu_time + rtc_offset

(* hwtimer_get_pseudohost_rtc_time: the sum of the last adjustment and the *)
(* offset is unsigned; below 0 the conversion of the result is undefined.  *)
PseudohostRtcTime ==
  ((host - last_radj_rtime) * num + ((last_radj_stime + rtc_offset) % WORD) * den) \div den

(* native_rtc_gettime_us: unsigned, whichever the clock. *)
GettimeUs(clock_type) ==
  CASE clock_type = "BOOT" -> simu_time
    [] clock_type = "REALTIME" -> SimuRtcTime % WORD
    [] clock_type = "PSEUDOHOSTREALTIME" -> PseudohostRtcTime % WORD

(* hwtimer_init, with the settings of the command line. *)
Init ==
  /\ simu_time = 0
  /\ hw_timer_tick_timer = 0 /\ tick_p = 0
  /\ host = Boot
  /\ real_time_mode \in BOOLEAN
  /\ clock_ratio \in Ratios
  /\ rtc_offset \in RtcOffsets
  /\ last_radj_rtime = IF real_time_mode THEN host ELSE 0
  /\ last_radj_stime = 0
  /\ signaled_end = FALSE
  /\ exited = FALSE
  /\ ideal = <<Boot, 1>>
  /\ adjustments = 0

-----------------------------------------------------------------------------
(* hwtimer_enable *)
HwtimerEnable(period) ==
  /\ ~exited
  /\ NoTicks
  /\ tick_p' = period
  /\ hw_timer_tick_timer' = simu_time + period
  /\ UNCHANGED <<simu_time, host, real_time_mode, radj, rtc_offset, signaled_end,
                 exited, ideal, adjustments>>

CorrectedByDrift(correction) ==
  <<num * (correction[1] - correction[2]), den * correction[2]>>

(* clock_ratio *= ratio_correction *)
Corrected(correction) == Reduced(num * correction[1], den * correction[2])

AdjustRatioFirst(correction) ==
  /\ ~exited
  /\ adjustments < MaxAdjustments
  /\ adjustments' = adjustments + 1
  /\ clock_ratio' = Corrected(correction)
  /\ last_radj_rtime' = last_radj_rtime
                          + ((simu_time - last_radj_stime) * clock_ratio'[2]) \div clock_ratio'[1]
  /\ last_radj_stime' = simu_time
  /\ UNCHANGED <<simu_time, ticks, host, real_time_mode, rtc_offset, signaled_end,
                 exited, ideal>>

(* native_rtc_adjust_clock, hwtimer_adjust_rt_ratio: the time up to now    *)
(* counts by the old ratio.                                                *)
AdjustRtRatio(correction) ==
  /\ ~exited
  /\ adjustments < MaxAdjustments
  /\ adjustments' = adjustments + 1
  /\ last_radj_rtime' = last_radj_rtime + HostTimeFor(simu_time - last_radj_stime)
  /\ last_radj_stime' = simu_time
  /\ clock_ratio' = Corrected(correction)
  /\ UNCHANGED <<simu_time, ticks, host, real_time_mode, rtc_offset, signaled_end,
                 exited, ideal>>

(* native_rtc_offset, hwtimer_adjust_rtc_offset *)
AdjustRtcOffset(offset_delta) ==
  /\ ~exited
  /\ adjustments < MaxAdjustments
  /\ adjustments' = adjustments + 1
  /\ rtc_offset' = rtc_offset + offset_delta
  /\ UNCHANGED <<simu_time, ticks, host, real_time_mode, radj, signaled_end,
                 exited, ideal>>

(* The host spends time, on the simulation or on other work. *)
HostAdvances ==
  /\ host < MaxHost
  /\ host' = host + 1
  /\ UNCHANGED <<simu_time, ticks, real_time_mode, radj, rtc_offset, signaled_end,
                 exited, ideal, adjustments>>

(* SIGTERM or SIGINT *)
Signal ==
  /\ ~signaled_end
  /\ signaled_end' = TRUE
  /\ UNCHANGED <<simu_time, ticks, host, real_time_mode, radj, rtc_offset, exited,
                 ideal, adjustments>>

-----------------------------------------------------------------------------
(* Simulated time goes on to an event. *)
AdvanceTo(time) ==
  /\ ~exited
  /\ ~signaled_end
  /\ time <= MaxTime
  /\ simu_time' = time
  /\ ideal' = Reduced(ideal[1] * num + (time - simu_time) * den * ideal[2],
                      ideal[2] * num)

(* An event other than a tick does not wait for the host. *)
OtherEvent(time) ==
  /\ simu_time < time
  /\ NoTicks \/ time < hw_timer_tick_timer
  /\ AdvanceTo(time)
  /\ UNCHANGED <<ticks, host, real_time_mode, radj, rtc_offset, signaled_end,
                 exited, adjustments>>

(* hwtimer_tick_timer_reached: nanosleep takes at least the time asked     *)
(* for, one more microsecond standing for any excess, unless a signal      *)
(* interrupts it.                                                          *)
SlowDown(expected_rt) ==
  IF real_time_mode /\ expected_rt > host
  THEN \/ host' \in {expected_rt, expected_rt + 1} /\ UNCHANGED signaled_end
       \/ host' \in host .. expected_rt - 1 /\ signaled_end' = TRUE
  ELSE UNCHANGED <<host, signaled_end>>

TickTimerReached ==
  /\ ~NoTicks
  /\ AdvanceTo(hw_timer_tick_timer)
  /\ SlowDown(ExpectedRt(hw_timer_tick_timer))
  /\ hw_timer_tick_timer' = hw_timer_tick_timer + tick_p
  /\ UNCHANGED <<tick_p, real_time_mode, radj, rtc_offset, exited, adjustments>>

(* hwm_sleep_until_next_timer exits instead of running the next event.     *)
Stop ==
  /\ signaled_end
  /\ ~exited
  /\ exited' = TRUE
  /\ UNCHANGED <<simu_time, ticks, host, real_time_mode, radj, rtc_offset,
                 signaled_end, ideal, adjustments>>

Next ==
  \/ \E period \in TickPeriods : HwtimerEnable(period)
  \/ \E correction \in Corrections : AdjustRtRatio(correction)
  \/ \E offset_delta \in OffsetDeltas : AdjustRtcOffset(offset_delta)
  \/ HostAdvances
  \/ Signal
  \/ \E time \in 1 .. MaxTime : OtherEvent(time)
  \/ TickTimerReached
  \/ Stop

Spec == Init /\ [][Next]_vars

-----------------------------------------------------------------------------
(* Type correctness; the ratio stays positive. *)
TypeOK ==
  /\ simu_time \in 0 .. MaxTime
  /\ {hw_timer_tick_timer, host, last_radj_rtime} \subseteq Nat
  /\ tick_p \in TickPeriods \cup {0}
  /\ last_radj_stime \in 0 .. simu_time
  /\ {real_time_mode, signaled_end, exited} \subseteq BOOLEAN
  /\ num \in Nat \ {0} /\ den \in Nat \ {0}
  /\ rtc_offset \in Int
  /\ ideal \in Nat \X (Nat \ {0})
  /\ adjustments \in 0 .. MaxAdjustments

(* In real-time mode a tick comes no earlier than the host time that       *)
(* belongs to it by all the ratios that were in force since the start, but *)
(* for a microsecond per adjustment and one more that truncation may cost, *)
(* and but for the last tick before a signal ends the process.  A tick     *)
(* that is late by then is not delayed, and without real-time mode none is *)
(* (timer_model.c:187-218, 317-350; doc/index.rst:209-213).                *)
TicksPaced ==
  [][ LET tick == ~NoTicks /\ hw_timer_tick_timer' # hw_timer_tick_timer
      IN  tick =>
            IF real_time_mode
            THEN /\ \/ signaled_end'
                    \/ (host' + adjustments + 1) * ideal'[2] > ideal'[1]
                 /\ host * ideal'[2] >= ideal'[1] => host' = host
            ELSE host' = host ]_vars

(* No clock is before 0 or beyond its word, and no sum on the way to it.   *)
ClocksInRange ==
  {last_radj_stime + rtc_offset, SimuRtcTime, PseudohostRtcTime} \subseteq 0 .. WORD - 1

(* While the clocks are in range, the pseudo-host clock is ahead of the    *)
(* simulated RTC by what simulated time lags behind the host, multiplied   *)
(* by the ratio now in force: less than one microsecond below that and, by *)
(* what each earlier adjustment truncated, at most `adjustments` times the *)
(* ratio above it.  Adjustments leave no other trace, however many came    *)
(* before, but one made while simulated time lags makes the clock jump, to *)
(* the lag at the new ratio, for last_radj_rtime is the host time that     *)
(* belongs to simulated time and not the one of the adjustment             *)
(* (timer_model.c:317-350, 371-410; doc/index.rst:308-315).                *)
PseudohostAhead ==
  real_time_mode /\ ClocksInRange =>
    LET ahead == ideal[2] * den * (GettimeUs("PSEUDOHOSTREALTIME") - GettimeUs("REALTIME"))
        lag == num * (ideal[2] * host - ideal[1])
    IN  /\ lag - ideal[2] * den < ahead
        /\ ahead <= lag + adjustments * ideal[2] * num
=============================================================================

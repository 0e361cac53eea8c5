------------------------------- MODULE HwModels -------------------------------
(***************************************************************************)
(* Simulated time on the native_posix board: the event loop of the         *)
(* hardware models (hw_models_top.c), the tick and awake timers            *)
(* (timer_model.c), the counter (hw_counter.c), and the busy waits of the  *)
(* software that the awake timer ends (cpu_wait.c).                        *)
(*                                                                         *)
(* Time stands still while software runs.  A halted CPU lets the loop      *)
(* execute the earliest of three timers, until an interrupt wakes it.  Of  *)
(* the interrupt controller (IrqCtrl) this module keeps what wakes the     *)
(* CPU; whichever thread or interrupt handler then runs is a context.      *)
(* RealTime has the host's clock: slowing down to it, ratios, the RTC.     *)
(***************************************************************************)
EXTENDS Integers

CONSTANTS Contexts,   \* threads and interrupt handlers
          Durations,  \* of waits, in microseconds
          TickPeriods, CounterPeriods, CounterTargets,
          Silences,   \* ticks the kernel skips at a time
          EndTimes,   \* possible stop times (-stop_at), NEVER if not given
          MaxTime,    \* bound: events up to this time are executed
          NEVER       \* UINT64_MAX

ASSUME HwAssumption ==
  /\ Durations \cup TickPeriods \cup CounterPeriods \subseteq Nat \ {0}
  /\ CounterTargets \cup Silences \subseteq Nat
  /\ MaxTime \in 0 .. NEVER - 1
  /\ NEVER \in Nat
  /\ \A d \in Durations \cup TickPeriods \cup CounterPeriods : MaxTime + d < NEVER
  /\ EndTimes \subseteq 0 .. NEVER

VARIABLES simu_time, end_of_time, signaled_end,
          next_timer_index, next_timer_time,
          hw_timer_timer, hw_timer_tick_timer, hw_timer_awake_timer,
          tick_p, silent_ticks,
          irq_ctrl_timer, irqs_locked, lock_ignore,
          hw_counter_timer, counter_running, counter_value, counter_target,
          counter_period,
          cpu,         \* "running", "halted" or "exited"
          current,     \* the context that runs or halted the CPU
          pc,          \* "run", "busy", "hold" or "held", for each context
          time_end,    \* ... of its arch_busy_wait, 0 outside
          to_wait,     \* ... of its posix_cpu_hold, 0 outside
          time_start,
          todo,        \* history: posix_cpu_hold asked for, less time held
          enabled_at,  \* history: when the ticks were enabled
          ticks        \* history: ticks since then

top == <<simu_time, end_of_time, signaled_end>>
next == <<next_timer_index, next_timer_time>>
tick == <<hw_timer_tick_timer, tick_p, silent_ticks, enabled_at, ticks>>
hwtimer == <<tick, hw_timer_awake_timer, hw_timer_timer>>
irqctrl == <<irq_ctrl_timer, irqs_locked, lock_ignore>>
counter == <<hw_counter_timer, counter_running, counter_value, counter_target,
             counter_period>>
waits == <<pc, time_end, to_wait, time_start, todo>>
vars == <<top, next, hwtimer, irqctrl, counter, cpu, current, waits>>

-----------------------------------------------------------------------------
Plus(a, b) == (a + b) % (NEVER + 1)
Least(a, b) == IF b < a THEN b ELSE a

FindNextTimerTooFew ==
  /\ next_timer_time' = Least(hw_timer_timer', irq_ctrl_timer')
  /\ next_timer_index' = IF hw_timer_timer' = next_timer_time' THEN "HWTIMER"
                         ELSE "IRQCNT"

(* hwm_find_next_timer, over the timers as the caller leaves them; the     *)
(* first of equal timers is next.                                          *)
FindNextTimer ==
  /\ next_timer_time' = Least(Least(hw_timer_timer', irq_ctrl_timer'), hw_counter_timer')
  /\ next_timer_index' = IF hw_timer_timer' = next_timer_time' THEN "HWTIMER"
                         ELSE IF irq_ctrl_timer' = next_timer_time' THEN "IRQCNT"
                         ELSE "HW_COUNTER"

UpdateTimer == hw_timer_timer' = Least(hw_timer_tick_timer', hw_timer_awake_timer')

Init ==
  /\ simu_time = 0 /\ end_of_time \in EndTimes /\ signaled_end = FALSE
  /\ hw_timer_tick_timer = NEVER /\ hw_timer_awake_timer = NEVER
  /\ hw_timer_timer = NEVER
  /\ tick_p = 0 /\ silent_ticks = 0
  /\ irq_ctrl_timer = NEVER /\ irqs_locked = FALSE /\ lock_ignore = FALSE
  /\ hw_counter_timer = NEVER /\ counter_running = FALSE /\ counter_value = 0
  /\ counter_target = NEVER /\ counter_period = NEVER
  /\ next_timer_index = "HWTIMER" /\ next_timer_time = NEVER
  /\ cpu = "running" /\ current \in Contexts
  /\ pc = [c \in Contexts |-> "run"]
  /\ time_end = [c \in Contexts |-> 0]
  /\ to_wait = [c \in Contexts |-> 0]
  /\ time_start = [c \in Contexts |-> 0]
  /\ todo = [c \in Contexts |-> 0]
  /\ enabled_at = 0 /\ ticks = 0

-----------------------------------------------------------------------------
(* Software: the context that runs. *)
Running == cpu = "running" /\ pc[current] = "run"

FirstTick(period) == Plus(simu_time, period)

(* hwtimer_enable, which the kernel's timer driver calls once. *)
HwtimerEnable(period) ==
  /\ Running
  /\ tick_p = 0
  /\ tick_p' = period
  /\ hw_timer_tick_timer' = FirstTick(period)
  /\ enabled_at' = simu_time
  /\ UNCHANGED <<top, silent_ticks, ticks, hw_timer_awake_timer, irqctrl,
                 counter, cpu, current, waits>>
  /\ UpdateTimer
  /\ FindNextTimer

SetSilentTicks(sys_ticks) ==
  /\ Running
  /\ silent_ticks' = sys_ticks
  /\ UNCHANGED <<top, next, hw_timer_tick_timer, tick_p, enabled_at, ticks,
                 hw_timer_awake_timer, hw_timer_timer, irqctrl, counter, cpu,
                 current, waits>>

ChangeLock(new_lock) ==
  /\ Running
  /\ irqs_locked' = new_lock
  /\ UNCHANGED <<top, next, hwtimer, irq_ctrl_timer, lock_ignore, counter, cpu,
                 current, waits>>

CounterSetPeriod(period) ==
  /\ Running
  /\ counter_period' = period
  /\ UNCHANGED <<top, next, hwtimer, irqctrl, hw_counter_timer, counter_running,
                 counter_value, counter_target, cpu, current, waits>>

CounterSetTarget(target) ==
  /\ Running
  /\ counter_target' = target
  /\ UNCHANGED <<top, next, hwtimer, irqctrl, hw_counter_timer, counter_running,
                 counter_value, counter_period, cpu, current, waits>>

(* hw_counter_start "must be previously configured": without a period its *)
(* sum would wrap.                                                         *)
CounterStart ==
  /\ Running
  /\ counter_period # NEVER
  /\ ~counter_running
  /\ counter_running' = TRUE
  /\ hw_counter_timer' = Plus(simu_time, counter_period)
  /\ UNCHANGED <<top, hwtimer, irqctrl, counter_value, counter_target,
                 counter_period, cpu, current, waits>>
  /\ FindNextTimer

CounterStop ==
  /\ Running
  /\ counter_running' = FALSE
  /\ hw_counter_timer' = NEVER
  /\ UNCHANGED <<top, hwtimer, irqctrl, counter_value, counter_target,
                 counter_period, cpu, current, waits>>
  /\ FindNextTimer

SwitchAnytime(c) ==
  /\ cpu = "running"
  /\ ~irqs_locked
  /\ c # current
  /\ current' = c
  /\ UNCHANGED <<top, next, hwtimer, irqctrl, counter, cpu, waits>>

(* posix_irq_handler and the kernel's scheduler go on with another context *)
(* when the CPU is woken, or a thread yields, with interrupts unlocked.    *)
Switch(c) ==
  /\ cpu = "running"
  /\ ~irqs_locked
  /\ pc[current] # "held"
  /\ c # current
  /\ current' = c
  /\ UNCHANGED <<top, next, hwtimer, irqctrl, counter, cpu, waits>>

(* No context is ready: the idle thread unlocks interrupts and halts.      *)
Idle ==
  /\ Running
  /\ \A c \in Contexts : pc[c] = "run"
  /\ cpu' = "halted"
  /\ irqs_locked' = FALSE
  /\ UNCHANGED <<top, next, hwtimer, irq_ctrl_timer, lock_ignore, counter,
                 current, waits>>

-----------------------------------------------------------------------------
(* Software that waits. *)

WakeInTimeStale(time) ==
  /\ hw_timer_awake_timer' = Least(hw_timer_awake_timer, time)
  /\ UNCHANGED <<tick, next>>
  /\ UpdateTimer

(* hwtimer_wake_in_time: an earlier request prevails. *)
WakeInTime(time) ==
  IF hw_timer_awake_timer > time
  THEN /\ hw_timer_awake_timer' = time
       /\ UNCHANGED tick
       /\ UpdateTimer
       /\ FindNextTimer
  ELSE UNCHANGED <<hwtimer, next>>

ArchBusyWait(usec_to_wait) ==
  /\ Running
  /\ pc' = [pc EXCEPT ![current] = "busy"]
  /\ time_end' = [time_end EXCEPT ![current] = Plus(simu_time, usec_to_wait)]
  /\ UNCHANGED <<top, next, hwtimer, irqctrl, counter, cpu, current, to_wait,
                 time_start, todo>>

(* The loop of arch_busy_wait: halt until the time has come. *)
BusyWaitHalt ==
  /\ cpu = "running"
  /\ pc[current] = "busy"
  /\ simu_time < time_end[current]
  /\ UNCHANGED <<top, irqctrl, counter, current, waits>>
  /\ WakeInTime(time_end[current])
  /\ cpu' = "halted"

BusyWaitReturn ==
  /\ cpu = "running"
  /\ pc[current] = "busy"
  /\ simu_time >= time_end[current]
  /\ pc' = [pc EXCEPT ![current] = "run"]
  /\ time_end' = [time_end EXCEPT ![current] = 0]
  /\ UNCHANGED <<top, next, hwtimer, irqctrl, counter, cpu, current, to_wait,
                 time_start, todo>>

PosixCpuHold(usec_to_waste) ==
  /\ Running
  /\ pc' = [pc EXCEPT ![current] = "hold"]
  /\ to_wait' = [to_wait EXCEPT ![current] = usec_to_waste]
  /\ todo' = [todo EXCEPT ![current] = usec_to_waste]
  /\ UNCHANGED <<top, next, hwtimer, irqctrl, counter, cpu, current, time_end,
                 time_start>>

CpuHoldHalt ==
  /\ cpu = "running"
  /\ pc[current] = "hold"
  /\ to_wait[current] > 0
  /\ time_start' = [time_start EXCEPT ![current] = simu_time]
  /\ pc' = [pc EXCEPT ![current] = "held"]
  /\ UNCHANGED <<top, irqctrl, counter, current, time_end, to_wait, todo>>
  /\ WakeInTime(Plus(simu_time, to_wait[current]))
  /\ cpu' = "halted"

(* Its own time is taken off before posix_irq_handler lets others run. *)
CpuHoldWoken ==
  /\ cpu = "running"
  /\ pc[current] = "held"
  /\ to_wait' = [to_wait EXCEPT ![current] = @ - (simu_time - time_start[current])]
  /\ pc' = [pc EXCEPT ![current] = "hold"]
  /\ time_start' = [time_start EXCEPT ![current] = 0]
  /\ UNCHANGED <<top, next, hwtimer, irqctrl, counter, cpu, current, time_end,
                 todo>>

CpuHoldReturn ==
  /\ cpu = "running"
  /\ pc[current] = "hold"
  /\ to_wait[current] <= 0
  /\ pc' = [pc EXCEPT ![current] = "run"]
  /\ to_wait' = [to_wait EXCEPT ![current] = 0]
  /\ UNCHANGED <<top, next, hwtimer, irqctrl, counter, cpu, current, time_end,
                 time_start, todo>>

-----------------------------------------------------------------------------
(* Hardware: hwm_one_event, while the CPU is halted. *)

(* hw_irq_ctrl_set_irq, with lock_ignore as the caller leaves it. *)
IrqCtrlSoon(raised) ==
  irq_ctrl_timer' = IF raised /\ (~irqs_locked \/ lock_ignore')
                    THEN simu_time' ELSE irq_ctrl_timer

NextTick(timer) == Plus(timer, tick_p)

SilentLeft(silent) == IF silent > 0 THEN silent - 1 ELSE silent

(* The tick timer is due if it is at Now, the time of the timer that was   *)
(* reached, which moves on in hw_timer_timer when the awake timer goes.    *)
TickDueRecomputed ==
  hw_timer_tick_timer = Least(hw_timer_tick_timer, hw_timer_awake_timer')
TickDue == hw_timer_tick_timer = hw_timer_timer

(* hwtimer_timer_reached: both timers may be due. *)
HwtimerTimerReached ==
  LET awake == hw_timer_awake_timer = hw_timer_timer
  IN  /\ hw_timer_awake_timer' = IF awake THEN NEVER ELSE hw_timer_awake_timer
      /\ lock_ignore' = (lock_ignore \/ awake)
      /\ IF TickDue
         THEN /\ hw_timer_tick_timer' = NextTick(hw_timer_tick_timer)
              /\ silent_ticks' = SilentLeft(silent_ticks)
              /\ ticks' = ticks + 1
         ELSE UNCHANGED <<hw_timer_tick_timer, silent_ticks, ticks>>
      /\ UpdateTimer
      /\ IrqCtrlSoon(awake \/ (TickDue /\ silent_ticks <= 0))
      /\ UNCHANGED <<tick_p, enabled_at, irqs_locked, counter, cpu>>

WakesUnlocked == ~irqs_locked

(* irq_raising_from_hw_now *)
Wakes == ~irqs_locked \/ lock_ignore

(* hw_irq_ctrl_timer_triggered wakes the CPU. *)
IrqCtrlTimerTriggered ==
  /\ irq_ctrl_timer' = NEVER
  /\ IF Wakes
     THEN lock_ignore' = FALSE /\ cpu' = "running"
     ELSE UNCHANGED <<lock_ignore, cpu>>
  /\ UNCHANGED <<hwtimer, irqs_locked, counter>>

HwCounterTriggered ==
  /\ IF counter_running
     THEN /\ hw_counter_timer' = Plus(simu_time', counter_period)
          /\ counter_value' = counter_value + 1
     ELSE hw_counter_timer' = NEVER /\ UNCHANGED counter_value
  /\ UNCHANGED <<hwtimer, irqs_locked, lock_ignore, counter_running,
                 counter_target, counter_period, cpu>>
  /\ IrqCtrlSoon(counter_running /\ counter_value' = counter_target)

(* hwm_sleep_until_next_timer *)
SleepUntilNextTimer ==
  simu_time' = IF next_timer_time >= simu_time THEN next_timer_time ELSE simu_time

PastEndBefore == signaled_end \/ simu_time > end_of_time
PastEnd == signaled_end \/ simu_time' > end_of_time

Elapsed(c) == IF c = current /\ pc[c] = "held" THEN simu_time' - simu_time ELSE 0

OneEvent ==
  /\ cpu = "halted"
  /\ next_timer_time <= MaxTime
  /\ SleepUntilNextTimer
  /\ ~PastEnd
  /\ \/ next_timer_index = "HWTIMER" /\ HwtimerTimerReached
     \/ next_timer_index = "IRQCNT" /\ IrqCtrlTimerTriggered
     \/ next_timer_index = "HW_COUNTER" /\ HwCounterTriggered
  /\ todo' = [c \in Contexts |-> todo[c] - Elapsed(c)]
  /\ UNCHANGED <<end_of_time, signaled_end, current, pc, time_end, to_wait, time_start>>
  /\ FindNextTimer

Stop ==
  /\ cpu = "halted"
  /\ next_timer_time <= MaxTime
  /\ SleepUntilNextTimer
  /\ PastEnd
  /\ cpu' = "exited"
  /\ todo' = [c \in Contexts |-> todo[c] - Elapsed(c)]
  /\ UNCHANGED <<end_of_time, signaled_end, next, hwtimer, irqctrl, counter, current, pc,
                 time_end, to_wait, time_start>>

(* SIGTERM or SIGINT: hwm_signal_end_handler. *)
Signal ==
  /\ cpu # "exited"
  /\ signaled_end' = TRUE
  /\ UNCHANGED <<simu_time, end_of_time, next, hwtimer, irqctrl, counter, cpu,
                 current, waits>>

Waiting ==
  BusyWaitHalt \/ BusyWaitReturn \/ CpuHoldHalt \/ CpuHoldWoken \/ CpuHoldReturn

Next ==
  \/ \E period \in TickPeriods : HwtimerEnable(period)
  \/ \E sys_ticks \in Silences : SetSilentTicks(sys_ticks)
  \/ \E new_lock \in BOOLEAN : ChangeLock(new_lock)
  \/ \E period \in CounterPeriods : CounterSetPeriod(period)
  \/ \E target \in CounterTargets : CounterSetTarget(target)
  \/ CounterStart
  \/ CounterStop
  \/ \E c \in Contexts : Switch(c)
  \/ Idle
  \/ \E usec \in Durations : ArchBusyWait(usec)
  \/ \E usec \in Durations : PosixCpuHold(usec)
  \/ Waiting
  \/ OneEvent
  \/ Stop
  \/ Signal

Spec == Init /\ [][Next]_vars

(* The event loop goes on while the CPU is halted (main.c:110-116). *)
FairSpec == Spec /\ WF_vars(OneEvent \/ Stop)

-----------------------------------------------------------------------------
Timers == {hw_timer_timer, irq_ctrl_timer, hw_counter_timer}

(* Type correctness; only the exit itself lies past the stop time, no      *)
(* event and no software (hw_models_top.c:91-109).                         *)
TypeOK ==
  /\ simu_time \in 0 .. MaxTime
  /\ cpu # "exited" => simu_time <= end_of_time
  /\ end_of_time \in EndTimes
  /\ signaled_end \in BOOLEAN
  /\ next_timer_index \in {"HWTIMER", "IRQCNT", "HW_COUNTER"}
  /\ Timers \subseteq 0 .. NEVER
  /\ {hw_timer_tick_timer, hw_timer_awake_timer} \subseteq 0 .. NEVER
  /\ tick_p \in TickPeriods \cup {0}
  /\ silent_ticks \in Nat
  /\ irqs_locked \in BOOLEAN /\ lock_ignore \in BOOLEAN
  /\ counter_running \in BOOLEAN
  /\ counter_value \in Nat
  /\ counter_target \in CounterTargets \cup {NEVER}
  /\ counter_period \in CounterPeriods \cup {NEVER}
  /\ cpu \in {"running", "halted", "exited"}
  /\ current \in Contexts
  /\ pc \in [Contexts -> {"run", "busy", "hold", "held"}]
  /\ time_end \in [Contexts -> 0 .. NEVER]
  /\ to_wait \in [Contexts -> Durations \cup Int]
  /\ time_start \in [Contexts -> 0 .. MaxTime]
  /\ todo \in [Contexts -> Int]
  /\ {enabled_at, ticks} \subseteq Nat

(* The cached next timer is the earliest of the timers of all models,      *)
(* whoever moved one last, and is never in the past: the warning "next_    *)
(* timer_time corrupted" is not reached (hw_models_top.c:91-102, 117-128). *)
NextTimerIsEarliest ==
  /\ next_timer_time \in Timers
  /\ \A t \in Timers : next_timer_time <= t
  /\ hw_timer_timer = Least(hw_timer_tick_timer, hw_timer_awake_timer)
  /\ next_timer_time >= simu_time

(* Every period since the ticks were enabled there was one tick, but for   *)
(* one that is due at this moment: none is lost or late whatever other     *)
(* events and waits coincide with it (timer_model.c:187-248).              *)
TicksOnTime ==
  tick_p > 0 /\ cpu # "exited" =>
    LET periods == (simu_time - enabled_at) \div tick_p
    IN  \/ ticks = periods
        \/ ticks = periods - 1 /\ hw_timer_tick_timer = simu_time

(* A context that waits is never asleep past the end of its wait, also     *)
(* with interrupts locked and other contexts waiting for other times       *)
(* (timer_model.c:258-265, cpu_wait.c:34-46, 58-75).                       *)
NoOversleep ==
  cpu = "halted" =>
    /\ pc[current] = "busy" => simu_time <= time_end[current]
    /\ pc[current] = "held" => simu_time <= time_start[current] + to_wait[current]

(* posix_cpu_hold spends exactly the time asked for in its own context,    *)
(* however often it is interrupted (cpu_wait.c:48-75).                     *)
HoldIsExact ==
  \A c \in Contexts : todo[c] >= 0 /\ (pc[c] = "run" => todo[c] = 0)

(* What a context that waits has asked for and not yet had. *)
Wait == [c \in Contexts |-> IF pc[c] = "run" THEN "none"
                            ELSE IF pc[c] = "busy" THEN "until" ELSE "own"]
Left == [c \in Contexts |->
           IF pc[c] = "busy" THEN time_end[c]
           ELSE IF pc[c] = "held" THEN to_wait[c] - (simu_time - time_start[c])
           ELSE IF pc[c] = "hold" THEN to_wait[c] ELSE 0]

Waits == INSTANCE TimedWaits WITH time <- simu_time, wait <- Wait, left <- Left

(* To software that waits, timers, ticks, the counter, locked interrupts   *)
(* and the other contexts show in nothing but this: it sleeps in pieces,   *)
(* never past the end of its wait, and comes back when it is over          *)
(* (timer_model.c:250-265, cpu_wait.c:34-75, hw_models_top.c:91-156).      *)
ImplementsWaits == Waits!Spec

(* Up to the bound on time. *)
SleepsInWait ==
  /\ cpu = "halted"
  /\ \/ pc[current] = "busy" /\ time_end[current] <= MaxTime
     \/ pc[current] = "held" /\ time_start[current] + to_wait[current] <= MaxTime

(* When the CPU sleeps until the end of a wait, it wakes, also with        *)
(* interrupts locked, or the simulation ends (irq_ctrl.c:227-238).         *)
WaitIsWoken == SleepsInWait ~> (cpu # "halted")
=============================================================================

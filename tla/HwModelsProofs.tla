---------------------------- MODULE HwModelsProofs ----------------------------
(***************************************************************************)
(* Proofs about HwModels, for every set of contexts, of waits and of       *)
(* periods and for every bound on time: the event loop never runs ahead of *)
(* a timer, ticks come in time, no context oversleeps its wait, and        *)
(* posix_cpu_hold spends exactly what it was asked for; HwModels           *)
(* implements TimedWaits, and wakes the CPU as CpuWakeUp says.             *)
(***************************************************************************)
EXTENDS HwModels, TLAPS

(* The cache of the event loop. *)
TimersInv ==
  /\ hw_timer_timer = Least(hw_timer_tick_timer, hw_timer_awake_timer)
  /\ next_timer_time = Least(Least(hw_timer_timer, irq_ctrl_timer), hw_counter_timer)
  /\ next_timer_index = IF hw_timer_timer = next_timer_time THEN "HWTIMER"
                        ELSE IF irq_ctrl_timer = next_timer_time THEN "IRQCNT"
                        ELSE "HW_COUNTER"
  /\ hw_timer_tick_timer >= simu_time /\ hw_timer_awake_timer >= simu_time
  /\ irq_ctrl_timer >= simu_time /\ hw_counter_timer >= simu_time
  /\ counter_running => counter_period \in CounterPeriods

(* The tick timer stands at the end of the period that is running. *)
TickInv ==
  /\ tick_p = 0 => hw_timer_tick_timer = NEVER /\ ticks = 0
  /\ tick_p > 0 =>
       /\ hw_timer_tick_timer = enabled_at + ticks * tick_p + tick_p
       /\ enabled_at + ticks * tick_p <= simu_time

(* The end of the wait of a context that halts the CPU. *)
Deadline(c) == IF pc[c] = "busy" THEN time_end[c] ELSE time_start[c] + to_wait[c]

(* While the CPU sleeps in a wait, the awake timer is set for its end or   *)
(* earlier, or it has just expired and the interrupt that wakes the CPU is *)
(* the next to come.                                                       *)
SleepInv ==
  cpu # "running" =>
    /\ pc[current] \in {"run", "busy", "held"}
    /\ cpu = "halted" /\ pc[current] \in {"busy", "held"} =>
         /\ simu_time <= Deadline(current)
         /\ \/ hw_timer_awake_timer <= Deadline(current)
            \/ irq_ctrl_timer = simu_time /\ Wakes

(* What is left of posix_cpu_hold; its context is never switched away from *)
(* before it has taken off its own time.                                   *)
HoldOf(c) ==
  /\ pc[c] \in {"run", "busy"} => todo[c] = 0
  /\ pc[c] = "hold" => todo[c] = to_wait[c] /\ todo[c] >= 0
  /\ pc[c] = "held" =>
       /\ c = current
       /\ time_start[c] <= simu_time
       /\ todo[c] = to_wait[c] - (simu_time - time_start[c])
       /\ todo[c] >= 0
  /\ to_wait[c] <= 0 \/ \E d \in Durations : to_wait[c] <= d

HoldInv == \A c \in Contexts : HoldOf(c)

IInv == TypeOK /\ TimersInv /\ TickInv /\ SleepInv /\ HoldInv

-----------------------------------------------------------------------------
(* Times up to the bound are far from where uint64_t wraps. *)
LEMMA PlusExact ==
  ASSUME NEW t \in 0 .. MaxTime,
         NEW d \in Durations \cup TickPeriods \cup CounterPeriods
  PROVE  Plus(t, d) = t + d /\ t + d \in 0 .. NEVER - 1 /\ d \in Nat \ {0}
<1>1. d \in Nat \ {0} /\ MaxTime + d < NEVER /\ MaxTime \in Nat /\ NEVER \in Nat
  BY HwAssumption DEF HwAssumption
<1>2. t + d \in 0 .. NEVER - 1
  BY <1>1
<1>3. \A n \in 0 .. NEVER : n % (NEVER + 1) = n
  BY <1>1
<1> QED BY <1>1, <1>2, <1>3 DEF Plus

LEMMA InitIInv == Init => IInv
<1> SUFFICES ASSUME Init PROVE IInv
  OBVIOUS
<1> USE HwAssumption DEF HwAssumption
<1>1. TypeOK
  <2>1. 0 \in 0 .. MaxTime /\ 0 \in 0 .. NEVER /\ NEVER \in 0 .. NEVER /\ 0 \in Int
    OBVIOUS
  <2>2. pc \in [Contexts -> {"run", "busy", "hold", "held"}]
    BY DEF Init
  <2>3. /\ time_end \in [Contexts -> 0 .. NEVER]
        /\ to_wait \in [Contexts -> Durations \cup Int]
        /\ time_start \in [Contexts -> 0 .. MaxTime]
        /\ todo \in [Contexts -> Int]
    BY <2>1 DEF Init
  <2>4. /\ tick_p \in TickPeriods \cup {0}
        /\ Timers \subseteq 0 .. NEVER
        /\ {hw_timer_tick_timer, hw_timer_awake_timer} \subseteq 0 .. NEVER
        /\ {enabled_at, ticks} \subseteq Nat
    BY <2>1 DEF Init, Timers
  <2>5. simu_time <= end_of_time
    BY DEF Init
  <2> QED BY <2>1, <2>2, <2>3, <2>4, <2>5 DEF Init, TypeOK
<1>2. TimersInv
  BY DEF Init, TimersInv, Least
<1>3. TickInv
  BY DEF Init, TickInv
<1>4. SleepInv
  BY DEF Init, SleepInv
<1>5. HoldInv
  <2> SUFFICES ASSUME NEW c \in Contexts PROVE HoldOf(c)
    BY DEF HoldInv
  <2>1. pc[c] = "run" /\ todo[c] = 0 /\ to_wait[c] = 0
    BY DEF Init
  <2> QED BY <2>1 DEF HoldOf
<1> QED BY <1>1, <1>2, <1>3, <1>4, <1>5 DEF IInv

-----------------------------------------------------------------------------
(* Software that moves no timer and does not halt in a wait. *)
TimersKept ==
  /\ UNCHANGED <<simu_time, next, hw_timer_tick_timer, tick_p, enabled_at, ticks,
                 hw_timer_awake_timer, hw_timer_timer, irq_ctrl_timer,
                 hw_counter_timer, counter_running>>
  /\ counter_period' \in CounterPeriods \cup {counter_period}

LEMMA KeptTimers ==
  ASSUME TimersInv, TickInv, TimersKept
  PROVE  TimersInv' /\ TickInv'
BY DEF TimersInv, TickInv, TimersKept, next

LEMMA SettingsIInv ==
  ASSUME IInv,
         \/ \E sys_ticks \in Silences : SetSilentTicks(sys_ticks)
         \/ \E new_lock \in BOOLEAN : ChangeLock(new_lock)
         \/ \E period \in CounterPeriods : CounterSetPeriod(period)
         \/ \E target \in CounterTargets : CounterSetTarget(target)
  PROVE  IInv'
<1>1. /\ TimersKept
      /\ cpu = "running"
      /\ UNCHANGED <<end_of_time, signaled_end, cpu, current, waits>>
  BY DEF SetSilentTicks, ChangeLock, CounterSetPeriod,
     CounterSetTarget, Running, TimersKept, top, hwtimer,
     tick, irqctrl, counter
<1>2. /\ silent_ticks' \in Silences \cup {silent_ticks}
      /\ irqs_locked' \in BOOLEAN \cup {irqs_locked}
      /\ counter_target' \in CounterTargets \cup {counter_target}
      /\ UNCHANGED <<lock_ignore, counter_value>>
  BY DEF SetSilentTicks, ChangeLock, CounterSetPeriod, CounterSetTarget,
     hwtimer, tick, irqctrl, counter
<1>3. TypeOK'
  BY <1>1, <1>2, HwAssumption DEF HwAssumption, IInv, TypeOK, Timers, TimersKept, next, waits
<1>4. SleepInv'
  BY <1>1 DEF SleepInv
<1>5. HoldInv'
  BY <1>1 DEF IInv, HoldInv, HoldOf, TimersKept, waits
<1> QED BY <1>1, <1>3, <1>4, <1>5, KeptTimers DEF IInv

(* The kernel switches, goes idle; a signal comes. *)
LEMMA SwitchIInv ==
  ASSUME IInv, NEW c \in Contexts, Switch(c)
  PROVE  IInv'
<1>1. /\ TimersKept
      /\ cpu' = "running"
      /\ current' = c
      /\ UNCHANGED <<end_of_time, signaled_end, silent_ticks, irqs_locked, lock_ignore,
                     counter, cpu, waits>>
  BY DEF Switch, TimersKept, top, hwtimer, tick, irqctrl, counter
<1>2. TypeOK'
  BY <1>1 DEF IInv, TypeOK, Timers, TimersKept, next, counter, waits
<1>3. SleepInv'
  BY <1>1 DEF SleepInv
<1>4. HoldInv'
  <2> SUFFICES ASSUME NEW d \in Contexts PROVE HoldOf(d)'
    BY DEF HoldInv
  <2>1. pc[d] # "held"
    BY DEF Switch, IInv, HoldInv, HoldOf
  <2> QED BY <1>1, <2>1 DEF IInv, HoldInv, HoldOf, waits
<1> QED BY <1>1, <1>2, <1>3, <1>4, KeptTimers DEF IInv

LEMMA IdleIInv ==
  ASSUME IInv, Idle
  PROVE  IInv'
<1>1. /\ TimersKept
      /\ cpu' = "halted" /\ cpu = "running"
      /\ irqs_locked' = FALSE
      /\ UNCHANGED <<end_of_time, signaled_end, silent_ticks, lock_ignore, counter,
                     current, waits>>
  BY DEF Idle, Running, TimersKept, top, hwtimer, tick, counter
<1>2. TypeOK'
  BY <1>1 DEF IInv, TypeOK, Timers, TimersKept, next, counter, waits
<1>3. SleepInv'
  BY <1>1 DEF Idle, IInv, TypeOK, SleepInv, waits
<1>4. HoldInv'
  BY <1>1 DEF IInv, HoldInv, HoldOf, TimersKept, waits
<1> QED BY <1>1, <1>2, <1>3, <1>4, KeptTimers DEF IInv

LEMMA SignalIInv ==
  ASSUME IInv, Signal
  PROVE  IInv'
<1>1. /\ TimersKept
      /\ signaled_end' = TRUE
      /\ UNCHANGED <<end_of_time, silent_ticks, irqs_locked, lock_ignore, counter, cpu,
                     current, waits>>
  BY DEF Signal, TimersKept, hwtimer, tick, irqctrl, counter
<1>2. TypeOK'
  BY <1>1 DEF IInv, TypeOK, Timers, TimersKept, next, counter, waits
<1>3. SleepInv'
  BY <1>1 DEF IInv, SleepInv, Deadline, Wakes, TimersKept, waits
<1>4. HoldInv'
  BY <1>1 DEF IInv, HoldInv, HoldOf, TimersKept, waits
<1> QED BY <1>1, <1>2, <1>3, <1>4, KeptTimers DEF IInv

-----------------------------------------------------------------------------
(* Software that begins or ends a wait. *)
WaitsKept ==
  /\ TimersKept
  /\ cpu' = "running"
  /\ UNCHANGED <<end_of_time, signaled_end, silent_ticks, irqs_locked, lock_ignore,
                 counter, cpu, current>>

LEMMA WaitStep ==
  ASSUME IInv, WaitsKept, HoldInv',
         pc' \in [Contexts -> {"run", "busy", "hold", "held"}],
         time_end' \in [Contexts -> 0 .. NEVER],
         to_wait' \in [Contexts -> Durations \cup Int],
         time_start' \in [Contexts -> 0 .. MaxTime],
         todo' \in [Contexts -> Int]
  PROVE  IInv'
<1>1. TypeOK'
  BY DEF WaitsKept, IInv, TypeOK, Timers, TimersKept, next, counter
<1>2. SleepInv'
  BY DEF WaitsKept, SleepInv
<1> QED BY <1>1, <1>2, KeptTimers DEF IInv, WaitsKept

(* What a wait of one context does to the others. *)
LEMMA OtherHolds ==
  ASSUME IInv, WaitsKept, NEW c \in Contexts, c # current,
         pc'[c] = pc[c], todo'[c] = todo[c], to_wait'[c] = to_wait[c],
         time_start'[c] = time_start[c]
  PROVE  HoldOf(c)'
BY DEF IInv, HoldInv, HoldOf, WaitsKept, TimersKept

LEMMA ArchBusyWaitIInv ==
  ASSUME IInv, NEW usec \in Durations, ArchBusyWait(usec)
  PROVE  IInv'
<1>1. WaitsKept /\ current \in Contexts
  BY DEF IInv, TypeOK, ArchBusyWait, Running, WaitsKept, TimersKept, top, hwtimer, tick,
     irqctrl, counter
<1>2. Plus(simu_time, usec) \in 0 .. NEVER
  BY PlusExact, HwAssumption DEF HwAssumption, IInv, TypeOK
<1>3. /\ pc' \in [Contexts -> {"run", "busy", "hold", "held"}]
      /\ time_end' \in [Contexts -> 0 .. NEVER]
      /\ UNCHANGED <<to_wait, time_start, todo>>
  BY <1>2 DEF IInv, TypeOK, ArchBusyWait
<1>4. ASSUME NEW c \in Contexts PROVE HoldOf(c)'
  <2>1. CASE c = current
    BY <1>1, <2>1 DEF ArchBusyWait, Running, IInv, TypeOK, HoldInv, HoldOf
  <2>2. CASE c # current
    BY <1>1, <2>2, OtherHolds DEF ArchBusyWait, IInv, TypeOK
  <2> QED BY <2>1, <2>2
<1> QED BY <1>1, <1>3, <1>4, WaitStep DEF IInv, TypeOK, HoldInv

LEMMA BusyWaitReturnIInv ==
  ASSUME IInv, BusyWaitReturn
  PROVE  IInv'
<1>1. WaitsKept /\ current \in Contexts
  BY DEF IInv, TypeOK, BusyWaitReturn, WaitsKept, TimersKept, top, hwtimer, tick,
     irqctrl, counter
<1>2. /\ pc' \in [Contexts -> {"run", "busy", "hold", "held"}]
      /\ time_end' \in [Contexts -> 0 .. NEVER]
      /\ UNCHANGED <<to_wait, time_start, todo>>
  BY HwAssumption DEF HwAssumption, IInv, TypeOK, BusyWaitReturn
<1>3. ASSUME NEW c \in Contexts PROVE HoldOf(c)'
  <2>1. CASE c = current
    BY <1>1, <2>1 DEF BusyWaitReturn, IInv, TypeOK, HoldInv, HoldOf
  <2>2. CASE c # current
    BY <1>1, <2>2, OtherHolds DEF BusyWaitReturn, IInv, TypeOK
  <2> QED BY <2>1, <2>2
<1> QED BY <1>1, <1>2, <1>3, WaitStep DEF IInv, TypeOK, HoldInv

LEMMA PosixCpuHoldIInv ==
  ASSUME IInv, NEW usec \in Durations, PosixCpuHold(usec)
  PROVE  IInv'
<1>1. WaitsKept /\ current \in Contexts
  BY DEF IInv, TypeOK, PosixCpuHold, Running, WaitsKept, TimersKept, top, hwtimer, tick,
     irqctrl, counter
<1>2. usec \in Nat \ {0}
  BY HwAssumption DEF HwAssumption
<1>3. /\ pc' \in [Contexts -> {"run", "busy", "hold", "held"}]
      /\ to_wait' \in [Contexts -> Durations \cup Int]
      /\ todo' \in [Contexts -> Int]
      /\ UNCHANGED <<time_end, time_start>>
  BY <1>2 DEF IInv, TypeOK, PosixCpuHold
<1>4. ASSUME NEW c \in Contexts PROVE HoldOf(c)'
  <2>1. CASE c = current
    <3>1. pc'[c] = "hold" /\ to_wait'[c] = usec /\ todo'[c] = usec
      BY <2>1 DEF PosixCpuHold, IInv, TypeOK
    <3> QED BY <1>2, <3>1 DEF HoldOf
  <2>2. CASE c # current
    BY <1>1, <2>2, OtherHolds DEF PosixCpuHold, IInv, TypeOK
  <2> QED BY <2>1, <2>2
<1> QED BY <1>1, <1>3, <1>4, WaitStep DEF IInv, TypeOK, HoldInv

(* Because a context that holds is not switched away from, no time but its *)
(* own has passed.                                                         *)
LEMMA CpuHoldWokenIInv ==
  ASSUME IInv, CpuHoldWoken
  PROVE  IInv'
<1>1. WaitsKept /\ current \in Contexts
  BY DEF IInv, TypeOK, CpuHoldWoken, WaitsKept, TimersKept, top, hwtimer, tick,
     irqctrl, counter
<1>2. /\ to_wait[current] \in Int /\ time_start[current] \in Nat /\ simu_time \in Nat
      /\ 0 \in 0 .. MaxTime
  BY <1>1, HwAssumption DEF HwAssumption, IInv, TypeOK
<1>3. /\ pc' \in [Contexts -> {"run", "busy", "hold", "held"}]
      /\ to_wait' \in [Contexts -> Durations \cup Int]
      /\ time_start' \in [Contexts -> 0 .. MaxTime]
      /\ UNCHANGED <<time_end, todo>>
  BY <1>2 DEF IInv, TypeOK, CpuHoldWoken
<1>4. ASSUME NEW c \in Contexts PROVE HoldOf(c)'
  <2>1. CASE c = current
    <3>1. /\ pc[c] = "held" /\ pc'[c] = "hold"
          /\ to_wait'[c] = to_wait[c] - (simu_time - time_start[c])
      BY <2>1 DEF CpuHoldWoken, IInv, TypeOK
    <3>2. /\ time_start[c] <= simu_time
          /\ todo[c] = to_wait[c] - (simu_time - time_start[c])
          /\ todo[c] >= 0
          /\ to_wait[c] <= 0 \/ \E d \in Durations : to_wait[c] <= d
      BY <3>1 DEF IInv, HoldInv, HoldOf
    <3>3. to_wait'[c] <= to_wait[c]
      BY <1>2, <2>1, <3>1, <3>2
    <3>4. to_wait'[c] <= 0 \/ \E d \in Durations : to_wait'[c] <= d
      <4>1. Durations \subseteq Nat
        BY HwAssumption DEF HwAssumption
      <4> QED BY <1>2, <2>1, <3>1, <3>2, <3>3, <4>1
    <3> QED BY <1>3, <3>1, <3>2, <3>4 DEF HoldOf
  <2>2. CASE c # current
    BY <1>1, <2>2, OtherHolds DEF CpuHoldWoken, IInv, TypeOK
  <2> QED BY <2>1, <2>2
<1> QED BY <1>1, <1>3, <1>4, WaitStep DEF IInv, TypeOK, HoldInv

LEMMA CpuHoldReturnIInv ==
  ASSUME IInv, CpuHoldReturn
  PROVE  IInv'
<1>1. WaitsKept /\ current \in Contexts
  BY DEF IInv, TypeOK, CpuHoldReturn, WaitsKept, TimersKept, top, hwtimer, tick,
     irqctrl, counter
<1>2. /\ pc' \in [Contexts -> {"run", "busy", "hold", "held"}]
      /\ to_wait' \in [Contexts -> Durations \cup Int]
      /\ UNCHANGED <<time_end, time_start, todo>>
  BY DEF IInv, TypeOK, CpuHoldReturn
<1>3. ASSUME NEW c \in Contexts PROVE HoldOf(c)'
  <2>1. CASE c = current
    <3>1. /\ pc[c] = "hold" /\ pc'[c] = "run"
          /\ to_wait[c] <= 0 /\ to_wait'[c] = 0
      BY <2>1 DEF CpuHoldReturn, IInv, TypeOK
    <3>2. todo[c] = 0
      BY <3>1 DEF IInv, TypeOK, HoldInv, HoldOf
    <3> QED BY <1>2, <3>1, <3>2 DEF HoldOf
  <2>2. CASE c # current
    BY <1>1, <2>2, OtherHolds DEF CpuHoldReturn, IInv, TypeOK
  <2> QED BY <2>1, <2>2
<1> QED BY <1>1, <1>2, <1>3, WaitStep DEF IInv, TypeOK, HoldInv

-----------------------------------------------------------------------------
(* Software that halts the CPU in a wait. *)
LEMMA WakeInTimeTimers ==
  ASSUME IInv, NEW time \in simu_time .. NEVER, WakeInTime(time),
         UNCHANGED <<simu_time, irq_ctrl_timer, hw_counter_timer, counter_running,
                     counter_period>>
  PROVE  /\ TimersInv' /\ TickInv'
         /\ hw_timer_awake_timer' <= time
         /\ {hw_timer_timer', hw_timer_awake_timer'} \subseteq 0 .. NEVER
         /\ next_timer_index' \in {"HWTIMER", "IRQCNT", "HW_COUNTER"}
         /\ UNCHANGED tick
<1> USE HwAssumption DEF HwAssumption, IInv, TypeOK, Timers
<1>1. CASE hw_timer_awake_timer > time
  <2>1. /\ hw_timer_awake_timer' = time
        /\ UNCHANGED tick
        /\ hw_timer_timer' = Least(hw_timer_tick_timer, time)
        /\ FindNextTimer
    BY <1>1 DEF WakeInTime, UpdateTimer, tick
  <2>2. TimersInv'
    BY <2>1 DEF TimersInv, FindNextTimer, Least, tick
  <2>3. TickInv'
    BY <2>1 DEF TickInv, tick
  <2> QED BY <2>1, <2>2, <2>3 DEF FindNextTimer, Least
<1>2. CASE hw_timer_awake_timer <= time
  <2>1. UNCHANGED <<hwtimer, next>>
    BY <1>2 DEF WakeInTime
  <2>2. TimersInv' /\ TickInv'
    BY <2>1 DEF TimersInv, TickInv, hwtimer, tick, next
  <2> QED BY <1>2, <2>1, <2>2 DEF hwtimer, tick, next
<1> QED BY <1>1, <1>2

LEMMA BusyWaitHaltIInv ==
  ASSUME IInv, BusyWaitHalt
  PROVE  IInv'
<1>1. /\ UNCHANGED <<top, irqctrl, counter, current, waits>>
      /\ cpu = "running" /\ cpu' = "halted"
      /\ pc[current] = "busy" /\ simu_time < time_end[current]
      /\ WakeInTime(time_end[current])
  BY DEF BusyWaitHalt
<1>2. /\ current \in Contexts /\ time_end[current] \in simu_time .. NEVER
      /\ simu_time \in Nat
  BY <1>1, HwAssumption DEF HwAssumption, IInv, TypeOK
<1>3. /\ TimersInv' /\ TickInv'
      /\ hw_timer_awake_timer' <= time_end[current]
      /\ {hw_timer_timer', hw_timer_awake_timer'} \subseteq 0 .. NEVER
      /\ next_timer_index' \in {"HWTIMER", "IRQCNT", "HW_COUNTER"}
      /\ UNCHANGED tick
  BY <1>1, <1>2, WakeInTimeTimers DEF top, irqctrl, counter
<1>4. TypeOK'
  BY <1>1, <1>3 DEF IInv, TypeOK, Timers, tick, top, irqctrl, counter, waits
<1>5. SleepInv'
  BY <1>1, <1>2, <1>3 DEF SleepInv, Deadline, top, waits
<1>6. HoldInv'
  BY <1>1 DEF IInv, HoldInv, HoldOf, top, waits
<1> QED BY <1>3, <1>4, <1>5, <1>6 DEF IInv

LEMMA CpuHoldHaltIInv ==
  ASSUME IInv, CpuHoldHalt
  PROVE  IInv'
<1> DEFINE wait == to_wait[current]
<1>1. /\ UNCHANGED <<top, irqctrl, counter, current, time_end, to_wait, todo>>
      /\ cpu = "running" /\ cpu' = "halted"
      /\ pc[current] = "hold" /\ wait > 0
      /\ pc' = [pc EXCEPT ![current] = "held"]
      /\ time_start' = [time_start EXCEPT ![current] = simu_time]
      /\ WakeInTime(Plus(simu_time, wait))
  BY DEF CpuHoldHalt
<1>2. /\ current \in Contexts /\ wait \in Int /\ todo[current] = wait
      /\ simu_time \in 0 .. MaxTime /\ MaxTime \in Nat /\ NEVER \in Nat
      /\ Durations \subseteq Nat
  BY <1>1, HwAssumption DEF HwAssumption, IInv, TypeOK, HoldInv, HoldOf
<1>3. PICK d \in Durations : wait <= d
  BY <1>1, <1>2 DEF IInv, HoldInv, HoldOf
<1>4. Plus(simu_time, wait) = simu_time + wait /\ simu_time + wait \in simu_time .. NEVER
  <2>1. MaxTime + d < NEVER
    BY HwAssumption DEF HwAssumption
  <2>2. simu_time + wait \in 0 .. NEVER
    BY <1>1, <1>2, <1>3, <2>1
  <2>3. \A n \in 0 .. NEVER : n % (NEVER + 1) = n
    BY <1>2
  <2> QED BY <1>1, <1>2, <2>2, <2>3 DEF Plus
<1>5. /\ TimersInv' /\ TickInv'
      /\ hw_timer_awake_timer' <= simu_time + wait
      /\ {hw_timer_timer', hw_timer_awake_timer'} \subseteq 0 .. NEVER
      /\ next_timer_index' \in {"HWTIMER", "IRQCNT", "HW_COUNTER"}
      /\ UNCHANGED tick
  BY <1>1, <1>4, WakeInTimeTimers DEF top, irqctrl, counter
<1>6. /\ pc' \in [Contexts -> {"run", "busy", "hold", "held"}]
      /\ time_start' \in [Contexts -> 0 .. MaxTime]
      /\ pc'[current] = "held" /\ time_start'[current] = simu_time
  BY <1>1, <1>2 DEF IInv, TypeOK
<1>7. TypeOK'
  BY <1>1, <1>5, <1>6 DEF IInv, TypeOK, Timers, tick, top, irqctrl, counter
<1>8. SleepInv'
  BY <1>1, <1>2, <1>5, <1>6 DEF SleepInv, Deadline, top
<1>9. ASSUME NEW c \in Contexts PROVE HoldOf(c)'
  <2>1. CASE c = current
    BY <1>1, <1>2, <1>3, <1>6, <2>1 DEF HoldOf, top
  <2>2. CASE c # current
    BY <1>1, <2>2 DEF IInv, TypeOK, HoldInv, HoldOf, top
  <2> QED BY <2>1, <2>2
<1> QED BY <1>5, <1>7, <1>8, <1>9 DEF IInv, HoldInv

-----------------------------------------------------------------------------
(* Software that starts and stops the ticks and the counter. *)
LEMMA HwtimerEnableIInv ==
  ASSUME IInv, NEW period \in TickPeriods, HwtimerEnable(period)
  PROVE  IInv'
<1>1. /\ cpu = "running"
      /\ UNCHANGED <<top, silent_ticks, ticks, hw_timer_awake_timer, irqctrl, counter,
                     cpu, current, waits>>
      /\ tick_p = 0 /\ tick_p' = period
      /\ enabled_at' = simu_time
      /\ hw_timer_tick_timer' = Plus(simu_time, period)
      /\ hw_timer_timer' = Least(hw_timer_tick_timer', hw_timer_awake_timer)
      /\ FindNextTimer
  BY DEF HwtimerEnable, Running, UpdateTimer, FirstTick
<1>2. /\ Plus(simu_time, period) = simu_time + period
      /\ simu_time + period \in 0 .. NEVER
      /\ period \in Nat \ {0} /\ simu_time \in Nat
  BY PlusExact, HwAssumption DEF HwAssumption, IInv, TypeOK
<1>3. ticks = 0
  BY <1>1 DEF IInv, TickInv
<1>4. /\ {hw_timer_timer', hw_timer_tick_timer', hw_timer_awake_timer'} \subseteq 0 .. NEVER
      /\ next_timer_index' \in {"HWTIMER", "IRQCNT", "HW_COUNTER"}
  BY <1>1, <1>2 DEF IInv, TypeOK, FindNextTimer, Least
<1>5. TypeOK'
  BY <1>1, <1>2, <1>4 DEF IInv, TypeOK, Timers, top, irqctrl, counter, waits
<1>6. TimersInv'
  BY <1>1, <1>2, <1>4, HwAssumption
  DEF HwAssumption, IInv, TypeOK, Timers, TimersInv, FindNextTimer, Least, top, irqctrl, counter
<1>7. TickInv'
  BY <1>1, <1>2, <1>3 DEF TickInv, top
<1>8. SleepInv'
  BY <1>1 DEF SleepInv
<1>9. HoldInv'
  BY <1>1 DEF IInv, HoldInv, HoldOf, top, waits
<1> QED BY <1>5, <1>6, <1>7, <1>8, <1>9 DEF IInv

LEMMA CounterIInv ==
  ASSUME IInv, CounterStart \/ CounterStop
  PROVE  IInv'
<1>1. /\ cpu = "running"
      /\ UNCHANGED <<top, hwtimer, irqctrl, counter_value, counter_target,
                     counter_period, cpu, current, waits>>
      /\ FindNextTimer
  BY DEF CounterStart, CounterStop, Running
<1>2. /\ hw_counter_timer' \in simu_time .. NEVER
      /\ counter_running' \in BOOLEAN
      /\ counter_running' => counter_period \in CounterPeriods
  <2>1. CASE CounterStart
    <3>1. counter_period \in CounterPeriods
      BY <2>1 DEF CounterStart, IInv, TypeOK
    <3> QED BY <2>1, <3>1, PlusExact, HwAssumption
            DEF HwAssumption, CounterStart, IInv, TypeOK
  <2>2. CASE CounterStop
    <3>1. simu_time <= NEVER
      BY HwAssumption DEF HwAssumption, IInv, TypeOK, Timers, TimersInv
    <3>2. NEVER \in simu_time .. NEVER
      BY <3>1, HwAssumption DEF HwAssumption, IInv, TypeOK
    <3>3. hw_counter_timer' = NEVER /\ counter_running' = FALSE
      BY <2>2 DEF CounterStop
    <3> QED BY <3>2, <3>3
  <2> QED BY <2>1, <2>2
<1>3. next_timer_index' \in {"HWTIMER", "IRQCNT", "HW_COUNTER"}
  BY <1>1 DEF FindNextTimer
<1>4. TypeOK'
  BY <1>1, <1>2, <1>3 DEF IInv, TypeOK, Timers, top, hwtimer, tick, irqctrl, waits
<1>5. TimersInv'
  BY <1>1, <1>2 DEF IInv, TypeOK, TimersInv, FindNextTimer, top, hwtimer, tick, irqctrl
<1>6. TickInv'
  BY <1>1 DEF IInv, TickInv, top, hwtimer, tick
<1>7. SleepInv'
  BY <1>1 DEF SleepInv
<1>8. HoldInv'
  BY <1>1 DEF IInv, HoldInv, HoldOf, top, waits
<1> QED BY <1>4, <1>5, <1>6, <1>7, <1>8 DEF IInv

-----------------------------------------------------------------------------
(* The event loop: it comes to the earliest timer, and time goes on by no  *)
(* more than the wait in which the CPU sleeps.                             *)
LEMMA TimeGoesOn ==
  ASSUME IInv, cpu = "halted", next_timer_time <= MaxTime, SleepUntilNextTimer
  PROVE  /\ simu_time' = next_timer_time
         /\ simu_time' \in simu_time .. MaxTime
         /\ simu_time' <= hw_timer_tick_timer /\ simu_time' <= hw_timer_awake_timer
         /\ simu_time' <= irq_ctrl_timer /\ simu_time' <= hw_counter_timer
         /\ simu_time \in Nat /\ simu_time' \in Nat
         /\ pc[current] \in {"busy", "held"} => simu_time' <= Deadline(current)
<1> USE HwAssumption DEF HwAssumption, IInv, TypeOK, Timers
<1>1. /\ next_timer_time \in Nat /\ simu_time \in Nat
      /\ simu_time <= next_timer_time
      /\ next_timer_time <= hw_timer_tick_timer /\ next_timer_time <= hw_timer_awake_timer
      /\ next_timer_time <= irq_ctrl_timer /\ next_timer_time <= hw_counter_timer
  BY DEF TimersInv, Least
<1>2. simu_time' = next_timer_time
  BY <1>1 DEF SleepUntilNextTimer
<1>3. ASSUME pc[current] \in {"busy", "held"}
      PROVE  next_timer_time <= Deadline(current)
  <2>1. Deadline(current) \in Int
    BY <1>3 DEF Deadline
  <2>2. \/ hw_timer_awake_timer <= Deadline(current)
        \/ irq_ctrl_timer = simu_time /\ simu_time <= Deadline(current)
    BY <1>3 DEF SleepInv
  <2> QED BY <1>1, <2>1, <2>2
<1> QED BY <1>1, <1>2, <1>3

(* The time that goes by is taken off what posix_cpu_hold is to spend. *)
LEMMA HoldSpends ==
  ASSUME IInv, cpu = "halted",
         simu_time' \in simu_time .. MaxTime, simu_time \in Nat, simu_time' \in Nat,
         pc[current] \in {"busy", "held"} => simu_time' <= Deadline(current),
         todo' = [c \in Contexts |-> todo[c] - Elapsed(c)],
         UNCHANGED <<current, pc, time_end, to_wait, time_start>>
  PROVE  HoldInv' /\ todo' \in [Contexts -> Int]
<1>1. \A c \in Contexts : /\ todo[c] \in Int /\ to_wait[c] \in Int
                          /\ time_start[c] \in Int /\ Elapsed(c) \in Int
  BY HwAssumption DEF HwAssumption, IInv, TypeOK, Elapsed
<1>2. ASSUME NEW c \in Contexts PROVE HoldOf(c)'
  <2>1. CASE pc[c] = "held"
    <3>1. /\ c = current /\ Elapsed(c) = simu_time' - simu_time
          /\ todo[c] = to_wait[c] - (simu_time - time_start[c])
          /\ time_start[c] <= simu_time
          /\ to_wait[c] <= 0 \/ \E d \in Durations : to_wait[c] <= d
      BY <2>1 DEF IInv, HoldInv, HoldOf, Elapsed
    <3>2. simu_time' <= time_start[c] + to_wait[c]
      BY <2>1, <3>1 DEF Deadline
    <3>3. /\ todo'[c] = to_wait[c] - (simu_time' - time_start[c])
          /\ todo'[c] >= 0
      BY <1>1, <3>1, <3>2
    <3> QED BY <1>1, <2>1, <3>1, <3>3 DEF HoldOf
  <2>2. CASE pc[c] # "held"
    <3>1. Elapsed(c) = 0
      BY <2>2 DEF Elapsed
    <3>2. todo'[c] = todo[c]
      BY <1>1, <3>1
    <3> QED BY <2>2, <3>2 DEF IInv, HoldInv, HoldOf
  <2> QED BY <2>1, <2>2
<1> QED BY <1>1, <1>2 DEF HoldInv

LEMMA StopIInv ==
  ASSUME IInv, Stop
  PROVE  IInv'
<1>1. /\ cpu = "halted" /\ next_timer_time <= MaxTime /\ SleepUntilNextTimer
      /\ cpu' = "exited"
      /\ todo' = [c \in Contexts |-> todo[c] - Elapsed(c)]
      /\ UNCHANGED <<end_of_time, signaled_end, next, hwtimer, irqctrl, counter, current, pc,
                     time_end, to_wait, time_start>>
  BY DEF Stop
<1>2. /\ simu_time' \in simu_time .. MaxTime
      /\ simu_time' <= hw_timer_tick_timer /\ simu_time' <= hw_timer_awake_timer
      /\ simu_time' <= irq_ctrl_timer /\ simu_time' <= hw_counter_timer
      /\ simu_time \in Nat /\ simu_time' \in Nat
      /\ pc[current] \in {"busy", "held"} => simu_time' <= Deadline(current)
  BY <1>1, TimeGoesOn
<1>3. HoldInv' /\ todo' \in [Contexts -> Int]
  BY <1>1, <1>2, HoldSpends
<1>4. TypeOK'
  BY <1>1, <1>2, <1>3 DEF IInv, TypeOK, Timers, next, hwtimer, tick, irqctrl, counter
<1>5. TimersInv'
  BY <1>1, <1>2 DEF IInv, TimersInv, next, hwtimer, tick, irqctrl, counter
<1>6. TickInv'
  <2>1. hw_timer_tick_timer \in Nat /\ tick_p \in Nat /\ ticks \in Nat /\ enabled_at \in Nat
    BY HwAssumption DEF HwAssumption, IInv, TypeOK
  <2>2. ASSUME NEW x \in Int, x <= simu_time PROVE x <= simu_time'
    BY <1>2, <2>2
  <2>3. enabled_at + ticks * tick_p \in Int
    BY <2>1
  <2> QED BY <1>1, <2>2, <2>3 DEF IInv, TickInv, hwtimer, tick
<1>7. SleepInv'
  BY <1>1 DEF IInv, SleepInv
<1> QED BY <1>3, <1>4, <1>5, <1>6, <1>7 DEF IInv

(* What every event shares. *)
LEMMA EventFrame ==
  ASSUME IInv, OneEvent
  PROVE  /\ cpu = "halted" /\ FindNextTimer
         /\ simu_time' = next_timer_time /\ simu_time' \in simu_time .. MaxTime
         /\ simu_time' <= end_of_time
         /\ simu_time' <= hw_timer_tick_timer /\ simu_time' <= hw_timer_awake_timer
         /\ simu_time' <= irq_ctrl_timer /\ simu_time' <= hw_counter_timer
         /\ simu_time \in Nat /\ simu_time' \in 0 .. NEVER - 1 /\ NEVER \in Nat
         /\ pc[current] \in {"busy", "held"} => simu_time' <= Deadline(current)
         /\ UNCHANGED <<end_of_time, signaled_end, current, pc, time_end, to_wait, time_start>>
         /\ Deadline(current)' = Deadline(current)
         /\ HoldInv' /\ todo' \in [Contexts -> Int]
<1>1. /\ cpu = "halted" /\ next_timer_time <= MaxTime /\ SleepUntilNextTimer
      /\ ~(simu_time' > end_of_time)
      /\ todo' = [c \in Contexts |-> todo[c] - Elapsed(c)]
      /\ UNCHANGED <<end_of_time, signaled_end, current, pc, time_end, to_wait, time_start>>
      /\ FindNextTimer
  BY DEF OneEvent, PastEnd
<1>2. end_of_time \in Int /\ MaxTime \in 0 .. NEVER - 1 /\ NEVER \in Nat
  BY HwAssumption DEF HwAssumption, IInv, TypeOK
<1>3. /\ simu_time' = next_timer_time
      /\ simu_time' \in simu_time .. MaxTime
      /\ simu_time' <= hw_timer_tick_timer /\ simu_time' <= hw_timer_awake_timer
      /\ simu_time' <= irq_ctrl_timer /\ simu_time' <= hw_counter_timer
      /\ simu_time \in Nat /\ simu_time' \in Nat
      /\ pc[current] \in {"busy", "held"} => simu_time' <= Deadline(current)
  BY <1>1, TimeGoesOn
<1>4. HoldInv' /\ todo' \in [Contexts -> Int]
  BY <1>1, <1>3, HoldSpends
<1>5. Deadline(current)' = Deadline(current)
  BY <1>1 DEF Deadline
<1>6. simu_time' <= end_of_time
  BY <1>1, <1>2, <1>3
<1> QED BY <1>1, <1>2, <1>3, <1>4, <1>5, <1>6

(* The cache after an event that leaves no timer in the past. *)
LEMMA TimersAfterEvent ==
  ASSUME FindNextTimer, hw_timer_timer' = Least(hw_timer_tick_timer', hw_timer_awake_timer'),
         {hw_timer_tick_timer', hw_timer_awake_timer', irq_ctrl_timer', hw_counter_timer'}
           \subseteq simu_time' .. NEVER,
         simu_time' \in Nat, NEVER \in Nat,
         counter_running' => counter_period' \in CounterPeriods
  PROVE  /\ TimersInv'
         /\ hw_timer_timer' \in 0 .. NEVER
         /\ next_timer_index' \in {"HWTIMER", "IRQCNT", "HW_COUNTER"}
<1>1. TimersInv'
  BY DEF FindNextTimer, TimersInv
<1>2. hw_timer_timer' \in 0 .. NEVER
  BY DEF Least
<1> QED BY <1>1, <1>2 DEF FindNextTimer

LEMMA TimerReachedIInv ==
  ASSUME IInv, OneEvent, next_timer_index = "HWTIMER", HwtimerTimerReached
  PROVE  IInv'
<1> DEFINE awake == hw_timer_awake_timer = hw_timer_timer
           due   == hw_timer_tick_timer = hw_timer_timer
<1> USE EventFrame
<1>1. hw_timer_timer = simu_time'
  BY DEF IInv, TimersInv
<1>2. /\ hw_timer_awake_timer' = IF awake THEN NEVER ELSE hw_timer_awake_timer
      /\ lock_ignore' = (lock_ignore \/ awake)
      /\ hw_timer_timer' = Least(hw_timer_tick_timer', hw_timer_awake_timer')
      /\ irq_ctrl_timer' = IF (awake \/ (due /\ silent_ticks <= 0))
                                /\ (~irqs_locked \/ lock_ignore')
                           THEN simu_time' ELSE irq_ctrl_timer
      /\ UNCHANGED <<tick_p, enabled_at, irqs_locked, counter, cpu>>
  BY DEF HwtimerTimerReached, TickDue, UpdateTimer, IrqCtrlSoon
<1>3. /\ due => /\ hw_timer_tick_timer' = Plus(hw_timer_tick_timer, tick_p)
                /\ silent_ticks' = SilentLeft(silent_ticks)
                /\ ticks' = ticks + 1
      /\ ~due => UNCHANGED <<hw_timer_tick_timer, silent_ticks, ticks>>
  BY DEF HwtimerTimerReached, TickDue, NextTick
<1>4. due => /\ tick_p \in TickPeriods /\ tick_p \in Nat \ {0}
             /\ hw_timer_tick_timer' = hw_timer_tick_timer + tick_p
             /\ hw_timer_tick_timer' \in 0 .. NEVER
  <2> SUFFICES ASSUME due
               PROVE  /\ tick_p \in TickPeriods /\ tick_p \in Nat \ {0}
                      /\ hw_timer_tick_timer' = hw_timer_tick_timer + tick_p
                      /\ hw_timer_tick_timer' \in 0 .. NEVER
    OBVIOUS
  <2>1. tick_p # 0
    BY <1>1 DEF IInv, TickInv
  <2>2. tick_p \in TickPeriods
    BY <2>1 DEF IInv, TypeOK
  <2>3. hw_timer_tick_timer \in 0 .. MaxTime
    BY <1>1, HwAssumption DEF HwAssumption
  <2> QED BY <1>3, <2>2, <2>3, PlusExact, HwAssumption DEF HwAssumption
<1>5. {hw_timer_tick_timer', hw_timer_awake_timer', irq_ctrl_timer', hw_counter_timer'}
        \subseteq simu_time' .. NEVER
  <2>1. hw_timer_tick_timer' \in simu_time' .. NEVER
    BY <1>1, <1>3, <1>4, HwAssumption DEF HwAssumption, IInv, TypeOK
  <2>2. hw_timer_awake_timer' \in simu_time' .. NEVER
    BY <1>2, HwAssumption DEF HwAssumption, IInv, TypeOK
  <2>3. irq_ctrl_timer' \in simu_time' .. NEVER
    BY <1>2, HwAssumption DEF HwAssumption, IInv, TypeOK, Timers
  <2>4. hw_counter_timer' \in simu_time' .. NEVER
    BY <1>2, HwAssumption DEF HwAssumption, IInv, TypeOK, Timers, counter
  <2> QED BY <2>1, <2>2, <2>3, <2>4
<1>6. /\ TimersInv'
      /\ hw_timer_timer' \in 0 .. NEVER
      /\ next_timer_index' \in {"HWTIMER", "IRQCNT", "HW_COUNTER"}
  <2>1. counter_running' => counter_period' \in CounterPeriods
    BY <1>2 DEF IInv, TimersInv, counter
  <2> QED BY <1>2, <1>5, <2>1, TimersAfterEvent
<1>7. TypeOK'
  <2>1. silent_ticks' \in Nat /\ ticks' \in Nat
    BY <1>3 DEF IInv, TypeOK, SilentLeft
  <2>2. {hw_timer_tick_timer', hw_timer_awake_timer', irq_ctrl_timer', hw_counter_timer'}
          \subseteq 0 .. NEVER
    BY <1>5
  <2>3. simu_time' \in 0 .. MaxTime
    BY HwAssumption DEF HwAssumption
  <2> QED BY <1>2, <1>6, <2>1, <2>2, <2>3 DEF IInv, TypeOK, Timers, counter
<1>8. TickInv'
  <2>1. hw_timer_tick_timer \in Nat /\ tick_p \in Nat /\ ticks \in Nat /\ enabled_at \in Nat
    BY HwAssumption DEF HwAssumption, IInv, TypeOK
  <2>2. PICK n \in Nat : n = ticks * tick_p
    BY <2>1
  <2>3. (ticks + 1) * tick_p = n + tick_p
    BY <2>1, <2>2
  <2>4. CASE due
    <3>1. ticks' * tick_p' = n + tick_p
      BY <1>2, <1>3, <2>3, <2>4
    <3>2. hw_timer_tick_timer = enabled_at + n + tick_p /\ tick_p > 0
      BY <1>4, <2>2, <2>4 DEF IInv, TickInv
    <3>3. /\ hw_timer_tick_timer' = enabled_at' + ticks' * tick_p' + tick_p'
          /\ enabled_at' + ticks' * tick_p' <= simu_time'
      BY <1>1, <1>2, <1>4, <2>1, <2>4, <3>1, <3>2
    <3> QED BY <1>2, <3>2, <3>3 DEF TickInv
  <2>5. CASE ~due
    BY <1>2, <1>3, <2>1, <2>2, <2>5 DEF IInv, TickInv
  <2> QED BY <2>4, <2>5
<1>9. SleepInv'
  <2> SUFFICES ASSUME pc[current] \in {"busy", "held"}
               PROVE  \/ hw_timer_awake_timer' <= Deadline(current)
                      \/ irq_ctrl_timer' = simu_time' /\ Wakes'
    BY <1>2 DEF IInv, SleepInv
  <2>1. CASE awake
    BY <1>2, <2>1 DEF Wakes
  <2>2. CASE ~awake
    <3>1. /\ hw_timer_awake_timer' = hw_timer_awake_timer
          /\ irqs_locked' = irqs_locked
          /\ lock_ignore => lock_ignore'
      BY <1>2, <2>2
    <3>2. CASE hw_timer_awake_timer <= Deadline(current)
      BY <3>1, <3>2
    <3>3. CASE irq_ctrl_timer = simu_time /\ Wakes
      BY <1>2, <3>1, <3>3 DEF Wakes
    <3> QED BY <3>2, <3>3 DEF IInv, SleepInv
  <2> QED BY <2>1, <2>2
<1> QED BY <1>6, <1>7, <1>8, <1>9 DEF IInv

LEMMA IrqTimerIInv ==
  ASSUME IInv, OneEvent, next_timer_index = "IRQCNT", IrqCtrlTimerTriggered
  PROVE  IInv'
<1> USE EventFrame
<1>1. /\ irq_ctrl_timer' = NEVER
      /\ Wakes => lock_ignore' = FALSE /\ cpu' = "running"
      /\ ~Wakes => UNCHANGED <<lock_ignore, cpu>>
      /\ UNCHANGED <<hwtimer, irqs_locked, counter>>
  BY DEF IrqCtrlTimerTriggered
<1>2. {hw_timer_tick_timer', hw_timer_awake_timer', irq_ctrl_timer', hw_counter_timer'}
        \subseteq simu_time' .. NEVER
  BY <1>1, HwAssumption DEF HwAssumption, IInv, TypeOK, Timers, hwtimer, tick, counter
<1>3. /\ TimersInv'
      /\ hw_timer_timer' \in 0 .. NEVER
      /\ next_timer_index' \in {"HWTIMER", "IRQCNT", "HW_COUNTER"}
  <2>1. /\ counter_running' => counter_period' \in CounterPeriods
        /\ hw_timer_timer' = Least(hw_timer_tick_timer', hw_timer_awake_timer')
    BY <1>1 DEF IInv, TimersInv, counter, hwtimer, tick
  <2> QED BY <1>2, <2>1, TimersAfterEvent
<1>4. TypeOK'
  <2>1. {hw_timer_tick_timer', hw_timer_awake_timer', irq_ctrl_timer', hw_counter_timer'}
          \subseteq 0 .. NEVER
    BY <1>2
  <2>2. simu_time' \in 0 .. MaxTime
    BY HwAssumption DEF HwAssumption
  <2>3. lock_ignore' \in BOOLEAN /\ cpu' \in {"running", "halted", "exited"}
    BY <1>1 DEF IInv, TypeOK
  <2> QED BY <1>1, <1>3, <2>1, <2>2, <2>3 DEF IInv, TypeOK, Timers, hwtimer, tick, counter
<1>5. TickInv'
  <2>1. hw_timer_tick_timer \in Nat /\ tick_p \in Nat /\ ticks \in Nat /\ enabled_at \in Nat
    BY HwAssumption DEF HwAssumption, IInv, TypeOK
  <2>2. PICK n \in Nat : n = ticks * tick_p
    BY <2>1
  <2> QED BY <1>1, <2>1, <2>2 DEF IInv, TickInv, hwtimer, tick
<1>6. SleepInv'
  <2>1. CASE Wakes
    BY <1>1, <2>1 DEF SleepInv
  <2>2. CASE ~Wakes
    BY <1>1, <2>2 DEF IInv, SleepInv, hwtimer
  <2> QED BY <2>1, <2>2
<1> QED BY <1>3, <1>4, <1>5, <1>6 DEF IInv

LEMMA CounterTriggeredIInv ==
  ASSUME IInv, OneEvent, next_timer_index = "HW_COUNTER", HwCounterTriggered
  PROVE  IInv'
<1> USE EventFrame
<1>1. /\ hw_counter_timer' = IF counter_running THEN Plus(simu_time', counter_period) ELSE NEVER
      /\ counter_value' = IF counter_running THEN counter_value + 1 ELSE counter_value
      /\ irq_ctrl_timer' \in {simu_time', irq_ctrl_timer}
      /\ UNCHANGED <<hwtimer, irqs_locked, lock_ignore, counter_running,
                     counter_target, counter_period, cpu>>
  BY DEF HwCounterTriggered, IrqCtrlSoon
<1>2. hw_counter_timer' \in simu_time' .. NEVER
  <2>1. CASE counter_running
    <3>1. counter_period \in CounterPeriods
      BY <2>1 DEF IInv, TimersInv
    <3>2. simu_time' \in 0 .. MaxTime
      BY HwAssumption DEF HwAssumption
    <3> QED BY <1>1, <2>1, <3>1, <3>2, PlusExact, HwAssumption DEF HwAssumption
  <2>2. CASE ~counter_running
    BY <1>1, <2>2
  <2> QED BY <2>1, <2>2
<1>3. {hw_timer_tick_timer', hw_timer_awake_timer', irq_ctrl_timer', hw_counter_timer'}
        \subseteq simu_time' .. NEVER
  BY <1>1, <1>2, HwAssumption DEF HwAssumption, IInv, TypeOK, Timers, hwtimer, tick
<1>4. /\ TimersInv'
      /\ hw_timer_timer' \in 0 .. NEVER
      /\ next_timer_index' \in {"HWTIMER", "IRQCNT", "HW_COUNTER"}
  <2>1. /\ counter_running' => counter_period' \in CounterPeriods
        /\ hw_timer_timer' = Least(hw_timer_tick_timer', hw_timer_awake_timer')
    BY <1>1 DEF IInv, TimersInv, hwtimer, tick
  <2> QED BY <1>3, <2>1, TimersAfterEvent
<1>5. TypeOK'
  <2>1. {hw_timer_tick_timer', hw_timer_awake_timer', irq_ctrl_timer', hw_counter_timer'}
          \subseteq 0 .. NEVER
    BY <1>3
  <2>2. simu_time' \in 0 .. MaxTime /\ counter_value' \in Nat
    BY <1>1, HwAssumption DEF HwAssumption, IInv, TypeOK
  <2> QED BY <1>1, <1>4, <2>1, <2>2 DEF IInv, TypeOK, Timers, hwtimer, tick
<1>6. TickInv'
  <2>1. hw_timer_tick_timer \in Nat /\ tick_p \in Nat /\ ticks \in Nat /\ enabled_at \in Nat
    BY HwAssumption DEF HwAssumption, IInv, TypeOK
  <2>2. PICK n \in Nat : n = ticks * tick_p
    BY <2>1
  <2> QED BY <1>1, <2>1, <2>2 DEF IInv, TickInv, hwtimer, tick
<1>7. SleepInv'
  BY <1>1 DEF IInv, SleepInv, Wakes, hwtimer
<1> QED BY <1>4, <1>5, <1>6, <1>7 DEF IInv

LEMMA StepIInv == IInv /\ [Next]_vars => IInv'
<1> SUFFICES ASSUME IInv, [Next]_vars PROVE IInv'
  OBVIOUS
<1>1. ASSUME NEW period \in TickPeriods, HwtimerEnable(period) PROVE IInv'
  BY <1>1, HwtimerEnableIInv
<1>2. ASSUME \/ \E sys_ticks \in Silences : SetSilentTicks(sys_ticks)
             \/ \E new_lock \in BOOLEAN : ChangeLock(new_lock)
             \/ \E period \in CounterPeriods : CounterSetPeriod(period)
             \/ \E target \in CounterTargets : CounterSetTarget(target)
      PROVE  IInv'
  BY <1>2, SettingsIInv
<1>3. CASE CounterStart \/ CounterStop
  BY <1>3, CounterIInv
<1>4. ASSUME NEW c \in Contexts, Switch(c) PROVE IInv'
  BY <1>4, SwitchIInv
<1>5. CASE Idle \/ Signal
  BY <1>5, IdleIInv, SignalIInv
<1>6. ASSUME NEW usec \in Durations, ArchBusyWait(usec) \/ PosixCpuHold(usec) PROVE IInv'
  BY <1>6, ArchBusyWaitIInv, PosixCpuHoldIInv
<1>7. CASE Waiting
  BY <1>7, BusyWaitHaltIInv, BusyWaitReturnIInv, CpuHoldHaltIInv, CpuHoldWokenIInv,
     CpuHoldReturnIInv DEF Waiting
<1>8. CASE OneEvent
  BY <1>8, TimerReachedIInv, IrqTimerIInv, CounterTriggeredIInv DEF OneEvent
<1>9. CASE Stop
  BY <1>9, StopIInv
<1>10. CASE UNCHANGED vars
  <2>1. TypeOK' /\ TimersInv'
    BY <1>10 DEF IInv, TypeOK, Timers, TimersInv, vars, top, next, hwtimer, tick,
       irqctrl, counter, waits
  <2>2. TickInv' /\ SleepInv'
    BY <1>10 DEF IInv, TickInv, SleepInv, Deadline, Wakes, vars, top, next, hwtimer,
       tick, irqctrl, counter, waits
  <2>3. HoldInv'
    BY <1>10 DEF IInv, HoldInv, HoldOf, vars, top, waits
  <2> QED BY <2>1, <2>2, <2>3 DEF IInv
<1> QED BY <1>1, <1>2, <1>3, <1>4, <1>5, <1>6, <1>7, <1>8, <1>9, <1>10 DEF Next

LEMMA Invariant == Spec => []IInv
<1> QED BY InitIInv, StepIInv, PTL DEF Spec

-----------------------------------------------------------------------------
(* No event and no software comes past the stop time, and every timer      *)
(* stays within its type (hw_models_top.c:91-109).                         *)
THEOREM TypeCorrect == Spec => []TypeOK
<1>1. IInv => TypeOK
  BY DEF IInv
<1> QED BY <1>1, Invariant, PTL

(* Whichever model moves whichever timer, the event loop knows the         *)
(* earliest one, and it is not in the past (hwm_find_next_timer,           *)
(* hwm_sleep_until_next_timer).                                            *)
THEOREM EarliestTimerNext == Spec => []NextTimerIsEarliest
<1>1. IInv => NextTimerIsEarliest
  <2> SUFFICES ASSUME IInv PROVE NextTimerIsEarliest
    OBVIOUS
  <2>1. /\ hw_timer_timer \in Int /\ irq_ctrl_timer \in Int /\ hw_counter_timer \in Int
        /\ hw_timer_tick_timer \in Int /\ hw_timer_awake_timer \in Int /\ simu_time \in Int
    BY HwAssumption DEF HwAssumption, IInv, TypeOK, Timers
  <2> QED BY <2>1 DEF IInv, TimersInv, NextTimerIsEarliest, Timers, Least
<1> QED BY <1>1, Invariant, PTL

(* Exactly one tick in every period since hwtimer_enable, whatever waits   *)
(* and events coincide with it (hwtimer_timer_reached).                    *)
THEOREM OneTickPerPeriod == Spec => []TicksOnTime
<1>1. ASSUME IInv, tick_p > 0
      PROVE  LET periods == (simu_time - enabled_at) \div tick_p
             IN  \/ ticks = periods
                 \/ ticks = periods - 1 /\ hw_timer_tick_timer = simu_time
  <2>1. /\ hw_timer_tick_timer \in Nat /\ tick_p \in Nat \ {0} /\ ticks \in Nat
        /\ enabled_at \in Nat /\ simu_time \in Nat
    BY <1>1, HwAssumption DEF HwAssumption, IInv, TypeOK
  <2>2. PICK n \in Nat : n = ticks * tick_p
    BY <2>1
  <2>3. PICK e \in Int : e = simu_time - enabled_at
    BY <2>1
  <2>4. e >= n /\ e <= n + tick_p /\ hw_timer_tick_timer = enabled_at + n + tick_p
    BY <1>1, <2>1, <2>2, <2>3 DEF IInv, TickInv, TimersInv
  <2>5. CASE e < n + tick_p
    <3>1. e \div tick_p = ticks
      BY <2>1, <2>2, <2>4, <2>5
    <3> QED BY <2>3, <3>1
  <2>6. CASE e = n + tick_p
    <3>1. e = (ticks + 1) * tick_p
      BY <2>1, <2>2, <2>6
    <3>2. e \div tick_p = ticks + 1
      BY <2>1, <3>1
    <3> QED BY <2>1, <2>3, <2>4, <2>6, <3>2
  <2> QED BY <2>1, <2>4, <2>5, <2>6
<1>2. IInv => TicksOnTime
  BY <1>1 DEF TicksOnTime
<1> QED BY <1>2, Invariant, PTL

(* However the waits of several contexts overlap, and with interrupts      *)
(* locked or not, the one that halted the CPU is not asleep past its end   *)
(* (hwtimer_wake_in_time, arch_busy_wait, posix_cpu_hold).                 *)
THEOREM NobodyOversleeps == Spec => []NoOversleep
<1>1. IInv => NoOversleep
  <2> SUFFICES ASSUME IInv, cpu = "halted"
               PROVE  /\ pc[current] = "busy" => simu_time <= time_end[current]
                      /\ pc[current] = "held" =>
                           simu_time <= time_start[current] + to_wait[current]
    BY DEF NoOversleep
  <2> QED BY DEF IInv, SleepInv, Deadline
<1> QED BY <1>1, Invariant, PTL

(* posix_cpu_hold spends in its own context exactly the time asked for,    *)
(* however many interrupts and other contexts come between.                *)
THEOREM HoldSpendsExactly == Spec => []HoldIsExact
<1>1. IInv => HoldIsExact
  <2> SUFFICES ASSUME IInv, NEW c \in Contexts
               PROVE  todo[c] >= 0 /\ (pc[c] = "run" => todo[c] = 0)
    BY DEF HoldIsExact
  <2>1. pc[c] \in {"run", "busy", "hold", "held"}
    BY DEF IInv, TypeOK
  <2> QED BY <2>1 DEF IInv, HoldInv, HoldOf
<1> QED BY <1>1, Invariant, PTL
-----------------------------------------------------------------------------
(* HwModels implements TimedWaits.  What a context has asked for and not   *)
(* yet had is read off the variables of its wait.                          *)
LEMMA WaitsUnchanged ==
  ASSUME UNCHANGED <<simu_time, cpu, current, waits>>
  PROVE  UNCHANGED Waits!vars
BY DEF Waits!vars, Wait, Left, waits

LEMMA LeftIsTodo ==
  ASSUME IInv, NEW c \in Contexts
  PROVE  /\ pc[c] \in {"run", "busy", "hold", "held"}
         /\ pc[c] \in {"hold", "held"} => Left[c] = todo[c] /\ todo[c] >= 0
         /\ simu_time \in Nat /\ todo[c] \in Int /\ to_wait[c] \in Int
         /\ time_end[c] \in Nat /\ time_start[c] \in Nat
<1>1. HoldOf(c)
  BY DEF IInv, HoldInv
<1> QED BY <1>1, HwAssumption DEF HwAssumption, HoldOf, Left, IInv, TypeOK

LEMMA BeginIsStep ==
  ASSUME IInv, NEW usec \in Durations, ArchBusyWait(usec) \/ PosixCpuHold(usec)
  PROVE  Waits!Next
<1>1. current \in Contexts /\ cpu = "running" /\ pc[current] = "run"
  BY DEF ArchBusyWait, PosixCpuHold, Running, IInv, TypeOK
<1>2. CASE ArchBusyWait(usec)
  <2>1. Plus(simu_time, usec) = simu_time + usec
    BY PlusExact DEF IInv, TypeOK
  <2>2. /\ Wait' = [Wait EXCEPT ![current] = "until"]
        /\ Left' = [Left EXCEPT ![current] = simu_time + usec]
    BY <1>1, <1>2, <2>1 DEF ArchBusyWait, Wait, Left, top, IInv, TypeOK
  <2> QED BY <1>1, <1>2, <2>2 DEF ArchBusyWait, top, Wait, Waits!Begin, Waits!Next
<1>3. CASE PosixCpuHold(usec)
  <2>1. /\ Wait' = [Wait EXCEPT ![current] = "own"]
        /\ Left' = [Left EXCEPT ![current] = usec]
    BY <1>1, <1>3 DEF PosixCpuHold, Wait, Left, top, IInv, TypeOK
  <2> QED BY <1>1, <1>3, <2>1 DEF PosixCpuHold, top, Wait, Waits!Begin, Waits!Next
<1> QED BY <1>2, <1>3

LEMMA ReturnIsStep ==
  ASSUME IInv, BusyWaitReturn \/ CpuHoldReturn
  PROVE  Waits!Next
<1>1. current \in Contexts /\ cpu = "running"
  BY DEF BusyWaitReturn, CpuHoldReturn, IInv, TypeOK
<1>2. CASE BusyWaitReturn
  <2>1. /\ Wait[current] = "until" /\ Left[current] <= simu_time
        /\ Wait' = [Wait EXCEPT ![current] = "none"]
        /\ Left' = [Left EXCEPT ![current] = 0]
    BY <1>1, <1>2, LeftIsTodo DEF BusyWaitReturn, Wait, Left, top, IInv, TypeOK
  <2> QED BY <1>1, <1>2, <2>1 DEF BusyWaitReturn, top, Waits!Over, Waits!Finish, Waits!Next
<1>3. CASE CpuHoldReturn
  <2>1. HoldOf(current) /\ pc[current] = "hold" /\ to_wait[current] <= 0
    BY <1>1, <1>3 DEF CpuHoldReturn, IInv, HoldInv
  <2>2. Left[current] = 0
    BY <1>1, <2>1, LeftIsTodo DEF HoldOf, Left
  <2>3. /\ Wait[current] = "own"
        /\ Wait' = [Wait EXCEPT ![current] = "none"]
        /\ Left' = [Left EXCEPT ![current] = 0]
    BY <1>1, <1>3, <2>1 DEF CpuHoldReturn, Wait, Left, top, IInv, TypeOK
  <2> QED BY <1>1, <1>3, <2>2, <2>3 DEF CpuHoldReturn, top, Waits!Over, Waits!Finish, Waits!Next
<1> QED BY <1>2, <1>3

LEMMA HaltIsStep ==
  ASSUME IInv, BusyWaitHalt \/ CpuHoldHalt \/ Idle
  PROVE  Waits!Next
<1>1. /\ current \in Contexts /\ cpu = "running" /\ cpu' = "halted"
      /\ UNCHANGED <<simu_time, current>>
  BY DEF BusyWaitHalt, CpuHoldHalt, Idle, Running, top, IInv, TypeOK
<1>2. CASE BusyWaitHalt
  <2>1. UNCHANGED <<Wait, Left>>
    BY <1>1, <1>2 DEF BusyWaitHalt, Wait, Left, waits
  <2>2. Wait[current] = "until" /\ ~(Left[current] <= simu_time)
    BY <1>1, <1>2, LeftIsTodo DEF BusyWaitHalt, Wait, Left
  <2> QED BY <1>1, <2>1, <2>2 DEF Waits!Over, Waits!FallAsleep, Waits!Next
<1>3. CASE CpuHoldHalt
  <2>1. pc[current] = "hold" /\ to_wait[current] > 0
        /\ to_wait[current] - (simu_time - simu_time) = to_wait[current]
    BY <1>1, <1>3, LeftIsTodo DEF CpuHoldHalt
  <2>2. UNCHANGED <<Wait, Left>>
    BY <1>1, <1>3, <2>1 DEF CpuHoldHalt, Wait, Left, IInv, TypeOK
  <2>3. Wait[current] = "own" /\ Left[current] # 0
    BY <1>1, <2>1, LeftIsTodo DEF Wait, Left
  <2> QED BY <1>1, <2>2, <2>3 DEF Waits!Over, Waits!FallAsleep, Waits!Next
<1>4. CASE Idle
  <2>1. UNCHANGED <<Wait, Left>> /\ \A c \in Contexts : Wait[c] = "none"
    BY <1>1, <1>4 DEF Idle, Wait, Left, waits
  <2> QED BY <1>1, <2>1 DEF Waits!FallAsleep, Waits!Next
<1> QED BY <1>2, <1>3, <1>4

(* Taking off the time slept changes nothing of what is left. *)
LEMMA WokenIsStutter ==
  ASSUME IInv, CpuHoldWoken
  PROVE  UNCHANGED Waits!vars
<1>1. current \in Contexts /\ pc[current] = "held"
  BY DEF CpuHoldWoken, IInv, TypeOK
<1>2. UNCHANGED <<Wait, Left>>
  BY <1>1 DEF CpuHoldWoken, Wait, Left, top, IInv, TypeOK
<1> QED BY <1>2 DEF CpuHoldWoken, Waits!vars, top

(* An event, or the exit: time goes on by as much as it does, and only who *)
(* sleeps in a posix_cpu_hold spends it.                                   *)
LEMMA SleepIsStep ==
  ASSUME IInv, OneEvent \/ Stop
  PROVE  Waits!Next
<1>1. /\ cpu = "halted" /\ current \in Contexts
      /\ simu_time' \in simu_time .. MaxTime
      /\ simu_time \in Nat /\ simu_time' \in Nat
      /\ pc[current] \in {"busy", "held"} => simu_time' <= Deadline(current)
      /\ UNCHANGED <<current, pc, time_end, to_wait, time_start>>
  BY TimeGoesOn DEF OneEvent, Stop, IInv, TypeOK
<1>2. cpu' \in {"halted", "running", "exited"}
  BY <1>1 DEF OneEvent, Stop, HwtimerTimerReached, IrqCtrlTimerTriggered, HwCounterTriggered
<1>3. pc[current] \in {"run", "busy", "held"}
  BY <1>1 DEF IInv, SleepInv
<1>4. \A c \in Contexts : pc[c] = "held" => c = current
  BY DEF IInv, HoldInv, HoldOf
<1>5. Wait' = Wait
  BY <1>1 DEF Wait
<1>6. /\ simu_time' >= simu_time
      /\ Wait[current] = "until" => simu_time' <= Left[current] /\ Left' = Left
      /\ Wait[current] = "own" =>
           /\ simu_time' - simu_time <= Left[current]
           /\ Left' = [Left EXCEPT ![current] = @ - (simu_time' - simu_time)]
      /\ Wait[current] = "none" => Left' = Left
  <2>1. CASE pc[current] # "held"
    <3>1. \A c \in Contexts : pc[c] # "held"
      BY <1>4, <2>1
    <3>2. Left' = Left
      BY <1>1, <3>1 DEF Left
    <3>3. Wait[current] = IF pc[current] = "run" THEN "none" ELSE "until"
      BY <1>1, <1>3, <2>1 DEF Wait
    <3>4. pc[current] = "busy" => Left[current] = Deadline(current)
      BY <1>1 DEF Left, Deadline
    <3> QED BY <1>1, <1>3, <2>1, <3>2, <3>3, <3>4
  <2>2. CASE pc[current] = "held"
    <3> DEFINE t == simu_time' - simu_time
    <3>1. /\ Left[current] = to_wait[current] - (simu_time - time_start[current])
          /\ simu_time' <= time_start[current] + to_wait[current]
          /\ to_wait[current] \in Int /\ time_start[current] \in Nat
      BY <1>1, <2>2, LeftIsTodo DEF Left, Deadline
    <3>2. /\ t <= Left[current]
          /\ to_wait[current] - (simu_time' - time_start[current]) = Left[current] - t
      BY <1>1, <3>1
    <3>3. Left' = [Left EXCEPT ![current] = Left[current] - t]
      <4>1. ASSUME NEW c \in Contexts
            PROVE  Left'[c] = IF c = current THEN Left[current] - t ELSE Left[c]
        BY <1>1, <1>4, <2>2, <3>2 DEF Left
      <4> HIDE DEF t
      <4>2. Left = [c \in Contexts |-> Left[c]] /\ Left' = [c \in Contexts |-> Left'[c]]
        BY DEF Left
      <4> QED BY <1>1, <4>1, <4>2
    <3>4. Wait[current] = "own"
      BY <1>1, <2>2 DEF Wait
    <3>5. /\ simu_time' - simu_time <= Left[current]
          /\ Left' = [Left EXCEPT ![current] = @ - (simu_time' - simu_time)]
      BY <3>2, <3>3
    <3> HIDE DEF t
    <3> QED BY <1>1, <3>4, <3>5
  <2> QED BY <2>1, <2>2
<1> QED BY <1>1, <1>2, <1>5, <1>6 DEF Waits!Sleep, Waits!Next

LEMMA InitWaits == Init => Waits!Init
BY DEF Init, Waits!Init, Wait, Left

LEMMA StepWaits == IInv /\ [Next]_vars => [Waits!Next]_(Waits!vars)
<1> SUFFICES ASSUME IInv, [Next]_vars
             PROVE  Waits!Next \/ UNCHANGED Waits!vars
  OBVIOUS
<1>1. ASSUME NEW period \in TickPeriods, HwtimerEnable(period) PROVE UNCHANGED Waits!vars
  BY <1>1, WaitsUnchanged DEF HwtimerEnable, top
<1>2. ASSUME \/ \E sys_ticks \in Silences : SetSilentTicks(sys_ticks)
             \/ \E new_lock \in BOOLEAN : ChangeLock(new_lock)
             \/ \E period \in CounterPeriods : CounterSetPeriod(period)
             \/ \E target \in CounterTargets : CounterSetTarget(target)
             \/ CounterStart \/ CounterStop \/ Signal
      PROVE  UNCHANGED Waits!vars
  BY <1>2, WaitsUnchanged DEF SetSilentTicks, ChangeLock, CounterSetPeriod,
     CounterSetTarget, CounterStart,
     CounterStop, Signal, top
<1>3. ASSUME NEW c \in Contexts, Switch(c) PROVE Waits!Next
  <2>1. UNCHANGED <<Wait, Left, simu_time, cpu>> /\ cpu = "running" /\ current' \in Contexts
    BY <1>3 DEF Switch, Wait, Left, top, waits
  <2> QED BY <2>1 DEF Waits!Switch, Waits!Next
<1>4. ASSUME NEW usec \in Durations, ArchBusyWait(usec) \/ PosixCpuHold(usec)
      PROVE  Waits!Next
  BY <1>4, BeginIsStep
<1>5. CASE Waiting \/ Idle
  BY <1>5, HaltIsStep, ReturnIsStep, WokenIsStutter DEF Waiting
<1>6. CASE OneEvent \/ Stop
  BY <1>6, SleepIsStep
<1>7. CASE UNCHANGED vars
  BY <1>7, WaitsUnchanged DEF vars, top
<1> QED BY <1>1, <1>2, <1>3, <1>4, <1>5, <1>6, <1>7 DEF Next

(* Behind the event loop, the shared awake timer, the ticks and the locks, *)
(* software that waits meets TimedWaits: it sleeps in pieces, never past   *)
(* the end of its wait, and a posix_cpu_hold adds up (cpu_wait.c,          *)
(* hwtimer_wake_in_time, hwm_one_event).                                   *)
THEOREM Refinement == Spec => ImplementsWaits
BY InitWaits, StepWaits, Invariant, PTL DEF Spec, Waits!Spec, ImplementsWaits

-----------------------------------------------------------------------------
(* The part that IrqCtrl has too.                                          *)
Waking == INSTANCE CpuWakeUp WITH
  locked <- irqs_locked, phony <- lock_ignore, soon <- (irq_ctrl_timer # NEVER),
  halted <- (cpu # "running")

LEMMA SoftwareWaking ==
  ASSUME TypeOK,
         \/ \E period \in TickPeriods : HwtimerEnable(period)
         \/ \E sys_ticks \in Silences : SetSilentTicks(sys_ticks)
         \/ \E new_lock \in BOOLEAN : ChangeLock(new_lock)
         \/ \E period \in CounterPeriods : CounterSetPeriod(period)
         \/ \E target \in CounterTargets : CounterSetTarget(target)
         \/ CounterStart \/ CounterStop \/ Idle
         \/ \E c \in Contexts : Switch(c)
         \/ \E usec \in Durations : ArchBusyWait(usec) \/ PosixCpuHold(usec)
         \/ Waiting
  PROVE  Waking!Next
<1>1. /\ cpu = "running" /\ UNCHANGED <<lock_ignore, irq_ctrl_timer>>
      /\ irqs_locked' \in BOOLEAN
  BY DEF Running, HwtimerEnable, SetSilentTicks, ChangeLock, CounterSetPeriod,
     CounterSetTarget, CounterStart,
     CounterStop, Idle, Switch, ArchBusyWait, PosixCpuHold, Waiting, BusyWaitHalt,
     BusyWaitReturn, CpuHoldHalt, CpuHoldWoken, CpuHoldReturn, TypeOK, irqctrl
<1> QED BY <1>1 DEF Waking!Software, Waking!Next

LEMMA SetIrqWaking ==
  ASSUME TypeOK, cpu = "halted", NEW raised \in BOOLEAN, IrqCtrlSoon(raised),
         simu_time' \in 0 .. MaxTime, UNCHANGED <<irqs_locked, cpu>>,
         lock_ignore' \in {lock_ignore, raised}, lock_ignore => lock_ignore'
  PROVE  [Waking!Next]_(Waking!vars)
<1>1. simu_time' # NEVER
  BY HwAssumption DEF HwAssumption
<1>2. CASE raised
  BY <1>1, <1>2 DEF IrqCtrlSoon, TypeOK, Waking!SetIrq, Waking!Next
<1>3. CASE ~raised
  BY <1>3 DEF IrqCtrlSoon, TypeOK, Waking!vars
<1> QED BY <1>2, <1>3

LEMMA EventWaking ==
  ASSUME IInv, OneEvent
  PROVE  [Waking!Next]_(Waking!vars)
<1>1. cpu = "halted" /\ simu_time' \in 0 .. MaxTime /\ TypeOK
  BY TimeGoesOn DEF OneEvent, IInv, TypeOK
<1>2. CASE HwtimerTimerReached
  <2>1. /\ UNCHANGED <<irqs_locked, cpu>>
        /\ \E awake, tick_raises \in BOOLEAN :
             /\ lock_ignore' = (lock_ignore \/ awake)
             /\ IrqCtrlSoon(awake \/ tick_raises)
    BY <1>2 DEF HwtimerTimerReached
  <2> QED BY <1>1, <2>1, SetIrqWaking DEF TypeOK
<1>3. CASE HwCounterTriggered
  <2>1. UNCHANGED <<irqs_locked, cpu, lock_ignore>>
    BY <1>3 DEF HwCounterTriggered
  <2>2. PICK raised \in BOOLEAN : IrqCtrlSoon(raised)
    BY <1>3 DEF HwCounterTriggered
  <2> QED BY <1>1, <2>1, <2>2, SetIrqWaking DEF TypeOK
<1>4. CASE next_timer_index = "IRQCNT" /\ IrqCtrlTimerTriggered
  <2>1. irq_ctrl_timer = next_timer_time /\ next_timer_time <= MaxTime
    BY <1>4 DEF OneEvent, IInv, TimersInv
  <2>2. irq_ctrl_timer # NEVER
    BY <2>1, HwAssumption DEF HwAssumption
  <2>3. Waking!WakeUnlessLocked(lock_ignore)
    BY <1>1, <1>4 DEF IrqCtrlTimerTriggered, Wakes, Waking!WakeUnlessLocked, TypeOK
  <2> QED BY <1>1, <1>4, <2>2, <2>3
      DEF IrqCtrlTimerTriggered, Waking!TimerTriggered, Waking!Next
<1> QED BY <1>2, <1>3, <1>4 DEF OneEvent

LEMMA StepWaking == IInv /\ [Next]_vars => [Waking!Next]_(Waking!vars)
<1> SUFFICES ASSUME IInv, [Next]_vars
             PROVE  [Waking!Next]_(Waking!vars)
  OBVIOUS
<1>1. CASE OneEvent
  BY <1>1, EventWaking
<1>2. CASE Stop \/ Signal \/ UNCHANGED vars
  BY <1>2 DEF Stop, Signal, vars, irqctrl, Waking!vars
<1> QED BY <1>1, <1>2, SoftwareWaking DEF Next, IInv

(* What HwModels keeps of the interrupt controller wakes the CPU as        *)
(* CpuWakeUp says, and so does IrqCtrl (IrqOffloadProofs): the two agree   *)
(* on what the lock, the phony interrupt and the timer do to a halted CPU  *)
(* (irq_ctrl.c:203-271).                                                   *)
THEOREM WakesAsPromised == Spec => Waking!Spec
<1>1. Init => Waking!Init
  BY DEF Init, Waking!Init
<1> QED BY <1>1, StepWaking, Invariant, PTL DEF Spec, Waking!Spec
=============================================================================

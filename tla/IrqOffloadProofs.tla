--------------------------- MODULE IrqOffloadProofs ---------------------------
(***************************************************************************)
(* Proofs about IrqOffload: with the handler table, thread switches and    *)
(* irq_offload on top, the controller is still the one of IrqCtrl, so that *)
(* everything proved about that holds here; a routine handed to            *)
(* irq_offload is called once, and no request for a switch is lost.        *)
(***************************************************************************)
EXTENDS IrqOffload, SequenceTheorems, TLAPS

-----------------------------------------------------------------------------
(* The controller: interrupts are not forgotten, not left waiting behind   *)
(* less urgent work or a halted CPU, and nest by priority.                 *)

IInv ==
  /\ TypeOK
  /\ PendingIsRaised
  /\ NoUrgentIrqWaits
  /\ NoLostWakeUp
  /\ NestedByPriority

(* NestedByPriority depends on the stack of handlers only. *)
LEMMA SameStack ==
  ASSUME NestedByPriority, UNCHANGED <<running, cur_prio>>
  PROVE  NestedByPriority'
BY DEF NestedByPriority

(* The stack of nested calls, for frames of any kind. *)
LEMMA PopFrame ==
  ASSUME NEW S, NEW s \in Seq(S), s # <<>>
  PROVE  /\ Len(s) \in Nat \ {0}
         /\ s[Len(s)] \in S
         /\ SubSeq(s, 1, Len(s) - 1) \in Seq(S)
         /\ Len(SubSeq(s, 1, Len(s) - 1)) = Len(s) - 1
         /\ \A i \in 1 .. Len(s) - 1 : SubSeq(s, 1, Len(s) - 1)[i] = s[i]
<1>1. Len(s) \in Nat \ {0}
  BY EmptySeq
<1>2. \A i \in 1 .. Len(s) : s[i] \in S
  BY ElementOfSeq
<1>3. PICK m \in Nat : m = Len(s) - 1
  BY <1>1
<1>4. \A i \in 1 .. m : s[i] \in S
  BY <1>1, <1>2, <1>3
<1>5. /\ SubSeq(s, 1, m) \in Seq(S)
      /\ Len(SubSeq(s, 1, m)) = IF 1 <= m THEN m - 1 + 1 ELSE 0
      /\ \A i \in 1 .. m - 1 + 1 : SubSeq(s, 1, m)[i] = s[1 + i - 1]
  BY <1>4, SubSeqProperties
<1>6. Len(SubSeq(s, 1, m)) = m /\ \A i \in 1 .. m : SubSeq(s, 1, m)[i] = s[i]
  BY <1>3, <1>5
<1> QED BY <1>1, <1>2, <1>3, <1>5, <1>6

LEMMA InitIInv == Init => IInv
<1> SUFFICES ASSUME Init PROVE IInv
  OBVIOUS
<1>1. /\ irq_prio \in [IRQs -> 0 .. 255] /\ cur_prio \in 0 .. 256
      /\ running \in Seq([irq : IRQs, last_prio : 0 .. 256]) /\ Len(running) = 0
  BY DEF Init
<1>2. TypeOK
  BY <1>1 DEF Init, TypeOK
<1>3. Candidates(irq_status, irq_prio, cur_prio) = {}
  BY DEF Init, Candidates
<1>4. PendingIsRaised /\ NoUrgentIrqWaits /\ NoLostWakeUp
  BY <1>3 DEF Init, PendingIsRaised, NoUrgentIrqWaits, NoLostWakeUp
<1>5. NestedByPriority
  BY <1>1 DEF Init, NestedByPriority
<1> QED BY <1>2, <1>4, <1>5 DEF IInv

(* What software does to the controller, but for the handling itself.      *)
SoftwareStep ==
  \/ \E irq \in IRQs, prio \in Prios : ConnectIrq(irq, prio)
  \/ \E irq \in IRQs : EnableIrq(irq)
  \/ \E irq \in IRQs : DisableIrq(irq)
  \/ \E irq \in IRQs : SwRaise(irq)
  \/ \E irq \in IRQs : ClearIrq(irq)
  \/ ClearIrqs
  \/ \E new_lock \in BOOLEAN : ChangeLock(new_lock)

LEMMA SoftwareIInv == IInv /\ SoftwareStep => IInv'
<1> SUFFICES ASSUME IInv, SoftwareStep PROVE IInv'
  OBVIOUS
<1> USE DEF lines, locks, cpuVars, Software
<1>0. /\ cpu = "running" /\ ~in_handler /\ UNCHANGED <<cpu, cur_prio, running>>
  BY DEF SoftwareStep, ConnectIrq, EnableIrq, DisableIrq, SwRaise, ClearIrq,
         ClearIrqs, ChangeLock
<1>1. NestedByPriority'
  BY <1>0, SameStack DEF IInv
<1>2. NoLostWakeUp'
  BY <1>0 DEF NoLostWakeUp
<1>3. ASSUME NEW irq \in IRQs, NEW prio \in Prios, ConnectIrq(irq, prio)
      PROVE  TypeOK' /\ PendingIsRaised' /\ NoUrgentIrqWaits'
  <2>1. \A i \in irq_status : irq_prio'[i] = irq_prio[i]
    BY <1>3 DEF ConnectIrq, IInv, TypeOK
  <2>2. Candidates(irq_status, irq_prio', cur_prio) = Candidates(irq_status, irq_prio, cur_prio)
    BY <2>1 DEF Candidates
  <2>3. TypeOK'
    BY <1>3, IrqAssumption DEF ConnectIrq, IInv, TypeOK, IrqAssumption
  <2> QED BY <1>3, <2>2, <2>3 DEF ConnectIrq, IInv, PendingIsRaised, NoUrgentIrqWaits
<1>4. ASSUME NEW irq \in IRQs, EnableIrq(irq)
      PROVE  TypeOK' /\ PendingIsRaised' /\ NoUrgentIrqWaits'
  <2>1. TypeOK'
    BY <1>4 DEF EnableIrq, ImFromSw, NoneOf, IInv, TypeOK
  <2>2. PendingIsRaised'
    BY <1>4 DEF EnableIrq, IInv, PendingIsRaised
  <2>3. NoUrgentIrqWaits'
    BY <1>4 DEF EnableIrq, ImFromSw, NoneOf, IInv, NoUrgentIrqWaits
  <2> QED BY <2>1, <2>2, <2>3
<1>5. ASSUME NEW irq \in IRQs, DisableIrq(irq)
      PROVE  TypeOK' /\ PendingIsRaised' /\ NoUrgentIrqWaits'
  BY <1>5 DEF DisableIrq, IInv, TypeOK, PendingIsRaised, NoUrgentIrqWaits
<1>6. ASSUME NEW irq \in IRQs, SwRaise(irq)
      PROVE  TypeOK' /\ PendingIsRaised' /\ NoUrgentIrqWaits'
  <2>1. irq # PHONY_HARD_IRQ
    BY IrqAssumption DEF IrqAssumption
  <2>2. TypeOK'
    BY <1>6, <2>1 DEF SwRaise, RaisePrefix, ImFromSw, NoneOf, IInv, TypeOK
  <2>3. PendingIsRaised'
    BY <1>6, <2>1 DEF SwRaise, RaisePrefix, IInv, PendingIsRaised
  <2>4. NoUrgentIrqWaits'
    BY <1>6 DEF SwRaise, ImFromSw, NoneOf, NoUrgentIrqWaits
  <2> QED BY <2>2, <2>3, <2>4
<1>7. ASSUME NEW irq \in IRQs, ClearIrq(irq)
      PROVE  TypeOK' /\ PendingIsRaised' /\ NoUrgentIrqWaits'
  BY <1>7 DEF ClearIrq, IInv, TypeOK, PendingIsRaised, NoUrgentIrqWaits, Candidates
<1>8. ASSUME ClearIrqs
      PROVE  TypeOK' /\ PendingIsRaised' /\ NoUrgentIrqWaits'
  BY <1>8 DEF ClearIrqs, IInv, TypeOK, PendingIsRaised, NoUrgentIrqWaits, Candidates
<1>9. ASSUME NEW new_lock \in BOOLEAN, ChangeLock(new_lock)
      PROVE  TypeOK' /\ PendingIsRaised' /\ NoUrgentIrqWaits'
  <2>1. TypeOK'
    BY <1>9 DEF ChangeLock, ImFromSw, NoneOf, IInv, TypeOK
  <2>2. PendingIsRaised'
    BY <1>9 DEF ChangeLock, IInv, PendingIsRaised
  <2>3. NoUrgentIrqWaits'
    BY <1>9 DEF ChangeLock, ImFromSw, NoneOf, IInv, TypeOK, NoUrgentIrqWaits, Candidates
  <2> QED BY <2>1, <2>2, <2>3
<1> QED
  BY <1>1, <1>2, <1>3, <1>4, <1>5, <1>6, <1>7, <1>8, <1>9 DEF SoftwareStep, IInv

LEMMA HaltIInv == IInv /\ HaltCpu => IInv'
BY SameStack DEF HaltCpu, IInv, TypeOK, PendingIsRaised, NoUrgentIrqWaits,
   NoLostWakeUp, Software, lines, locks

LEMMA WakeIInv == IInv /\ Wake => IInv'
<1> SUFFICES ASSUME IInv, Wake PROVE IInv'
  OBVIOUS
<1>1. TypeOK'
  BY DEF Wake, IInv, TypeOK, lines, locks
<1>2. PendingIsRaised'
  BY DEF Wake, IInv, PendingIsRaised, lines
<1>3. NoUrgentIrqWaits' /\ NoLostWakeUp'
  BY DEF Wake, NoUrgentIrqWaits, NoLostWakeUp, Software, locks
<1>4. NestedByPriority'
  BY SameStack DEF Wake, IInv
<1> QED BY <1>1, <1>2, <1>3, <1>4 DEF IInv

LEMMA HandlerReturnIInv == IInv /\ HandlerReturn => IInv'
<1> SUFFICES ASSUME IInv, HandlerReturn PROVE IInv'
  OBVIOUS
<1>1. TypeOK'
  BY DEF HandlerReturn, IInv, TypeOK, lines, locks, cpuVars
<1>2. PendingIsRaised'
  BY DEF HandlerReturn, IInv, PendingIsRaised, lines
<1>3. NoUrgentIrqWaits'
  BY DEF HandlerReturn, NoneOf, NoUrgentIrqWaits, lines, locks, cpuVars
<1>4. NoLostWakeUp'
  BY DEF HandlerReturn, IInv, NoLostWakeUp, lines, locks, cpuVars
<1>5. NestedByPriority'
  BY SameStack DEF HandlerReturn, IInv, cpuVars
<1> QED BY <1>1, <1>2, <1>3, <1>4, <1>5 DEF IInv

LEMMA VectorIInv ==
  ASSUME IInv, NEW irq \in IRQs, Vector(irq)
  PROVE  IInv'
<1> DEFINE frame == [irq |-> irq, last_prio |-> cur_prio]
<1>0. \A i \in IRQs : irq_prio[i] \in 0 .. 255
  BY DEF IInv, TypeOK
<1>h. irq \in Candidates(irq_status, irq_prio, cur_prio) /\ cur_prio' = irq_prio[irq]
  BY DEF Vector, IsHighest
<1>c. cur_prio \in 0 .. 256
  BY DEF IInv, TypeOK
<1>n. /\ irq_prio[irq] \in Int /\ cur_prio \in Int
      /\ cur_prio \in 0 .. 256 /\ cur_prio' \in 0 .. 256
      /\ irq_prio[irq] < cur_prio /\ cur_prio' = irq_prio[irq]
  BY <1>0, <1>c, <1>h DEF Candidates
<1>1. /\ cur_prio \in Int /\ irq_prio[irq] < cur_prio /\ cur_prio' = irq_prio[irq]
      /\ running \in Seq([irq : IRQs, last_prio : 0 .. 256])
      /\ frame \in [irq : IRQs, last_prio : 0 .. 256]
      /\ running' = Append(running, frame) /\ cpu = "running" /\ cpu' = "running"
  BY <1>n DEF Vector, IInv, TypeOK
<1>2. /\ Len(running') = Len(running) + 1 /\ Len(running) \in Nat
      /\ running'[Len(running) + 1] = frame
      /\ \A i \in 1 .. Len(running) : running'[i] = running[i]
      /\ running' \in Seq([irq : IRQs, last_prio : 0 .. 256])
  BY <1>1
<1>3. TypeOK'
  <2>1. irq_status' \subseteq IRQs /\ irq_premask' \subseteq IRQs
    BY DEF Vector, IInv, TypeOK
  <2> QED BY <1>2, <1>n, <2>1 DEF Vector, IInv, TypeOK, locks
<1>4. PendingIsRaised'
  BY DEF Vector, IInv, PendingIsRaised
<1>5. NoLostWakeUp'
  BY <1>1 DEF NoLostWakeUp
<1>6. NoUrgentIrqWaits'
  <2>0. irq_status' = irq_status \ {irq} /\ irq_prio' = irq_prio /\ cur_prio' = irq_prio[irq]
    BY DEF Vector
  <2> SUFFICES ASSUME NEW j \in irq_status \ {irq}, irq_prio[j] < irq_prio[irq]
               PROVE  FALSE
    BY <2>0 DEF NoUrgentIrqWaits, Candidates
  <2>j. j \in IRQs
    BY DEF IInv, TypeOK
  <2>1. irq_prio[j] \in Int /\ irq_prio[irq] \in Int
    BY <1>0, <2>j
  <2>2. j \in Candidates(irq_status, irq_prio, cur_prio)
    <3>1. irq_prio[j] < cur_prio
      BY <1>n, <2>1
    <3> QED BY <3>1 DEF Candidates
  <2>3. irq_prio[irq] < irq_prio[j] \/ irq_prio[irq] = irq_prio[j]
    BY <2>2 DEF Vector, IsHighest
  <2>4. ~ (irq_prio[j] < irq_prio[irq])
    BY <2>1, <2>3
  <2> QED BY <2>4
<1>7. NestedByPriority'
  <2>1. running' # <<>>
    BY <1>2, EmptySeq
  <2>2. running'[1].last_prio = 256
    <3>1. CASE running = <<>>
      BY <1>1, <1>2, <3>1 DEF IInv, NestedByPriority
    <3>2. CASE running # <<>>
      <4>1. 1 \in 1 .. Len(running)
        BY <1>1, <3>2, EmptySeq
      <4> QED BY <1>2, <3>2, <4>1 DEF IInv, NestedByPriority
    <3> QED BY <3>1, <3>2
  <2>3. ASSUME NEW i \in 1 .. Len(running')
        PROVE  LET prio == IF i = Len(running') THEN cur_prio' ELSE running'[i + 1].last_prio
               IN  prio < running'[i].last_prio
    <3>1. CASE i = Len(running) + 1
      BY <1>1, <1>2, <3>1
    <3>2. CASE i = Len(running) /\ i \in 1 .. Len(running)
      <4>1. cur_prio < running[i].last_prio
        BY <3>2 DEF IInv, NestedByPriority
      <4>2. running'[i + 1].last_prio = cur_prio /\ running'[i] = running[i]
        BY <1>2, <3>2
      <4> QED BY <1>2, <3>2, <4>1, <4>2
    <3>3. CASE i \in 1 .. Len(running) - 1
      <4>1. i \in 1 .. Len(running) /\ i + 1 \in 1 .. Len(running) /\ i # Len(running)
        BY <1>2, <3>3
      <4>2. running[i + 1].last_prio < running[i].last_prio
        BY <4>1 DEF IInv, NestedByPriority
      <4> QED BY <1>2, <4>1, <4>2
    <3> QED BY <1>2, <3>1, <3>2, <3>3
  <2> QED BY <2>1, <2>2, <2>3 DEF NestedByPriority
<1> QED BY <1>3, <1>4, <1>5, <1>6, <1>7 DEF IInv

LEMMA IsrReturnIInv == IInv /\ IsrReturn => IInv'
<1> SUFFICES ASSUME IInv, IsrReturn PROVE IInv'
  OBVIOUS
<1> DEFINE n == Len(running)
<1> DEFINE Frames == [irq : IRQs, last_prio : 0 .. 256]
<1>1. /\ running \in Seq(Frames) /\ running # <<>>
      /\ cur_prio' = running[n].last_prio /\ cpu = "running" /\ cpu' = cpu
      /\ running' = SubSeq(running, 1, n - 1) /\ in_handler'
  BY DEF IsrReturn, IInv, TypeOK, Software
<1>2. n \in Nat \ {0}
  <2> HIDE DEF Frames
  <2> QED BY <1>1, PopFrame
<1>3. /\ Len(running') = n - 1
      /\ \A i \in 1 .. n - 1 : running'[i] = running[i]
      /\ running' \in Seq(Frames)
  <2> HIDE DEF Frames
  <2> QED BY <1>1, PopFrame
<1>4. running[n] \in Frames
  <2> HIDE DEF Frames
  <2> QED BY <1>1, PopFrame
<1>5. TypeOK'
  BY <1>1, <1>3, <1>4 DEF IsrReturn, IInv, TypeOK, lines, locks
<1>6. PendingIsRaised' /\ NoUrgentIrqWaits' /\ NoLostWakeUp'
  BY <1>1 DEF IsrReturn, IInv, PendingIsRaised, NoUrgentIrqWaits, NoLostWakeUp,
              Software, lines
<1>7. NestedByPriority'
  <2>1. running' = <<>> => cur_prio' = 256
    <3>1. ASSUME running' = <<>> PROVE n = 1
      BY <1>2, <1>3, <3>1
    <3> QED BY <1>1, <3>1 DEF IInv, NestedByPriority
  <2>2. running' # <<>> => running'[1].last_prio = 256
    <3>1. ASSUME running' # <<>> PROVE 1 \in 1 .. n - 1
      BY <1>2, <1>3, <3>1, EmptySeq
    <3> QED BY <1>1, <1>3, <3>1 DEF IInv, NestedByPriority
  <2>3. ASSUME NEW i \in 1 .. n - 1
        PROVE  LET prio == IF i = n - 1 THEN cur_prio' ELSE running'[i + 1].last_prio
               IN  prio < running'[i].last_prio
    <3>1. i \in 1 .. n /\ i # n /\ running'[i] = running[i]
      BY <1>2, <1>3
    <3>2. running[i + 1].last_prio < running[i].last_prio
      BY <3>1 DEF IInv, NestedByPriority
    <3>3. IF i = n - 1 THEN running[i + 1] = running[n] ELSE running'[i + 1] = running[i + 1]
      BY <1>2, <1>3
    <3> QED BY <1>1, <3>1, <3>2, <3>3
  <2> QED BY <1>3, <2>1, <2>2, <2>3 DEF NestedByPriority
<1> QED BY <1>5, <1>6, <1>7 DEF IInv

LEMMA HardwareIInv ==
  ASSUME IInv, NEW irq \in IRQs \cup {PHONY_HARD_IRQ},
         SetIrq(irq) \/ RaiseIm(irq) \/ TimerTriggered
  PROVE  IInv'
<1> USE DEF lines, locks, cpuVars, Hardware
<1>1. cpu = "halted" /\ UNCHANGED <<cur_prio, running, in_handler, irqs_locked, irq_prio, irq_mask>>
  BY DEF SetIrq, RaiseIm, TimerTriggered
<1>2. /\ irq_status' \subseteq IRQs /\ irq_premask' \subseteq IRQs
      /\ PendingIsRaised'
  BY DEF IInv, TypeOK, PendingIsRaised, SetIrq, RaiseIm, TimerTriggered, RaisePrefix
<1>3. lock_ignore' \in BOOLEAN /\ irq_ctrl_timer' \in BOOLEAN /\ cpu' \in {"halted", "woken"}
  BY DEF IInv, TypeOK, SetIrq, RaiseIm, TimerTriggered, RaisePrefix, WakeFromHw
<1>4. TypeOK'
  BY <1>1, <1>2, <1>3 DEF IInv, TypeOK
<1>5. NoUrgentIrqWaits'
  BY <1>3 DEF NoUrgentIrqWaits, Software
<1>6. NoLostWakeUp'
  BY <1>1 DEF SetIrq, RaiseIm, TimerTriggered, WakeFromHw, NoLostWakeUp
<1>7. NestedByPriority'
  BY <1>1, SameStack DEF IInv
<1> QED BY <1>2, <1>4, <1>5, <1>6, <1>7 DEF IInv

LEMMA StepIInv == IInv /\ [Next]_vars => IInv'
<1> SUFFICES ASSUME IInv, [Next]_vars PROVE IInv'
  OBVIOUS
<1>1. CASE UNCHANGED vars
  BY <1>1, SameStack DEF vars, IInv, TypeOK, PendingIsRaised, NoUrgentIrqWaits,
                         NoLostWakeUp, Software
<1>2. CASE Next
  BY <1>2, SoftwareIInv, HaltIInv, WakeIInv, VectorIInv, IsrReturnIInv,
     HandlerReturnIInv, HardwareIInv DEF Next, SoftwareStep
<1> QED BY <1>1, <1>2

LEMMA Invariant == Spec => []IInv
BY InitIInv, StepIInv, PTL DEF Spec

(* The state of the controller stays within its types. *)
THEOREM TypeCorrect == Spec => []TypeOK
<1>1. IInv => TypeOK
  BY DEF IInv
<1> QED BY <1>1, Invariant, PTL

(* No order of raising, enabling, disabling, handling and clearing forgets *)
(* or invents an interrupt (irq_ctrl.c:139-201).                           *)
THEOREM NothingForgotten == Spec => []PendingIsRaised
<1>1. IInv => PendingIsRaised
  BY DEF IInv
<1> QED BY <1>1, Invariant, PTL

(* Software never runs past an interrupt that should have interrupted it.  *)
THEOREM NoPriorityInversion == Spec => []NoUrgentIrqWaits
<1>1. IInv => NoUrgentIrqWaits
  BY DEF IInv
<1> QED BY <1>1, Invariant, PTL

(* An interrupt raised by a hardware model always gets the CPU going.      *)
THEOREM WakeUpIsScheduled == Spec => []NoLostWakeUp
<1>1. IInv => NoLostWakeUp
  BY DEF IInv
<1> QED BY <1>1, Invariant, PTL

(* Handlers nest strictly by priority, so none is ever re-entered and the  *)
(* depth is at most the number of priorities (irq_handler.c:85-97).        *)
THEOREM HandlersNest == Spec => []NestedByPriority
<1>1. IInv => NestedByPriority
  BY DEF IInv
<1> QED BY <1>1, Invariant, PTL

-----------------------------------------------------------------------------

(* Where irq_offload can be: between storing its routine and raising the   *)
(* interrupt nothing else runs, because nothing is left over from the      *)
(* offload before unless interrupts are locked.                            *)
RaisesNext ==
  offload = "raise" =>
    /\ cpu = "running" /\ ~in_handler /\ running = <<>> /\ ~away
    /\ OFFLOAD_SW_IRQ \in irq_mask
    /\ owed = off_routine /\ owed # NoRoutine

OffloadInv ==
  /\ vector_table \in [IRQs -> {"none", "normal", "direct"}]
  /\ offload \in {"none", "raise", "disable"}
  /\ offload # "none" => vector_table[OFFLOAD_SW_IRQ] = "normal"
  /\ OFFLOAD_SW_IRQ \in irq_premask => OFFLOAD_SW_IRQ \in irq_status
  /\ OFFLOAD_SW_IRQ \in irq_status =>
       /\ vector_table[OFFLOAD_SW_IRQ] = "normal"
       /\ off_routine = owed
       /\ owed # NoRoutine
  /\ offload # "raise" /\ owed # NoRoutine => OFFLOAD_SW_IRQ \in irq_status
  /\ away => offload = "disable"
  /\ lost \in BOOLEAN
  /\ RaisesNext

(* A thread that is ready has asked for the switch, in a handler that has  *)
(* not returned to the thread yet.                                         *)
SwitchInv ==
  ready => may_swap /\ (running # <<>> \/ in_handler)

LEMMA OffloadInit_Init == OffloadInit => Init
BY DEF OffloadInit

(* Every step of IrqOffload is one of IrqCtrl's or leaves it alone.        *)
LEMMA StepIsIrqCtrl == [OffloadNext]_allVars => [Next]_vars
<1> SUFFICES ASSUME [OffloadNext]_allVars PROVE [Next]_vars
  OBVIOUS
<1> USE OffloadAssumption
<1>1. CASE UNCHANGED allVars
  BY <1>1 DEF allVars
<1>2. ASSUME NEW irq \in OtherIRQs, NEW prio \in Prios, NEW kind \in {"normal", "direct"},
             IsrDeclare(irq, prio, kind)
      PROVE  Next
  BY <1>2 DEF IsrDeclare, OtherIRQs, Next
<1>3. ASSUME OtherSoftware PROVE Next
  BY <1>3 DEF OtherSoftware, OtherIRQs, Next
<1>4. ASSUME GiveWay PROVE UNCHANGED vars
  BY <1>4 DEF GiveWay
<1>5. ASSUME NEW routine \in Routines, IrqOffload(routine) PROVE Next
  BY <1>5 DEF IrqOffload, Next
<1>6. ASSUME OffloadRaise \/ OffloadDisable PROVE Next
  BY <1>6 DEF OffloadRaise, OffloadDisable, Next
<1>7. ASSUME CpuWakes \/ ReturnToThread \/ WakeUpTimer PROVE Next
  BY <1>7 DEF CpuWakes, ReturnToThread, WakeUpTimer, Next
<1>8. ASSUME NEW irq \in IRQs, VectorToIrq(irq) PROVE Next
  BY <1>8 DEF VectorToIrq, Next
<1>9. ASSUME NEW readied \in BOOLEAN, NEW told \in BOOLEAN, HandlerDone(readied, told)
      PROVE  Next
  BY <1>9 DEF HandlerDone, Next
<1>10. ASSUME HardwareModels PROVE Next
  BY <1>10 DEF HardwareModels, OtherIRQs, Next
<1> QED BY <1>1, <1>2, <1>3, <1>4, <1>5, <1>6, <1>7, <1>8, <1>9, <1>10 DEF OffloadNext

(* The composed system implements the interrupt controller.                *)
THEOREM ImplementsIrqCtrl == OffloadSpec => Spec
BY OffloadInit_Init, StepIsIrqCtrl, PTL DEF OffloadSpec, Spec

LEMMA InitInvs == OffloadInit => OffloadInv /\ SwitchInv
<1> SUFFICES ASSUME OffloadInit PROVE OffloadInv /\ SwitchInv
  OBVIOUS
<1>1. lost \in BOOLEAN
  BY DEF OffloadInit
<1> QED BY <1>1, OffloadAssumption DEF OffloadInit, Init, OffloadInv, RaisesNext, SwitchInv

-----------------------------------------------------------------------------
LEMMA PriorityBound == TypeOK => \A i \in IRQs : irq_prio[i] < 256
<1>1. TypeOK => \A i \in IRQs : irq_prio[i] \in 0 .. 255
  BY DEF TypeOK
<1>2. \A n \in 0 .. 255 : n < 256
  OBVIOUS
<1> QED BY <1>1, <1>2

(* In an unlocked thread the interrupt of irq_offload is never pending.    *)
LEMMA NotPendingInThread ==
  ASSUME IInv, Software, running = <<>>, ~irqs_locked
  PROVE  OFFLOAD_SW_IRQ \notin irq_status
<1>1. cur_prio = 256
  BY DEF IInv, NestedByPriority
<1>2. irq_prio[OFFLOAD_SW_IRQ] < cur_prio
  BY <1>1, PriorityBound, OffloadAssumption DEF OffloadAssumption, IInv
<1> QED BY <1>2 DEF IInv, NoUrgentIrqWaits, Candidates

(* irq_offload itself.  Nothing of the offload before is pending when the  *)
(* next begins with interrupts unlocked, so that enabling runs nothing.    *)
LEMMA IrqOffloadInv ==
  ASSUME IInv, OffloadInv, SwitchInv, NEW routine \in Routines, IrqOffload(routine)
  PROVE  OffloadInv' /\ SwitchInv'
<1> USE OffloadAssumption DEF IrqOffload, InThread, Software, threads, lines, cpuVars
<1>1. OFFLOAD_SW_IRQ \in irq_premask => irqs_locked
  <2> SUFFICES ASSUME OFFLOAD_SW_IRQ \in irq_premask, ~irqs_locked PROVE FALSE
    OBVIOUS
  <2> QED BY NotPendingInThread DEF OffloadInv
<1>2. ~in_handler' /\ irqs_locked' = irqs_locked
  BY <1>1 DEF EnableIrq, ImFromSw, NoneOf
<1>3. /\ cpu' = "running" /\ running' = <<>> /\ irq_mask' = irq_mask \cup {OFFLOAD_SW_IRQ}
      /\ irq_premask' = irq_premask
      /\ irq_status' = irq_status \/ irq_status' = irq_status \cup {OFFLOAD_SW_IRQ}
  BY DEF EnableIrq
<1>4. OFFLOAD_SW_IRQ \in irq_premask' => OFFLOAD_SW_IRQ \in irq_status'
  BY <1>3 DEF OffloadInv
<1>5. ~ready /\ ~ready'
  BY DEF SwitchInv
<1>6. routine # NoRoutine /\ ~away'
  BY DEF OffloadInv
<1> QED BY <1>2, <1>3, <1>4, <1>5, <1>6 DEF OffloadInv, RaisesNext, SwitchInv
LEMMA OffloadRaiseInv ==
  ASSUME IInv, OffloadInv, SwitchInv, OffloadRaise
  PROVE  OffloadInv' /\ SwitchInv'
<1> USE OffloadAssumption DEF OffloadRaise, InOffload, InThread, Software, threads, lines, cpuVars
<1>1. /\ irq_premask' = irq_premask \cup {OFFLOAD_SW_IRQ}
      /\ irq_status' = irq_status \cup {OFFLOAD_SW_IRQ}
      /\ UNCHANGED <<cpu, running, irq_mask>>
  BY IrqAssumption DEF SwRaise, RaisePrefix, OffloadInv, RaisesNext
<1>2. off_routine' = owed' /\ owed' # NoRoutine /\ ~ready /\ ~ready'
  BY DEF OffloadInv, RaisesNext, SwitchInv
<1> QED BY <1>1, <1>2 DEF OffloadInv, RaisesNext, SwitchInv

LEMMA OffloadDisableInv ==
  ASSUME IInv, OffloadInv, SwitchInv, OffloadDisable
  PROVE  OffloadInv' /\ SwitchInv'
BY DEF OffloadDisable, InOffload, InThread, Software, threads, DisableIrq, lines,
       cpuVars, OffloadInv, RaisesNext, SwitchInv

-----------------------------------------------------------------------------
(* The other steps leave the interrupt of irq_offload alone, but for       *)
(* clearing it when it is not pending.                                     *)
LEMMA OtherSoftwareInv ==
  ASSUME IInv, OffloadInv, SwitchInv, OtherSoftware
  PROVE  OffloadInv' /\ SwitchInv'
<1> USE OffloadAssumption DEF OtherSoftware, threads, offloadVars, OtherIRQs, lines, cpuVars, locks
<1>1. offload # "raise"
  BY DEF OffloadInv, RaisesNext, InThread, Software
<1>2. /\ OFFLOAD_SW_IRQ \in irq_status' <=> OFFLOAD_SW_IRQ \in irq_status
      /\ OFFLOAD_SW_IRQ \in irq_premask' => OFFLOAD_SW_IRQ \in irq_premask
  BY IrqAssumption DEF EnableIrq, DisableIrq, SwRaise, RaisePrefix, ClearIrq, ClearIrqs, ChangeLock,
     HaltCpu, OffloadInv
<1>3. OffloadInv'
  BY <1>1, <1>2 DEF OffloadInv, RaisesNext
<1>4. ~in_handler /\ running' = running
  BY DEF EnableIrq, DisableIrq, SwRaise, ClearIrq, ClearIrqs, ChangeLock, HaltCpu, Software
<1>5. SwitchInv'
  BY <1>4 DEF SwitchInv, HandlerEntered
<1> QED BY <1>3, <1>5

LEMMA DeclareInv ==
  ASSUME IInv, OffloadInv, SwitchInv, NEW irq \in OtherIRQs, NEW prio \in Prios,
         NEW kind \in {"normal", "direct"}, IsrDeclare(irq, prio, kind)
  PROVE  OffloadInv' /\ SwitchInv'
<1> USE OffloadAssumption DEF IsrDeclare, ConnectIrq, threads, offloadVars, OtherIRQs, lines, cpuVars
<1>1. vector_table' \in [IRQs -> {"none", "normal", "direct"}]
  BY DEF OffloadInv
<1>2. vector_table'[OFFLOAD_SW_IRQ] = vector_table[OFFLOAD_SW_IRQ]
  BY DEF OffloadInv
<1> QED BY <1>1, <1>2 DEF OffloadInv, RaisesNext, SwitchInv

LEMMA CpuInv ==
  ASSUME IInv, OffloadInv, SwitchInv, CpuWakes \/ ReturnToThread \/ GiveWay
  PROVE  OffloadInv' /\ SwitchInv'
<1> USE DEF threads, offloadVars, lines, cpuVars
<1>1. CASE CpuWakes
  <2> USE <1>1 DEF CpuWakes, Wake
  <2>1. ~in_handler /\ offload # "raise" /\ UNCHANGED running
    BY DEF IInv, TypeOK, OffloadInv, RaisesNext
  <2>2. ready => running # <<>> /\ may_swap'
    BY <2>1 DEF SwitchInv, HandlerEntered
  <2>3. SwitchInv'
    BY <2>1, <2>2 DEF SwitchInv
  <2> QED BY <2>1, <2>3 DEF OffloadInv, RaisesNext
<1>2. CASE ReturnToThread
  <2> USE <1>2 DEF ReturnToThread, HandlerReturn
  <2>1. offload # "raise" /\ (offload = "none" \/ offload = "disable" \/ UNCHANGED away)
    BY DEF OffloadInv, RaisesNext
  <2>2. running = <<>> => cur_prio = 256
    BY DEF IInv, NestedByPriority
  <2>3. SwitchInv'
    BY <2>2 DEF SwitchInv
  <2>4. away' => offload' = "disable"
    BY <2>1 DEF OffloadInv
  <2>5. UNCHANGED <<irq_status, irq_premask, vector_table, offload, off_routine, owed>>
    OBVIOUS
  <2> QED BY <2>1, <2>3, <2>4, <2>5 DEF OffloadInv, RaisesNext
<1>3. CASE GiveWay
  BY <1>3 DEF GiveWay, vars, OffloadInv, RaisesNext, SwitchInv
<1> QED BY <1>1, <1>2, <1>3

LEMMA VectorInv ==
  ASSUME IInv, OffloadInv, SwitchInv, NEW irq \in IRQs, VectorToIrq(irq)
  PROVE  OffloadInv' /\ SwitchInv'
<1> USE DEF VectorToIrq, Vector, threads, locks
<1>1. offload # "raise"
  BY DEF OffloadInv, RaisesNext
<1>2. running' # <<>>
  BY DEF IInv, TypeOK
<1>3. SwitchInv'
  BY <1>2 DEF SwitchInv
<1> QED BY <1>1, <1>3 DEF OffloadInv, RaisesNext

LEMMA HandlerDoneInv ==
  ASSUME IInv, OffloadInv, SwitchInv, NEW readied \in BOOLEAN, NEW told \in BOOLEAN,
         HandlerDone(readied, told)
  PROVE  OffloadInv' /\ SwitchInv'
<1> USE DEF HandlerDone, IsrReturn, offloadVars, lines, locks
<1>1. OffloadInv'
  BY DEF OffloadInv, RaisesNext
<1>2. SwitchInv'
  BY DEF SwitchInv
<1> QED BY <1>1, <1>2

LEMMA HardwareInv ==
  ASSUME IInv, OffloadInv, SwitchInv, HardwareModels \/ WakeUpTimer
  PROVE  OffloadInv' /\ SwitchInv'
<1> USE IrqAssumption, OffloadAssumption
    DEF HardwareModels, WakeUpTimer, threads, offloadVars, lines, cpuVars, OtherIRQs
<1>1. /\ OFFLOAD_SW_IRQ \in irq_status' <=> OFFLOAD_SW_IRQ \in irq_status
      /\ OFFLOAD_SW_IRQ \in irq_premask' <=> OFFLOAD_SW_IRQ \in irq_premask
      /\ UNCHANGED <<running, in_handler, irq_mask>>
  BY DEF SetIrq, RaiseIm, TimerTriggered, RaisePrefix
<1>2. cpu # "running"
  BY DEF SetIrq, RaiseIm, TimerTriggered, Hardware
<1> QED BY <1>1, <1>2 DEF OffloadInv, RaisesNext, SwitchInv

LEMMA OffloadStep == IInv /\ OffloadInv /\ SwitchInv /\ [OffloadNext]_allVars
                       => OffloadInv' /\ SwitchInv'
<1> SUFFICES ASSUME IInv, OffloadInv, SwitchInv, [OffloadNext]_allVars
             PROVE  OffloadInv' /\ SwitchInv'
  OBVIOUS
<1>1. CASE UNCHANGED allVars
  BY <1>1 DEF allVars, vars, threads, offloadVars, OffloadInv, RaisesNext, SwitchInv
<1>2. CASE OffloadNext
  BY <1>2, IrqOffloadInv, OffloadRaiseInv, OffloadDisableInv, OtherSoftwareInv, DeclareInv,
     CpuInv, VectorInv, HandlerDoneInv, HardwareInv DEF OffloadNext
<1> QED BY <1>1, <1>2

LEMMA OffloadInvariant == OffloadSpec => [](IInv /\ OffloadInv /\ SwitchInv)
<1>1. OffloadSpec => []IInv
  BY ImplementsIrqCtrl, Invariant, PTL
<1> QED BY <1>1, InitInvs, OffloadStep, PTL DEF OffloadSpec

-----------------------------------------------------------------------------
(* A routine handed to irq_offload is called at most once, and, unless the *)
(* next one replaces it first, by the time the call returns or interrupts  *)
(* are unlocked (irq_handler.c:273-300).                                   *)
THEOREM RoutineCalledOnce == OffloadSpec => []OffloadedOnce
<1>1. IInv /\ OffloadInv => OffloadedOnce
  <2> SUFFICES ASSUME IInv, OffloadInv PROVE OffloadedOnce
    OBVIOUS
  <2>1. ASSUME InThread, ~irqs_locked, OFFLOAD_SW_IRQ \in irq_status PROVE FALSE
    BY <2>1, NotPendingInThread DEF InThread
  <2> QED BY <2>1 DEF OffloadInv, OffloadedOnce
<1> QED BY <1>1, OffloadInvariant, PTL

(* A routine is replaced before it is called only by an irq_offload that   *)
(* is made with interrupts locked: with them unlocked the one before is    *)
(* not pending any more (irq_handler.c:292-300).                           *)
THEOREM RoutineLostOnlyWhenLocked == OffloadSpec => LostOnlyWhenLocked
<1>1. IInv /\ OffloadInv /\ [OffloadNext]_allVars => [lost' # lost => irqs_locked]_allVars
  <2> SUFFICES ASSUME IInv, OffloadInv, [OffloadNext]_allVars, lost' # lost, ~irqs_locked
               PROVE  FALSE
    OBVIOUS
  <2>1. PICK routine \in Routines : IrqOffload(routine)
    BY DEF OffloadNext, IsrDeclare, OtherSoftware, GiveWay, OffloadRaise, OffloadDisable,
       CpuWakes, VectorToIrq, HandlerDone, ReturnToThread, HardwareModels, WakeUpTimer,
       offloadVars, allVars
  <2>2. InThread /\ offload = "none" /\ owed # NoRoutine
    BY <2>1 DEF IrqOffload, OffloadInv
  <2>3. OFFLOAD_SW_IRQ \in irq_status
    BY <2>2 DEF OffloadInv
  <2> QED BY <2>2, <2>3, NotPendingInThread DEF InThread
<1> QED BY <1>1, OffloadInvariant, PTL DEF OffloadSpec, LostOnlyWhenLocked

(* No request of an interrupt handler for a thread switch is lost in       *)
(* nested or direct handlers (irq_handler.c:66-111).                       *)
THEOREM ReadyThreadRuns == OffloadSpec => []NoLostPreemption
<1>1. SwitchInv => NoLostPreemption
  BY DEF SwitchInv, NoLostPreemption, InThread, Software
<1> QED BY <1>1, OffloadInvariant, PTL

-----------------------------------------------------------------------------
(* The part that HwModels has too.                                         *)
Waking == INSTANCE CpuWakeUp WITH
  locked <- irqs_locked, phony <- lock_ignore, soon <- irq_ctrl_timer,
  halted <- (cpu = "halted")

LEMMA SoftwareWaking ==
  ASSUME TypeOK, SoftwareStep \/ HaltCpu
  PROVE  [Waking!Next]_(Waking!vars)
<1>1. /\ cpu = "running" /\ UNCHANGED <<lock_ignore, irq_ctrl_timer>>
      /\ irqs_locked' \in BOOLEAN
  BY IrqAssumption DEF SoftwareStep, HaltCpu, Software, ConnectIrq, EnableIrq, DisableIrq,
     SwRaise, RaisePrefix, ClearIrq, ClearIrqs, ChangeLock, TypeOK, lines, locks, cpuVars
<1> QED BY <1>1 DEF Waking!Software, Waking!Next

LEMMA CpuWaking ==
  ASSUME Wake \/ HandlerReturn \/ IsrReturn \/ \E irq \in IRQs : Vector(irq)
  PROVE  UNCHANGED Waking!vars
BY DEF Wake, HandlerReturn, IsrReturn, Vector, Software, Waking!vars, locks, cpuVars

LEMMA WakeFromHwWaking ==
  ASSUME Hardware, NEW ignore \in BOOLEAN, WakeFromHw(ignore), irqs_locked \in BOOLEAN
  PROVE  Waking!WakeUnlessLocked(ignore)
BY DEF Hardware, WakeFromHw, Waking!WakeUnlessLocked

LEMMA HardwareWaking ==
  ASSUME TypeOK, \/ TimerTriggered
                 \/ \E irq \in IRQs \cup {PHONY_HARD_IRQ} : SetIrq(irq) \/ RaiseIm(irq)
  PROVE  Waking!Next
<1> USE DEF Waking!Next
<1>1. cpu = "halted" /\ lock_ignore \in BOOLEAN /\ irqs_locked \in BOOLEAN
  BY DEF TypeOK, TimerTriggered, SetIrq, RaiseIm, Hardware
<1>2. ASSUME NEW irq, SetIrq(irq) PROVE Waking!SetIrq
  BY <1>1, <1>2 DEF SetIrq, RaisePrefix, TypeOK, cpuVars, Waking!SetIrq
<1>3. ASSUME NEW irq, RaiseIm(irq) PROVE Waking!RaiseIrq
  <2>1. PICK ignore \in {lock_ignore, TRUE} : WakeFromHw(ignore)
    BY <1>3 DEF RaiseIm
  <2>2. Waking!WakeUnlessLocked(ignore)
    BY <1>1, <2>1, WakeFromHwWaking DEF Hardware
  <2> QED BY <1>1, <1>3, <2>2 DEF RaiseIm, Waking!RaiseIrq
<1>4. CASE TimerTriggered
  <2>1. Waking!WakeUnlessLocked(lock_ignore)
    BY <1>1, <1>4, WakeFromHwWaking DEF TimerTriggered
  <2> QED BY <1>1, <1>4, <2>1 DEF TimerTriggered, TypeOK, Waking!TimerTriggered
<1> QED BY <1>2, <1>3, <1>4

LEMMA StepWaking == IInv /\ [Next]_vars => [Waking!Next]_(Waking!vars)
<1> SUFFICES ASSUME TypeOK, [Next]_vars
             PROVE  [Waking!Next]_(Waking!vars)
  BY DEF IInv
<1>1. CASE UNCHANGED vars
  BY <1>1 DEF vars, Waking!vars
<1>2. CASE Next
  BY <1>2, SoftwareWaking, CpuWaking, HardwareWaking DEF Next, SoftwareStep
<1> QED BY <1>1, <1>2

(* Whatever is raised, enabled, masked and nested, a halted CPU is woken   *)
(* as CpuWakeUp says, by set interrupts through the timer, by raised ones  *)
(* at once, through the lock by the phony one (irq_ctrl.c:203-271).        *)
THEOREM WakesAsPromised == Spec => Waking!Spec
<1>1. Init => Waking!Init
  BY DEF Init, Waking!Init
<1> QED BY <1>1, StepWaking, Invariant, PTL DEF Spec, Waking!Spec

(* The phony interrupt, which ends waits with interrupts locked, is never  *)
(* left behind without the timer that acts on it: CpuWakeUp alone keeps    *)
(* this (irq_ctrl.c:203-238).                                              *)
THEOREM PhonyIsServed == Spec => [](lock_ignore => irq_ctrl_timer)
<1> DEFINE Served == lock_ignore => irq_ctrl_timer
<1>1. Waking!Init => Served
  BY DEF Waking!Init
<1>2. Served /\ [Waking!Next]_(Waking!vars) => Served'
  BY DEF Waking!Next, Waking!vars, Waking!Software, Waking!SetIrq, Waking!RaiseIrq,
     Waking!TimerTriggered, Waking!WakeUnlessLocked
<1> QED BY <1>1, <1>2, WakesAsPromised, PTL DEF Waking!Spec
=============================================================================

------------------------------- MODULE IrqCtrl -------------------------------
(***************************************************************************)
(* The interrupt controller of the native_posix board, on which the unit   *)
(* tests run, and the CPU's handling of its interrupts (boards/posix/      *)
(* native_posix/irq_ctrl.c, irq_handler.c).                                *)
(*                                                                         *)
(* Software (a thread or an interrupt handler) runs while cpu = "running"  *)
(* and hardware models only while it is halted.  posix_irq_handler is      *)
(* re-entered by an interrupt that an interrupt handler raises or unlocks; *)
(* its nested calls are the stack `running`, and in_handler says that the  *)
(* innermost call is at the head of its loop, not inside an interrupt      *)
(* handler.  The thread switch at its end is the kernel's and is left out. *)
(* Uint64 bit masks are sets of interrupts.                                *)
(***************************************************************************)
EXTENDS Integers, Sequences

CONSTANTS IRQs,            \* 0 .. N_IRQS - 1
          Prios,           \* priorities in use, 0 is the highest
          PHONY_HARD_IRQ   \* wakes the CPU without an interrupt

ASSUME IrqAssumption ==
  /\ IRQs \subseteq Nat
  /\ Prios \subseteq 0 .. 255
  /\ PHONY_HARD_IRQ \notin IRQs

VARIABLES irq_status, irq_premask, irq_mask,
          irqs_locked, lock_ignore,
          irq_prio,
          cur_prio,         \* currently_running_prio, 256 for a thread
          irq_ctrl_timer,   \* the controller will wake the CPU in one delta
          cpu,              \* "running", "halted", or "woken" from a halt
          running,          \* the interrupts being handled, the innermost last
          in_handler

lines == <<irq_status, irq_premask>>
locks == <<irqs_locked, lock_ignore>>
cpuVars == <<cur_prio, cpu, running>>
vars == <<irq_status, irq_premask, irq_mask, irqs_locked, lock_ignore,
          irq_prio, cur_prio, irq_ctrl_timer, cpu, running, in_handler>>

-----------------------------------------------------------------------------
CandidatesOrEqual(status, prio, cur) == {i \in status : prio[i] <= cur}

(* Pending interrupts that would interrupt what is running. *)
Candidates(status, prio, cur) == {i \in status : prio[i] < cur}

(* hw_irq_ctrl_get_highest_prio_irq finds none. *)
NoneOf(locked, status, prio, cur) ==
  locked \/ Candidates(status, prio, cur) = {}

(* ... or the most urgent one, the lowest number among equals. *)
IsHighest(irq) ==
  /\ ~irqs_locked
  /\ irq \in Candidates(irq_status, irq_prio, cur_prio)
  /\ \A j \in Candidates(irq_status, irq_prio, cur_prio) :
       irq_prio[irq] < irq_prio[j] \/ (irq_prio[irq] = irq_prio[j] /\ irq <= j)

RaiseAnyNumber(irq) ==
  /\ irq_premask' = irq_premask \cup {irq}
  /\ irq_status' = IF irq \in irq_mask THEN irq_status \cup {irq} ELSE irq_status
  /\ lock_ignore' = (lock_ignore \/ irq = PHONY_HARD_IRQ)

(* hw_irq_ctrl_irq_raise_prefix *)
RaisePrefix(irq) ==
  \/ /\ irq \in IRQs
     /\ irq_premask' = irq_premask \cup {irq}
     /\ irq_status' = IF irq \in irq_mask THEN irq_status \cup {irq} ELSE irq_status
     /\ UNCHANGED lock_ignore
  \/ /\ irq = PHONY_HARD_IRQ
     /\ lock_ignore' = TRUE
     /\ UNCHANGED lines

(* posix_irq_handler_im_from_sw: the handler is entered if there is work. *)
ImFromSw ==
  in_handler' = ~NoneOf(irqs_locked', irq_status', irq_prio, cur_prio)

Software == cpu = "running" /\ ~in_handler
Hardware == cpu = "halted"

Init ==
  /\ irq_status = {}
  /\ irq_premask = {}
  /\ irq_mask = {}
  /\ irqs_locked = FALSE
  /\ lock_ignore = FALSE
  /\ irq_prio = [i \in IRQs |-> 255]
  /\ cur_prio = 256
  /\ irq_ctrl_timer = FALSE
  /\ cpu = "running"
  /\ running = <<>>
  /\ in_handler = FALSE

-----------------------------------------------------------------------------
(* Software. *)

(* posix_irq_priority_set, when a driver connects its interrupt: before it *)
(* enables it (IRQ_CONNECT).                                               *)
ConnectIrq(irq, prio) ==
  /\ Software
  /\ running = <<>>
  /\ irq \notin irq_mask \cup irq_status
  /\ irq_prio' = [irq_prio EXCEPT ![irq] = prio]
  /\ UNCHANGED <<lines, irq_mask, locks, irq_ctrl_timer, cpuVars, in_handler>>

EnableForgetsPending(irq) ==
  /\ Software
  /\ irq_mask' = irq_mask \cup {irq}
  /\ UNCHANGED <<lines, locks, irq_prio, irq_ctrl_timer, cpuVars, in_handler>>

(* hw_irq_ctrl_enable_irq raises what was pending before the mask. *)
EnableIrq(irq) ==
  /\ Software
  /\ irq_mask' = irq_mask \cup {irq}
  /\ IF irq \in irq_premask
     THEN /\ irq_status' = irq_status \cup {irq}
          /\ UNCHANGED irqs_locked
          /\ ImFromSw
     ELSE UNCHANGED <<irq_status, irqs_locked, in_handler>>
  /\ UNCHANGED <<irq_premask, lock_ignore, irq_prio, irq_ctrl_timer, cpuVars>>

(* hw_irq_ctrl_disable_irq leaves irq_status alone. *)
DisableIrq(irq) ==
  /\ Software
  /\ irq_mask' = irq_mask \ {irq}
  /\ UNCHANGED <<lines, locks, irq_prio, irq_ctrl_timer, cpuVars, in_handler>>

(* hw_irq_ctrl_raise_im_from_sw *)
SwRaise(irq) ==
  /\ Software
  /\ RaisePrefix(irq)
  /\ UNCHANGED irqs_locked
  /\ ImFromSw
  /\ UNCHANGED <<irq_mask, irq_prio, irq_ctrl_timer, cpuVars>>

(* hw_irq_ctrl_clear_irq *)
ClearIrq(irq) ==
  /\ Software
  /\ irq_status' = irq_status \ {irq}
  /\ irq_premask' = irq_premask \ {irq}
  /\ UNCHANGED <<irq_mask, locks, irq_prio, irq_ctrl_timer, cpuVars, in_handler>>

(* hw_irq_ctrl_clear_all_enabled_irqs, hw_irq_ctrl_clear_all_irqs *)
ClearIrqs ==
  /\ Software
  /\ irq_status' = {}
  /\ irq_premask' \in {irq_premask \ irq_mask, {}}
  /\ UNCHANGED <<irq_mask, locks, irq_prio, irq_ctrl_timer, cpuVars, in_handler>>

UnlockOnly(new_lock) ==
  /\ Software
  /\ irqs_locked' = new_lock
  /\ UNCHANGED <<lines, irq_mask, lock_ignore, irq_prio, irq_ctrl_timer, cpuVars,
                 in_handler>>

(* hw_irq_ctrl_change_lock: unlocking takes what is pending at once. *)
ChangeLock(new_lock) ==
  /\ Software
  /\ irqs_locked' = new_lock
  /\ UNCHANGED irq_status
  /\ IF irqs_locked /\ ~new_lock /\ irq_status # {}
     THEN ImFromSw
     ELSE UNCHANGED in_handler
  /\ UNCHANGED <<irq_premask, irq_mask, lock_ignore, irq_prio, irq_ctrl_timer, cpuVars>>

(* posix_halt_cpu: a thread idles or waits, or an interrupt handler waits. *)
HaltCpu ==
  /\ Software
  /\ cpu' = "halted"
  /\ UNCHANGED <<lines, irq_mask, locks, irq_prio, irq_ctrl_timer, cur_prio,
                 running, in_handler>>

-----------------------------------------------------------------------------
(* The CPU. *)

(* The halt ends in posix_irq_handler, which returns if interrupts are     *)
(* locked.                                                                 *)
Wake ==
  /\ cpu = "woken"
  /\ cpu' = "running"
  /\ in_handler' = ~irqs_locked
  /\ UNCHANGED <<lines, irq_mask, locks, irq_prio, irq_ctrl_timer, cur_prio, running>>

(* The loop takes the most urgent interrupt, clears it and calls its       *)
(* handler at its priority.                                                *)
Vector(irq) ==
  /\ in_handler
  /\ IsHighest(irq)
  /\ running' = Append(running, [irq |-> irq, last_prio |-> cur_prio])
  /\ cur_prio' = irq_prio[irq]
  /\ irq_status' = irq_status \ {irq}
  /\ irq_premask' = irq_premask \ {irq}
  /\ in_handler' = FALSE
  /\ UNCHANGED <<irq_mask, locks, irq_prio, irq_ctrl_timer, cpu>>

(* The interrupt handler returns into the loop. *)
IsrReturn ==
  /\ Software
  /\ running # <<>>
  /\ cur_prio' = running[Len(running)].last_prio
  /\ running' = SubSeq(running, 1, Len(running) - 1)
  /\ in_handler' = TRUE
  /\ UNCHANGED <<lines, irq_mask, locks, irq_prio, irq_ctrl_timer, cpu>>

(* posix_irq_handler returns into what it interrupted. *)
HandlerReturn ==
  /\ in_handler
  /\ NoneOf(irqs_locked, irq_status, irq_prio, cur_prio)
  /\ in_handler' = FALSE
  /\ UNCHANGED <<lines, irq_mask, locks, irq_prio, irq_ctrl_timer, cpuVars>>

-----------------------------------------------------------------------------
(* Hardware. *)

SetIrqQuietly(irq) ==
  /\ Hardware
  /\ RaisePrefix(irq)
  /\ UNCHANGED <<irq_mask, irqs_locked, irq_prio, cpuVars, in_handler, irq_ctrl_timer>>

(* hw_irq_ctrl_set_irq wakes the CPU one delta later. *)
SetIrq(irq) ==
  /\ Hardware
  /\ RaisePrefix(irq)
  /\ irq_ctrl_timer' = (irq_ctrl_timer \/ ~irqs_locked \/ lock_ignore')
  /\ UNCHANGED <<irq_mask, irqs_locked, irq_prio, cpuVars, in_handler>>

WakeIfBoth(ignore) ==
  IF ~irqs_locked /\ ignore
  THEN lock_ignore' = FALSE /\ cpu' = "woken"
  ELSE lock_ignore' = ignore /\ UNCHANGED cpu

(* irq_raising_from_hw_now: a locked CPU is woken by the phony interrupt only. *)
WakeFromHw(ignore) ==
  IF ~irqs_locked \/ ignore
  THEN lock_ignore' = FALSE /\ cpu' = "woken"
  ELSE lock_ignore' = ignore /\ UNCHANGED cpu

(* hw_irq_ctrl_raise_im *)
RaiseIm(irq) ==
  /\ Hardware
  /\ \/ /\ irq \in IRQs
        /\ irq_premask' = irq_premask \cup {irq}
        /\ irq_status' = IF irq \in irq_mask THEN irq_status \cup {irq} ELSE irq_status
        /\ WakeFromHw(lock_ignore)
     \/ /\ irq = PHONY_HARD_IRQ
        /\ WakeFromHw(TRUE)
        /\ UNCHANGED lines
  /\ UNCHANGED <<irq_mask, irqs_locked, irq_prio, irq_ctrl_timer, cur_prio, running, in_handler>>

(* hw_irq_ctrl_timer_triggered *)
TimerTriggered ==
  /\ Hardware
  /\ irq_ctrl_timer
  /\ irq_ctrl_timer' = FALSE
  /\ WakeFromHw(lock_ignore)
  /\ UNCHANGED <<lines, irq_mask, irqs_locked, irq_prio, cur_prio, running, in_handler>>

Next ==
  \/ \E irq \in IRQs, prio \in Prios : ConnectIrq(irq, prio)
  \/ \E irq \in IRQs : EnableIrq(irq)
  \/ \E irq \in IRQs : DisableIrq(irq)
  \/ \E irq \in IRQs : SwRaise(irq)
  \/ \E irq \in IRQs : ClearIrq(irq)
  \/ ClearIrqs
  \/ \E new_lock \in BOOLEAN : ChangeLock(new_lock)
  \/ HaltCpu
  \/ Wake
  \/ \E irq \in IRQs : Vector(irq)
  \/ IsrReturn
  \/ HandlerReturn
  \/ \E irq \in IRQs \cup {PHONY_HARD_IRQ} : SetIrq(irq)
  \/ \E irq \in IRQs \cup {PHONY_HARD_IRQ} : RaiseIm(irq)
  \/ TimerTriggered

Spec == Init /\ [][Next]_vars

(* A due timer of a halted CPU is executed, and a woken CPU runs. *)
FairSpec == Spec /\ WF_vars(TimerTriggered) /\ WF_vars(Wake)

-----------------------------------------------------------------------------
(* Type correctness. *)
TypeOK ==
  /\ irq_status \subseteq IRQs
  /\ irq_premask \subseteq IRQs
  /\ irq_mask \subseteq IRQs
  /\ irqs_locked \in BOOLEAN
  /\ lock_ignore \in BOOLEAN
  /\ irq_prio \in [IRQs -> 0 .. 255]
  /\ cur_prio \in 0 .. 256
  /\ irq_ctrl_timer \in BOOLEAN
  /\ cpu \in {"running", "halted", "woken"}
  /\ running \in Seq([irq : IRQs, last_prio : 0 .. 256])
  /\ in_handler \in BOOLEAN
  /\ in_handler => cpu = "running"

(* An interrupt that is raised and enabled is pending in irq_status, in    *)
(* whichever order it was raised, enabled, disabled, handled and cleared,  *)
(* and none is pending that was not raised (irq_ctrl.c:22-33).             *)
PendingIsRaised ==
  /\ irq_status \subseteq irq_premask
  /\ irq_premask \cap irq_mask \subseteq irq_status

(* While software runs with interrupts unlocked, no pending interrupt is   *)
(* more urgent than it: it was taken when it was raised, enabled, unlocked *)
(* or when the one that held it back returned (irq_ctrl.c:120-132,         *)
(* 181-187, 258-265; irq_handler.c:85-97).                                 *)
NoUrgentIrqWaits ==
  Software /\ ~irqs_locked => Candidates(irq_status, irq_prio, cur_prio) = {}

(* A CPU is not left halted with an interrupt that it should take: the     *)
(* controller is about to wake it (irq_ctrl.c:209-223).                    *)
NoLostWakeUp ==
  cpu = "halted" /\ ~irqs_locked /\ Candidates(irq_status, irq_prio, cur_prio) # {}
    => irq_ctrl_timer

(* Interrupt handlers nest only into less urgent ones, all the way down to *)
(* the thread at 256 (irq_handler.c:85-97).                                *)
NestedByPriority ==
  /\ running = <<>> => cur_prio = 256
  /\ running # <<>> => running[1].last_prio = 256
  /\ \A i \in 1 .. Len(running) :
       LET prio == IF i = Len(running) THEN cur_prio ELSE running[i + 1].last_prio
       IN  prio < running[i].last_prio

(* A halted CPU with an interrupt to take runs again. *)
PendingWakesCpu ==
  (cpu = "halted" /\ ~irqs_locked /\ Candidates(irq_status, irq_prio, cur_prio) # {})
    ~> (cpu = "running")

-----------------------------------------------------------------------------
(* irq_ctrl.c:26-27: irq_mask is the "Mask of which interrupts will        *)
(* actually cause the cpu to vector into its irq handler".                 *)
OnlyEnabledVectored ==
  [][\A irq \in IRQs : in_handler /\ Vector(irq) => irq \in irq_mask]_vars
=============================================================================

------------------------------ MODULE IrqOffload ------------------------------
(***************************************************************************)
(* What irq_handler.c of the native_posix board adds to its interrupt      *)
(* controller (IrqCtrl): the table of interrupt handlers, the switch to a  *)
(* thread that an interrupt has made ready, and irq_offload, which runs a  *)
(* routine of a thread in interrupt context.                               *)
(*                                                                         *)
(* Every step is one of IrqCtrl's, with what it does to the variables      *)
(* declared here, or leaves IrqCtrl's variables alone.  Threads are told   *)
(* apart only as far as one of them is inside irq_offload, which the       *)
(* kernel lets one thread be at a time.                                    *)
(***************************************************************************)
EXTENDS IrqCtrl

CONSTANTS OFFLOAD_SW_IRQ,   \* the interrupt irq_offload raises
          Routines, NoRoutine

ASSUME OffloadAssumption ==
  /\ OFFLOAD_SW_IRQ \in IRQs
  /\ NoRoutine \notin Routines

VARIABLES vector_table,   \* irq_vector_table: "none", "normal" or "direct"
          may_swap,
          ready,          \* ready_q.cache is another thread than _current
          off_routine,
          offload,        \* next step of irq_offload: "none", "raise", "disable"
          away,           \* the thread inside irq_offload is preempted
          owed,           \* history: the routine that is still to be called
          lost            \* history: a routine was replaced before it was called

offloadVars == <<off_routine, offload, owed, lost>>
threads == <<ready, away>>
allVars == <<vars, vector_table, may_swap, threads, offloadVars>>

OtherIRQs == IRQs \ {OFFLOAD_SW_IRQ}
InThread == Software /\ running = <<>>
InOffload == InThread /\ ~away

OffloadInit ==
  /\ Init
  /\ vector_table = [i \in IRQs |-> "none"]
  /\ may_swap = FALSE
  /\ ready = FALSE
  /\ off_routine = NoRoutine
  /\ offload = "none"
  /\ away = FALSE
  /\ owed = NoRoutine
  /\ lost = FALSE

-----------------------------------------------------------------------------
HandlerEnteredAnyDepth ==
  may_swap' = IF ~in_handler /\ in_handler' THEN FALSE ELSE may_swap

(* The head of posix_irq_handler: only the outermost call, from a thread,  *)
(* forgets what earlier interrupts asked for.                              *)
HandlerEntered ==
  may_swap' = IF ~in_handler /\ in_handler' /\ running = <<>> THEN FALSE ELSE may_swap

(* posix_isr_declare and posix_irq_priority_set, before the line is        *)
(* enabled (IRQ_CONNECT, IRQ_DIRECT_CONNECT).                              *)
IsrDeclare(irq, prio, kind) ==
  /\ ConnectIrq(irq, prio)
  /\ vector_table' = [vector_table EXCEPT ![irq] = kind]
  /\ UNCHANGED <<may_swap, threads, offloadVars>>

(* Any other software: an interrupt handler, or a thread that is not       *)
(* inside irq_offload.                                                     *)
OtherSoftware ==
  /\ InThread => offload = "none" \/ away
  /\ \/ \E irq \in OtherIRQs : vector_table[irq] # "none" /\ EnableIrq(irq)
     \/ \E irq \in OtherIRQs : DisableIrq(irq)
     \/ \E irq \in OtherIRQs : SwRaise(irq)
     \/ \E irq \in OtherIRQs : ClearIrq(irq)
     \/ OFFLOAD_SW_IRQ \notin irq_status /\ ClearIrqs
     \/ \E new_lock \in BOOLEAN : ChangeLock(new_lock)
     \/ HaltCpu
  /\ HandlerEntered
  /\ UNCHANGED <<vector_table, threads, offloadVars>>

(* The kernel goes on with the thread inside irq_offload. *)
GiveWay ==
  /\ InThread
  /\ ~irqs_locked
  /\ away
  /\ away' = FALSE
  /\ UNCHANGED <<vars, vector_table, may_swap, ready, offloadVars>>

-----------------------------------------------------------------------------
(* posix_irq_offload: the routine is stored, in place of one that may not  *)
(* have been called yet, and its interrupt enabled, ...                    *)
IrqOffload(routine) ==
  /\ InThread
  /\ offload = "none"
  /\ off_routine' = routine
  /\ owed' = routine
  /\ lost' = (lost \/ owed # NoRoutine)
  /\ vector_table' = [vector_table EXCEPT ![OFFLOAD_SW_IRQ] = "normal"]
  /\ EnableIrq(OFFLOAD_SW_IRQ)
  /\ offload' = "raise"
  /\ HandlerEntered
  /\ UNCHANGED threads

OffloadRaiseDisabled ==
  /\ InOffload
  /\ offload = "raise"
  /\ offload' = "none"
  /\ DisableIrq(OFFLOAD_SW_IRQ)
  /\ UNCHANGED <<vector_table, may_swap, threads, off_routine, owed, lost>>

(* ... raised, which runs the routine at once unless interrupts are        *)
(* locked, ...                                                             *)
OffloadRaise ==
  /\ InOffload
  /\ offload = "raise"
  /\ offload' = "disable"
  /\ SwRaise(OFFLOAD_SW_IRQ)
  /\ HandlerEntered
  /\ UNCHANGED <<vector_table, threads, off_routine, owed, lost>>

OffloadDisableClears ==
  /\ InOffload
  /\ offload = "disable"
  /\ offload' = "none"
  /\ ClearIrq(OFFLOAD_SW_IRQ)
  /\ UNCHANGED <<vector_table, may_swap, threads, off_routine, owed, lost>>

(* ... and disabled. *)
OffloadDisable ==
  /\ InOffload
  /\ offload = "disable"
  /\ offload' = "none"
  /\ DisableIrq(OFFLOAD_SW_IRQ)
  /\ UNCHANGED <<vector_table, may_swap, threads, off_routine, owed, lost>>

-----------------------------------------------------------------------------
(* The CPU. *)
CpuWakes ==
  /\ Wake
  /\ HandlerEntered
  /\ UNCHANGED <<vector_table, threads, offloadVars>>

(* vector_to_irq; offload_sw_irq_handler calls off_routine. *)
VectorToIrq(irq) ==
  /\ Vector(irq)
  /\ owed' = IF irq = OFFLOAD_SW_IRQ THEN NoRoutine ELSE owed
  /\ UNCHANGED <<vector_table, may_swap, threads, off_routine, offload,
                 lost>>

(* An interrupt handler returns with interrupts as it found them; it may   *)
(* have made a thread ready, which a direct one must tell.                 *)
HandlerDone(readied, told) ==
  LET kind == vector_table[running[Len(running)].irq] IN
  /\ IsrReturn
  /\ ~irqs_locked
  /\ kind = "direct" /\ readied => told
  /\ may_swap' = (may_swap \/ kind # "direct" \/ told)
  /\ ready' = (ready \/ readied)
  /\ UNCHANGED <<vector_table, away, offloadVars>>

(* The tail of posix_irq_handler switches to the thread that is ready,     *)
(* which may be the one inside irq_offload if that was preempted.          *)
ReturnToThread ==
  /\ HandlerReturn
  /\ IF may_swap /\ cur_prio = 256 /\ ready
     THEN /\ ready' = FALSE
          /\ IF offload = "none" THEN UNCHANGED away
             ELSE away' \in {TRUE, ~away}
     ELSE UNCHANGED threads
  /\ UNCHANGED <<vector_table, may_swap, offloadVars>>

(* The hardware models. *)
HardwareModels ==
  /\ \/ \E irq \in OtherIRQs \cup {PHONY_HARD_IRQ} : SetIrq(irq)
     \/ \E irq \in OtherIRQs \cup {PHONY_HARD_IRQ} : RaiseIm(irq)
  /\ UNCHANGED <<vector_table, may_swap, threads, offloadVars>>

WakeUpTimer ==
  /\ TimerTriggered
  /\ UNCHANGED <<vector_table, may_swap, threads, offloadVars>>

OffloadNext ==
  \/ \E irq \in OtherIRQs, prio \in Prios, kind \in {"normal", "direct"} :
       IsrDeclare(irq, prio, kind)
  \/ OtherSoftware
  \/ GiveWay
  \/ \E routine \in Routines : IrqOffload(routine)
  \/ OffloadRaise
  \/ OffloadDisable
  \/ CpuWakes
  \/ \E irq \in IRQs : VectorToIrq(irq)
  \/ \E readied, told \in BOOLEAN : HandlerDone(readied, told)
  \/ ReturnToThread
  \/ HardwareModels
  \/ WakeUpTimer

OffloadSpec == OffloadInit /\ [][OffloadNext]_allVars

(* As for IrqCtrl. *)
FairOffloadSpec ==
  OffloadSpec /\ WF_allVars(WakeUpTimer) /\ WF_allVars(CpuWakes)

-----------------------------------------------------------------------------
(* No routine handed to irq_offload is called twice, and none that stays   *)
(* in off_routine is forgotten: the handler runs only for the routine last *)
(* handed over and only if that was not called yet; when the call is past  *)
(* its raise, and has returned, the routine has run or, if interrupts are  *)
(* locked, is about to when they are unlocked, even though the interrupt   *)
(* is disabled again by then (irq_handler.c:273-300).                      *)
OffloadedOnce ==
  /\ OFFLOAD_SW_IRQ \in irq_status =>
       /\ vector_table[OFFLOAD_SW_IRQ] = "normal"
       /\ off_routine = owed
       /\ owed # NoRoutine
  /\ offload # "raise" /\ owed # NoRoutine => OFFLOAD_SW_IRQ \in irq_status
  /\ InThread /\ ~irqs_locked /\ offload # "raise" => owed = NoRoutine

(* A routine is never called at all only if interrupts stay locked from    *)
(* its irq_offload to the next one, which replaces it in off_routine       *)
(* (irq_handler.c:294): in unlocked threads, however they are interrupted  *)
(* and preempted inside the call, each is called before the next comes.    *)
LostOnlyWhenLocked == [][lost' # lost => irqs_locked]_allVars

(* A thread that an interrupt handler made ready runs when the outermost   *)
(* interrupt returns, also when it was made ready several handlers and     *)
(* nestings earlier: the static may_swap keeps the request, and no nested  *)
(* handler, direct or not, drops it (irq_handler.c:66-111).                *)
NoLostPreemption == InThread => ~ready
=============================================================================

------------------------------- MODULE CpuWakeUp -------------------------------
(***************************************************************************)
(* What wakes a halted CPU, and nothing else of the interrupt controller:  *)
(* no priorities, masks, handlers or times.  Software locks and unlocks    *)
(* interrupts and halts the CPU.  Hardware models run while it is halted;  *)
(* an interrupt they set wakes it a little later, by way of a timer, one   *)
(* they raise wakes it at once, and of a locked CPU only the phony         *)
(* interrupt does, which is forgotten by nothing but the waking.           *)
(*                                                                         *)
(* IrqCtrl and HwModels both have this part of the controller, each with a *)
(* half of what surrounds it.                                              *)
(***************************************************************************)
VARIABLES locked,  \* interrupts are
          phony,   \* the phony interrupt has come: the lock does not count
          soon,    \* the timer is set
          halted

vars == <<locked, phony, soon, halted>>

Init ==
  /\ locked = FALSE
  /\ phony = FALSE
  /\ soon = FALSE
  /\ halted = FALSE

Software ==
  /\ ~halted
  /\ locked' \in BOOLEAN
  /\ halted' \in BOOLEAN
  /\ UNCHANGED <<phony, soon>>

(* The CPU wakes, which uses up the phony interrupt, or sleeps on. *)
WakeUnlessLocked(ignore) ==
  /\ halted' = (locked /\ ~ignore)
  /\ phony' = FALSE

SetIrq ==
  /\ halted
  /\ phony' \in {phony, TRUE}
  /\ soon' = (soon \/ ~locked \/ phony')
  /\ UNCHANGED <<locked, halted>>

RaiseIrq ==
  /\ halted
  /\ \E ignore \in {phony, TRUE} : WakeUnlessLocked(ignore)
  /\ UNCHANGED <<locked, soon>>

TimerTriggered ==
  /\ halted
  /\ soon
  /\ soon' = FALSE
  /\ WakeUnlessLocked(phony)
  /\ UNCHANGED locked

Next == Software \/ SetIrq \/ RaiseIrq \/ TimerTriggered

Spec == Init /\ [][Next]_vars
=============================================================================

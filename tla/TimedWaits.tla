------------------------------ MODULE TimedWaits ------------------------------
(***************************************************************************)
(* What simulated time promises to software that waits, without timers,    *)
(* interrupts or a list of events.  Time stands still while a context      *)
(* runs.  The CPU falls asleep in the wait of one context, and never       *)
(* sleeps past the end of that wait; it may wake earlier, let other        *)
(* contexts run and wait, and fall asleep again.                           *)
(*                                                                         *)
(* arch_busy_wait ends when a point of time has come, whoever made time    *)
(* pass; posix_cpu_hold when its own context has slept away the time asked *)
(* for, no more and no less.                                               *)
(***************************************************************************)
EXTENDS Integers

CONSTANTS Contexts,
          Durations

VARIABLES time,
          cpu,       \* "running", "halted" or "exited"
          current,   \* the context that runs or fell asleep
          wait,      \* "none", "until" or "own", for each context
          left       \* the end of a wait "until", what is left of an "own" one

vars == <<time, cpu, current, wait, left>>

Init ==
  /\ time = 0
  /\ cpu = "running"
  /\ current \in Contexts
  /\ wait = [c \in Contexts |-> "none"]
  /\ left = [c \in Contexts |-> 0]

Over(c) == IF wait[c] = "until" THEN left[c] <= time ELSE left[c] = 0

Begin(kind, amount) ==
  /\ cpu = "running"
  /\ wait[current] = "none"
  /\ wait' = [wait EXCEPT ![current] = kind]
  /\ left' = [left EXCEPT ![current] = amount]
  /\ UNCHANGED <<time, cpu, current>>

Finish ==
  /\ cpu = "running"
  /\ wait[current] # "none" /\ Over(current)
  /\ wait' = [wait EXCEPT ![current] = "none"]
  /\ left' = [left EXCEPT ![current] = 0]
  /\ UNCHANGED <<time, cpu, current>>

Switch ==
  /\ cpu = "running"
  /\ current' \in Contexts
  /\ UNCHANGED <<time, cpu, wait, left>>

(* In a wait that is not over, or when nobody is left to run. *)
FallAsleep ==
  /\ cpu = "running"
  /\ IF wait[current] = "none" THEN \A c \in Contexts : wait[c] = "none"
     ELSE ~Over(current)
  /\ cpu' = "halted"
  /\ UNCHANGED <<time, current, wait, left>>

Sleep ==
  /\ cpu = "halted"
  /\ time' >= time
  /\ wait[current] = "until" => time' <= left[current] /\ left' = left
  /\ wait[current] = "own" =>
       /\ time' - time <= left[current]
       /\ left' = [left EXCEPT ![current] = @ - (time' - time)]
  /\ wait[current] = "none" => left' = left
  /\ cpu' \in {"halted", "running", "exited"}
  /\ UNCHANGED <<current, wait>>

Next ==
  \/ \E d \in Durations : Begin("until", time + d) \/ Begin("own", d)
  \/ Finish
  \/ Switch
  \/ FallAsleep
  \/ Sleep

Spec == Init /\ [][Next]_vars
=============================================================================

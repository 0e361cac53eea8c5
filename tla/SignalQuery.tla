----------------------------- MODULE SignalQuery -----------------------------
(***************************************************************************)
(* The command path of the GSM driver (samples/mesh/src/gsm_driver.c:60-   *)
(* 161): send_at_command with its guard times around a text that begins    *)
(* with '+', gsm_modem_init, the console loop of main, and                 *)
(* get_signal_strength, which switches the modem to command mode, asks for *)
(* the signal and reads the answers from uart_msgq.                        *)
(*                                                                         *)
(* The modem is external: in data mode it takes everything for payload,    *)
(* except "+++" with silence before and after it.  A line it sends is a    *)
(* signal strength ("+CSQ: n,m", parsed to n) or any OtherLine (an echo of *)
(* AT+CSQ holds no token after ": " and is one of these).  SerialRx        *)
(* justifies the queue of whole lines; time is counted in ticks.           *)
(***************************************************************************)
EXTENDS Naturals, Sequences

CONSTANTS InitCommands,   \* gsm_init_commands, a sequence
          ConsoleInputs,  \* what the user types
          Strengths,      \* signal strengths the modem reports
          OtherLine,          \* any other line
          GuardTicks,     \* the 1000 ms of my_sync_timer
          SleepTicks,     \* the 2000 ms of k_msleep
          ModemGuard,     \* silence that the modem asks for around "+++"
          QueueSize,      \* UART_MAX_MSG_QUEUE_SIZE
          MaxInputs,      \* bound: lines typed
          MaxLines        \* bound: lines the modem sends

ASSUME QueryAssumption ==
  /\ InitCommands \in Seq(STRING)
  /\ ConsoleInputs \subseteq STRING
  /\ Strengths \subseteq Nat
  /\ OtherLine \notin Strengths
  /\ GuardTicks \in Nat \ {0}
  /\ SleepTicks \in Nat \ {0}
  /\ ModemGuard \in 1 .. GuardTicks
  /\ QueueSize \in Nat \ {0}
  /\ MaxInputs \in Nat
  /\ MaxLines \in Nat

(* All that send_at_command is given; "none" before its first call. *)
Commands == ConsoleInputs \cup {InitCommands[n] : n \in DOMAIN InitCommands}
              \cup {"+++", "AT+CSQ", "none"}

VARIABLES at,         \* the caller: "init", "console", or a step of get_signal_strength
          inits,      \* commands of gsm_modem_init sent
          cmd,        \* the argument of send_at_command
          tx,         \* where send_at_command is, "idle" when not in it
          timer,      \* ticks until my_sync_timer or k_msleep ends
          strength,   \* signal_strength
          uart_msgq,
          modem,      \* "command" or "data"
          escape,     \* the modem has heard "+++" and waits for silence
          silence,    \* ticks since the last byte to the modem, at most ModemGuard
          asked,      \* AT+CSQ has reached the modem and is not answered
          reported,   \* history: the strength the modem reported last, 0 if none
          dropped,    \* history: that report found the queue full
          inputs,     \* counts up to MaxInputs
          lines       \* counts up to MaxLines

modemVars == <<modem, escape, silence, asked>>
queueVars == <<uart_msgq, reported, dropped, lines>>
vars == <<at, inits, cmd, tx, timer, strength, uart_msgq, modem, escape,
          silence, asked, reported, dropped, inputs, lines>>

Init ==
  /\ at = "init"
  /\ inits = 0
  /\ cmd = "none"
  /\ tx = "idle"
  /\ timer = 0
  /\ strength = 0
  /\ uart_msgq = <<>>
  /\ modem \in {"command", "data"}
  /\ escape = FALSE
  /\ silence = 0
  /\ asked = FALSE
  /\ reported = 0
  /\ dropped = FALSE
  /\ inputs = 0
  /\ lines = 0

-----------------------------------------------------------------------------
StartsWithPlus(c) == c \in {"+++", "+KCNX"}

(* send_at_command(c) is called: a '+' starts the first guard time. *)
SendAtCommand(c) ==
  /\ tx = "idle"
  /\ cmd' = c
  /\ IF StartsWithPlus(c)
     THEN tx' = "guard_before" /\ timer' = GuardTicks
     ELSE tx' = "bytes" /\ timer' = 0
  /\ UNCHANGED <<modemVars, queueVars, strength>>

(* gsm_modem_init sends the next command. *)
ModemInit ==
  /\ at = "init"
  /\ inits < Len(InitCommands)
  /\ SendAtCommand(InitCommands[inits + 1])
  /\ inits' = inits + 1
  /\ UNCHANGED <<at, inputs>>

ModemInitDone ==
  /\ at = "init"
  /\ tx = "idle"
  /\ inits = Len(InitCommands)
  /\ at' = "console"
  /\ UNCHANGED <<inits, cmd, tx, timer, strength, queueVars, modemVars, inputs>>

(* The console loop of main sends what is typed. *)
Console ==
  /\ at = "console"
  /\ inputs < MaxInputs
  /\ \E c \in ConsoleInputs : SendAtCommand(c)
  /\ inputs' = inputs + 1
  /\ UNCHANGED <<at, inits>>

(* get_signal_strength: "+++", "AT+CSQ", then the reading loop. *)
CallGetSignalStrength ==
  /\ at = "console"
  /\ at' = "escape"
  /\ SendAtCommand("+++")
  /\ UNCHANGED <<inits, inputs>>

AskCsq ==
  /\ at = "escape"
  /\ at' = "ask"
  /\ SendAtCommand("AT+CSQ")
  /\ UNCHANGED <<inits, inputs>>

StartDrain ==
  /\ at = "ask"
  /\ tx = "idle"
  /\ at' = "drain"
  /\ strength' = 0
  /\ UNCHANGED <<inits, cmd, tx, timer, queueVars, modemVars, inputs>>

(* while (k_msgq_get(..., K_FOREVER) == 0): it never returns anything but  *)
(* 0, so the loop has no exit; each strength replaces the one before.      *)
FirstStrengthWins ==
  /\ at = "drain"
  /\ uart_msgq # <<>>
  /\ uart_msgq' = Tail(uart_msgq)
  /\ strength' = IF Head(uart_msgq) \in Strengths /\ strength = 0
                 THEN Head(uart_msgq) ELSE strength
  /\ UNCHANGED <<at, inits, cmd, tx, timer, reported, dropped, lines, modemVars,
                 inputs>>
DrainOne ==
  /\ at = "drain"
  /\ uart_msgq # <<>>
  /\ uart_msgq' = Tail(uart_msgq)
  /\ strength' = IF Head(uart_msgq) \in Strengths THEN Head(uart_msgq) ELSE strength
  /\ UNCHANGED <<at, inits, cmd, tx, timer, reported, dropped, lines, modemVars,
                 inputs>>

-----------------------------------------------------------------------------
threadRest == <<at, inits, cmd, strength, queueVars, inputs>>

(* With a periodic timer the status would never be 0 again. *)
GuardOverPeriodic ==
  /\ tx \in {"guard_before", "guard_after"}
  /\ timer = 0
  /\ timer' = GuardTicks
  /\ UNCHANGED <<threadRest, tx, modemVars>>

(* The guard time is over: k_timer_status_sync has returned. *)
GuardOver ==
  /\ tx \in {"guard_before", "guard_after"}
  /\ timer = 0
  /\ tx' = IF tx = "guard_before" THEN "bytes" ELSE "newline"
  /\ UNCHANGED <<threadRest, timer, modemVars>>

PutBytesNoGuard ==
  /\ tx = "bytes"
  /\ tx' = "newline"
  /\ silence' = 0
  /\ escape' = (cmd = "+++" /\ modem = "data" /\ silence = ModemGuard)
  /\ UNCHANGED <<threadRest, timer, modem, asked>>

(* The bytes go out; a '+' starts the second guard time.  The modem hears  *)
(* an escape sequence if silence went before.                              *)
PutBytes ==
  /\ tx = "bytes"
  /\ IF StartsWithPlus(cmd)
     THEN tx' = "guard_after" /\ timer' = GuardTicks
     ELSE tx' = "newline" /\ UNCHANGED timer
  /\ silence' = 0
  /\ escape' = (cmd = "+++" /\ modem = "data" /\ silence = ModemGuard)
  /\ UNCHANGED <<threadRest, modem, asked>>

(* The '\n' goes out; in command mode the modem executes the command.      *)
(* At+ktcpstart=1 opens the connection, or fails to.                       *)
PutNewline ==
  /\ tx = "newline"
  /\ tx' = "sleep"
  /\ timer' = SleepTicks
  /\ silence' = 0
  /\ escape' = FALSE
  /\ modem' \in IF modem = "command" /\ cmd = "At+ktcpstart=1"
                THEN {"command", "data"} ELSE {modem}
  /\ asked' = (asked \/ (modem = "command" /\ cmd = "AT+CSQ"))
  /\ UNCHANGED threadRest

(* send_at_command returns; gsm_modem_init then sleeps again. *)
SleepOver ==
  /\ timer = 0
  /\ \/ tx = "sleep" /\ at = "init" /\ tx' = "pause" /\ timer' = SleepTicks
     \/ tx = "sleep" /\ at # "init" /\ tx' = "idle" /\ UNCHANGED timer
     \/ tx = "pause" /\ tx' = "idle" /\ UNCHANGED timer
  /\ UNCHANGED <<threadRest, modemVars>>

(* Time passes; after enough silence the modem obeys an escape sequence. *)
Tick ==
  /\ timer > 0 \/ silence < ModemGuard
  /\ timer' = IF timer > 0 THEN timer - 1 ELSE 0
  /\ silence' = IF silence < ModemGuard THEN silence + 1 ELSE silence
  /\ IF escape /\ silence' = ModemGuard
     THEN modem' = "command" /\ escape' = FALSE
     ELSE UNCHANGED <<modem, escape>>
  /\ UNCHANGED <<threadRest, tx, asked>>

QueueHasRoomOrOneOver == Len(uart_msgq) <= QueueSize
QueueHasRoom == Len(uart_msgq) < QueueSize

(* A line from the modem is queued, or dropped when the queue is full. *)
Enqueue(line) ==
  /\ lines < MaxLines
  /\ lines' = lines + 1
  /\ uart_msgq' = IF QueueHasRoom THEN Append(uart_msgq, line) ELSE uart_msgq
  /\ IF line \in Strengths
     THEN reported' = line /\ dropped' = ~QueueHasRoom
     ELSE UNCHANGED <<reported, dropped>>
  /\ UNCHANGED <<at, inits, cmd, tx, timer, strength, modem, escape, silence, inputs>>

Answer == asked /\ asked' = FALSE /\ \E s \in Strengths : Enqueue(s)

Unsolicited == UNCHANGED asked /\ Enqueue(OtherLine)

Thread ==
  \/ ModemInit
  \/ ModemInitDone
  \/ AskCsq
  \/ StartDrain
  \/ DrainOne
  \/ GuardOver
  \/ PutBytes
  \/ PutNewline
  \/ SleepOver

Next ==
  \/ ModemInit
  \/ ModemInitDone
  \/ Console
  \/ CallGetSignalStrength
  \/ AskCsq
  \/ StartDrain
  \/ DrainOne
  \/ GuardOver
  \/ PutBytes
  \/ PutNewline
  \/ SleepOver
  \/ Tick
  \/ Answer
  \/ Unsolicited

Spec == Init /\ [][Next]_vars

(* The thread runs when it can, time passes, and the modem answers. *)
FairSpec == Spec /\ WF_vars(Thread) /\ WF_vars(Tick) /\ WF_vars(Answer)

-----------------------------------------------------------------------------
(* Type correctness. *)
TypeOK ==
  /\ at \in {"init", "console", "escape", "ask", "drain"}
  /\ inits \in 0 .. Len(InitCommands)
  /\ cmd \in Commands
  /\ tx \in {"idle", "guard_before", "bytes", "guard_after", "newline", "sleep", "pause"}
  /\ timer \in Nat
  /\ timer > 0 => tx \in {"guard_before", "guard_after", "sleep", "pause"}
  /\ strength \in Strengths \cup {0}
  /\ uart_msgq \in Seq(Strengths \cup {OtherLine})
  /\ Len(uart_msgq) <= QueueSize
  /\ modem \in {"command", "data"}
  /\ escape \in BOOLEAN
  /\ silence \in 0 .. ModemGuard
  /\ asked \in BOOLEAN
  /\ reported \in Strengths \cup {0}
  /\ dropped \in BOOLEAN
  /\ inputs \in Nat
  /\ lines \in Nat

(* get_signal_strength never sends AT+CSQ to the server as payload: the    *)
(* guard times have put the modem into command mode, whatever was sent     *)
(* before and at whatever speed (gsm_driver.c:71-84, 143-145).             *)
QueryInCommandMode ==
  at = "ask" /\ tx \in {"bytes", "newline"} => modem = "command"

(* Once the queue is empty the parsed strength is the one that the modem   *)
(* reported last, whatever lines earlier traffic left in the queue         *)
(* (147-156).  Only a full uart_msgq, which nobody has read and which      *)
(* silently drops that very report (119-120), lets an older strength pass  *)
(* for the answer.                                                         *)
StrengthIsLatest ==
  at = "drain" /\ uart_msgq = <<>> => strength = reported \/ dropped

(* A command that has begun is over after finitely many steps: the guard   *)
(* loops on k_timer_status_sync end (gsm_driver.c:75, 84).                 *)
CommandEnds == (tx # "idle") ~> (tx = "idle")

-----------------------------------------------------------------------------
(* gsm_driver.c:160: "Return 0 or an error code if signal strength is not  *)
(* found" - get_signal_strength returns.                                   *)
QueryReturns == (at = "drain") ~> (at = "console")
=============================================================================

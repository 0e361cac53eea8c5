--------------------------- MODULE SignalQueryProofs ---------------------------
(***************************************************************************)
(* Proofs about SignalQuery, for all commands, strengths, guard times and  *)
(* sizes of the queue: AT+CSQ meets a modem in command mode, and the       *)
(* strength that has been parsed when the queue is empty is the latest,    *)
(* unless the queue was full when that one came.                           *)
(***************************************************************************)
EXTENDS SignalQuery, SequenceTheorems, TLAPS

(* While a guard time runs, the silence on the line grows with it. *)
GuardInv ==
  /\ tx \in {"guard_before", "guard_after"} => silence + timer >= ModemGuard
  /\ tx = "bytes" /\ StartsWithPlus(cmd) => silence = ModemGuard

(* An escape sequence is pending only until the line has been silent for   *)
(* long enough, and has found the modem in data mode.                      *)
EscapeInv == escape => silence < ModemGuard

(* How far get_signal_strength is in making the modem listen. *)
CallInv ==
  /\ at = "escape" =>
       /\ cmd = "+++"
       /\ tx \in {"idle", "guard_before", "bytes", "guard_after", "newline", "sleep"}
       /\ tx = "guard_after" => modem = "command" \/ escape
       /\ tx \in {"newline", "sleep", "idle"} => modem = "command"
  /\ at = "ask" => cmd = "AT+CSQ" /\ modem = "command"
                   /\ tx \in {"idle", "bytes", "newline", "sleep"}
  /\ at = "drain" => tx = "idle"

(* Of the strengths still in the queue the last is the one reported last;  *)
(* if there is none, that one has been read, or none has been reported.    *)
(* Nothing of the kind holds once a full queue has dropped the last one.   *)
Unread(s) ==
  \E n \in 1 .. Len(uart_msgq) :
    /\ uart_msgq[n] = s
    /\ \A m \in n + 1 .. Len(uart_msgq) : uart_msgq[m] \notin Strengths

LastReport ==
  IF \E n \in 1 .. Len(uart_msgq) : uart_msgq[n] \in Strengths
  THEN reported \in Strengths /\ Unread(reported)
  ELSE reported = IF at = "drain" THEN strength ELSE 0

LatestInv == ~dropped => LastReport

IInv == TypeOK /\ GuardInv /\ EscapeInv /\ CallInv /\ LatestInv

-----------------------------------------------------------------------------
LEMMA InitIInv == Init => IInv
<1> SUFFICES ASSUME Init PROVE IInv
  OBVIOUS
<1> USE QueryAssumption DEF QueryAssumption
<1>1. TypeOK
  <2>1. <<>> \in Seq(Strengths \cup {OtherLine}) /\ Len(<<>>) = 0
    BY EmptySeq
  <2>2. Len(InitCommands) \in Nat
    BY LenProperties
  <2>3. cmd \in Commands
    BY DEF Init, Commands
  <2>4. uart_msgq \in Seq(Strengths \cup {OtherLine}) /\ Len(uart_msgq) <= QueueSize
    BY <2>1 DEF Init
  <2>5. inits \in 0 .. Len(InitCommands) /\ silence \in 0 .. ModemGuard
    BY <2>2 DEF Init
  <2>6. /\ at \in {"init", "console", "escape", "ask", "drain"}
        /\ tx \in {"idle", "guard_before", "bytes", "guard_after", "newline", "sleep", "pause"}
        /\ modem \in {"command", "data"}
        /\ escape \in BOOLEAN /\ asked \in BOOLEAN /\ dropped \in BOOLEAN
    BY DEF Init
  <2>7. /\ timer \in Nat /\ ~(timer > 0)
        /\ strength \in Strengths \cup {0} /\ reported \in Strengths \cup {0}
        /\ inputs \in Nat /\ lines \in Nat
    BY DEF Init
  <2> QED BY <2>3, <2>4, <2>5, <2>6, <2>7 DEF TypeOK
<1>2. GuardInv /\ EscapeInv /\ CallInv
  BY DEF Init, GuardInv, EscapeInv, CallInv
<1>3. LatestInv
  BY DEF Init, LatestInv, LastReport
<1> QED BY <1>1, <1>2, <1>3 DEF IInv

-----------------------------------------------------------------------------
(* The queue and what is known of it, when a step leaves both alone. *)
LEMMA LatestKept ==
  ASSUME LatestInv, UNCHANGED <<uart_msgq, reported, dropped, strength>>,
         at' = "drain" <=> at = "drain"
  PROVE  LatestInv'
BY DEF LatestInv, LastReport, Unread

LEMMA SendAtCommandTypes ==
  ASSUME IInv, NEW c \in Commands, SendAtCommand(c)
  PROVE  /\ tx = "idle" /\ cmd' = c
         /\ UNCHANGED <<modemVars, queueVars, strength>>
         /\ tx' = IF StartsWithPlus(c) THEN "guard_before" ELSE "bytes"
         /\ timer' = IF StartsWithPlus(c) THEN GuardTicks ELSE 0
         /\ timer' \in Nat
         /\ GuardInv'
<1>1. GuardTicks \in Nat /\ ModemGuard \in 1 .. GuardTicks
  BY QueryAssumption DEF QueryAssumption
<1>2. /\ tx = "idle" /\ cmd' = c
      /\ UNCHANGED <<modemVars, queueVars, strength>>
      /\ tx' = IF StartsWithPlus(c) THEN "guard_before" ELSE "bytes"
      /\ timer' = IF StartsWithPlus(c) THEN GuardTicks ELSE 0
  BY DEF SendAtCommand
<1>3. GuardInv'
  BY <1>1, <1>2 DEF GuardInv, IInv, TypeOK, StartsWithPlus, modemVars
<1> QED BY <1>1, <1>2, <1>3

(* A command of gsm_modem_init or of the console. *)
LEMMA SendIInv ==
  ASSUME IInv, ModemInit \/ Console
  PROVE  IInv'
<1>1. PICK c \in Commands : SendAtCommand(c)
  <2>1. CASE ModemInit
    <3>1. InitCommands \in Seq(STRING) /\ inits + 1 \in 1 .. Len(InitCommands)
      BY <2>1, QueryAssumption DEF QueryAssumption, ModemInit, IInv, TypeOK
    <3>2. InitCommands[inits + 1] \in Commands
      BY <3>1, LenProperties DEF Commands
    <3> QED BY <2>1, <3>2 DEF ModemInit
  <2>2. CASE Console
    BY <2>2 DEF Console, Commands
  <2> QED BY <2>1, <2>2
<1>2. /\ at' = at /\ at \in {"init", "console"}
      /\ inits' \in 0 .. Len(InitCommands)
      /\ inputs' \in Nat
  BY QueryAssumption DEF QueryAssumption, ModemInit, Console, IInv, TypeOK
<1>3. /\ cmd' = c /\ UNCHANGED <<modemVars, queueVars, strength>>
      /\ tx' = IF StartsWithPlus(c) THEN "guard_before" ELSE "bytes"
      /\ timer' = IF StartsWithPlus(c) THEN GuardTicks ELSE 0
      /\ timer' \in Nat
      /\ GuardInv'
  BY <1>1, SendAtCommandTypes
<1>4. TypeOK'
  BY <1>2, <1>3 DEF IInv, TypeOK, modemVars, queueVars
<1>5. EscapeInv' /\ CallInv' /\ LatestInv'
  BY <1>2, <1>3, LatestKept DEF IInv, EscapeInv, CallInv, modemVars, queueVars
<1> QED BY <1>3, <1>4, <1>5 DEF IInv

(* The two commands of get_signal_strength. *)
LEMMA QueryIInv ==
  ASSUME IInv, CallGetSignalStrength \/ AskCsq
  PROVE  IInv'
<1>1. PICK c \in {"+++", "AT+CSQ"} :
        /\ SendAtCommand(c)
        /\ c = "+++" => at' = "escape"
        /\ c = "AT+CSQ" => at = "escape" /\ at' = "ask"
  BY DEF CallGetSignalStrength, AskCsq
<1>2. at # "drain" /\ at' # "drain" /\ UNCHANGED <<inits, inputs>>
  BY DEF CallGetSignalStrength, AskCsq
<1>3. /\ tx = "idle" /\ cmd' = c /\ UNCHANGED <<modemVars, queueVars, strength>>
      /\ tx' = IF StartsWithPlus(c) THEN "guard_before" ELSE "bytes"
      /\ timer' = IF StartsWithPlus(c) THEN GuardTicks ELSE 0
      /\ timer' \in Nat
      /\ GuardInv'
  <2>1. c \in Commands
    BY DEF Commands
  <2> QED BY <1>1, <2>1, SendAtCommandTypes
<1>4. TypeOK'
  <2>1. cmd' \in Commands
    BY <1>3 DEF Commands
  <2> QED BY <1>1, <1>2, <1>3, <2>1 DEF IInv, TypeOK, modemVars, queueVars
<1>5. CallInv'
  BY <1>1, <1>3 DEF IInv, CallInv, StartsWithPlus, modemVars
<1>6. EscapeInv' /\ LatestInv'
  BY <1>2, <1>3, LatestKept DEF IInv, EscapeInv, modemVars, queueVars
<1> QED BY <1>3, <1>4, <1>5, <1>6 DEF IInv

LEMMA StepsIInv ==
  ASSUME IInv, ModemInitDone \/ StartDrain
  PROVE  IInv'
<1>1. /\ UNCHANGED <<inits, cmd, tx, timer, queueVars, modemVars, inputs>>
      /\ tx = "idle" /\ at # "drain"
      /\ \/ at' = "console" /\ UNCHANGED strength
         \/ at' = "drain" /\ strength' = 0
  BY DEF ModemInitDone, StartDrain
<1>2. TypeOK' /\ GuardInv' /\ EscapeInv' /\ CallInv'
  BY <1>1 DEF IInv, TypeOK, GuardInv, EscapeInv, CallInv, modemVars, queueVars
<1>3. LatestInv'
  BY <1>1 DEF IInv, LatestInv, LastReport, Unread, queueVars
<1> QED BY <1>2, <1>3 DEF IInv

-----------------------------------------------------------------------------
(* The reading loop takes the oldest line. *)
LEMMA DrainOneIInv ==
  ASSUME IInv, DrainOne
  PROVE  IInv'
<1> DEFINE q == uart_msgq
           Lines == Strengths \cup {OtherLine}
<1>1. /\ at = "drain" /\ q # <<>> /\ q' = Tail(q)
      /\ strength' = IF Head(q) \in Strengths THEN Head(q) ELSE strength
      /\ UNCHANGED <<at, inits, cmd, tx, timer, reported, dropped, lines, modemVars, inputs>>
  BY DEF DrainOne
<1>2. /\ q \in Seq(Lines) /\ Len(q) \in Nat /\ Len(q) > 0
      /\ Head(q) = q[1]
      /\ Tail(q) \in Seq(Lines) /\ Len(Tail(q)) = Len(q) - 1
      /\ \A n \in 1 .. Len(Tail(q)) : Tail(q)[n] = q[n + 1]
  BY <1>1, HeadTailProperties, EmptySeq DEF IInv, TypeOK
<1>3. TypeOK'
  BY <1>1, <1>2, QueryAssumption DEF QueryAssumption, IInv, TypeOK, modemVars
<1>4. GuardInv' /\ EscapeInv' /\ CallInv'
  BY <1>1 DEF IInv, GuardInv, EscapeInv, CallInv, modemVars
<1>5. ASSUME ~dropped, LastReport
      PROVE  LastReport'
  <2>1. CASE \E n \in 1 .. Len(q) - 1 : q[n + 1] \in Strengths
    <3>1. reported \in Strengths /\ Unread(reported)
      <4>1. \E n \in 1 .. Len(q) : q[n] \in Strengths
        BY <1>2, <2>1
      <4> QED BY <1>5, <4>1 DEF LastReport
    <3>2. PICK n \in 1 .. Len(q) : /\ q[n] = reported
                                   /\ \A m \in n + 1 .. Len(q) : q[m] \notin Strengths
      BY <3>1 DEF Unread
    <3>3. n # 1
      BY <1>2, <2>1, <3>2
    <3>4. /\ n - 1 \in 1 .. Len(q') /\ q'[n - 1] = reported
          /\ \A m \in n - 1 + 1 .. Len(q') : q'[m] \notin Strengths
      BY <1>1, <1>2, <3>2, <3>3
    <3>5. Unread(reported)'
      BY <1>1, <3>4 DEF Unread
    <3> QED BY <1>1, <3>1, <3>4, <3>5 DEF LastReport
  <2>2. CASE ~ \E n \in 1 .. Len(q) - 1 : q[n + 1] \in Strengths
    <3>1. \A n \in 2 .. Len(q) : q[n] \notin Strengths
      <4> TAKE n \in 2 .. Len(q)
      <4>1. n - 1 \in 1 .. Len(q) - 1 /\ n - 1 + 1 = n
        BY <1>2
      <4> QED BY <2>2, <4>1
    <3>2. ~ \E n \in 1 .. Len(q') : q'[n] \in Strengths
      BY <1>1, <1>2, <2>2
    <3>3. reported = strength'
      <4>1. CASE q[1] \in Strengths
        <5>1. Unread(reported)
          BY <1>2, <1>5, <4>1 DEF LastReport
        <5>2. PICK n \in 1 .. Len(q) : /\ q[n] = reported
                                       /\ \A m \in n + 1 .. Len(q) : q[m] \notin Strengths
          BY <5>1 DEF Unread
        <5>3. reported \in Strengths
          BY <1>2, <1>5, <4>1 DEF LastReport
        <5>4. n = 1
          BY <1>2, <3>1, <5>2, <5>3
        <5> QED BY <1>1, <1>2, <4>1, <5>2, <5>4
      <4>2. CASE q[1] \notin Strengths
        <5>1. ~ \E n \in 1 .. Len(q) : q[n] \in Strengths
          BY <1>2, <3>1, <4>2
        <5> QED BY <1>1, <1>2, <4>2, <5>1, <1>5 DEF LastReport
      <4> QED BY <4>1, <4>2
    <3> QED BY <1>1, <3>2, <3>3 DEF LastReport
  <2> QED BY <2>1, <2>2
<1>6. LatestInv'
  BY <1>1, <1>5 DEF IInv, LatestInv
<1> QED BY <1>3, <1>4, <1>6 DEF IInv

-----------------------------------------------------------------------------
(* Inside send_at_command. *)
LEMMA SendingIInv ==
  ASSUME IInv, UNCHANGED threadRest, GuardInv', EscapeInv', CallInv',
         tx' \in {"idle", "guard_before", "bytes", "guard_after", "newline", "sleep", "pause"},
         timer' \in Nat,
         timer' > 0 => tx' \in {"guard_before", "guard_after", "sleep", "pause"},
         modem' \in {"command", "data"}, escape' \in BOOLEAN,
         silence' \in 0 .. ModemGuard, asked' \in BOOLEAN
  PROVE  IInv'
<1>1. TypeOK'
  BY DEF IInv, TypeOK, threadRest, queueVars
<1>2. LatestInv'
  BY LatestKept DEF IInv, threadRest, queueVars
<1> QED BY <1>1, <1>2 DEF IInv

(* When the second guard time is over the modem has obeyed. *)
LEMMA GuardOverIInv ==
  ASSUME IInv, GuardOver
  PROVE  IInv'
<1> USE QueryAssumption DEF QueryAssumption, IInv, TypeOK
<1>1. /\ tx \in {"guard_before", "guard_after"} /\ timer = 0
      /\ tx' = IF tx = "guard_before" THEN "bytes" ELSE "newline"
      /\ UNCHANGED <<threadRest, timer, modemVars>>
  BY DEF GuardOver
<1>2. silence = ModemGuard
  BY <1>1 DEF GuardInv
<1>3. GuardInv' /\ EscapeInv'
  BY <1>1, <1>2 DEF GuardInv, EscapeInv, modemVars
<1>4. CallInv'
  BY <1>1, <1>2 DEF EscapeInv, CallInv, threadRest, modemVars
<1> QED BY <1>1, <1>3, <1>4, SendingIInv DEF modemVars

LEMMA PutBytesIInv ==
  ASSUME IInv, PutBytes
  PROVE  IInv'
<1> USE QueryAssumption DEF QueryAssumption, IInv, TypeOK
<1>1. /\ tx = "bytes"
      /\ IF StartsWithPlus(cmd)
         THEN tx' = "guard_after" /\ timer' = GuardTicks
         ELSE tx' = "newline" /\ UNCHANGED timer
      /\ silence' = 0
      /\ escape' = (cmd = "+++" /\ modem = "data" /\ silence = ModemGuard)
      /\ UNCHANGED <<threadRest, modem, asked>>
  BY DEF PutBytes
<1>2. GuardInv' /\ EscapeInv'
  BY <1>1 DEF GuardInv, EscapeInv
<1>3. CallInv'
  BY <1>1 DEF GuardInv, CallInv, StartsWithPlus, threadRest
<1> QED BY <1>1, <1>2, <1>3, SendingIInv

LEMMA PutNewlineIInv ==
  ASSUME IInv, PutNewline
  PROVE  IInv'
<1> USE QueryAssumption DEF QueryAssumption, IInv, TypeOK
<1>1. /\ tx = "newline" /\ tx' = "sleep" /\ timer' = SleepTicks
      /\ silence' = 0 /\ escape' = FALSE
      /\ modem' \in IF modem = "command" /\ cmd = "At+ktcpstart=1"
                    THEN {"command", "data"} ELSE {modem}
      /\ asked' = (asked \/ (modem = "command" /\ cmd = "AT+CSQ"))
      /\ UNCHANGED threadRest
  BY DEF PutNewline
<1>2. GuardInv' /\ EscapeInv' /\ CallInv'
  BY <1>1 DEF GuardInv, EscapeInv, CallInv, threadRest
<1>3. /\ asked' \in BOOLEAN /\ timer' \in Nat /\ silence' \in 0 .. ModemGuard
      /\ modem' \in {"command", "data"}
  BY <1>1
<1> QED BY <1>1, <1>2, <1>3, SendingIInv

LEMMA SleepOverIInv ==
  ASSUME IInv, SleepOver
  PROVE  IInv'
<1> USE QueryAssumption DEF QueryAssumption, IInv, TypeOK
<1>1. /\ timer = 0 /\ tx \in {"sleep", "pause"}
      /\ \/ at = "init" /\ tx' = "pause" /\ timer' = SleepTicks
         \/ tx' = "idle" /\ timer' = 0
      /\ UNCHANGED <<threadRest, modemVars>>
  BY DEF SleepOver
<1>2. GuardInv' /\ EscapeInv' /\ CallInv'
  BY <1>1 DEF GuardInv, EscapeInv, CallInv, threadRest, modemVars
<1> QED BY <1>1, <1>2, SendingIInv DEF modemVars

(* A tick shortens the guard time as much as it lengthens the silence. *)
LEMMA TickIInv ==
  ASSUME IInv, Tick
  PROVE  IInv'
<1> USE QueryAssumption DEF QueryAssumption, IInv, TypeOK
<1>1. /\ timer' = IF timer > 0 THEN timer - 1 ELSE 0
      /\ silence' = IF silence < ModemGuard THEN silence + 1 ELSE silence
      /\ IF escape /\ silence' = ModemGuard
         THEN modem' = "command" /\ escape' = FALSE
         ELSE UNCHANGED <<modem, escape>>
      /\ UNCHANGED <<threadRest, tx, asked>>
  BY DEF Tick
<1>2. GuardInv'
  BY <1>1 DEF GuardInv, threadRest
<1>3. EscapeInv' /\ CallInv'
  BY <1>1 DEF EscapeInv, CallInv, threadRest
<1>4. silence' \in 0 .. ModemGuard /\ timer' \in Nat /\ (timer' > 0 => timer > 0)
  BY <1>1
<1>5. modem' \in {"command", "data"} /\ escape' \in BOOLEAN
  BY <1>1
<1> QED BY <1>1, <1>2, <1>3, <1>4, <1>5, SendingIInv

-----------------------------------------------------------------------------
(* A line from the modem. *)
LEMMA EnqueueIInv ==
  ASSUME IInv, NEW line \in Strengths \cup {OtherLine}, Enqueue(line),
         asked' \in BOOLEAN
  PROVE  IInv'
<1> DEFINE q == uart_msgq
<1>1. /\ lines' = lines + 1
      /\ UNCHANGED <<at, inits, cmd, tx, timer, strength, modem, escape, silence, inputs>>
      /\ q' = IF QueueHasRoom THEN Append(q, line) ELSE q
      /\ IF line \in Strengths
         THEN reported' = line /\ dropped' = ~QueueHasRoom
         ELSE UNCHANGED <<reported, dropped>>
  BY DEF Enqueue
<1>2. GuardInv' /\ EscapeInv' /\ CallInv'
  BY <1>1 DEF IInv, GuardInv, EscapeInv, CallInv
<1>3. CASE ~QueueHasRoom
  <2>1. TypeOK'
    <3>1. dropped' \in BOOLEAN /\ reported' \in Strengths \cup {0}
      BY <1>1, <1>3 DEF IInv, TypeOK
    <3> QED BY <1>1, <1>3, <3>1 DEF IInv, TypeOK
  <2>2. LatestInv'
    <3>1. CASE line \in Strengths
      BY <1>1, <1>3, <3>1 DEF LatestInv
    <3>2. CASE line \notin Strengths
      BY <1>1, <1>3, <3>2, LatestKept DEF IInv
    <3> QED BY <3>1, <3>2
  <2> QED BY <1>2, <2>1, <2>2 DEF IInv
<1>4. CASE QueueHasRoom
  <2>1. /\ q' \in Seq(Strengths \cup {OtherLine})
        /\ Len(q) \in Nat /\ Len(q') = Len(q) + 1
        /\ \A n \in 1 .. Len(q) : q'[n] = q[n]
        /\ q'[Len(q) + 1] = line
    BY <1>1, <1>4, AppendProperties, LenProperties DEF IInv, TypeOK
  <2>2. TypeOK'
    <3>1. dropped' \in BOOLEAN /\ reported' \in Strengths \cup {0}
      BY <1>1, <1>4 DEF IInv, TypeOK
    <3> QED BY <1>1, <1>4, <2>1, <3>1, QueryAssumption
            DEF QueryAssumption, IInv, TypeOK, QueueHasRoom
  <2>3. LatestInv'
    <3>1. CASE line \in Strengths
      <4>1. reported' = line
        BY <1>1, <3>1
      <4>2. Unread(reported)'
        BY <2>1, <4>1 DEF Unread
      <4>3. \E n \in 1 .. Len(q') : q'[n] \in Strengths
        BY <2>1, <3>1
      <4> QED BY <3>1, <4>1, <4>2, <4>3 DEF LatestInv, LastReport
    <3>2. CASE line \notin Strengths
      <4>1. reported' = reported /\ dropped' = dropped
        BY <1>1, <3>2
      <4>2. ASSUME LastReport, \E n \in 1 .. Len(q) : q[n] \in Strengths
            PROVE  LastReport'
        <5>1. reported \in Strengths /\ Unread(reported)
          BY <4>2 DEF LastReport
        <5>2. PICK n \in 1 .. Len(q) : /\ q[n] = reported
                                       /\ \A m \in n + 1 .. Len(q) : q[m] \notin Strengths
          BY <5>1 DEF Unread
        <5>3. /\ n \in 1 .. Len(q') /\ q'[n] = reported
              /\ \A m \in n + 1 .. Len(q') : q'[m] \notin Strengths
          BY <2>1, <3>2, <5>2
        <5>4. Unread(reported)'
          BY <4>1, <5>3 DEF Unread
        <5> QED BY <4>1, <5>1, <5>3, <5>4 DEF LastReport
      <4>3. ASSUME LastReport, ~ \E n \in 1 .. Len(q) : q[n] \in Strengths
            PROVE  LastReport'
        <5>1. ~ \E n \in 1 .. Len(q') : q'[n] \in Strengths
          BY <2>1, <3>2, <4>3
        <5> QED BY <1>1, <4>1, <4>3, <5>1 DEF LastReport
      <4> QED BY <4>1, <4>2, <4>3 DEF IInv, LatestInv
    <3> QED BY <3>1, <3>2
  <2> QED BY <1>2, <2>2, <2>3 DEF IInv
<1> QED BY <1>3, <1>4

LEMMA StepIInv == IInv /\ [Next]_vars => IInv'
<1> SUFFICES ASSUME IInv, [Next]_vars PROVE IInv'
  OBVIOUS
<1>1. CASE ModemInit \/ Console
  BY <1>1, SendIInv
<1>2. CASE CallGetSignalStrength \/ AskCsq
  BY <1>2, QueryIInv
<1>3. CASE ModemInitDone \/ StartDrain
  BY <1>3, StepsIInv
<1>4. CASE DrainOne
  BY <1>4, DrainOneIInv
<1>5. CASE GuardOver \/ PutBytes \/ PutNewline \/ SleepOver
  BY <1>5, GuardOverIInv, PutBytesIInv, PutNewlineIInv, SleepOverIInv
<1>6. CASE Tick
  BY <1>6, TickIInv
<1>7. CASE Answer
  BY <1>7, EnqueueIInv DEF Answer
<1>8. CASE Unsolicited
  <2>1. asked' \in BOOLEAN /\ Enqueue(OtherLine)
    BY <1>8 DEF Unsolicited, IInv, TypeOK
  <2> QED BY <2>1, EnqueueIInv
<1>9. CASE UNCHANGED vars
  <2>1. TypeOK' /\ GuardInv' /\ EscapeInv' /\ CallInv'
    BY <1>9 DEF IInv, TypeOK, GuardInv, EscapeInv, CallInv, vars
  <2>2. LatestInv'
    BY <1>9, LatestKept DEF IInv, vars
  <2> QED BY <2>1, <2>2 DEF IInv
<1> QED BY <1>1, <1>2, <1>3, <1>4, <1>5, <1>6, <1>7, <1>8, <1>9 DEF Next

LEMMA Invariant == Spec => []IInv
<1> QED BY InitIInv, StepIInv, PTL DEF Spec

-----------------------------------------------------------------------------
(* The driver's state stays within its types, uart_msgq within its size    *)
(* (send_at_command, get_signal_strength).                                 *)
THEOREM TypeCorrect == Spec => []TypeOK
<1>1. IInv => TypeOK
  BY DEF IInv
<1> QED BY <1>1, Invariant, PTL

(* AT+CSQ never goes to the server: the silences before and after "+++"    *)
(* that my_sync_timer waits for have made the modem leave data mode, as    *)
(* long as they are no shorter than the modem asks for                     *)
(* (send_at_command, get_signal_strength).                                 *)
THEOREM NeverAskedInDataMode == Spec => []QueryInCommandMode
<1>1. IInv => QueryInCommandMode
  BY DEF IInv, CallInv, QueryInCommandMode
<1> QED BY <1>1, Invariant, PTL

(* When get_signal_strength has emptied uart_msgq it holds the strength    *)
(* that the modem reported last, whatever was queued before the question:  *)
(* unless that report found the queue full and was dropped (serial_cb,     *)
(* get_signal_strength).                                                   *)
THEOREM LatestStrengthParsed == Spec => []StrengthIsLatest
<1>1. IInv => StrengthIsLatest
  <2> SUFFICES ASSUME IInv, at = "drain", uart_msgq = <<>>, ~dropped
               PROVE  strength = reported
    BY DEF StrengthIsLatest
  <2>1. Len(uart_msgq) = 0
    BY EmptySeq
  <2>2. ~ \E n \in 1 .. Len(uart_msgq) : uart_msgq[n] \in Strengths
    BY <2>1
  <2> QED BY <2>2 DEF IInv, LatestInv, LastReport
<1> QED BY <1>1, Invariant, PTL
=============================================================================

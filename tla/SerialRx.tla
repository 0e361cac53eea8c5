------------------------------ MODULE SerialRx ------------------------------
(***************************************************************************)
(* The receive path of the GSM driver (samples/mesh/src/gsm_driver.c): the *)
(* UART interrupt serial_cb assembles the modem's bytes into lines in      *)
(* rx_buf, indexed by the uint8_t rx_buf_pos, and puts every complete line *)
(* on uart_msgq, from which a thread takes messages into tx_buf            *)
(* (read_msg_q, get_signal_strength).                                      *)
(*                                                                         *)
(* The three terminators '\n', '\r' and '\0' are one value, EOL.  The      *)
(* STM32F407 USART holds one received byte (rdr); a byte that arrives      *)
(* while rdr is occupied is lost in hardware, so it is a byte that never   *)
(* arrives here.  serial_cb runs to completion before any thread runs      *)
(* again (in_isr), but bytes keep arriving while it loops.                 *)
(***************************************************************************)
EXTENDS Naturals, Sequences

CONSTANTS Chars,       \* bytes other than the terminators
          EOL,         \* a terminator: '\n', '\r' or '\0'
          NUL,         \* the zero byte in rx_buf
          EMPTY,       \* no byte in the UART data register
          PosRange,    \* values of rx_buf_pos: 256, a uint8_t
          BufSize,     \* UART_MAX_MSG_LEN, 1280
          QueueSize,   \* UART_MAX_MSG_QUEUE_SIZE, 20
          MaxLineLen,  \* longest line the modem sends
          MaxBytes     \* bound: bytes the modem sends in all

ASSUME SerialRxAssumption ==
  /\ Chars \cap {EOL, NUL, EMPTY} = {}
  /\ EOL # EMPTY
  /\ PosRange \in Nat \ {0}
  /\ BufSize \in Nat \ {0}
  /\ QueueSize \in Nat \ {0}
  /\ MaxLineLen \in Nat
  /\ MaxBytes \in Nat

VARIABLES driver,      \* "off", or how gsm_driver_init ended
          init_result, \* what gsm_driver_init returned
          rdr,         \* the UART receive data register
          in_isr,      \* serial_cb is running
          rx_buf,
          rx_buf_pos,
          uart_msgq,
          tx_buf,      \* the message a reader took last
          line,        \* history: the bytes read since the last terminator
          received     \* number of bytes received, bounded by MaxBytes

vars == <<driver, init_result, rdr, in_isr, rx_buf, rx_buf_pos, uart_msgq,
          tx_buf, line, received>>

threadVars == <<driver, init_result, tx_buf>>

-----------------------------------------------------------------------------
(* The C string at the start of a buffer: the bytes before its first NUL. *)
CString(buf) ==
  LET end == CHOOSE n \in DOMAIN buf :
               buf[n] = NUL /\ \A m \in 0 .. n - 1 : buf[m] # NUL
  IN  [i \in 1 .. end |-> buf[i - 1]]

(* rx_buf[rx_buf_pos] = '\0' (line 117). *)
UnTerminated(buf, pos) == buf
Terminated(buf, pos) == [buf EXCEPT ![pos] = NUL]

(* k_msgq_put with K_NO_WAIT: a full queue refuses the message. *)
MsgqPut(q, msg) == IF Len(q) < QueueSize THEN Append(q, msg) ELSE q

-----------------------------------------------------------------------------
Init ==
  /\ driver = "off"
  /\ init_result = FALSE
  /\ rdr = EMPTY
  /\ in_isr = FALSE
  /\ rx_buf = [i \in 0 .. BufSize - 1 |-> NUL]
  /\ rx_buf_pos = 0
  /\ uart_msgq = <<>>
  /\ tx_buf = <<>>
  /\ line = <<>>
  /\ received = 0

(* gsm_driver_init: reception is enabled only if the device is ready and   *)
(* the callback is accepted; every path returns 0.                         *)
GsmDriverInit ==
  /\ driver = "off"
  /\ driver' \in {"ready", "failed"}
  /\ init_result' = FALSE
  /\ UNCHANGED <<rdr, in_isr, rx_buf, rx_buf_pos, uart_msgq, tx_buf, line, received>>

(* The modem sends a byte that the data register can take. *)
ByteArrives(c) ==
  /\ received < MaxBytes
  /\ rdr = EMPTY
  /\ c \in Chars => Len(line) < MaxLineLen
  /\ rdr' = c
  /\ received' = received + 1
  /\ UNCHANGED <<threadVars, in_isr, rx_buf, rx_buf_pos, uart_msgq, line>>

(* Entry of serial_cb, past its two early returns: a byte is ready. *)
IsrEnter ==
  /\ driver = "ready"
  /\ ~in_isr
  /\ rdr # EMPTY
  /\ in_isr' = TRUE
  /\ UNCHANGED <<threadVars, rdr, rx_buf, rx_buf_pos, uart_msgq, line, received>>

TerminatorOnEmptyLine ==
  /\ in_isr
  /\ rdr = EOL
  /\ rx_buf' = Terminated(rx_buf, rx_buf_pos)
  /\ uart_msgq' = MsgqPut(uart_msgq, CString(rx_buf'))
  /\ rx_buf_pos' = 0
  /\ rdr' = EMPTY
  /\ line' = <<>>
  /\ UNCHANGED <<threadVars, in_isr, received>>

TerminatorKeepsDropped ==
  /\ in_isr
  /\ rdr = EOL
  /\ rx_buf_pos > 0
  /\ rx_buf' = Terminated(rx_buf, rx_buf_pos)
  /\ uart_msgq' = MsgqPut(uart_msgq, CString(rx_buf'))
  /\ rx_buf_pos' = IF uart_msgq' = uart_msgq THEN rx_buf_pos ELSE 0
  /\ rdr' = EMPTY
  /\ line' = <<>>
  /\ UNCHANGED <<threadVars, in_isr, received>>

(* A terminator ends a non-empty buffer: terminate, put, reset. *)
IsrTerminator ==
  /\ in_isr
  /\ rdr = EOL
  /\ rx_buf_pos > 0
  /\ rx_buf' = Terminated(rx_buf, rx_buf_pos)
  /\ uart_msgq' = MsgqPut(uart_msgq, CString(rx_buf'))
  /\ rx_buf_pos' = 0
  /\ rdr' = EMPTY
  /\ line' = <<>>
  /\ UNCHANGED <<threadVars, in_isr, received>>

(* rx_buf[rx_buf_pos++] = c, the index wrapping at the width of its type. *)
IsrStore ==
  /\ in_isr
  /\ rdr \in Chars
  /\ rx_buf_pos < BufSize - 1
  /\ rx_buf' = [rx_buf EXCEPT ![rx_buf_pos] = rdr]
  /\ rx_buf_pos' = (rx_buf_pos + 1) % PosRange
  /\ rdr' = EMPTY
  /\ line' = Append(line, rdr)
  /\ UNCHANGED <<threadVars, in_isr, uart_msgq, received>>

(* A byte that meets neither branch is read and forgotten: a terminator    *)
(* with nothing buffered, or a character when the buffer is full.          *)
IsrIgnore ==
  /\ in_isr
  /\ rdr # EMPTY
  /\ ~(rdr = EOL /\ rx_buf_pos > 0)
  /\ ~(rdr \in Chars /\ rx_buf_pos < BufSize - 1)
  /\ rdr' = EMPTY
  /\ line' = IF rdr = EOL THEN <<>> ELSE Append(line, rdr)
  /\ UNCHANGED <<threadVars, in_isr, rx_buf, rx_buf_pos, uart_msgq, received>>

(* uart_fifo_read finds nothing: the interrupt returns. *)
IsrExit ==
  /\ in_isr
  /\ rdr = EMPTY
  /\ in_isr' = FALSE
  /\ UNCHANGED <<threadVars, rdr, rx_buf, rx_buf_pos, uart_msgq, line, received>>

(* k_msgq_get with K_FOREVER, by whichever thread reads the queue. *)
ReadMsg ==
  /\ ~in_isr
  /\ uart_msgq # <<>>
  /\ tx_buf' = Head(uart_msgq)
  /\ uart_msgq' = Tail(uart_msgq)
  /\ UNCHANGED <<driver, init_result, rdr, in_isr, rx_buf, rx_buf_pos, line, received>>

SerialCbWaitsForRoom ==
  \/ IsrEnter
  \/ Len(uart_msgq) < QueueSize /\ IsrTerminator
  \/ IsrStore
  \/ IsrIgnore
  \/ IsrExit
SerialCb == IsrEnter \/ IsrTerminator \/ IsrStore \/ IsrIgnore \/ IsrExit

Next ==
  \/ GsmDriverInit
  \/ \E c \in Chars \cup {EOL} : ByteArrives(c)
  \/ SerialCb
  \/ ReadMsg

Spec == Init /\ [][Next]_vars

(* An enabled interrupt is served: it preempts every thread. *)
FairSpec == Spec /\ WF_vars(SerialCb)

-----------------------------------------------------------------------------
Messages == Seq(Chars) \ {<<>>}

(* Type correctness.  The conjunct on rx_buf_pos says that serial_cb never *)
(* writes outside rx_buf, whatever the width of the index; the ones on     *)
(* uart_msgq and tx_buf that no message is empty or holds a stray NUL.     *)
TypeOK ==
  /\ driver \in {"off", "ready", "failed"}
  /\ init_result \in BOOLEAN
  /\ rdr \in Chars \cup {EOL, EMPTY}
  /\ in_isr \in BOOLEAN
  /\ in_isr => driver = "ready"
  /\ rx_buf \in [0 .. BufSize - 1 -> Chars \cup {NUL}]
  /\ rx_buf_pos \in 0 .. BufSize - 1
  /\ rx_buf_pos < PosRange
  /\ uart_msgq \in Seq(Messages)
  /\ tx_buf \in Seq(Chars)
  /\ line \in Seq(Chars)
  /\ received \in Nat

(* Lines of fewer characters than this fit both the index and the buffer.  *)
Limit == IF PosRange < BufSize THEN PosRange ELSE BufSize

(* Where in the line the part in the buffer begins, less one: an index     *)
(* that wraps keeps the end of a line, a buffer that fills up the start.   *)
Offset == IF PosRange < BufSize THEN Len(line) - rx_buf_pos ELSE 0

(* The buffer is a part of the line received so far, all of it while the   *)
(* line is within the limit, and nothing is left over from the line        *)
(* before, however long it was (gsm_driver.c:114-127).                     *)
BufferHoldsLine ==
  /\ rx_buf_pos <= Len(line)
  /\ \A i \in 1 .. rx_buf_pos : rx_buf[i - 1] = line[Offset + i]
  /\ Len(line) < Limit => rx_buf_pos = Len(line)

(* The receive path is the line queue of LineQueue: every line within the  *)
(* limit reaches the reader verbatim and in order, and is lost only when   *)
(* uart_msgq is full, also after lines beyond the limit.                   *)
LQ == INSTANCE LineQueue WITH Capacity <- QueueSize, queue <- uart_msgq
RefinesLineQueue == LQ!Spec

(* serial_cb never waits: a byte in the data register is always taken,     *)
(* also while uart_msgq is full and nobody reads it (gsm_driver.c:119-120).*)
ByteAlwaysTaken == (driver = "ready" /\ rdr # EMPTY) ~> (rdr = EMPTY)

-----------------------------------------------------------------------------
(* gsm_driver.c:119: "if queue is full, message is silently dropped" - a   *)
(* line that ends while the queue has room is queued.                      *)
LostOnlyWhenFull ==
  [][ (line # <<>> /\ line' = <<>> /\ Len(uart_msgq) < QueueSize)
        => Len(uart_msgq') = Len(uart_msgq) + 1 ]_vars
=============================================================================

--------------------------- MODULE SerialRxProofs ---------------------------
(***************************************************************************)
(* Proofs about SerialRx, for every size of the buffer, of its index and   *)
(* of the queue: type correctness (serial_cb never leaves rx_buf, and no   *)
(* message is empty), that the buffer is the line received so far, as long *)
(* as index and buffer can hold it, that the driver is a LineQueue, and    *)
(* what exactly the reader gets of a line the index cannot count.          *)
(***************************************************************************)
EXTENDS SerialRx, SequenceTheorems, TLAPS

(* What the buffer holds below rx_buf_pos is text: the string put on the   *)
(* queue ends at rx_buf_pos and nowhere before it.                         *)
BufferIsText == \A i \in 0 .. rx_buf_pos - 1 : rx_buf[i] \in Chars

IInv == TypeOK /\ BufferIsText

Buffers == [0 .. BufSize - 1 -> Chars \cup {NUL}]

(* The string in a buffer is everything below the first NUL. *)
LEMMA CStringIsPrefix ==
  ASSUME NEW buf \in Buffers, NEW p \in 0 .. BufSize - 1,
         buf[p] = NUL, \A i \in 0 .. p - 1 : buf[i] \in Chars
  PROVE  CString(buf) = [i \in 1 .. p |-> buf[i - 1]]
<1> DEFINE First(n) == buf[n] = NUL /\ \A m \in 0 .. n - 1 : buf[m] # NUL
           end == CHOOSE n \in DOMAIN buf : First(n)
<1>1. DOMAIN buf = 0 .. BufSize - 1
  BY DEF Buffers
<1>2. BufSize \in Nat /\ NUL \notin Chars
  BY SerialRxAssumption DEF SerialRxAssumption
<1>3. p \in DOMAIN buf /\ First(p)
  BY <1>1, <1>2
<1>4. end \in DOMAIN buf /\ First(end)
  <2> HIDE DEF First
  <2> QED BY <1>3
<1>5. end = p
  <2>1. ~(end < p)
    BY <1>1, <1>2, <1>4
  <2>2. ~(p < end)
    BY <1>1, <1>2, <1>3, <1>4
  <2> QED BY <2>1, <2>2, <1>1, <1>2, <1>4
<1>6. CString(buf) = [i \in 1 .. end |-> buf[i - 1]]
  BY DEF CString
<1> QED BY <1>5, <1>6

(* A terminator with something in the buffer makes a message: the text     *)
(* below rx_buf_pos, which is not empty.                                   *)
LEMMA TerminatedBuffer ==
  ASSUME IInv, rx_buf_pos > 0
  PROVE  LET buf == Terminated(rx_buf, rx_buf_pos)
         IN  /\ buf \in Buffers
             /\ CString(buf) = [i \in 1 .. rx_buf_pos |-> rx_buf[i - 1]]
             /\ CString(buf) \in Messages
<1> DEFINE buf == Terminated(rx_buf, rx_buf_pos)
           text == [i \in 1 .. rx_buf_pos |-> rx_buf[i - 1]]
<1>1. BufSize \in Nat /\ rx_buf_pos \in 0 .. BufSize - 1 /\ rx_buf \in Buffers
  BY SerialRxAssumption DEF SerialRxAssumption, IInv, TypeOK, Buffers
<1>2. /\ buf \in Buffers
      /\ buf[rx_buf_pos] = NUL
      /\ \A i \in 0 .. rx_buf_pos - 1 : buf[i] = rx_buf[i] /\ buf[i] \in Chars
  BY <1>1 DEF Terminated, Buffers, IInv, BufferIsText
<1>3. CString(buf) = [i \in 1 .. rx_buf_pos |-> buf[i - 1]]
  <2> HIDE DEF buf
  <2> QED BY <1>1, <1>2, CStringIsPrefix
<1>4. \A i \in 1 .. rx_buf_pos : buf[i - 1] = rx_buf[i - 1] /\ rx_buf[i - 1] \in Chars
  BY <1>1, <1>2
<1>5. CString(buf) = text
  BY <1>3, <1>4
<1>6. text \in Seq(Chars) /\ text # <<>>
  BY <1>1, <1>4
<1> QED BY <1>2, <1>5, <1>6 DEF Messages

LEMMA PutKeepsMessages ==
  ASSUME NEW q \in Seq(Messages), NEW msg \in Messages
  PROVE  MsgqPut(q, msg) \in Seq(Messages)
BY DEF MsgqPut

-----------------------------------------------------------------------------
LEMMA InitIInv == Init => IInv
<1> SUFFICES ASSUME Init PROVE IInv
  OBVIOUS
<1>1. BufSize \in Nat \ {0} /\ PosRange \in Nat \ {0}
  BY SerialRxAssumption DEF SerialRxAssumption
<1>2. rx_buf \in [0 .. BufSize - 1 -> Chars \cup {NUL}]
  BY DEF Init
<1>3. rx_buf_pos \in 0 .. BufSize - 1 /\ rx_buf_pos < PosRange
  BY <1>1 DEF Init
<1>4. uart_msgq \in Seq(Messages) /\ tx_buf \in Seq(Chars) /\ line \in Seq(Chars)
  BY DEF Init
<1>5. TypeOK
  BY <1>2, <1>3, <1>4 DEF Init, TypeOK
<1>6. BufferIsText
  BY DEF Init, BufferIsText
<1> QED BY <1>5, <1>6 DEF IInv

LEMMA TerminatorIInv == IInv /\ IsrTerminator => IInv'
<1> SUFFICES ASSUME IInv, IsrTerminator PROVE IInv'
  OBVIOUS
<1>1. BufSize \in Nat \ {0} /\ PosRange \in Nat \ {0}
  BY SerialRxAssumption DEF SerialRxAssumption
<1>2. rx_buf' \in Buffers /\ CString(rx_buf') \in Messages
  BY TerminatedBuffer DEF IsrTerminator
<1>3. uart_msgq' \in Seq(Messages)
  BY <1>2, PutKeepsMessages DEF IsrTerminator, IInv, TypeOK
<1>4. TypeOK'
  BY <1>1, <1>2, <1>3 DEF IsrTerminator, IInv, TypeOK, Buffers, threadVars
<1>5. BufferIsText'
  BY DEF IsrTerminator, BufferIsText
<1> QED BY <1>4, <1>5 DEF IInv

LEMMA StoreIInv == IInv /\ IsrStore => IInv'
<1> SUFFICES ASSUME IInv, IsrStore PROVE IInv'
  OBVIOUS
<1>1. BufSize \in Nat \ {0} /\ PosRange \in Nat \ {0}
  BY SerialRxAssumption DEF SerialRxAssumption
<1>2. rx_buf_pos \in 0 .. BufSize - 2 /\ rx_buf_pos < PosRange
  BY <1>1 DEF IInv, TypeOK, IsrStore
<1>3. rx_buf_pos' = rx_buf_pos + 1 \/ rx_buf_pos' = 0
  BY <1>1, <1>2 DEF IsrStore
<1>4. rx_buf_pos' < PosRange /\ rx_buf_pos' \in 0 .. BufSize - 1
  BY <1>1, <1>2, <1>3 DEF IsrStore
<1>5. TypeOK'
  BY <1>1, <1>4 DEF IsrStore, IInv, TypeOK, threadVars
<1>6. BufferIsText'
  BY <1>1, <1>2, <1>3 DEF IsrStore, IInv, TypeOK, BufferIsText
<1> QED BY <1>5, <1>6 DEF IInv

LEMMA StepIInv == IInv /\ [Next]_vars => IInv'
<1> SUFFICES ASSUME IInv, [Next]_vars PROVE IInv'
  OBVIOUS
<1> USE DEF IInv, TypeOK, BufferIsText, threadVars
<1>1. CASE GsmDriverInit
  BY <1>1 DEF GsmDriverInit
<1>2. ASSUME NEW c \in Chars \cup {EOL}, ByteArrives(c) PROVE IInv'
  BY <1>2 DEF ByteArrives
<1>3. CASE IsrEnter
  BY <1>3 DEF IsrEnter
<1>4. CASE IsrTerminator
  BY <1>4, TerminatorIInv
<1>5. CASE IsrStore
  BY <1>5, StoreIInv
<1>6. CASE IsrIgnore
  <2>1. line' \in Seq(Chars)
    BY <1>6 DEF IsrIgnore
  <2> QED BY <1>6, <2>1 DEF IsrIgnore
<1>7. CASE IsrExit
  BY <1>7 DEF IsrExit
<1>8. CASE ReadMsg
  <2>1. /\ uart_msgq \in Seq(Messages) /\ uart_msgq # <<>>
    BY <1>8 DEF ReadMsg
  <2>2. Head(uart_msgq) \in Messages /\ Tail(uart_msgq) \in Seq(Messages)
    <3> HIDE DEF IInv
    <3> QED BY <2>1
  <2>3. Head(uart_msgq) \in Seq(Chars)
    BY <2>2 DEF Messages
  <2> QED BY <1>8, <2>2, <2>3 DEF ReadMsg
<1>9. CASE UNCHANGED vars
  BY <1>9 DEF vars
<1> QED
  <2> HIDE DEF IInv
  <2> QED BY <1>1, <1>2, <1>3, <1>4, <1>5, <1>6, <1>7, <1>8, <1>9 DEF Next, SerialCb

(* serial_cb never writes outside rx_buf, and every message it queues is a *)
(* non-empty string of received characters, for any width of rx_buf_pos    *)
(* and any length of line (gsm_driver.c:101-128).                          *)
THEOREM TypeCorrect == Spec => []TypeOK
<1>1. Spec => []IInv
  BY InitIInv, StepIInv, PTL DEF Spec
<1>2. IInv => TypeOK
  BY DEF IInv
<1> QED BY <1>1, <1>2, PTL

-----------------------------------------------------------------------------
(* A buffer that the index can fill takes characters until it is full.     *)
FillsUp == PosRange >= BufSize /\ rx_buf_pos < BufSize - 1 => rx_buf_pos = Len(line)

LineInv == IInv /\ BufferHoldsLine /\ FillsUp

LEMMA InitLineInv == Init => LineInv
<1>1. Init => BufferHoldsLine /\ FillsUp
  BY SerialRxAssumption DEF Init, BufferHoldsLine, FillsUp, SerialRxAssumption
<1> QED BY <1>1, InitIInv DEF LineInv

(* An index that wraps: what is stored goes on with the end of the line,   *)
(* or begins it anew.                                                      *)
LEMMA StoreWrapping ==
  ASSUME LineInv, IsrStore, PosRange < BufSize
  PROVE  BufferHoldsLine' /\ FillsUp'
<1>1. /\ line \in Seq(Chars) /\ rdr \in Chars /\ rx_buf \in Buffers
      /\ PosRange \in Nat \ {0} /\ BufSize \in Nat
      /\ rx_buf_pos \in 0 .. BufSize - 2 /\ rx_buf_pos < PosRange
      /\ rx_buf_pos <= Len(line)
  BY SerialRxAssumption DEF SerialRxAssumption, IsrStore, LineInv, IInv, TypeOK,
     BufferHoldsLine, Buffers
<1>2. /\ Len(line') = Len(line) + 1 /\ line'[Len(line) + 1] = rdr
      /\ \A i \in 1 .. Len(line) : line'[i] = line[i]
  BY <1>1 DEF IsrStore
<1>3. /\ rx_buf'[rx_buf_pos] = rdr
      /\ \A i \in 0 .. rx_buf_pos - 1 : rx_buf'[i] = rx_buf[i]
  BY <1>1 DEF IsrStore, Buffers
<1>4. Offset = Len(line) - rx_buf_pos /\ Offset' = Len(line') - rx_buf_pos'
  BY DEF Offset
<1>5. Limit = PosRange /\ Limit' = PosRange
  BY DEF Limit
<1>6. CASE rx_buf_pos + 1 < PosRange
  <2>1. rx_buf_pos' = rx_buf_pos + 1 /\ Offset' = Offset
    BY <1>1, <1>2, <1>4, <1>6 DEF IsrStore
  <2>2. \A i \in 1 .. rx_buf_pos : rx_buf'[i - 1] = line'[Offset' + i]
    <3> SUFFICES ASSUME NEW i \in 1 .. rx_buf_pos
                 PROVE  rx_buf'[i - 1] = line'[Offset' + i]
      OBVIOUS
    <3>1. rx_buf'[i - 1] = rx_buf[i - 1]
      BY <1>1, <1>3
    <3>2. rx_buf[i - 1] = line[Offset + i]
      BY DEF LineInv, BufferHoldsLine
    <3>3. Offset + i \in 1 .. Len(line)
      BY <1>1, <1>4
    <3> QED BY <1>2, <2>1, <3>1, <3>2, <3>3
  <2>3. rx_buf'[rx_buf_pos'- 1] = line'[Offset' + rx_buf_pos']
    BY <1>1, <1>2, <1>3, <1>4, <2>1
  <2>4. \A i \in 1 .. rx_buf_pos' : rx_buf'[i - 1] = line'[Offset' + i]
    BY <1>1, <2>1, <2>2, <2>3
  <2>5. Len(line') < Limit' => rx_buf_pos' = Len(line')
    BY <1>1, <1>2, <1>5, <2>1 DEF LineInv, BufferHoldsLine
  <2>6. rx_buf_pos' <= Len(line')
    BY <1>1, <1>2, <2>1
  <2> QED BY <1>1, <2>4, <2>5, <2>6 DEF BufferHoldsLine, FillsUp
<1>7. CASE rx_buf_pos + 1 = PosRange
  <2>1. rx_buf_pos' = 0
    BY <1>1, <1>7 DEF IsrStore
  <2>2. Len(line') >= Limit'
    BY <1>1, <1>2, <1>5, <1>7
  <2>3. ~(Len(line') < Limit') /\ rx_buf_pos' <= Len(line')
    BY <1>1, <1>2, <1>5, <2>1, <2>2
  <2>4. BufferHoldsLine'
    BY <2>1, <2>3 DEF BufferHoldsLine
  <2> QED BY <1>1, <2>4 DEF FillsUp
<1> QED BY <1>1, <1>6, <1>7

(* A buffer that fills up: what is stored is the next character.           *)
LEMMA StoreFilling ==
  ASSUME LineInv, IsrStore, PosRange >= BufSize
  PROVE  BufferHoldsLine' /\ FillsUp'
<1>1. /\ line \in Seq(Chars) /\ rdr \in Chars /\ rx_buf \in Buffers
      /\ PosRange \in Nat \ {0} /\ BufSize \in Nat
      /\ rx_buf_pos \in 0 .. BufSize - 2
  BY SerialRxAssumption DEF SerialRxAssumption, IsrStore, LineInv, IInv, TypeOK, Buffers
<1>2. rx_buf_pos = Len(line)
  BY <1>1 DEF LineInv, FillsUp
<1>3. /\ Len(line') = Len(line) + 1 /\ line'[Len(line) + 1] = rdr
      /\ \A i \in 1 .. Len(line) : line'[i] = line[i]
  BY <1>1 DEF IsrStore
<1>4. rx_buf_pos' = Len(line')
  BY <1>1, <1>2, <1>3 DEF IsrStore
<1>5. Offset = 0 /\ Offset' = 0
  BY <1>1 DEF Offset
<1>6. \A i \in 1 .. Len(line) : rx_buf'[i - 1] = rx_buf[i - 1] /\ rx_buf[i - 1] = line[i]
  <2>1. \A i \in 1 .. Len(line) : rx_buf[i - 1] = line[0 + i]
    BY <1>2, <1>5 DEF LineInv, BufferHoldsLine
  <2> QED BY <1>1, <1>2, <2>1 DEF IsrStore, Buffers
<1>7. rx_buf'[Len(line)] = rdr
  BY <1>1, <1>2 DEF IsrStore, Buffers
<1>8. \A i \in 1 .. rx_buf_pos' : rx_buf'[i - 1] = line'[Offset' + i]
  BY <1>1, <1>3, <1>4, <1>5, <1>6, <1>7
<1> QED BY <1>1, <1>3, <1>4, <1>8 DEF BufferHoldsLine, FillsUp

(* A byte that is ignored: a character after the buffer is full, which can *)
(* be only if its index does not wrap, or a terminator of nothing.         *)
LEMMA IgnoreIsHarmless ==
  ASSUME LineInv, IsrIgnore
  PROVE  BufferHoldsLine' /\ FillsUp'
<1>1. /\ line \in Seq(Chars) /\ rdr \in Chars \cup {EOL} /\ EOL \notin Chars
      /\ PosRange \in Nat \ {0} /\ BufSize \in Nat \ {0}
      /\ rx_buf_pos \in 0 .. BufSize - 1 /\ rx_buf_pos < PosRange
      /\ rx_buf_pos <= Len(line) /\ rx_buf' = rx_buf /\ rx_buf_pos' = rx_buf_pos
  BY SerialRxAssumption DEF SerialRxAssumption, IsrIgnore, LineInv, IInv, TypeOK,
     BufferHoldsLine
<1>2. CASE rdr = EOL
  <2>1. rx_buf_pos' = 0 /\ line' = <<>>
    BY <1>1, <1>2 DEF IsrIgnore
  <2> QED BY <2>1 DEF BufferHoldsLine, FillsUp
<1>3. CASE rdr \in Chars
  <2>1. rx_buf_pos = BufSize - 1 /\ PosRange >= BufSize
    BY <1>1, <1>3 DEF IsrIgnore
  <2>2. /\ Len(line') = Len(line) + 1
        /\ \A i \in 1 .. Len(line) : line'[i] = line[i]
    BY <1>1, <1>3 DEF IsrIgnore
  <2>3. Offset = 0 /\ Offset' = 0 /\ Limit' = BufSize
    BY <1>1, <2>1 DEF Offset, Limit
  <2>4. \A i \in 1 .. rx_buf_pos : rx_buf[i - 1] = line[0 + i]
    BY <2>3 DEF LineInv, BufferHoldsLine
  <2>5. \A i \in 1 .. rx_buf_pos' : rx_buf'[i - 1] = line'[Offset' + i]
    BY <1>1, <2>2, <2>3, <2>4
  <2>6. rx_buf_pos' <= Len(line') /\ ~(Len(line') < Limit') /\ ~(rx_buf_pos' < BufSize - 1)
    BY <1>1, <2>1, <2>2, <2>3
  <2> QED BY <2>5, <2>6 DEF BufferHoldsLine, FillsUp
<1> QED BY <1>1, <1>2, <1>3

LEMMA StepLineInv == LineInv /\ [Next]_vars => LineInv'
<1> SUFFICES ASSUME LineInv, [Next]_vars PROVE BufferHoldsLine' /\ FillsUp'
  BY StepIInv DEF LineInv
<1>0. BufferHoldsLine /\ FillsUp
  BY DEF LineInv
<1>1. CASE UNCHANGED <<line, rx_buf, rx_buf_pos>>
  BY <1>0, <1>1 DEF BufferHoldsLine, FillsUp, Offset, Limit
<1>2. CASE IsrTerminator
  <2>1. rx_buf_pos' = 0 /\ line' = <<>>
    BY <1>2 DEF IsrTerminator
  <2> QED BY <2>1 DEF BufferHoldsLine, FillsUp
<1>3. CASE IsrStore
  <2>1. PosRange \in Nat /\ BufSize \in Nat
    BY SerialRxAssumption DEF SerialRxAssumption
  <2> QED BY <1>3, <2>1, StoreWrapping, StoreFilling
<1>4. CASE IsrIgnore
  BY <1>4, IgnoreIsHarmless
<1>5. \/ UNCHANGED <<line, rx_buf, rx_buf_pos>>
      \/ IsrTerminator \/ IsrStore \/ IsrIgnore
  BY DEF Next, SerialCb, GsmDriverInit, ByteArrives, IsrEnter, IsrExit, ReadMsg, vars
<1> QED BY <1>1, <1>2, <1>3, <1>4, <1>5

LEMMA LineInvariant == Spec => []LineInv
BY InitLineInv, StepLineInv, PTL DEF Spec

(* The buffer holds a part of the line received so far, and exactly the    *)
(* characters since the last terminator while they are within the limit    *)
(* (gsm_driver.c:114-127).                                                 *)
THEOREM BufferCorrect == Spec => []BufferHoldsLine
<1>1. LineInv => BufferHoldsLine
  BY DEF LineInv
<1> QED BY <1>1, LineInvariant, PTL

(* The message a terminator queues is a part of the line.                  *)
LEMMA QueuedMessageIsPart ==
  ASSUME LineInv, rx_buf_pos > 0
  PROVE  /\ Offset + 1 \in 1 .. Len(line) /\ Offset + rx_buf_pos \in 1 .. Len(line)
         /\ CString(Terminated(rx_buf, rx_buf_pos))
              = SubSeq(line, Offset + 1, Offset + rx_buf_pos)
<1>1. CString(Terminated(rx_buf, rx_buf_pos)) = [i \in 1 .. rx_buf_pos |-> rx_buf[i - 1]]
  BY TerminatedBuffer DEF LineInv
<1>2. line \in Seq(Chars) /\ rx_buf_pos \in Nat /\ rx_buf_pos <= Len(line)
  BY SerialRxAssumption DEF SerialRxAssumption, LineInv, IInv, TypeOK, BufferHoldsLine
<1>3. Offset \in 0 .. Len(line) - rx_buf_pos
  BY <1>2 DEF Offset
<1>4. \A i \in 1 .. rx_buf_pos : rx_buf[i - 1] = line[Offset + i]
  BY DEF LineInv, BufferHoldsLine
<1>5. SubSeq(line, Offset + 1, Offset + rx_buf_pos)
        = [i \in 1 .. rx_buf_pos |-> line[Offset + i]]
  <2> DEFINE off == Offset
             part == SubSeq(line, off + 1, off + rx_buf_pos)
  <2>1. /\ Len(part) = rx_buf_pos /\ DOMAIN part = 1 .. rx_buf_pos
        /\ \A i \in 1 .. rx_buf_pos : part[i] = line[off + i]
    <3> HIDE DEF off
    <3>1. off \in 0 .. Len(line) - rx_buf_pos
      BY <1>3 DEF off
    <3> QED BY <1>2, <3>1
  <2>2. part \in Seq(Chars)
    <3> HIDE DEF off
    <3>1. off \in 0 .. Len(line) - rx_buf_pos
      BY <1>3 DEF off
    <3> QED BY <1>2, <3>1
  <2> HIDE DEF part
  <2>3. part = [i \in 1 .. rx_buf_pos |-> part[i]]
    BY <2>1, <2>2
  <2> QED BY <2>1, <2>3 DEF part
<1>6. Offset + 1 \in 1 .. Len(line) /\ Offset + rx_buf_pos \in 1 .. Len(line)
  <2> HIDE DEF Offset
  <2> QED BY <1>2, <1>3
<1>7. [i \in 1 .. rx_buf_pos |-> rx_buf[i - 1]] = [i \in 1 .. rx_buf_pos |-> line[Offset + i]]
  BY <1>4, Zenon
<1> QED BY <1>1, <1>5, <1>6, <1>7, Zenon

(* A terminator ends the line, within the limit or beyond it.              *)
LEMMA TerminatorEndsLine ==
  ASSUME LineInv, IsrTerminator
  PROVE  LQ!EndLine \/ LQ!EndOverlongLine
<1> DEFINE msg == SubSeq(line, Offset + 1, Offset + rx_buf_pos)
<1>1. /\ line \in Seq(Chars) /\ line' = <<>> /\ rx_buf_pos \in Nat /\ rx_buf_pos > 0
      /\ rx_buf_pos <= Len(line) /\ QueueSize \in Nat /\ Limit \in Nat
  BY SerialRxAssumption DEF SerialRxAssumption, IsrTerminator, LineInv, IInv, TypeOK,
     BufferHoldsLine, Limit
<1>2. uart_msgq' = MsgqPut(uart_msgq, msg)
  BY <1>1, QueuedMessageIsPart DEF IsrTerminator
<1>3. CASE Len(line) < Limit
  <2>1. rx_buf_pos = Len(line) /\ Offset = 0
    BY <1>1, <1>3 DEF LineInv, BufferHoldsLine, Offset
  <2>2. msg = line
    <3> HIDE DEF msg
    <3>1. msg = SubSeq(line, 1, Len(line))
      BY <1>1, <2>1 DEF msg
    <3> QED BY <1>1, <3>1
  <2>3. line # <<>>
    BY <1>1
  <2> HIDE DEF msg
  <2> QED BY <1>1, <1>2, <1>3, <2>2, <2>3 DEF LQ!EndLine, LQ!HasRoom, MsgqPut
<1>4. CASE Len(line) >= Limit
  <2> DEFINE first == Offset + 1
             last == Offset + rx_buf_pos
  <2>1. first \in 1 .. Len(line) /\ last \in 1 .. Len(line)
    BY <1>1, QueuedMessageIsPart
  <2>2. first <= last
    <3>1. Offset \in Int
      BY <1>1 DEF Offset
    <3> QED BY <1>1, <3>1
  <2>3. CASE Len(uart_msgq) < QueueSize
    <3>1. uart_msgq' = Append(uart_msgq, SubSeq(line, first, last))
      BY <1>2, <2>3 DEF MsgqPut
    <3> HIDE DEF first, last
    <3> QED BY <1>1, <1>4, <2>1, <2>2, <2>3, <3>1 DEF LQ!EndOverlongLine, LQ!HasRoom
  <2>4. CASE ~(Len(uart_msgq) < QueueSize)
    BY <1>1, <1>2, <1>4, <2>4 DEF MsgqPut, LQ!EndOverlongLine
  <2> QED BY <2>3, <2>4
<1> QED BY <1>1, <1>3, <1>4

(* A byte that is ignored adds to an overlong line, or ends one of which   *)
(* nothing is left, or is a terminator after a terminator.                 *)
LEMMA IgnoreIsStep ==
  ASSUME LineInv, IsrIgnore
  PROVE  \/ \E c \in Chars : LQ!AddChar(c)
         \/ LQ!EndOverlongLine
         \/ UNCHANGED LQ!vars
<1>1. /\ line \in Seq(Chars) /\ rdr \in Chars \cup {EOL} /\ EOL \notin Chars
      /\ UNCHANGED uart_msgq /\ Limit \in Nat
  BY SerialRxAssumption DEF SerialRxAssumption, IsrIgnore, LineInv, IInv, TypeOK, Limit
<1>2. CASE rdr \in Chars
  <2>1. LQ!AddChar(rdr)
    BY <1>1, <1>2 DEF IsrIgnore, LQ!AddChar
  <2> QED BY <1>2, <2>1
<1>3. CASE rdr = EOL
  <2>1. line' = <<>> /\ rx_buf_pos = 0
    BY <1>1, <1>3 DEF IsrIgnore, LineInv, IInv, TypeOK
  <2>2. CASE Len(line) < Limit
    <3>1. line = <<>>
      BY <1>1, <2>1, <2>2, EmptySeq DEF LineInv, BufferHoldsLine
    <3> QED BY <1>1, <2>1, <3>1 DEF LQ!vars
  <2>3. CASE Len(line) >= Limit
    BY <1>1, <2>1, <2>3 DEF LQ!EndOverlongLine
  <2> QED BY <1>1, <2>2, <2>3
<1> QED BY <1>1, <1>2, <1>3

(* The driver is a line queue: each line within the limit reaches the      *)
(* reader verbatim and in order, or is dropped because uart_msgq is full,  *)
(* whatever came before it (gsm_driver.c:101-135).                         *)
THEOREM Refinement == Spec => RefinesLineQueue
<1>1. Init => LQ!Init
  BY DEF Init, LQ!Init
<1>2. LineInv /\ [Next]_vars => [LQ!Next]_(LQ!vars)
  <2> SUFFICES ASSUME LineInv, [Next]_vars PROVE [LQ!Next]_(LQ!vars)
    OBVIOUS
  <2>1. CASE IsrTerminator
    BY <2>1, TerminatorEndsLine DEF LQ!Next
  <2>2. CASE IsrStore
    <3>1. LQ!AddChar(rdr) /\ rdr \in Chars
      BY <2>2 DEF IsrStore, LQ!AddChar
    <3> QED BY <3>1 DEF LQ!Next
  <2>3. CASE IsrIgnore
    BY <2>3, IgnoreIsStep DEF LQ!Next
  <2>4. CASE ReadMsg
    <3>1. LQ!Take
      BY <2>4 DEF ReadMsg, LQ!Take
    <3> QED BY <3>1 DEF LQ!Next
  <2>5. CASE UNCHANGED <<line, uart_msgq>>
    BY <2>5 DEF LQ!vars
  <2>6. \/ IsrTerminator \/ IsrStore \/ IsrIgnore \/ ReadMsg
        \/ UNCHANGED <<line, uart_msgq>>
    BY DEF Next, SerialCb, GsmDriverInit, ByteArrives, IsrEnter, IsrExit, vars
  <2> QED BY <2>1, <2>2, <2>3, <2>4, <2>5, <2>6
<1> QED BY <1>1, <1>2, LineInvariant, PTL DEF Spec, RefinesLineQueue, LQ!Spec

-----------------------------------------------------------------------------
(* What becomes of a line of any length when the index wraps.              *)

LEMMA Division ==
  ASSUME NEW n \in Int, NEW p \in Nat \ {0}
  PROVE  \E q, r \in Int : r = n % p /\ n = p * q + r
<1>1. PICK q \in Int : q = n \div p
  OBVIOUS
<1>2. PICK r \in Int : r = n % p
  OBVIOUS
<1>3. n = p * q + r
  BY <1>1, <1>2
<1> QED BY <1>2, <1>3, Zenon

LEMMA RemainderRange ==
  ASSUME NEW n \in Int, NEW p \in Nat \ {0}
  PROVE  n % p \in 0 .. p - 1
OBVIOUS

LEMMA SameMultiple ==
  ASSUME NEW p \in Nat \ {0}, NEW q \in Int, NEW k \in Int,
         NEW r \in 0 .. p - 1, NEW s \in 0 .. p - 1, p * q + r = p * k + s
  PROVE  r = s
<1>1. ASSUME NEW a \in Int, NEW b \in Int, a < b PROVE p * a + p <= p * b
  <2>1. \E c \in Nat : b = a + 1 + c
    <3>1. b - a - 1 \in Nat /\ b = a + 1 + (b - a - 1)
      BY <1>1
    <3> QED BY <3>1
  <2>2. PICK c \in Nat : b = a + 1 + c
    BY <2>1
  <2>3. p * b = p * a + p + p * c /\ p * c >= 0 /\ p * a \in Int
    BY <2>2
  <2> QED BY <2>3
<1>2. p * q \in Int /\ p * k \in Int
  OBVIOUS
<1>3. CASE q < k
  BY <1>1, <1>2, <1>3
<1>4. CASE k < q
  BY <1>1, <1>2, <1>4
<1>5. CASE q = k
  BY <1>2, <1>5
<1> QED BY <1>3, <1>4, <1>5

LEMMA RemainderIs ==
  ASSUME NEW n \in Int, NEW p \in Nat \ {0}, NEW q \in Int, NEW s \in 0 .. p - 1,
         n = p * q + s
  PROVE  n % p = s
<1>1. PICK k, r \in Int : r = n % p /\ n = p * k + r
  BY Division
<1>2. r \in 0 .. p - 1
  BY <1>1, RemainderRange
<1> QED BY <1>1, <1>2, SameMultiple

LEMMA NextRemainder ==
  ASSUME NEW n \in Nat, NEW p \in Nat \ {0}
  PROVE  (n + 1) % p = ((n % p) + 1) % p
<1>1. PICK q, r \in Int : r = n % p /\ n = p * q + r
  BY Division
<1>2. r \in 0 .. p - 1
  BY <1>1, RemainderRange
<1>3. (n + 1) % p = (r + 1) % p
  <2>1. CASE r + 1 < p
    <3>1. /\ n + 1 = p * q + (r + 1) /\ r + 1 = p * 0 + (r + 1)
          /\ n + 1 \in Int /\ r + 1 \in 0 .. p - 1
      BY <1>1, <1>2, <2>1
    <3>2. (n + 1) % p = r + 1
      BY <3>1, RemainderIs
    <3>3. (r + 1) % p = r + 1
      BY <3>1, RemainderIs
    <3> QED BY <3>2, <3>3
  <2>2. CASE r + 1 = p
    <3>1. /\ n + 1 = p * (q + 1) + 0 /\ 0 \in 0 .. p - 1
          /\ n + 1 \in Int /\ q + 1 \in Int
      BY <1>1, <1>2, <2>2
    <3>2. (n + 1) % p = 0
      BY <3>1, RemainderIs
    <3>3. (r + 1) % p = 0
      BY <2>2
    <3> QED BY <3>2, <3>3
  <2> QED BY <1>2, <2>1, <2>2
<1> QED BY <1>1, <1>3, Zenon

(* The index is the length of the line, but for whole turns.               *)
WrapInv == PosRange < BufSize => rx_buf_pos = Len(line) % PosRange

LEMMA StepWrapInv ==
  ASSUME LineInv, WrapInv, [Next]_vars
  PROVE  WrapInv'
<1> SUFFICES ASSUME PosRange < BufSize
             PROVE  rx_buf_pos' = Len(line') % PosRange
  BY DEF WrapInv
<1>1. /\ line \in Seq(Chars) /\ PosRange \in Nat \ {0} /\ BufSize \in Nat
      /\ rx_buf_pos \in 0 .. PosRange - 1 /\ rx_buf_pos = Len(line) % PosRange
  BY SerialRxAssumption DEF SerialRxAssumption, LineInv, IInv, TypeOK, WrapInv
<1>2. 0 % PosRange = 0
  BY <1>1
<1>3. CASE UNCHANGED <<line, rx_buf_pos>>
  BY <1>1, <1>3
<1>4. CASE IsrTerminator
  BY <1>2, <1>4 DEF IsrTerminator
<1>5. CASE IsrStore
  <2>1. Len(line') = Len(line) + 1 /\ rx_buf_pos' = (rx_buf_pos + 1) % PosRange
    BY <1>1, <1>5 DEF IsrStore
  <2>2. Len(line) \in Nat
    BY <1>1
  <2>3. (Len(line) + 1) % PosRange = ((Len(line) % PosRange) + 1) % PosRange
    BY <1>1, <2>2, NextRemainder
  <2> QED BY <1>1, <2>1, <2>3, Zenon
<1>6. CASE IsrIgnore
  <2>1. rx_buf_pos < BufSize - 1
    BY <1>1
  <2>2. rdr = EOL /\ ~(rx_buf_pos > 0)
    BY <1>6, <2>1 DEF IsrIgnore, LineInv, IInv, TypeOK
  <2> QED BY <1>1, <1>2, <1>6, <2>2 DEF IsrIgnore
<1> QED BY <1>3, <1>4, <1>5, <1>6
      DEF Next, SerialCb, GsmDriverInit, ByteArrives, IsrEnter, IsrExit, ReadMsg, vars

LEMMA WrapInvariant == Spec => [](LineInv /\ WrapInv)
<1>1. Init => WrapInv
  BY SerialRxAssumption DEF Init, WrapInv, SerialRxAssumption
<1> QED BY <1>1, StepWrapInv, LineInvariant, PTL DEF Spec

(* Of a line, the reader gets as many of its last characters as the 8-bit  *)
(* index makes of its length: all of it while that is below the range,     *)
(* nothing if it is a multiple of the range (gsm_driver.h:26,              *)
(* gsm_driver.c:114-125).                                                  *)
Kept == Len(line) % PosRange
EndOfLine == SubSeq(line, Len(line) - Kept + 1, Len(line))

THEOREM LostExactly ==
  Spec => [][PosRange < BufSize /\ line # <<>> /\ line' = <<>> =>
               uart_msgq' = IF Kept = 0 THEN uart_msgq
                            ELSE MsgqPut(uart_msgq, EndOfLine)]_vars
<1>1. ASSUME LineInv, WrapInv, [Next]_vars, PosRange < BufSize, line # <<>>, line' = <<>>
      PROVE  uart_msgq' = IF Kept = 0 THEN uart_msgq ELSE MsgqPut(uart_msgq, EndOfLine)
  <2>1. rx_buf_pos = Kept /\ line \in Seq(Chars) /\ rx_buf_pos \in Nat
    BY <1>1, SerialRxAssumption DEF WrapInv, Kept, LineInv, IInv, TypeOK, SerialRxAssumption
  <2>2. CASE IsrTerminator
    <3>1. Offset + 1 = Len(line) - Kept + 1 /\ Offset + rx_buf_pos = Len(line)
      BY <1>1, <2>1 DEF Offset
    <3>2. CString(Terminated(rx_buf, rx_buf_pos)) = EndOfLine
      BY <1>1, <2>2, <3>1, QueuedMessageIsPart DEF IsrTerminator, EndOfLine
    <3> QED BY <2>1, <2>2, <3>2 DEF IsrTerminator
  <2>3. CASE IsrIgnore
    <3>1. ~(rx_buf_pos > 0)
      BY <1>1, <2>1, <2>3, SerialRxAssumption
         DEF IsrIgnore, LineInv, IInv, TypeOK, SerialRxAssumption
    <3> QED BY <2>1, <2>3, <3>1 DEF IsrIgnore
  <2>4. CASE IsrStore
    BY <1>1, <2>1, <2>4 DEF IsrStore
  <2> QED BY <1>1, <2>2, <2>3, <2>4
        DEF Next, SerialCb, GsmDriverInit, ByteArrives, IsrEnter, IsrExit, ReadMsg, vars
<1>2. LineInv /\ WrapInv /\ [Next]_vars
        => [PosRange < BufSize /\ line # <<>> /\ line' = <<>> =>
              uart_msgq' = IF Kept = 0 THEN uart_msgq ELSE MsgqPut(uart_msgq, EndOfLine)]_vars
  BY <1>1
<1> QED BY <1>2, WrapInvariant, PTL DEF Spec
=============================================================================

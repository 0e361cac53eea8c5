----------------------------- MODULE LineQueue -----------------------------
(***************************************************************************)
(* What the receive path of the GSM driver promises, without a buffer:     *)
(* characters accumulate into a line; a terminator hands the whole line,   *)
(* unchanged, to a bounded FIFO queue, and the line is lost only when the  *)
(* queue is full (the comment at gsm_driver.c:119); a reader takes         *)
(* messages in the order in which their lines ended.                       *)
(*                                                                         *)
(* A line of Limit characters or more may be lost, or reach the reader as  *)
(* a part of itself.  It leaves no trace on the lines before and after it. *)
(***************************************************************************)
EXTENDS Naturals, Sequences

CONSTANTS Chars,     \* characters that may occur inside a line
          Capacity,  \* messages the queue holds
          Limit      \* shorter lines are kept

VARIABLES line,      \* the characters of the line being received
          queue      \* the messages waiting for a reader

vars == <<line, queue>>

Init ==
  /\ line = <<>>
  /\ queue = <<>>

AddChar(c) ==
  /\ line' = Append(line, c)
  /\ UNCHANGED queue

HasRoom == Len(queue) < Capacity

EndLine ==
  /\ line # <<>>
  /\ Len(line) < Limit
  /\ line' = <<>>
  /\ queue' = IF HasRoom THEN Append(queue, line) ELSE queue

EndOverlongLine ==
  /\ Len(line) >= Limit
  /\ line' = <<>>
  /\ \/ UNCHANGED queue
     \/ /\ HasRoom
        /\ \E first, last \in 1 .. Len(line) :
             /\ first <= last
             /\ queue' = Append(queue, SubSeq(line, first, last))

Take ==
  /\ queue # <<>>
  /\ queue' = Tail(queue)
  /\ UNCHANGED line

Next ==
  \/ \E c \in Chars : AddChar(c)
  \/ EndLine
  \/ EndOverlongLine
  \/ Take

Spec == Init /\ [][Next]_vars
=============================================================================

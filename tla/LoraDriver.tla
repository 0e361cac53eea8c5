----------------------------- MODULE LoraDriver -----------------------------
(***************************************************************************)
(* The LoRa driver (samples/mesh/src/lora_driver.c): configuration and the *)
(* synchronous calls of an application thread, and the asynchronous        *)
(* reception whose callback puts packets on lora_msgq, emptying the queue  *)
(* when it is full so that the newest packet always gets in.               *)
(*                                                                         *)
(* The radio is Zephyr's and is modelled by what the code handles: every   *)
(* call may fail, and lora_config leaves the radio as it was when it does. *)
(* No code under src/ reads lora_msgq; a reader is any thread of the       *)
(* application, and may run between any two steps of the callback.         *)
(***************************************************************************)
EXTENDS Integers, Sequences

CONSTANTS MsgqLen,      \* LORA_MAX_MSGQ_LEN, 20
          MaxPackets    \* bound: packets heard by the asynchronous reception

ASSUME LoraAssumption ==
  /\ MsgqLen \in Nat \ {0}
  /\ MaxPackets \in Nat

VARIABLES config_tx,   \* config.tx: FALSE is ANTENNA_RX, TRUE is ANTENNA_TX
          radio,       \* the direction the radio was last configured for
          listening,   \* lora_callback_handler is installed
          call,        \* the driver call that returned last
          result,      \* what it returned
          cb,          \* where lora_callback_handler is
          last,        \* packets heard so far: they are numbered 1, 2, ...
          lora_msgq,
          taken        \* the packet that a reader took last, 0 if none

appVars == <<config_tx, radio, listening, call, result>>
rxVars == <<cb, last, lora_msgq, taken>>
vars == <<config_tx, radio, listening, call, result, cb, last,
          lora_msgq, taken>>

ANTENNA_RX == FALSE
ANTENNA_TX == TRUE

Init ==
  /\ config_tx = FALSE
  /\ radio = "unset"
  /\ listening = FALSE
  /\ call = "none"
  /\ result = FALSE
  /\ cb = "idle"
  /\ last = 0
  /\ lora_msgq = <<>>
  /\ taken = 0

-----------------------------------------------------------------------------
Direction(tx) == IF tx THEN "tx" ELSE "rx"

(* config_lora, with config.tx as it is about to be. *)
ConfigLora(ok) == radio' = IF ok THEN Direction(config_tx') ELSE radio

SetTxRx(value, ok) ==
  /\ config_tx' = value
  /\ ConfigLora(ok)

Returns(name, value) ==
  /\ call' = name
  /\ result' = value

(* lora_driver_init: false if the device is not ready; the result of       *)
(* config_lora is not looked at.                                           *)
LoraDriverInit ==
  /\ config_tx' = ANTENNA_TX
  /\ \/ Returns("init", FALSE) /\ UNCHANGED radio
     \/ Returns("init", TRUE) /\ \E ok \in BOOLEAN : ConfigLora(ok)
  /\ UNCHANGED <<listening, rxVars>>

(* lora_driver_send goes on to lora_send whether or not the radio could be *)
(* turned to transmission, and returns nothing.                            *)
LoraDriverSend ==
  /\ \E ok \in BOOLEAN : SetTxRx(ANTENNA_TX, ok)
  /\ Returns("send", result)
  /\ UNCHANGED <<listening, rxVars>>

(* lora_driver_receive: both branches return before the memcpy to the      *)
(* caller's buffer, which is never written.                                *)
LoraDriverReceive ==
  /\ \E ok \in BOOLEAN : SetTxRx(ANTENNA_RX, ok)
  /\ \E heard \in BOOLEAN : Returns("receive", heard)
  /\ UNCHANGED <<listening, rxVars>>

LoraDriverStartCallback ==
  /\ \E ok \in BOOLEAN : SetTxRx(ANTENNA_RX, ok)
  /\ \/ Returns("start_callback", TRUE) /\ listening' = TRUE
     \/ Returns("start_callback", FALSE) /\ UNCHANGED listening
  /\ UNCHANGED rxVars

LoraDriverStopCallback ==
  /\ \/ Returns("stop_callback", TRUE) /\ listening' = FALSE
     \/ Returns("stop_callback", FALSE) /\ UNCHANGED listening
  /\ UNCHANGED <<config_tx, radio, rxVars>>

-----------------------------------------------------------------------------
(* lora_callback_handler copies the packet into lora_d. *)
CbEnter ==
  /\ listening
  /\ cb = "idle"
  /\ last < MaxPackets
  /\ last' = last + 1
  /\ cb' = "put"
  /\ UNCHANGED <<appVars, lora_msgq, taken>>

HasRoomOrOneOver == Len(lora_msgq) <= MsgqLen
HasRoom == Len(lora_msgq) < MsgqLen

CbPutAndRetry ==
  /\ cb = "put"
  /\ lora_msgq' = IF HasRoom THEN Append(lora_msgq, last) ELSE lora_msgq
  /\ cb' \in IF HasRoom THEN {"idle", "put"} ELSE {"purge"}
  /\ UNCHANGED <<appVars, last, taken>>

(* k_msgq_put with K_NO_WAIT. *)
CbPut ==
  /\ cb = "put"
  /\ \/ /\ HasRoom
        /\ lora_msgq' = Append(lora_msgq, last)
        /\ cb' = "idle"
     \/ /\ ~HasRoom
        /\ UNCHANGED lora_msgq
        /\ cb' = "purge"
  /\ UNCHANGED <<appVars, last, taken>>

CbPurgeThenReturn ==
  /\ cb = "purge"
  /\ lora_msgq' = <<>>
  /\ cb' = "idle"
  /\ UNCHANGED <<appVars, last, taken>>

CbRetryWithoutPurge ==
  /\ cb = "purge"
  /\ cb' = "put"
  /\ UNCHANGED <<appVars, last, taken, lora_msgq>>

(* k_msgq_purge, whatever the queue holds by now, and try again. *)
CbPurge ==
  /\ cb = "purge"
  /\ lora_msgq' = <<>>
  /\ cb' = "put"
  /\ UNCHANGED <<appVars, last, taken>>

(* A reader's k_msgq_get. *)
Read ==
  /\ lora_msgq # <<>>
  /\ taken' = Head(lora_msgq)
  /\ lora_msgq' = Tail(lora_msgq)
  /\ UNCHANGED <<appVars, cb, last>>

Next ==
  \/ LoraDriverInit
  \/ LoraDriverSend
  \/ LoraDriverReceive
  \/ LoraDriverStartCallback
  \/ LoraDriverStopCallback
  \/ CbEnter
  \/ CbPut
  \/ CbPurge
  \/ Read

Spec == Init /\ [][Next]_vars

(* The thread that runs the callback goes on with it. *)
FairSpec == Spec /\ WF_vars(CbPut \/ CbPurge)

-----------------------------------------------------------------------------
(* Type correctness. *)
TypeOK ==
  /\ config_tx \in BOOLEAN
  /\ radio \in {"unset", "rx", "tx"}
  /\ listening \in BOOLEAN
  /\ call \in {"none", "init", "send", "receive", "start_callback", "stop_callback"}
  /\ result \in BOOLEAN
  /\ cb \in {"idle", "put", "purge"}
  /\ last \in Nat
  /\ lora_msgq \in Seq(Nat)
  /\ Len(lora_msgq) <= MsgqLen
  /\ taken \in Nat

(* The packets for which the handler is done. *)
Handled == IF cb = "idle" THEN last ELSE last - 1

(* The queue is an unbroken run of packets that ends with the newest one   *)
(* handled, after everything a reader took: purging loses old packets, but *)
(* never splits the queue, duplicates or reorders (lora_driver.c:134-138). *)
QueueIsRecent ==
  /\ \A i \in 1 .. Len(lora_msgq) : lora_msgq[i] = Handled - Len(lora_msgq) + i
  /\ taken <= Handled - Len(lora_msgq)

(* When the handler has returned, the packet it was called with is in the  *)
(* queue or with a reader, also if the queue was full (lora_driver.c:136). *)
NewestSurvives ==
  cb = "idle" => lora_msgq # <<>> \/ taken = last

(* The retry loop of the handler ends, without help from a reader. *)
HandlerReturns == (cb # "idle") ~> (cb = "idle")

=============================================================================

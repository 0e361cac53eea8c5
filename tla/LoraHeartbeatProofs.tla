-------------------------- MODULE LoraHeartbeatProofs --------------------------
(***************************************************************************)
(* Proofs about the LoRa driver and the heartbeat, which goes over LoRa    *)
(* when the mobile signal is weak.                                         *)
(*                                                                         *)
(* LoraDriver, for every length of lora_msgq and any number of packets:    *)
(* the queue is always the newest unbroken run of packets, the packet of a *)
(* handler that has returned is never lost, and a reader gets packets in   *)
(* their order.  Heartbeat, for any nodes, strengths and interval: the     *)
(* timer's handler has a node, and the right one, wherever it interrupts.  *)
(***************************************************************************)
EXTENDS LoraDriver, Heartbeat, SequenceTheorems, TLAPS

IInv ==
  /\ TypeOK
  /\ cb # "idle" => last > 0
  /\ QueueIsRecent
  /\ NewestSurvives

(* The calls of the application do not touch the queue or the callback. *)
Call ==
  \/ LoraDriverInit
  \/ LoraDriverSend
  \/ LoraDriverReceive
  \/ LoraDriverStartCallback
  \/ LoraDriverStopCallback

LEMMA InitIInv == Init => IInv
<1> SUFFICES ASSUME Init PROVE IInv
  OBVIOUS
<1>1. MsgqLen \in Nat /\ Len(lora_msgq) = 0 /\ lora_msgq \in Seq(Nat)
  BY LoraAssumption DEF LoraAssumption, Init
<1>2. TypeOK
  <2>1. Len(lora_msgq) <= MsgqLen
    BY <1>1
  <2> QED BY <1>1, <2>1 DEF Init, TypeOK
<1>3. Handled = 0
  BY DEF Init, Handled
<1>4. QueueIsRecent
  BY <1>1, <1>3 DEF Init, QueueIsRecent
<1> QED BY <1>2, <1>4 DEF Init, IInv, NewestSurvives

LEMMA CallIInv == IInv /\ Call => IInv'
<1> SUFFICES ASSUME IInv, Call PROVE IInv'
  OBVIOUS
<1>1. UNCHANGED rxVars
  BY DEF Call, LoraDriverInit, LoraDriverSend, LoraDriverReceive,
         LoraDriverStartCallback, LoraDriverStopCallback
<1>2. radio' \in {"unset", "rx", "tx"} /\ config_tx' \in BOOLEAN
  BY DEF Call, LoraDriverInit, LoraDriverSend, LoraDriverReceive,
         LoraDriverStartCallback, LoraDriverStopCallback, IInv, TypeOK,
         SetTxRx, ConfigLora, Direction, ANTENNA_TX, ANTENNA_RX
<1>3. /\ call' \in {"init", "send", "receive", "start_callback", "stop_callback"}
      /\ result' \in BOOLEAN
      /\ listening' \in BOOLEAN
  BY DEF Call, LoraDriverInit, LoraDriverSend, LoraDriverReceive,
         LoraDriverStartCallback, LoraDriverStopCallback, IInv, TypeOK, Returns
<1>4. TypeOK'
  BY <1>1, <1>2, <1>3 DEF IInv, TypeOK, rxVars
<1>5. QueueIsRecent' /\ NewestSurvives' /\ (cb # "idle" => last > 0)'
  BY <1>1 DEF IInv, QueueIsRecent, NewestSurvives, Handled, rxVars
<1> QED BY <1>4, <1>5 DEF IInv

LEMMA CbEnterIInv == IInv /\ CbEnter => IInv'
<1> SUFFICES ASSUME IInv, CbEnter PROVE IInv'
  OBVIOUS
<1>1. last \in Nat /\ Handled' = Handled /\ lora_msgq' = lora_msgq /\ taken' = taken
  BY DEF IInv, TypeOK, CbEnter, Handled
<1>2. TypeOK'
  BY DEF IInv, TypeOK, CbEnter, appVars
<1>3. QueueIsRecent'
  BY <1>1 DEF IInv, QueueIsRecent
<1>4. NewestSurvives' /\ (cb # "idle" => last > 0)'
  BY <1>1 DEF CbEnter, NewestSurvives
<1> QED BY <1>2, <1>3, <1>4 DEF IInv

LEMMA CbPutIInv == IInv /\ CbPut => IInv'
<1> SUFFICES ASSUME IInv, CbPut PROVE IInv'
  OBVIOUS
<1>1. /\ last \in Nat /\ Handled = last - 1 /\ lora_msgq \in Seq(Nat)
      /\ MsgqLen \in Nat /\ taken \in Nat /\ last > 0
  BY LoraAssumption DEF LoraAssumption, IInv, TypeOK, CbPut, Handled
<1>2. CASE Len(lora_msgq) < MsgqLen /\ lora_msgq' = Append(lora_msgq, last) /\ cb' = "idle"
  <2>1. /\ Len(lora_msgq') = Len(lora_msgq) + 1
        /\ \A i \in 1 .. Len(lora_msgq) : lora_msgq'[i] = lora_msgq[i]
        /\ lora_msgq'[Len(lora_msgq) + 1] = last
        /\ lora_msgq' \in Seq(Nat) /\ Len(lora_msgq) \in Nat
    BY <1>1, <1>2
  <2>2. Handled' = last
    BY <1>2 DEF CbPut, Handled
  <2>3. TypeOK'
    BY <1>1, <1>2, <2>1 DEF IInv, TypeOK, CbPut, appVars
  <2>4. QueueIsRecent'
    <3>1. \A i \in 1 .. Len(lora_msgq) : lora_msgq[i] = last - 1 - Len(lora_msgq) + i
      BY <1>1 DEF IInv, QueueIsRecent
    <3>2. ASSUME NEW i \in 1 .. Len(lora_msgq')
          PROVE  lora_msgq'[i] = last - Len(lora_msgq') + i
      <4>1. i \in 1 .. Len(lora_msgq) \/ i = Len(lora_msgq) + 1
        BY <2>1
      <4>2. CASE i \in 1 .. Len(lora_msgq)
        BY <1>1, <2>1, <3>1, <4>2
      <4>3. CASE i = Len(lora_msgq) + 1
        BY <1>1, <2>1, <4>3
      <4> QED BY <4>1, <4>2, <4>3
    <3>3. taken' <= last - Len(lora_msgq')
      BY <1>1, <2>1 DEF IInv, QueueIsRecent, CbPut
    <3> QED BY <2>2, <3>2, <3>3 DEF QueueIsRecent
  <2>5. NewestSurvives'
    <3>1. Len(lora_msgq') # Len(<<>>)
      BY <2>1, EmptySeq
    <3> QED BY <3>1 DEF NewestSurvives
  <2> QED BY <1>2, <2>3, <2>4, <2>5 DEF IInv
<1>3. CASE UNCHANGED lora_msgq /\ cb' = "purge"
  <2>1. TypeOK'
    BY <1>3 DEF IInv, TypeOK, CbPut, appVars
  <2> QED BY <1>1, <1>3, <2>1 DEF IInv, CbPut, QueueIsRecent, NewestSurvives, Handled
<1> QED BY <1>2, <1>3 DEF CbPut, HasRoom

LEMMA CbPurgeIInv == IInv /\ CbPurge => IInv'
<1> SUFFICES ASSUME IInv, CbPurge PROVE IInv'
  OBVIOUS
<1>1. /\ lora_msgq' \in Seq(Nat) /\ Len(lora_msgq') = 0 /\ MsgqLen \in Nat
      /\ Handled' = Handled /\ Handled \in Int
  BY LoraAssumption DEF LoraAssumption, IInv, TypeOK, CbPurge, Handled
<1>2. TypeOK'
  BY <1>1 DEF IInv, TypeOK, CbPurge, appVars
<1>3. QueueIsRecent'
  <2>1. taken <= Handled - Len(lora_msgq) /\ Len(lora_msgq) \in Nat /\ taken \in Nat
    BY DEF IInv, TypeOK, QueueIsRecent
  <2> QED BY <1>1, <2>1 DEF QueueIsRecent, CbPurge
<1> QED BY <1>2, <1>3 DEF IInv, CbPurge, NewestSurvives

LEMMA ReadIInv == IInv /\ Read => IInv'
<1> SUFFICES ASSUME IInv, Read PROVE IInv'
  OBVIOUS
<1>1. /\ lora_msgq \in Seq(Nat) /\ lora_msgq # <<>> /\ Len(lora_msgq) \in Nat \ {0}
      /\ Handled' = Handled /\ Handled \in Int /\ MsgqLen \in Nat
  BY LoraAssumption, EmptySeq DEF LoraAssumption, IInv, TypeOK, Read, Handled
<1>2. /\ lora_msgq' \in Seq(Nat) /\ Len(lora_msgq') = Len(lora_msgq) - 1
      /\ \A i \in 1 .. Len(lora_msgq') : lora_msgq'[i] = lora_msgq[i + 1]
      /\ taken' = lora_msgq[1] /\ taken' \in Nat
  BY <1>1, HeadTailProperties DEF Read
<1>3. taken' = Handled - Len(lora_msgq')
  BY <1>1, <1>2 DEF IInv, QueueIsRecent
<1>4. TypeOK'
  BY <1>1, <1>2 DEF IInv, TypeOK, Read, appVars
<1>5. QueueIsRecent'
  <2>1. \A i \in 1 .. Len(lora_msgq') : lora_msgq'[i] = Handled - Len(lora_msgq') + i
    BY <1>1, <1>2 DEF IInv, QueueIsRecent
  <2> QED BY <1>1, <1>2, <1>3, <2>1 DEF QueueIsRecent
<1>6. NewestSurvives'
  <2>1. lora_msgq' = <<>> => Len(lora_msgq') = 0
    OBVIOUS
  <2> QED BY <1>1, <1>2, <1>3, <2>1 DEF NewestSurvives, Read, Handled
<1> QED BY <1>4, <1>5, <1>6 DEF IInv, Read

LEMMA StepIInv == IInv /\ [Next]_vars => IInv'
<1> SUFFICES ASSUME IInv, [Next]_vars PROVE IInv'
  OBVIOUS
<1>1. CASE UNCHANGED vars
  BY <1>1 DEF vars, IInv, TypeOK, QueueIsRecent, NewestSurvives, Handled
<1> QED
  BY <1>1, CallIInv, CbEnterIInv, CbPutIInv, CbPurgeIInv, ReadIInv DEF Next, Call

LEMMA Invariant == Spec => []IInv
BY InitIInv, StepIInv, PTL DEF Spec

(* lora_msgq never overflows, whichever step a reader comes between. *)
THEOREM TypeCorrect == Spec => []TypeOK
<1>1. IInv => TypeOK
  BY DEF IInv
<1> QED BY <1>1, Invariant, PTL

(* What is queued is an unbroken, newest-ending run of packets, and every  *)
(* reader sees packets in the order in which the radio heard them.         *)
THEOREM QueueCorrect == Spec => []QueueIsRecent
<1>1. IInv => QueueIsRecent
  BY DEF IInv
<1> QED BY <1>1, Invariant, PTL

(* A full queue never costs the newest packet (lora_driver.c:134-138). *)
THEOREM NewestIsKept == Spec => []NewestSurvives
<1>1. IInv => NewestSurvives
  BY DEF IInv
<1> QED BY <1>1, Invariant, PTL

(* A reader never gets a packet twice, nor an older one after a newer,     *)
(* with purges before, between and after (lora_driver.c:134-138).          *)
THEOREM PacketsTakenInOrder == Spec => [][taken' # taken => taken' > taken]_vars
<1>1. IInv /\ [Next]_vars => [taken' # taken => taken' > taken]_vars
  <2> SUFFICES ASSUME IInv, [Next]_vars, taken' # taken
               PROVE  taken' > taken
    OBVIOUS
  <2>1. CASE Read
    <3>1. /\ lora_msgq # <<>> /\ lora_msgq \in Seq(Nat)
          /\ taken' = Head(lora_msgq)
          /\ taken \in Nat /\ last \in Nat
      BY <2>1 DEF Read, IInv, TypeOK
    <3>2. Len(lora_msgq) \in Nat \ {0} /\ taken' = lora_msgq[1] /\ Handled \in Int
      BY <3>1 DEF Handled
    <3>3. taken' = Handled - Len(lora_msgq) + 1
      BY <3>2 DEF IInv, QueueIsRecent
    <3> QED BY <3>1, <3>2, <3>3 DEF IInv, QueueIsRecent
  <2>2. CASE ~Read
    BY <2>2 DEF Next, LoraDriverInit, LoraDriverSend, LoraDriverReceive,
       LoraDriverStartCallback, LoraDriverStopCallback, CbEnter, CbPut, CbPurge,
       rxVars, vars
  <2> QED BY <2>1, <2>2
<1> QED BY <1>1, Invariant, PTL DEF Spec

-----------------------------------------------------------------------------
(* The heartbeat.  The node that is remembered is the one that             *)
(* start_heartbeat works on, and then the one it has returned with.        *)
NodeInv ==
  /\ HeartbeatTypeOK
  /\ starting # NoNode => global_node = starting
  /\ started # NoNode => global_node = started

LEMMA InitNodeInv == HeartbeatInit => NodeInv
<1> SUFFICES ASSUME HeartbeatInit PROVE NodeInv
  OBVIOUS
<1>1. mocked \in BOOLEAN /\ in_handler \in BOOLEAN /\ ~in_handler
  BY DEF HeartbeatInit
<1>2. ~(left > 0) /\ left \in 0 .. Interval /\ strength \in Strengths /\ starts \in Nat
  BY HeartbeatAssumption DEF HeartbeatAssumption, HeartbeatInit
<1>3. sent \in [node : Nodes \cup {NoNode}, strength : Strengths \cup {0},
                channel : {"none", "lora", "server"}]
  BY DEF HeartbeatInit, Nothing
<1> QED BY <1>1, <1>2, <1>3 DEF HeartbeatInit, NodeInv, HeartbeatTypeOK

LEMMA StartHeartbeatInv ==
  ASSUME NodeInv, NEW node \in Nodes, StartHeartbeat(node)
  PROVE  NodeInv'
BY HeartbeatAssumption
   DEF HeartbeatAssumption, NodeInv, HeartbeatTypeOK, StartHeartbeat, Remember

LEMMA StartTimerInv ==
  ASSUME NodeInv, StartTimer
  PROVE  NodeInv'
BY HeartbeatAssumption DEF HeartbeatAssumption, NodeInv, HeartbeatTypeOK, StartTimer

LEMMA TickInv ==
  ASSUME NodeInv, Tick
  PROVE  NodeInv'
<1>1. /\ left \in 1 .. Interval /\ Interval \in Nat /\ global_node # NoNode
      /\ left' = IF left = 1 THEN Interval ELSE left - 1
      /\ UNCHANGED <<mocked, global_node, starting, started, strength, sent, starts>>
  BY HeartbeatAssumption DEF HeartbeatAssumption, NodeInv, HeartbeatTypeOK, Tick
<1>2. left' \in 0 .. Interval
  BY <1>1
<1>3. in_handler' \in BOOLEAN
  BY DEF Tick
<1> QED BY <1>1, <1>2, <1>3 DEF NodeInv, HeartbeatTypeOK

LEMMA SendHeartbeatInv ==
  ASSUME NodeInv, SendHeartbeat
  PROVE  NodeInv'
<1>1. sent' \in [node : Nodes \cup {NoNode}, strength : Strengths \cup {0},
                 channel : {"none", "lora", "server"}]
  BY DEF SendHeartbeat, Channel, NodeInv, HeartbeatTypeOK
<1> QED BY <1>1 DEF NodeInv, HeartbeatTypeOK, SendHeartbeat

LEMMA StepNodeInv == NodeInv /\ [HeartbeatNext]_heartbeatVars => NodeInv'
<1> SUFFICES ASSUME NodeInv, [HeartbeatNext]_heartbeatVars
             PROVE  NodeInv'
  OBVIOUS
<1>1. CASE SignalChanges \/ UNCHANGED heartbeatVars
  BY <1>1 DEF NodeInv, HeartbeatTypeOK, SignalChanges, heartbeatVars
<1> QED BY <1>1, StartHeartbeatInv, StartTimerInv, TickInv, SendHeartbeatInv
   DEF HeartbeatNext

LEMMA NodeInvariant == HeartbeatSpec => []NodeInv
BY InitNodeInv, StepNodeInv, PTL DEF HeartbeatSpec

(* Wherever the timer interrupts start_heartbeat, and whatever calls came  *)
(* before, its handler has a node (heartbeat_handler.c:5-15).              *)
THEOREM HandlerHasNode == HeartbeatSpec => []HeartbeatTypeOK
<1>1. NodeInv => HeartbeatTypeOK
  BY DEF NodeInv
<1> QED BY <1>1, NodeInvariant, PTL

(* ... and between two calls of start_heartbeat it begins, and sends, the  *)
(* heartbeat of the node of the first (heartbeat_handler.c:8, 11-15).      *)
THEOREM HeartbeatIsOfStartedNode == HeartbeatSpec => HeartbeatOfStartedNode
<1>1. NodeInv /\ [HeartbeatNext]_heartbeatVars =>
        [started # NoNode =>
           /\ in_handler' /\ ~in_handler => global_node = started
           /\ sent' # sent => sent'.node = started]_heartbeatVars
  BY DEF NodeInv, HeartbeatNext, StartHeartbeat, StartTimer, Tick, SendHeartbeat,
     SignalChanges, heartbeatVars
<1> QED BY <1>1, NodeInvariant, PTL DEF HeartbeatSpec, HeartbeatOfStartedNode
=============================================================================

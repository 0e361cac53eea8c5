------------------------------ MODULE Heartbeat ------------------------------
(***************************************************************************)
(* The heartbeat (samples/mesh/src/heartbeat_handler.c): start_heartbeat   *)
(* remembers a node and starts a timer, whose handler, in interrupt        *)
(* context, sends the heartbeat of the node that is remembered by then,    *)
(* over LoRa when the signal is weak or unknown and to the server          *)
(* otherwise.                                                              *)
(*                                                                         *)
(* The handler waits inside get_signal_strength, and no thread and no      *)
(* further tick comes in between.  In the build of the unit tests that     *)
(* call is a mock and returns the present strength; in the application it  *)
(* is the one of gsm_driver.c, which has no way out of its loop (147;      *)
(* SignalQuery), so that the first heartbeat there is the last.            *)
(***************************************************************************)
EXTENDS Naturals

CONSTANTS Nodes,         \* the nodes that start_heartbeat may be given
          NoNode,        \* the null pointer
          Strengths,     \* values of get_signal_strength
          Interval,      \* HEARTBEAT_INTERVAL in ticks
          MaxStarts      \* bound: calls of start_heartbeat

LOW_SIGNAL_THRESHOLD == 10
NOT_KNOWN == 99

ASSUME HeartbeatAssumption ==
  /\ NoNode \notin Nodes
  /\ Strengths \subseteq Nat
  /\ Interval \in Nat \ {0}
  /\ MaxStarts \in Nat

VARIABLES mocked,     \* the build: get_signal_strength is the mock
          global_node,
          left,       \* ticks until heartbeat_timer expires, 0 if stopped
          starting,   \* the node start_heartbeat is working on, or NoNode
          started,    \* history: the node of the last call that returned
          in_handler, \* heartbeat_handler is in get_signal_strength
          strength,   \* the mobile signal at this moment
          sent,       \* the last heartbeat: its node, strength and channel
          starts      \* counts up to MaxStarts

heartbeatVars == <<mocked, global_node, left, starting, started, in_handler,
                   strength, sent, starts>>

Nothing == [node |-> NoNode, strength |-> 0, channel |-> "none"]

HeartbeatInit ==
  /\ mocked \in BOOLEAN
  /\ global_node = NoNode
  /\ left = 0
  /\ starting = NoNode
  /\ started = NoNode
  /\ in_handler = FALSE
  /\ strength \in Strengths
  /\ sent = Nothing
  /\ starts = 0

-----------------------------------------------------------------------------
RememberFirst(node) == IF global_node = NoNode THEN node ELSE global_node
Remember(node) == node

StartBeforeRemember(node) ==
  /\ ~in_handler
  /\ starting = NoNode
  /\ starts < MaxStarts
  /\ starting' = node
  /\ left' = Interval
  /\ starts' = starts + 1
  /\ UNCHANGED <<mocked, global_node, started, in_handler, strength, sent>>

(* start_heartbeat: the node is remembered ... *)
StartHeartbeat(node) ==
  /\ ~in_handler
  /\ starting = NoNode
  /\ starts < MaxStarts
  /\ starting' = node
  /\ global_node' = Remember(node)
  /\ started' = NoNode
  /\ starts' = starts + 1
  /\ UNCHANGED <<mocked, left, in_handler, strength, sent>>

(* ... and then the timer is started, or restarted. *)
StartTimer ==
  /\ ~in_handler
  /\ starting # NoNode
  /\ left' = Interval
  /\ starting' = NoNode
  /\ started' = starting
  /\ UNCHANGED <<mocked, global_node, in_handler, strength, sent, starts>>

(* A tick of the clock.  The timer is periodic: when it expires it is      *)
(* started again, and heartbeat_handler calls send_heartbeat, which calls  *)
(* get_signal_strength.                                                    *)
Tick ==
  /\ ~in_handler
  /\ left > 0
  /\ left' = IF left = 1 THEN Interval ELSE left - 1
  /\ in_handler' = (left = 1)
  /\ UNCHANGED <<mocked, global_node, starting, started, strength, sent, starts>>

Channel(s) ==
  IF s < LOW_SIGNAL_THRESHOLD \/ s = NOT_KNOWN THEN "lora" ELSE "server"

(* The mock returns, and send_heartbeat goes on to the end. *)
SendHeartbeat ==
  /\ in_handler
  /\ mocked
  /\ in_handler' = FALSE
  /\ sent' = [node |-> global_node, strength |-> strength,
              channel |-> Channel(strength)]
  /\ UNCHANGED <<mocked, global_node, left, starting, started, strength, starts>>

(* The modem moves to where the signal is another one. *)
SignalChanges ==
  /\ strength' \in Strengths
  /\ UNCHANGED <<mocked, global_node, left, starting, started, in_handler, sent, starts>>

HeartbeatNext ==
  \/ \E node \in Nodes : StartHeartbeat(node)
  \/ StartTimer
  \/ Tick
  \/ SendHeartbeat
  \/ SignalChanges

HeartbeatSpec == HeartbeatInit /\ [][HeartbeatNext]_heartbeatVars

-----------------------------------------------------------------------------
(* Type correctness; the timer never runs without a node: wherever in      *)
(* start_heartbeat it interrupts, heartbeat_handler cannot hand a null     *)
(* node to send_heartbeat (heartbeat_handler.c:13-14).                     *)
HeartbeatTypeOK ==
  /\ mocked \in BOOLEAN
  /\ global_node \in Nodes \cup {NoNode}
  /\ left \in 0 .. Interval
  /\ starting \in Nodes \cup {NoNode}
  /\ started \in Nodes \cup {NoNode}
  /\ in_handler \in BOOLEAN
  /\ strength \in Strengths
  /\ sent \in [node : Nodes \cup {NoNode}, strength : Strengths \cup {0},
               channel : {"none", "lora", "server"}]
  /\ starts \in Nat
  /\ left > 0 \/ in_handler => global_node # NoNode

(* Once start_heartbeat has returned, every heartbeat that the handler     *)
(* begins, and every one that it sends, is of its node                     *)
(* (heartbeat_handler.c:8, 11-15).                                         *)
HeartbeatOfStartedNode ==
  [][started # NoNode =>
       /\ in_handler' /\ ~in_handler => global_node = started
       /\ sent' # sent => sent'.node = started]_heartbeatVars
=============================================================================

CONSTANTS
  n1 = n1
  n2 = n2
  NoNode = NoNode
  Nodes <- MCNodes
  Strengths <- MCStrengths
  Interval = 3
  MaxStarts = 3
SPECIFICATION HeartbeatSpec
INVARIANTS HeartbeatTypeOK
PROPERTIES HeartbeatOfStartedNode

CONSTANTS
  patient = patient
  eager = eager
  node1 = node1
  Clients <- MCClients
  Slaves <- MCOneSlave
  Requests <- MCRequests
  Window <- MCWindow
  Prefix = 2
  MaxSlaves = 5
  MaxSends = 2
SPECIFICATION Spec
INVARIANTS FramesAligned RepliesInOrder ReplicaPrefix
PROPERTY Answered
CHECK_DEADLOCK FALSE

CONSTANTS
  Packets = {a, b}
  Getters = {g1, g2, g3}
  MAX_QUEUES = 4
  NoPacket = NoPacket
SPECIFICATION FairSpec
INVARIANTS
  NoLostWakeup
PROPERTIES
  QueueUntilOverrun
  PacketsGetOut
CHECK_DEADLOCK FALSE

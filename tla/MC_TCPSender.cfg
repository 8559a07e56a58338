CONSTANTS
  Buffers = {"list"}
  Payloads <- MCPayloads
  PacketIds <- MCPacketIds
  MaxSize = 2
  SetupFailures <- MCSetupFailures
  SendCanFail = TRUE
  InitCanFail = TRUE
  NULL = NULL
  MaxPosts = 2
SPECIFICATION HarnessSpec
INVARIANT TypeOK
INVARIANT WireFollowsPosts
INVARIANT DoneMeansDelivered
INVARIANT WorkerOnlyWithOpenSocket
PROPERTY PostEventuallyCompletes
PROPERTY IdleWorkerTerminates
PROPERTY HandoffRefined

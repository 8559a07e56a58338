CONSTANTS
  Buffers = {"list"}
  Payloads <- MCPayloads
  PacketIds <- MCPacketIds
  MaxSize = 2
  SetupFailures <- MCSetupFailures
  SendCanFail = TRUE
  InitCanFail = TRUE
  NULL = NULL
  MaxPosts = 2
SPECIFICATION HarnessSpec
INVARIANT InitMeansWorkerReady





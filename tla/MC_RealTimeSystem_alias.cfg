\* Skip mode: a skipped tick's list can reach the socket.
CONSTANTS
  Buffers <- MCBuffers
  Payloads <- MCPayloads
  PacketIds <- MCPacketIds
  MaxSize = 2
  SetupFailures <- MCSetupFailures
  SendCanFail = TRUE
  InitCanFail = TRUE
  NULL = NULL
  MaxPosts = 1
  Frequencies = {1}
  Tolerances = {1}
  SkipModes = {TRUE}
  TimeLimits = {3}
  TimerMaxFrequency = 200
  RtCanFail = TRUE
  MaxTicks = 4
  Strategies = {"busy"}
  SecPs = 60
  PsPerNs = 7
  RebaseAt = 3
  WordBits = 9
  WorstDelay = 2
  OsDelay = 0
  Gap = 0
  WorkSteps = {12}
SPECIFICATION RtsSpec
INVARIANT
  WireFollowsPosts

\* run() in skip mode: send() is never refused as in progress, and run() tears down on return.
CONSTANTS
  Buffers <- MCBuffers
  Payloads <- MCPayloads
  PacketIds <- MCPacketIds
  MaxSize = 2
  SetupFailures <- MCSetupFailures
  SendCanFail = FALSE
  InitCanFail = FALSE
  NULL = NULL
  MaxPosts = 1
  Frequencies = {1, 201}
  Tolerances = {0}
  SkipModes = {TRUE}
  TimeLimits = {3}
  TimerMaxFrequency = 200
  RtCanFail = FALSE
  MaxTicks = 6
  Strategies = {"busy"}
  SecPs = 60
  PsPerNs = 7
  RebaseAt = 3
  WordBits = 9
  WorstDelay = 2
  OsDelay = 0
  Gap = 0
  WorkSteps = {12}
SPECIFICATION RtsSpec
INVARIANTS
  RunNeverRefusedInProgress
PROPERTIES
  RunReturnTearsDown

\* run() without skip mode: delivery of the run's lists and teardown.
CONSTANTS
  Buffers <- MCBuffers
  Payloads <- MCPayloads
  PacketIds <- MCPacketIds
  MaxSize = 2
  SetupFailures <- MCSetupFailures
  SendCanFail = TRUE
  InitCanFail = TRUE
  NULL = NULL
  MaxPosts = 1
  Frequencies = {1}
  Tolerances = {1}
  SkipModes = {FALSE}
  TimeLimits = {3}
  TimerMaxFrequency = 200
  RtCanFail = TRUE
  MaxTicks = 3
  Strategies = {"busy"}
  SecPs = 60
  PsPerNs = 7
  RebaseAt = 3
  WordBits = 9
  WorstDelay = 2
  OsDelay = 0
  Gap = 0
  WorkSteps = {}
SPECIFICATION RtsSpec
INVARIANTS
  RtsTypeOK
  WireFollowsPosts
  TimerMatchesSystem
PROPERTIES
  EveryCallReturns

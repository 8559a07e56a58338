\* The three timers over nine ticks with two rebases of start_time_, work that can
\* overrun a period, and an OS delay above the declared worst case.
CONSTANTS
  Strategies = {"busy", "free", "worst"}
  Frequencies = {1, 2, 300}
  TimerMaxFrequency = 200
  SecPs = 60
  PsPerNs = 7
  RebaseAt = 3
  WordBits = 9
  WorstDelay = 2
  OsDelay = 3
  Gap = 1
  WorkSteps = {0, 3, 12}
  MaxTicks = 9
  StrictCaller = TRUE
SPECIFICATION TSpec
INVARIANTS
  TTypeOK
  DriftBoundedByRebases
  WakeWithinBound

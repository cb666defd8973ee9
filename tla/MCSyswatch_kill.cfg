CONSTANTS
  watch = watch
  high = high
  a = a
  b = b
  idle = idle
  Threads <- MCThreads
  Prio <- MCPrio
  Idle = idle
  Watch = watch
  None = None
  EXCEPT_TIMEOUT = 2
  CONFIRM_TMO = 2
  RESUME_DLY = 2
  Ends = {a}
  Overload = TRUE
  MaxFails = 1
SPECIFICATION Spec
INVARIANTS TypeOK SchedulerOK ListMatchesStep NoDangling SilenceBounded
PROPERTIES KillsAfterSilence SparesHigher ComesBack

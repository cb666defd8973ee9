CONSTANTS
  watch = watch
  high = high
  a = a
  b = b
  idle = idle
  Threads <- Twins
  Prio <- TwinPrio
  Idle = idle
  Watch = watch
  None = None
  EXCEPT_TIMEOUT = 2
  CONFIRM_TMO = 2
  RESUME_DLY = 2
  Ends = {}
  Overload = FALSE
  MaxFails = 0
SPECIFICATION Spec
PROPERTIES KillsOnlyHung

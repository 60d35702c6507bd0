\* Two fakers at a time, and everything that may go wrong.
SPECIFICATION FairSpec
CONSTANTS
  Fakers = {f1, f2}
  None = None
  MountMayFail = TRUE
  MkdtempMayFail = TRUE
  AppUnmounts = TRUE
  OthersUnmount = TRUE
INVARIANTS IInv NoUseAfterFree ReadyIsMounted NoLostWakeup
PROPERTIES SignalsAreHandled CreateEnds DestructorReturns
CHECK_DEADLOCK FALSE

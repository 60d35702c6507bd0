\* The application unmounts before it destroys.
SPECIFICATION Spec
CONSTANTS
  Fakers = {f1}
  None = None
  MountMayFail = FALSE
  MkdtempMayFail = FALSE
  AppUnmounts = TRUE
  OthersUnmount = FALSE
INVARIANT ProcessSurvives
CHECK_DEADLOCK FALSE

\* fuse_main fails.
SPECIFICATION FairSpec
CONSTANTS
  Fakers = {f1}
  None = None
  MountMayFail = TRUE
  MkdtempMayFail = FALSE
  AppUnmounts = FALSE
  OthersUnmount = FALSE
PROPERTY CreateReturns
CHECK_DEADLOCK FALSE

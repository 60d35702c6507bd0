\* Installs and uninstalls in any order, each of whose commands may fail.
SPECIFICATION Spec
CONSTANTS
  Prefixes = {p1, p2}
  Stagings = {}
  None = None
  InstallCalls <- Installs
  UninstallCalls <- Uninstalls
  TestAllCalls <- NoCalls
  PackageCalls <- NoCalls
SYMMETRY Symmetry
INVARIANTS UninstallRemovesAll InstalledAsAsked LoaderKnows

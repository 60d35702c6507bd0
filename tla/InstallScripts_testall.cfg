\* testall.py and packages between other builds.
SPECIFICATION Spec
CONSTANTS
  Prefixes = {p1}
  Stagings = {d1}
  None = None
  InstallCalls <- Builds
  UninstallCalls <- Removals
  TestAllCalls <- AnyTests
  PackageCalls <- AnyPackages
INVARIANTS TestsWhatIsDemanded TidiedOnce PackageIsComplete
PROPERTY PackagingStaysBelow

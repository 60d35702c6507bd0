\* Every call, in any order.
SPECIFICATION Spec
CONSTANTS
  Versions = {"0.1", "0.2"}
  Authors = {"a1"}
  Edits <- MCEdits
  None = None
  Skip = 0
  Files <- MCFiles
  Runtime <- Pkgs
  Devel <- DevPkgs
  Calls <- MCCalls
  MaxTree = 1
INVARIANTS ReturnsAnEntry RefusesWhatIsFaulty CreatesWhatIsAsked OneRelease DistInstalls LeavesNothing
PROPERTY NeverOverwritten

\* A walk over a source tree with every kind of entry.
SPECIFICATION Spec
CONSTANTS
  Folders <- MCFolders
  Files <- MCFiles
  Links <- MCLinks
  Above <- NoNames
  Hidden <- MCHidden
  Fragments <- MCFragments
  Ext <- MCExt
INVARIANTS FindsEveryFault StaysOnPath
CHECK_DEADLOCK FALSE

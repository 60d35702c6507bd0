\* Everything that may go wrong, at the limit of the descriptors.
SPECIFICATION Spec
CONSTANTS
  Workers = {w1, w2}
  Files = {f1, f2}
  Dirs = {d1}
  None = None
  Fds = {3, 4}
  Handles = {h1, h2}
  Entries = 2
  Errnos = {2, 5}
  DirErrnos = {5}
  LogErrnos = {28}
  Rewinds = TRUE
  MemoryFails = TRUE
SYMMETRY Symmetry
INVARIANTS IInv HandleKeepsObject OneOwner ErrorExplained

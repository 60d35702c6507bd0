\* The log cannot be written; directories are read once, without errors.
SPECIFICATION Spec
CONSTANTS
  Workers = {w1, w2}
  Files = {f1, f2}
  Dirs = {d1}
  None = None
  Fds = {3, 4}
  Handles = {h1, h2}
  Entries = 2
  Errnos = {2, 5}
  DirErrnos = {}
  LogErrnos = {28}
  Rewinds = FALSE
  MemoryFails = FALSE
SYMMETRY Symmetry
INVARIANTS NoFalseError WholeDirectory

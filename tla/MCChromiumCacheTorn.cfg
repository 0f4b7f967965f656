SPECIFICATION Spec
CONSTANTS
  Procs = {p1, p2}
  Files = {bin, lib}
  Binary = bin
  NoFile = NoFile
INVARIANT NeverHalfPopulated

SPECIFICATION Spec
CONSTANTS
  Procs = {p1, p2}
  Files = {bin, lib, pak}
  Binary = bin
  NoFile = NoFile
SYMMETRY Symmetry
INVARIANTS
  TrustedIsComplete
  LeftoversHarmless
PROPERTIES
  DestStays
  InstallSettles

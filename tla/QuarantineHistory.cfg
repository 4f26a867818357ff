SPECIFICATION Spec

CONSTANTS
  None = None
  Partial = Partial
  Torn = Torn
  Original = Original
  p1 = p1
  p2 = p2
  n1 = n1
  n2 = n2
  f1 = f1
  f2 = f2
  a1 = a1
  a2 = a2
  Scanners = {a1, a2}
  Restorers = {}
  Deleters = {}
  Paths = {p1, p2}
  NoParent = {}
  Remote = {}
  Names = {n1}
  NameOf <- OneName
  Files = {f1, f2}
  Malicious = {f1, f2}
  ScanModes <- MoveOnly
  Fallible = {}
  MaxClock = 0
  MaxEdits = 0

SYMMETRY Symmetry

INVARIANTS
  PreviousEventsPreserved

\* Every process ends, so a behaviour may stop.
CHECK_DEADLOCK FALSE

SPECIFICATION Spec

CONSTANTS
  None = None
  Partial = Partial
  Torn = Torn
  Original = Original
  p1 = p1
  p2 = p2
  n1 = n1
  n2 = n2
  f1 = f1
  f2 = f2
  a1 = a1
  a2 = a2
  r1 = r1
  d1 = d1
  Scanners = {a1, a2}
  Restorers = {r1}
  Deleters = {d1}
  Paths = {p1, p2}
  NoParent = {}
  Remote = {p2}
  Names = {n1, n2}
  NameOf <- DistinctNames
  Files = {f1, f2}
  Malicious = {f1}
  ScanModes <- MoveOnly
  Fallible = {a1, a2, r1, d1}
  MaxClock = 1
  MaxEdits = 1

SYMMETRY Symmetry

INVARIANTS
  TypeOK
  TakenOutOnce
  TerminalMeansGone
  PayloadAccounted
  MissingExplained
  SuccessIsAudited

PROPERTIES
  NoSilentLoss

\* Every process ends, so a behaviour may stop.
CHECK_DEADLOCK FALSE

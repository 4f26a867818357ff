SPECIFICATION Spec

CONSTANTS
  z = z
  a = a
  b = b
  c = c
  Nodes = {z, a, b, c}
  Root = z
  Trees <- TestTrees
  Enabled = TRUE
  MaxDepth = 2
  MaxMembers = 3
  MaxBytes = 3
  ScanModes <- TestModes
  NodeStatuses = {"scan_error", "known_malicious", "engine_missing", "clean_by_known_checks"}

INVARIANTS
  PerformedOnKnownMalicious

CHECK_DEADLOCK FALSE

SPECIFICATION Spec

CONSTANTS
  Settings <- GoodSettings
  Kinds = {"pe", "script"}
  ScanModes <- TestModes
  Findings <- TestFindings

INVARIANTS
  UnfinishedIsNotClean

CHECK_DEADLOCK FALSE

SPECIFICATION Spec

CONSTANTS
  Settings <- TestSettings
  Kinds = {"pe", "script"}
  ScanModes <- TestModes
  Findings <- TestFindings

INVARIANTS
  TypeOK
  CleanIsEarned
  ConvictionDecides
  MovesAreReported

PROPERTIES
  KeepsPromise

\* A scan ends.
CHECK_DEADLOCK FALSE

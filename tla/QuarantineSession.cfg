SPECIFICATION Spec

CONSTANTS
  p = p
  q = q
  r = r
  blob = blob
  Seconds = {1, 2, 3}
  Outside = {p, q, r}
  Blobs = {blob}
  Torn = Torn
  None = None
  Directories <- TestDirectories
  EndsInAudit = {q}
  NoParent = {r}
  Malicious = {blob}
  Filters = {None, "unknown"}
  Now = 2
  MaxCommands = 2

INVARIANTS
  TypeOK
  RecordsTellFate
  AnswersAreTrue
  ListingIsTrue

PROPERTIES
  HistoryOnlyGrows
  OnlyTheRequestedEntry

\* A session may end.
CHECK_DEADLOCK FALSE

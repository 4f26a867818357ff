SPECIFICATION Spec

CONSTANTS
  root = root
  sub = sub
  deep = deep
  Dirs = {root, sub, deep}
  Top = root
  Names = {1, 2}
  Elsewhere = 99
  Layouts <- TestLayouts
  EntryReports <- TestReports
  Absolute = {"C:/clamscan"}
  SourcesFor <- TestSourcesFor
  ScanModes <- TestModes

INVARIANTS
  FileFailuresStayInside

CHECK_DEADLOCK FALSE

CONSTANTS
  NoTable = NoTable
  Features <- MCFeatures
  ClassOf <- MCClassOf
  TableOf <- MCTableOf
  UpperCase <- MCUpperCase
  Names <- MCNames
  Tables <- MCTables
  ColumnTypes <- MCColumnTypes
  Options <- MCOptions
  Existing <- MCExisting
  MaxColumns = 2
  MaxRuns = 2
  MaxEvents = 1
SPECIFICATION Spec
INVARIANTS
  WorkspaceSound
  ScreenTellsTruth
  GeneratesWhatWasTyped
PROPERTY
  RunsOnlyAdd
CHECK_DEADLOCK FALSE

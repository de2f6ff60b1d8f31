CONSTANTS
  NoTable = NoTable
  Features <- MCFeatures
  ClassOf <- MCClassOf
  TableOf <- MCTableOf
  UpperCase <- MCUpperCase
  Names <- MCNames
  Tables <- MCTables
  ColumnTypes <- MCColumnTypes
  Options <- MCDryOptions
  Existing <- MCExisting
  MaxColumns = 2
  MaxRuns = 2
  MaxEvents = 1
SPECIFICATION Spec
INVARIANTS
  OutcomeShown
CHECK_DEADLOCK FALSE

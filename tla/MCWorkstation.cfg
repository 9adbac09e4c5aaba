SPECIFICATION MCSpec
CONSTANTS
  Impl <- MCImpl
  ErrorName = {"a", "b", "c"}
  ErrorSets <- MCErrorSets
  MaxTime = 1
  Budgets <- MCBudgets
  NULL = NULL
  Version <- MCVersions
  Committed <- Old
  KeyTables <- MCKeyTables
  CodePoints <- MCCodePoints
  Nodes <- MCNodes
  Widths = {1, 2, 3, 4}
  Heights = {1, 2, 3}
  BufferSizes = {1, 2, 3, 5, 12}
INVARIANTS
  ErrorsArrive
  SkipMeansUpToDate
  UpdateEndsAtLatest
  ListIsNewestFirst
  CodePageIsExact
  ScopesNest
  ArgumentsArrive
  RowsComeFromTheTop
CHECK_DEADLOCK FALSE

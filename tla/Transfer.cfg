SPECIFICATION Spec
CONSTANTS
  id = id
  day = day
  now = now
  ten = ten
  may = may
  NoScn = NoScn
  Null = Null
  Spelling <- MCSpelling
  Tables <- MCTables
  Queries <- MCQueries
  Plans <- MCPlans
  MaxDdl = 2
INVARIANTS
  StatementMeansItsParts
  ValuesKeepTheirColumn
  LoadFillsTheTarget
CHECK_DEADLOCK FALSE

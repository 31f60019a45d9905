SPECIFICATION Spec
CONSTANTS
  t1 = t1
  t2 = t2
  Threads = {t1, t2}
  app = app
  hr = hr
  emp = emp
  Public = Public
  Absent = Absent
  CurrentSchema <- APP
  Owners <- MCOwners
  Names <- MCNames
  Dictionaries <- MCDictionaries
  Requests <- MCRequests
  Creatable <- MCCreatable
  MaxSynonymDepth = 1
  MaxDdl = 1
  MaxCalls = 2
PROPERTIES
  MissingStaysMissing
CHECK_DEADLOCK FALSE

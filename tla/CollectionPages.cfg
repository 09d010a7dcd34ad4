CONSTANTS
  Ids = {1, 2, 3}
  Keys = {2, 3}
  Null = Null
  Absent = Absent
  NoCursor = NoCursor
  MaxKids = 2
  Queries <- AllQueries
  PageSizes = {1, 2}
  MaxChanges = 1
SPECIFICATION PagesSpec
INVARIANTS
  PagesInv
  NeverTwice
  StableRowsReturned
PROPERTY WalkEnds
CHECK_DEADLOCK FALSE

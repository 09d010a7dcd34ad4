CONSTANTS
  Ids = {1, 2, 3}
  Keys = {2, 3}
  Null = Null
  Absent = Absent
  NoCursor = NoCursor
  MaxKids = 2
  Queries <- DocumentedQuery
  PageSizes = {1, 2}
  MaxChanges = 1
SPECIFICATION PagesSpec
INVARIANT WalkIsExact
CHECK_DEADLOCK FALSE

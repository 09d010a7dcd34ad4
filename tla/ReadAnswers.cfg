CONSTANTS
  NoId = NoId
  Null = Null
  Undefined = Undefined
  Entities <- SomeEntities
  TableOf <- SomeTables
  FieldsOf <- SomeFields
  ComputedOf <- SomeComputed
  Joins <- SomeJoins
  Queries <- SomeQueries
  Databases <- SomeDatabases
  RuleSets <- SomeRuleSets
  Registrations <- SomeRegistrations
  SingularOf <- SomeSingulars
  NoEntity = NoEntity
  NoResolver = NoResolver
  MaxJsonPairs = 2
  KeyField <- SomeKeys
  WhereValue = 1
  PageFirst = 1
SPECIFICATION ReadSpec
INVARIANTS
  AnswerIsTheTree
  DeniedIsAbsent
  FetchedIsNeeded
CHECK_DEADLOCK FALSE

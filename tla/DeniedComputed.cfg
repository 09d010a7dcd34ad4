CONSTANTS
  NoId = NoId
  Null = Null
  Undefined = Undefined
  Entities <- SomeEntities
  TableOf <- SomeTables
  FieldsOf <- SomeFields
  ComputedOf <- SomeComputed
  Joins <- SomeJoins
  Queries <- LabelAndShout
  Databases <- SomeDatabases
  RuleSets <- SomeRuleSets
  Registrations <- SomeRegistrations
  SingularOf <- SomeSingulars
  NoEntity = NoEntity
  NoResolver = NoResolver
  MaxJsonPairs = 2
  KeyField <- SomeKeys
  WhereValue = 1
  PageFirst = 1
SPECIFICATION ReadSpec
INVARIANT
  DeniedFieldIsAbsent
CHECK_DEADLOCK FALSE

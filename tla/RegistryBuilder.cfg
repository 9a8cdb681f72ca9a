SPECIFICATION Spec
CONSTANTS
  Kits <- MCKits
  Names <- MCNames
  Aliases = {"p", "t"}
  Args <- MCArgs
  Options <- MCOptions
  SchemaBuilders <- MCSchemaBuilders
  HandMade <- MCHandMade
  SchemaIn <- extract_object_schema
  MaxCalls = 4
  Blank = ""
  Missing = "missing"
INVARIANTS
  TypeOK
  TableComplete
  VerdictIsFirstFault
  SchemasAreTheLast
  BuiltSchemasPass
  ListedUnderEveryName
PROPERTY
  BindingsStick
CHECK_DEADLOCK FALSE

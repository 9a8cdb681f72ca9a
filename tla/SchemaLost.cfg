SPECIFICATION Spec
CONSTANTS
  Kits <- MCKits
  Names <- MCNames
  Aliases = {"p", "t"}
  Args <- MCArgs
  Options <- MCOptions
  SchemaBuilders <- MCSchemaBuilders
  HandMade <- MCHandMade
  SchemaIn <- extract_object_schema
  MaxCalls = 3
  Blank = ""
  Missing = "missing"
INVARIANT
  NoSchemaIsLost
CHECK_DEADLOCK FALSE

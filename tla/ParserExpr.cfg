\* Expressions: one operator of each of three tiers, not, paths and groups.
CONSTANTS
  Kinds = {"semi", "filter", "int", "dot", "name", "not", "or", "eq", "sub", "lpar", "rpar", "comma"}
  Idents = {"name"}
  MaxTokens = 8
SPECIFICATION Spec
INVARIANTS TypeOK TreeIsTiled BindsAsDeclared
CHECK_DEADLOCK FALSE

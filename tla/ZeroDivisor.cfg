SPECIFICATION Spec
CONSTANTS
  Programs <- MCPrograms
  Registry <- MCRegistry
  Matches <- matches
  EvalExpr <- MCValueAt
  ValueAt <- MCValueAt
  HoldsNaN <- MCHoldsNaN
  BuiltinOutcomes <- eval_builtin
  HandlerReplies <- MCHandlerReplies
  StrBefore <- MCStrBefore
  StrContains <- MCStrContains
  Width = 4
  Exact = 4
  Nearest <- nearest
  Inf = 100
  OverflowChecks = TRUE
  MaxLength = 2
  Words = {"nums", "filterdiv"}
INVARIANT
  ExecuteReturns
CHECK_DEADLOCK FALSE

SPECIFICATION FairSpec
CONSTANTS
  Programs <- MCPrograms
  Registry <- MCRegistry
  Matches <- matches
  EvalExpr <- MCValueAt
  ValueAt <- MCValueAt
  HoldsNaN <- MCHoldsNaN
  BuiltinOutcomes <- eval_builtin
  HandlerReplies <- MCHandlerReplies
  StrBefore <- MCStrBefore
  StrContains <- MCStrContains
  Width = 4
  Exact = 4
  Nearest <- nearest
  Inf = 100
  OverflowChecks = TRUE
  MaxLength = 3
  Words = {"nums", "pick1", "pickit", "pickopts", "show", "ghost", "filter1", "filterdiv", "sort", "count", "unique", "badtoken", "badsyntax"}
INVARIANTS
  TypeOK
  WalksTheTree
  NothingRunsUnparsed
  CallsInSourceOrder
  ConcatStartsFresh
  HandlerContract
  TypedHandoff
PROPERTIES
  ImplementsSem
  Terminates
CHECK_DEADLOCK FALSE

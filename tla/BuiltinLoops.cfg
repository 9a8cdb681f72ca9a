SPECIFICATION Spec
CONSTANTS
  Commands <- MCCommands
  Inputs <- MCInputs
  Strings = {"a", "ab"}
  ValueAt <- MCValueAt
  HoldsNaN <- MCHoldsNaN
  StrBefore <- MCStrBefore
  StrContains <- MCStrContains
  Width = 4
  Exact = 4
  Nearest <- nearest
  Inf = 100
  OverflowChecks = TRUE
INVARIANTS
  TypeOK
  LoopsAgree
  SortIsSound
  UniqueCovers
  OrderAgainstEquality
  DivisionRebuilds
CHECK_DEADLOCK FALSE

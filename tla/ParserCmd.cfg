\* Commands: every head, options and flags that share keys, both directions of a
\* sort, numbers that do not fit, and a lexing error.
CONSTANTS
  Kinds = {"semi", "filter", "sort", "take", "unique", "count", "name", "asc", "desc", "int", "neg", "huge", "badfloat", "dot", "sub", "subsub", "pipe", "concat", "lexerr"}
  Idents = {"name"}
  MaxTokens = 7
SPECIFICATION Spec
INVARIANTS SegmentsTile OptionsAreGreedy SortTakesTheLast FirstFaultWins
CHECK_DEADLOCK FALSE

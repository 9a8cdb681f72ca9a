\* Sources of up to five characters: a letter of either kind and one of two bytes,
\* a digit of either kind, an operator of each form, blanks, quotes and escapes.
CONSTANTS
  Chars = {"i", "n", "eacute", "1", "space", "quote", "bslash", "dot", "minus", "bang", "eq", "sup2"}
  Keywords <- MCKeywords
  MaxChars = 5
SPECIFICATION FairSpec
INVARIANTS TypeOK NothingLost SpansAreExact LongestMatch StringsEnd
PROPERTIES Ends
CHECK_DEADLOCK FALSE

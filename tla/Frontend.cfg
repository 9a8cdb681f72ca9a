\* Sources of a name, a keyword, numbers with sign and dot, groups, a pipe and
\* both kinds of dashes.
SPECIFICATION FairSpec
CONSTANTS
  Chars = {"semi", "n", "i", "1", "space", "minus", "greater", "dot", "lpar", "rpar", "comma"}
  Keywords <- MCKeywords
  Spelling <- MCSpelling
  Reading <- MCReading
  Idents = {"n", "name"}
  MaxChars = 6
INVARIANTS
  NothingIgnored
  RefusedAtOnce
  SignsAreNotOperators
PROPERTIES
  ImplementsParser
  Ends
CHECK_DEADLOCK FALSE

\* A string that ends in a character of two bytes.
CONSTANTS
  Chars = {"n", "eacute", "quote"}
  Keywords <- MCKeywords
  MaxChars = 3
SPECIFICATION Spec
INVARIANTS UnterminatedToTheEnd
CHECK_DEADLOCK FALSE

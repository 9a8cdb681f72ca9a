----------------------------- MODULE MCFrontend -----------------------------
EXTENDS Frontend, TLC

\* One of the words that can be spelled here is a keyword.
MCKeywords == (<<"i">> :> "filter")

\* Two names are told apart; no source that is short enough has more.
MCSpelling(w) == IF w = <<"n">> THEN "n" ELSE "name"

\* The widths are small: two digits do not fit with a sign, three not at all.
MCReading(w) ==
  CASE w[1] = "minus" -> IF Len(w) = 2 THEN "neg" ELSE "huge"
    [] Len(w) = 1     -> "int"
    [] Len(w) = 2     -> "big"
    [] OTHER          -> "huge"
=============================================================================

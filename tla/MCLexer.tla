------------------------------- MODULE MCLexer -------------------------------
EXTENDS Lexer, TLC

\* Token::from_word, of two of the words that can be spelled here: "in", and
\* "not", which is another spelling of `!`, however their letters are written.
MCKeywords == (<<"i", "n">> :> "in") @@ (<<"n", "i", "n">> :> "not")
=============================================================================

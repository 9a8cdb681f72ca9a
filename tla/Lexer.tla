-------------------------------- MODULE Lexer --------------------------------
(***************************************************************************)
(* `Lexer`: an iterator of tokens and errors over an iterator of           *)
(* characters with their byte offsets, of which it keeps two, `current`    *)
(* and `peek`.  It reports where a token was, and after an error it can be *)
(* asked for more.                                                         *)
(*                                                                         *)
(* A character stands for those the lexer treats alike: "n" and "N" for a  *)
(* letter that may follow a backslash, "i" for one that may not, "eacute", *)
(* "sup2" and "nbsp" for a letter, a digit that is not ASCII and a space   *)
(* that no token may contain, which take two bytes each.                   *)
(***************************************************************************)
EXTENDS Integers, Sequences

CONSTANTS
  Chars,      \* the characters the source may have
  Keywords,   \* Token::from_word: words in lower case -> kinds of tokens
  MaxChars    \* a bound on the length of a source

ASSUME MaxCharsAssumption == MaxChars \in Nat

\* The end of the source is no character.
ASSUME CharsAssumption == "eof" \notin Chars

\* The tokens that are words.  Some of them may be spelled otherwise as well.
WordTokens ==
  {"filter", "sort", "it", "count", "take", "unique", "concat", "or", "and", "not",
   "ge", "le", "gt", "lt", "contains", "eq", "in", "bool"}

ASSUME KeywordsAssumption == \A w \in DOMAIN Keywords : Keywords[w] \in WordTokens

VARIABLES
  src,      \* the characters taken from the iterator so far, with their offsets
  bytes,    \* their length in bytes: the offset of the next
  ended,    \* the iterator has no more
  at,       \* the index of `current` in src
  cpos,     \* current_pos
  ppos,     \* peek_pos
  mode,     \* what the lexer is in the middle of
  tok,      \* the token it has begun
  out       \* the items it has yielded

source == <<src, bytes, ended, at, cpos, ppos>>
vars   == <<source, mode, tok, out>>

-----------------------------------------------------------------------------
\* The characters.

Alphabetic == {"i", "n", "N", "eacute"}
Digit      == {"1"}
WordChar   == Alphabetic \cup Digit \cup {"sup2", "_"}
White      == {"space", "nbsp"}
Escapable  == {"n", "quote", "bslash"}
Width(c)   == IF c \in {"eacute", "sup2", "nbsp"} THEN 2 ELSE 1
Lower(c)   == IF c = "N" THEN "n" ELSE c

Char(i) == IF i \in DOMAIN src THEN src[i].ch ELSE "eof"
Current == Char(at)
Peek    == Char(at + 1)

\* Tokens of one character, and those of one or two.
Singles == [eq |-> "eq", star |-> "mul", percent |-> "mod", lpar |-> "lpar",
            rpar |-> "rpar", comma |-> "comma", semi |-> "semi"]

Alone == [slash |-> "div", plus |-> "add", minus |-> "sub", bang |-> "not",
          less |-> "lt", greater |-> "gt"]

Doubles == [slash   |-> [slash |-> "divdiv"],
            plus    |-> [plus |-> "concat"],
            minus   |-> [minus |-> "subsub"],
            bang    |-> [eq |-> "ne"],
            less    |-> [eq |-> "le"],
            greater |-> [greater |-> "pipe", eq |-> "ge"]]

-----------------------------------------------------------------------------
\* The character in `peek` becomes `current`, and another is taken.  At the end
\* of the iterator nothing says how long the last character was.
Advance ==
  /\ at' = at + 1
  /\ cpos' = ppos
  /\ \/ /\ ~ ended
        /\ Len(src) < MaxChars
        /\ \E c \in Chars : /\ src' = Append(src, [off |-> bytes, ch |-> c])
                           /\ bytes' = bytes + Width(c)
        /\ ppos' = bytes
        /\ UNCHANGED ended
     \/ /\ ended' = TRUE
        /\ ppos' = ppos + 1
        /\ UNCHANGED <<src, bytes>>

NoToken == [kind |-> "none", from |-> 0, first |-> 1]

\* A token or an error: what it is, the span it reports, and (which the code does
\* not say) the first and the last of the characters it was read from.
Item(kind, from, to, first, last) ==
  [kind |-> kind, from |-> from, to |-> to, first |-> first, last |-> last]

Yield(item) ==
  /\ out' = Append(out, item)
  /\ mode' = "idle"
  /\ tok' = NoToken

\* The token begun ends in front of the current character, or behind it.  The
\* mutant loses the character in front of which it ends.
EndBeforeSwallowing(kind) ==
  Advance /\ Yield(Item(kind, tok.from, cpos, tok.first, at - 1))

EndBefore(kind) ==
  Yield(Item(kind, tok.from, cpos, tok.first, at - 1)) /\ UNCHANGED source

EndWith(kind) ==
  Advance /\ Yield(Item(kind, tok.from, cpos', tok.first, at))

\* The lexer goes on with the next character.
Goto(m) == Advance /\ mode' = m /\ UNCHANGED <<tok, out>>

\* A token of a kind begins at the current character, which is taken, or not.
Begin(m, kind) ==
  Advance /\ mode' = m /\ tok' = [kind |-> kind, from |-> cpos, first |-> at]
          /\ UNCHANGED out

Init ==
  /\ src = <<>>
  /\ bytes = 0
  /\ ended = FALSE
  /\ at = -1
  /\ cpos = 0
  /\ ppos = 0
  /\ mode = "new"
  /\ tok = NoToken
  /\ out = <<>>

\* The constructor advances twice.
New ==
  /\ mode = "new"
  /\ Goto(IF at = 0 THEN "idle" ELSE "new")

-----------------------------------------------------------------------------
\* consume: what starts here.
UnsignedStart == Current \in Digit      \* mutant
IsNumberStart ==
  Current \in Digit \/ (Current = "minus" /\ Peek \in Digit)

Idle == mode = "idle"

SkipBlank ==
  /\ Idle
  /\ Current = "space"
  /\ Goto("idle")

BeginWord ==
  /\ Idle
  /\ Current \in Alphabetic \cup {"_"}
  /\ Begin("word", "word")

BeginNumber ==
  /\ Idle
  /\ IsNumberStart
  /\ Begin("number", "int")

\* emit_single_char
Single ==
  /\ Idle
  /\ Current \in DOMAIN Singles
  /\ Advance
  /\ Yield(Item(Singles[Current], cpos, cpos', at, at))

BeginDouble ==
  /\ Idle
  /\ Current \in DOMAIN Alone
  /\ ~ IsNumberStart
  /\ Begin("double", Current)

\* A dot is followed by a field name, at least by no space.
Dot ==
  /\ Idle
  /\ Current = "dot"
  /\ Advance
  /\ Yield(IF Peek \in White \cup {"eof"}
             THEN Item("UnfinishedDotAccess", cpos, cpos, at, at)
             ELSE Item("dot", cpos, cpos', at, at))

\* The span of a string begins behind the quote, not (the mutant) at it.
StringStartAtQuote == cpos
StringStart        == cpos'

BeginString ==
  /\ Idle
  /\ Current = "quote"
  /\ Advance
  /\ mode' = "string"
  /\ tok' = [kind |-> "str", from |-> StringStart, first |-> at]
  /\ UNCHANGED out

Unrecognized ==
  /\ Idle
  /\ Current \notin {"space", "_", "dot", "quote", "eof"}
                    \cup Alphabetic \cup Digit \cup DOMAIN Singles \cup DOMAIN Alone
  /\ Advance
  /\ Yield(Item("UnrecognizedToken", cpos, cpos, at, at))

\* Token::Eof, of which the iterator makes None.
Eof ==
  /\ Idle
  /\ Current = "eof"
  /\ mode' = "eof"
  /\ UNCHANGED <<source, tok, out>>

-----------------------------------------------------------------------------
\* What has been begun.

\* The second character of an operator, which may be none of it.  The span of `!`
\* is empty.
Joins == Current \in DOMAIN Doubles[tok.kind]

EndDouble ==
  /\ mode = "double"
  /\ Joins
  /\ EndWith(Doubles[tok.kind][Current])

EndAlone ==
  /\ mode = "double"
  /\ ~ Joins
  /\ Yield(Item(Alone[tok.kind], tok.from,
                IF tok.kind = "bang" THEN tok.from ELSE cpos, tok.first, at - 1))
  /\ UNCHANGED source

\* Token::from_word, or else an identifier.
FromWord(word) == IF word \in DOMAIN Keywords THEN Keywords[word] ELSE "ident"

\* lex_word
Word == [i \in 1..(at - tok.first) |-> Lower(Char(tok.first + i - 1))]

InWord ==
  /\ mode = "word"
  /\ Current \in WordChar
  /\ Goto("word")

EndWord ==
  /\ mode = "word"
  /\ Current \notin WordChar
  /\ EndBefore(FromWord(Word))

\* lex_number.  A letter spoils the number, and the rest of the word with it; the
\* mutant stops in front of the letter.
SpoilsNever == FALSE
Spoils      == Current \in Alphabetic

InNumber ==
  /\ mode = "number"
  /\ Current \in Digit \cup {"_", "dot"}
  /\ Advance
  /\ tok' = [tok EXCEPT !.kind = IF Current = "dot" THEN "float" ELSE @]
  /\ UNCHANGED <<mode, out>>

EndNumber ==
  /\ mode = "number"
  /\ Current \notin Digit \cup {"_", "dot"}
  /\ ~ Spoils
  /\ EndBefore(tok.kind)

Spoil ==
  /\ mode = "number"
  /\ Spoils
  /\ Goto("malformed")

InMalformed ==
  /\ mode = "malformed"
  /\ Current \in WordChar
  /\ Goto("malformed")

EndMalformed ==
  /\ mode = "malformed"
  /\ Current \notin WordChar
  /\ EndBefore("MalformedNumber")

\* lex_string.  Escapes are checked and kept as they are; the mutant takes a
\* backslash for a character like the others.
PlainBackslash == Current \notin {"quote", "eof"}
Plain          == Current \notin {"quote", "bslash", "eof"}

InString ==
  /\ mode = "string"
  /\ Plain
  /\ Goto("string")

Backslash ==
  /\ mode = "string"
  /\ Current = "bslash"
  /\ Goto("escape")

Escape ==
  /\ mode = "escape"
  /\ Current \in Escapable
  /\ Goto("string")

EndString ==
  /\ mode = "string"
  /\ Current = "quote"
  /\ EndWith("str")

Unterminated ==
  /\ mode = "string"
  /\ Current = "eof"
  /\ EndBefore("UnexpectedStringEnd")

\* The error is that of the backslash and where the character behind it is; it is
\* returned when the rest of the string has been skipped.
BadEscape ==
  /\ mode = "escape"
  /\ Current \notin Escapable
  /\ tok' = [tok EXCEPT !.kind = "BadStringEscape", !.from = cpos - 1]
  /\ mode' = "skip"
  /\ UNCHANGED <<source, out>>

\* Mutants: the skipping goes on at the end; it only stops at a quote.
SkipsOn  == Current # "quote"
Skips    == Current \notin {"quote", "eof"}
AtQuoteOnly == Current = "quote"
SkipOver    == Current \in {"quote", "eof"}

Skip ==
  /\ mode = "skip"
  /\ Skips
  /\ Goto("skip")

EndSkip ==
  /\ mode = "skip"
  /\ SkipOver
  /\ IF Current = "quote" THEN Advance ELSE UNCHANGED source
  /\ Yield(Item(tok.kind, tok.from, tok.from + 1, tok.first, at' - 1))

Next ==
  \/ New
  \/ SkipBlank \/ BeginWord \/ BeginNumber \/ Single \/ BeginDouble \/ Dot
  \/ BeginString \/ Unrecognized \/ Eof
  \/ EndDouble \/ EndAlone \/ InWord \/ EndWord
  \/ InNumber \/ EndNumber \/ Spoil \/ InMalformed \/ EndMalformed
  \/ InString \/ Backslash \/ Escape \/ EndString \/ Unterminated
  \/ BadEscape \/ Skip \/ EndSkip

Spec == Init /\ [][Next]_vars

\* The lexer runs whenever it is asked for an item; whoever collects a program
\* asks until there are no more.
FairSpec == Spec /\ WF_vars(Next)

-----------------------------------------------------------------------------
(***************************************************************************)
(* What holds of every source.                                             *)
(***************************************************************************)

Errors == {"UnfinishedDotAccess", "UnrecognizedToken", "MalformedNumber",
           "UnexpectedStringEnd", "BadStringEscape"}

\* The variables have their types: the window is on the source, no further
\* behind its end than one character, and it knows where it is.
TypeOK ==
  /\ Len(src) <= MaxChars
  /\ at \in (-1)..(Len(src) + 1)
  /\ at > Len(src) => ended
  /\ mode \in {"new", "idle", "word", "number", "malformed", "double", "string",
              "escape", "skip", "eof"}
  /\ mode \notin {"new", "idle", "eof"} => tok.first \in 1..(at - 1)
  /\ at \in DOMAIN src => cpos = src[at].off

\* The characters the lexer is done with.
Done == IF mode \in {"new", "idle", "eof"} THEN at - 1 ELSE tok.first - 1

\* Tokens and errors are read from characters of their own, in source order, and
\* all that is between them is blank: nothing is lost or read twice, also where
\* the lexer recovers from an error.
NothingLost ==
  /\ \A i \in DOMAIN out : out[i].first \in 1..out[i].last /\ out[i].last <= Done
  /\ \A i \in DOMAIN out : i > 1 => out[i - 1].last < out[i].first
  /\ \A p \in 1..Done :
        \/ Char(p) = "space"
        \/ \E i \in DOMAIN out : p \in out[i].first..out[i].last

\* The span of a token is that of its characters in bytes, but for three things:
\* that of a string is without its first quote, that of `!` is empty, and the last
\* character of the source is taken to be one byte long.
SpansAreExact ==
  \A i \in DOMAIN out :
     LET t     == out[i]
         start == src[t.first].off
         stop  == IF t.last = Len(src) THEN src[t.last].off + 1
                                       ELSE src[t.last + 1].off
     IN  t.kind \notin Errors =>
           /\ t.from = IF t.kind = "str" THEN start + 1 ELSE start
           /\ t.to = IF t.kind = "not" /\ Char(t.first) = "bang" THEN start ELSE stop

\* A token is as long as it can be, and a minus in front of a digit is its sign,
\* whatever is in front of the minus.  So `--` is one token, though a comment in
\* `consume` speaks of two.
LongestMatch ==
  \A i \in DOMAIN out :
     LET t    == out[i]
         next == Char(t.last + 1)
     IN  /\ t.first = t.last /\ Char(t.first) \in DOMAIN Alone =>
              next \notin DOMAIN Doubles[Char(t.first)]
         /\ t.kind = "sub" => next \notin Digit
         /\ t.kind \in {"int", "float"} => next \notin Digit \cup Alphabetic \cup {"_", "dot"}
         /\ Char(t.first) \in Alphabetic \cup {"_"} => next \notin WordChar

\* In a string that begins at f, character p is escaped if the number of
\* backslashes in front of it, which begin at q, is odd.
Run(f, q, p) ==
  /\ q \in (f + 1)..p
  /\ \A r \in q..(p - 1) : Char(r) = "bslash"
  /\ q = f + 1 \/ Char(q - 1) # "bslash"

Escaped(f, p) == \E q \in (f + 1)..p : Run(f, q, p) /\ (p - q) % 2 = 1

\* It goes on in front of p: no quote has ended it, and no escape spoilt it.
Quoted(f, p) ==
  \A r \in (f + 1)..(p - 1) :
     IF Escaped(f, r) THEN Char(r) \in Escapable ELSE Char(r) # "quote"

\* A string ends at the first quote that is not escaped, unless the source ends
\* before; one with a bad escape is skipped up to the first quote behind that,
\* which may be escaped, though a comment in `lex_string` speaks of the closing one.
StringsEnd ==
  \A i \in DOMAIN out :
     LET t == out[i] IN
     /\ t.kind = "str" =>
          /\ Char(t.first) = "quote" /\ Char(t.last) = "quote" /\ t.first < t.last
          /\ Quoted(t.first, t.last) /\ ~ Escaped(t.first, t.last)
     /\ t.kind = "UnexpectedStringEnd" =>
          t.last = Len(src) /\ Quoted(t.first, t.last + 1)
     /\ t.kind = "BadStringEscape" =>
          \E p \in (t.first + 1)..(t.last + 1) :
            /\ Quoted(t.first, p) /\ Escaped(t.first, p) /\ Char(p) \notin Escapable
            /\ \A q \in p..(t.last - 1) : Char(q) # "quote"
            /\ Char(t.last) = "quote" \/ t.last = Len(src)

\* The unit test of an unterminated string says it is located up to the end of
\* the source.
UnterminatedToTheEnd ==
  \A i \in DOMAIN out : out[i].kind = "UnexpectedStringEnd" => out[i].to = bytes

\* Every finite source is lexed to its end, whatever errors are in it.
Ends == <>(mode = "eof")
=============================================================================

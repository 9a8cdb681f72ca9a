------------------------------ MODULE Frontend ------------------------------
(***************************************************************************)
(* `Parser::parse` over a `Lexer`: the parser pulls its items out of the   *)
(* lexer one at a time, through a Peekable that keeps one, and the lexer   *)
(* only moves while it is asked.  Both are the modules of their own; what  *)
(* the one has yielded, `out`, is what the other has been given.           *)
(***************************************************************************)
EXTENDS Integers, Sequences, FiniteSets

CONSTANTS
  Chars, Keywords, MaxChars,   \* those of Lexer
  Spelling(_),                 \* the name that a sequence of characters spells
  Idents,                      \* the names that can be spelled
  Reading(_)                   \* what the digits of an integer fit, as in Parser

ASSUME MaxCharsAssumption == MaxChars \in Nat

ASSUME CharsAssumption == "eof" \notin Chars

VARIABLES
  src, bytes, exhausted, at, cpos, ppos, mode, tok, out,   \* of Lexer
  pos, ctl, frames, nodes, cmd, segs, outcome              \* of Parser

lexer  == <<src, bytes, exhausted, at, cpos, ppos, mode, tok, out>>
parser == <<pos, ctl, frames, nodes, cmd, segs, outcome>>
vars   == <<lexer, parser>>

Lx == INSTANCE Lexer WITH ended <- exhausted

ASSUME KeywordsAssumption == \A w \in DOMAIN Keywords : Keywords[w] \in Lx!WordTokens

\* Every word spells a name, which is neither the end nor an error, nor two dashes or
\* an integer, nor what stands for no name.
ASSUME IdentsAssumption == Idents \cap {"end", "lexerr", "subsub", "int", "neg", "none"} = {}

AllSpelled(n) == \A word \in [1..n -> Chars] : Spelling(word) \in Idents

ASSUME SpellingAssumption == \A n \in 0..MaxChars : AllSpelled(n)

\* Digits with a sign fit an i64 or nothing; digits without may fit a u64 only.
Fitting(word) == IF word[1] = "minus" THEN {"neg", "huge"} ELSE {"int", "big", "huge"}

AllFit(n) == \A word \in [1..n -> Chars] : Reading(word) \in Fitting(word)

ASSUME ReadingAssumption == \A n \in 1..MaxChars : AllFit(n)

-----------------------------------------------------------------------------
\* What the parser makes of an item of the lexer: of the text, names count, what
\* the digits of an integer fit, and a second dot, which makes it no number.
Text(item) ==
  [p \in 1..(item.last - item.first + 1) |-> src[item.first + p - 1].ch]

Dots(item) == Cardinality({p \in DOMAIN Text(item) : Text(item)[p] = "dot"})

KindAsLexed(item) == item.kind     \* mutant
KindOf(item) ==
  CASE item.kind \in Lx!Errors -> "lexerr"
    [] item.kind = "ident" -> Spelling(Text(item))
    [] item.kind = "int"   -> Reading(Text(item))
    [] item.kind = "float" -> IF Dots(item) > 1 THEN "badfloat" ELSE "float"
    [] OTHER -> item.kind

toks == [i \in DOMAIN out |-> KindOf(out[i])]

Kinds ==
  {"lexerr", "int", "neg", "big", "huge", "float", "badfloat", "str", "dot"} \cup Idents
    \cup {Lx!Singles[c] : c \in DOMAIN Lx!Singles}
    \cup {Lx!Alone[c] : c \in DOMAIN Lx!Alone}
    \cup (UNION {{Lx!Doubles[c][d] : d \in DOMAIN Lx!Doubles[c]} :
                   c \in DOMAIN Lx!Doubles})
    \cup {Keywords[w] : w \in DOMAIN Keywords}

Px == INSTANCE Parser WITH MaxTokens <- MaxChars, ended <- mode = "eof"

-----------------------------------------------------------------------------
Init == Lx!Init /\ Px!Init

\* The mutant reads ahead, as a lexer run before the parser would.
AskedAlways == ctl.at # "done" /\ mode # "eof"
Asked       == ctl.at # "done" /\ ~ Px!Looked

Feed  == Asked /\ Lx!Next /\ UNCHANGED parser
Parse == UNCHANGED lexer /\ Px!Step

Next == Feed \/ Parse

Spec     == Init /\ [][Next]_vars
\* `parse` is one call that nothing suspends, and the lexer is run inside it.
FairSpec == Spec /\ WF_vars(Next)

-----------------------------------------------------------------------------
(***************************************************************************)
(* What holds of every source.                                             *)
(***************************************************************************)

\* Seen from the parser, the lexer is an iterator that yields some item, or no
\* more, when it is asked and only then, so that the parser never holds more than
\* the one it peeks at: all that is shown of Parser alone is true of the two.
ImplementsParser == Px!Spec

\* An accepted source is accepted as a whole: it was read to its end, and every
\* character but blanks is part of its `;`, of a command, or of an operator
\* between two.
NothingIgnored ==
  outcome.res = "ok" =>
    /\ exhausted /\ at > Len(src)
    /\ \A p \in DOMAIN src :
         \/ src[p].ch = "space"
         \/ \E i \in DOMAIN out :
              /\ p \in out[i].first..out[i].last
              /\ \/ i = 1 /\ toks[i] = "semi"
                 \/ \E s \in DOMAIN segs :
                      \/ i \in segs[s].cmd.from..segs[s].to
                      \/ s > 1 /\ i = segs[s].cmd.from - 1 /\ toks[i] = segs[s].cmd.op

\* A refused source is refused at its first fault, which is in the last item that
\* was lexed or at the end of the source: nothing more was read than the two
\* characters the lexer keeps, and every item in front of it is a token.
RefusedAtOnce ==
  outcome.res = "err" =>
    /\ \/ outcome.at = Len(out)
       \/ outcome.at = Len(out) + 1 /\ exhausted /\ at > Len(src)
    /\ out # <<>> => Len(src) <= at + 1 /\ out[Len(out)].last < at
    /\ outcome.at = Len(out) => at = out[Len(out)].last + 1
    /\ \A i \in DOMAIN out : out[i].kind \in Lx!Errors => i = outcome.at
    /\ outcome.what = "Lex" <=> \E i \in DOMAIN out : out[i].kind \in Lx!Errors

\* Token i begins one of the expressions of a sequence.
Begins(list, i) == \E k \in DOMAIN list : nodes[list[k]].from = i

\* `5-3` is no subtraction.  A minus in front of a digit is not an operator: it
\* is a sign, or the second dash of two; and where an integer ends in front of the
\* sign, a group goes on with one more element, or a custom command with one more
\* argument, which is its first one behind the value of an option (`--limit 5-3`).
SignsAreNotOperators ==
  /\ \A i \in DOMAIN out : \A p \in out[i].first..out[i].last :
       src[p].ch = "minus" /\ p + 1 \in DOMAIN src /\ src[p + 1].ch \in Lx!Digit =>
         /\ toks[i] # "sub"
         /\ \A n \in DOMAIN nodes : nodes[n].kind = "binary" => nodes[n].op # i
  /\ \A s \in DOMAIN segs : \A i \in segs[s].cmd.from..segs[s].to :
       LET c == segs[s].cmd IN
       c.kind = "custom" /\ toks[i] = "neg" /\ toks[i - 1] \in {"int", "neg"} =>
         \/ \E n \in DOMAIN nodes : nodes[n].kind = "vector" /\ Begins(nodes[n].parts, i)
         \/ Begins(c.args, i) /\ (Len(c.args) > 1 \/ DOMAIN c.options # {})

\* Every finite source gets a result: no loop of the parser goes round without an
\* item, and none of the lexer without a character.
Ends == <>(outcome # Px!Pending)
=============================================================================

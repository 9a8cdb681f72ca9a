--------------------------- MODULE FrontendProofs ---------------------------
(***************************************************************************)
(* Proofs about the lexer and the parser together: what was proved of each *)
(* of them alone holds of the two.                                         *)
(***************************************************************************)
EXTENDS Frontend, UntypedSeqs

LP == INSTANCE LexerProofs WITH ended <- exhausted
PP == INSTANCE ParserProofs WITH MaxTokens <- MaxChars, ended <- mode = "eof"

-----------------------------------------------------------------------------
(***************************************************************************)
(* What the instances assume, and that they are those of Frontend.         *)
(***************************************************************************)
\* What LexerProofs assumes.
LEMMA LexerAssumptions ==
  LP!MaxCharsAssumption /\ LP!CharsAssumption /\ LP!KeywordsAssumption
BY MaxCharsAssumption, CharsAssumption, KeywordsAssumption
   DEF LP!MaxCharsAssumption, LP!CharsAssumption, LP!KeywordsAssumption, LP!WordTokens,
       Lx!WordTokens

\* What ParserProofs assumes: none of the kinds is the end.
LEMMA ParserAssumptions == PP!KindsAssumption /\ PP!MaxTokensAssumption
<1>1. "end" \notin {Lx!Singles[c] : c \in DOMAIN Lx!Singles}
  BY DEF Lx!Singles
<1>2. "end" \notin {Lx!Alone[c] : c \in DOMAIN Lx!Alone}
  BY DEF Lx!Alone
<1>3. "end" \notin UNION {{Lx!Doubles[c][d] : d \in DOMAIN Lx!Doubles[c]} :
                         c \in DOMAIN Lx!Doubles}
  BY DEF Lx!Doubles
<1>4. "end" \notin {Keywords[w] : w \in DOMAIN Keywords}
  BY KeywordsAssumption DEF Lx!WordTokens
<1>5. "end" \notin Kinds
  BY <1>1, <1>2, <1>3, <1>4, IdentsAssumption DEF Kinds
<1> QED
  BY <1>5, IdentsAssumption, MaxCharsAssumption
     DEF PP!KindsAssumption, PP!MaxTokensAssumption

\* The steps are the same by whichever instance they are named.
LEMMA SameLexer == Lx!Next => LP!Next
BY DEF Lx!source, LP!source, Lx!vars, LP!vars, Lx!Alphabetic, LP!Alphabetic, Lx!Digit,
       LP!Digit, Lx!WordChar, LP!WordChar, Lx!White, LP!White, Lx!Escapable, LP!Escapable,
       Lx!Width, LP!Width, Lx!Lower, LP!Lower, Lx!Char, LP!Char, Lx!Current, LP!Current,
       Lx!Peek, LP!Peek, Lx!Singles, LP!Singles, Lx!Alone, LP!Alone, Lx!Doubles, LP!Doubles,
       Lx!Advance, LP!Advance, Lx!NoToken, LP!NoToken, Lx!Item, LP!Item, Lx!Yield, LP!Yield,
       Lx!EndBefore, LP!EndBefore, Lx!EndWith, LP!EndWith, Lx!Goto, LP!Goto, Lx!Begin,
       LP!Begin, Lx!New, LP!New, Lx!IsNumberStart, LP!IsNumberStart, Lx!Idle, LP!Idle,
       Lx!SkipBlank, LP!SkipBlank, Lx!BeginWord, LP!BeginWord, Lx!BeginNumber, LP!BeginNumber,
       Lx!Single, LP!Single, Lx!BeginDouble, LP!BeginDouble, Lx!Dot, LP!Dot, Lx!StringStart,
       LP!StringStart, Lx!BeginString, LP!BeginString, Lx!Unrecognized, LP!Unrecognized,
       Lx!Eof, LP!Eof, Lx!Joins, LP!Joins, Lx!EndDouble, LP!EndDouble, Lx!EndAlone,
       LP!EndAlone, Lx!FromWord, LP!FromWord, Lx!Word, LP!Word, Lx!InWord, LP!InWord,
       Lx!EndWord, LP!EndWord, Lx!Spoils, LP!Spoils, Lx!InNumber, LP!InNumber, Lx!EndNumber,
       LP!EndNumber, Lx!Spoil, LP!Spoil, Lx!InMalformed, LP!InMalformed, Lx!EndMalformed,
       LP!EndMalformed, Lx!Plain, LP!Plain, Lx!InString, LP!InString, Lx!Backslash,
       LP!Backslash, Lx!Escape, LP!Escape, Lx!EndString, LP!EndString, Lx!Unterminated,
       LP!Unterminated, Lx!BadEscape, LP!BadEscape, Lx!Skips, LP!Skips, Lx!SkipOver,
       LP!SkipOver, Lx!Skip, LP!Skip, Lx!EndSkip, LP!EndSkip, Lx!Next, LP!Next

\* And those of the parser.
LEMMA SameParser == Px!Step => PP!Step
BY DEF Px!Names, PP!Names, Px!IsInt, PP!IsInt, Px!IsUint, PP!IsUint, Px!Integer, PP!Integer,
       Px!Float, PP!Float, Px!Literals, PP!Literals, Px!Joints, PP!Joints, Px!Tiers, PP!Tiers,
       Px!BinOps, PP!BinOps, Px!NotPower, PP!NotPower, Px!LeftPower, PP!LeftPower,
       Px!RightPower, PP!RightPower, Px!Looked, PP!Looked, Px!Tok, PP!Tok, Px!Consume,
       PP!Consume, Px!Go, PP!Go, Px!Frame, PP!Frame, Px!Top, PP!Top, Px!Popped, PP!Popped,
       Px!Waiting, PP!Waiting, Px!Expr, PP!Expr, Px!Box, PP!Box, Px!Fresh, PP!Fresh, Px!Blank,
       PP!Blank, Px!At, PP!At, Px!Advance, PP!Advance, Px!Stay, PP!Stay, Px!Fail, PP!Fail,
       Px!LexFault, PP!LexFault, Px!Heads, PP!Heads, Px!Atoms, PP!Atoms, Px!Firsts, PP!Firsts,
       Px!Wanted, PP!Wanted, Px!Complaint, PP!Complaint, Px!Reject, PP!Reject, Px!Start,
       PP!Start, Px!EndCommand, PP!EndCommand, Px!Command, PP!Command, Px!Pipeline,
       PP!Pipeline, Px!Finish, PP!Finish, Px!EndOfLoop, PP!EndOfLoop, Px!ValueNext,
       PP!ValueNext, Px!ExpressionNext, PP!ExpressionNext, Px!Dashes, PP!Dashes, Px!Key,
       PP!Key, Px!Flag, PP!Flag, Px!Directed, PP!Directed, Px!Direction, PP!Direction, Px!Take, PP!Take, Px!WithOption,
       PP!WithOption, Px!WithField, PP!WithField, Px!EndExpression, PP!EndExpression, Px!Leaf,
       PP!Leaf, Px!Call, PP!Call, Px!Not, PP!Not, Px!Group, PP!Group, Px!Dot, PP!Dot,
       Px!Segment, PP!Segment, Px!EndPath, PP!EndPath, Px!Binds, PP!Binds, Px!Operator,
       PP!Operator, Px!Operands, PP!Operands, Px!EndOperand, PP!EndOperand, Px!EndElement,
       PP!EndElement, Px!EndArgument, PP!EndArgument, Px!PastComma, PP!PastComma, Px!Comma,
       PP!Comma, Px!Element, PP!Element, Px!EndGroup, PP!EndGroup, Px!NoGroup, PP!NoGroup,
       Px!Step, PP!Step, Px!input, PP!input

-----------------------------------------------------------------------------
(***************************************************************************)
(* What the lexer yields.                                                  *)
(***************************************************************************)

\* The kinds of its items, and those of them that the parser takes as they are.
OwnKinds ==
  {"str", "dot"}
    \cup {Lx!Singles[c] : c \in DOMAIN Lx!Singles}
    \cup {Lx!Alone[c] : c \in DOMAIN Lx!Alone}
    \cup (UNION {{Lx!Doubles[c][d] : d \in DOMAIN Lx!Doubles[c]} : c \in DOMAIN Lx!Doubles})
    \cup {Keywords[w] : w \in DOMAIN Keywords}

ItemKinds == Lx!Errors \cup {"ident", "int", "float"} \cup OwnKinds

\* Behind the last item there is nothing to be read.
LexInv ==
  /\ LP!LexerInv
  /\ \A i \in DOMAIN out : out[i].kind \in ItemKinds
  /\ mode = "eof" => at > Len(src)

\* At a step it goes on, has no more, or yields an item, which ends in front of the
\* current character.
Yields(t) ==
  /\ out' = Append(out, t) /\ mode' = "idle"
  /\ t.kind \in ItemKinds /\ t.last = at' - 1

\* Every function of the lexer does one of these.
LEMMA LexerDoes ==
  ASSUME LP!LexerInv, Lx!Next
  PROVE  \/ out' = out /\ mode' # "eof"
         \/ out' = out /\ mode' = "eof" /\ UNCHANGED <<src, at>> /\ at > Len(src)
         \/ \E t : Yields(t)
<1>1. /\ at \in Int /\ Len(src) \in Nat
      /\ mode # "new" /\ Lx!Current = "eof" => at = Len(src) + 1
  <2>1. LP!Ready
    BY DEF LP!LexerInv, LP!Ready
  <2>2. Lx!Current = LP!Current
    BY DEF Lx!Current, LP!Current, Lx!Char, LP!Char
  <2> QED
    BY <2>1, <2>2, LexerAssumptions, LP!ReadyFacts
<1>2. CASE \/ Lx!New \/ Lx!SkipBlank \/ Lx!BeginWord \/ Lx!BeginNumber \/ Lx!BeginDouble
           \/ Lx!BeginString
  BY <1>2 DEF Lx!New, Lx!SkipBlank, Lx!BeginWord, Lx!BeginNumber, Lx!BeginDouble,
              Lx!BeginString, Lx!Goto, Lx!Begin
<1>3. CASE \/ Lx!InWord \/ Lx!InNumber \/ Lx!Spoil \/ Lx!InMalformed \/ Lx!InString
           \/ Lx!Backslash \/ Lx!Escape \/ Lx!BadEscape \/ Lx!Skip
  BY <1>3 DEF Lx!InWord, Lx!InNumber, Lx!Spoil, Lx!InMalformed, Lx!InString, Lx!Backslash,
              Lx!Escape, Lx!BadEscape, Lx!Skip, Lx!Goto
<1>4. CASE Lx!Eof
  BY <1>1, <1>4 DEF Lx!Eof, Lx!Idle, Lx!source
<1>5. ASSUME NEW t, Lx!Yield(t), t.kind \in ItemKinds, t.last = at' - 1
      PROVE  \E u : Yields(u)
  BY <1>5 DEF Lx!Yield, Yields
<1>6. CASE Lx!Single
  <2>1. PICK t : t = Lx!Item(Lx!Singles[Lx!Current], cpos, cpos', at, at)
    OBVIOUS
  <2>2. Lx!Yield(t) /\ at' = at + 1 /\ t.last = at /\ t.kind = Lx!Singles[Lx!Current]
    BY <1>6, <2>1 DEF Lx!Single, Lx!Advance, Lx!Item
  <2>3. t.kind \in ItemKinds
    BY <1>6, <2>2 DEF Lx!Single, ItemKinds, OwnKinds
  <2> QED
    BY <1>1, <1>5, <2>2, <2>3
<1>7. CASE Lx!Dot
  <2>1. PICK t : t = IF Lx!Peek \in Lx!White \cup {"eof"}
                       THEN Lx!Item("UnfinishedDotAccess", cpos, cpos, at, at)
                       ELSE Lx!Item("dot", cpos, cpos', at, at)
    OBVIOUS
  <2>2. /\ Lx!Yield(t) /\ at' = at + 1 /\ t.last = at
        /\ t.kind \in {"UnfinishedDotAccess", "dot"}
    BY <1>7, <2>1 DEF Lx!Dot, Lx!Advance, Lx!Item
  <2>3. t.kind \in ItemKinds
    BY <2>2 DEF ItemKinds, OwnKinds, Lx!Errors
  <2> QED
    BY <1>1, <1>5, <2>2, <2>3
<1>8. CASE Lx!Unrecognized
  <2>1. PICK t : t = Lx!Item("UnrecognizedToken", cpos, cpos, at, at)
    OBVIOUS
  <2>2. Lx!Yield(t) /\ at' = at + 1 /\ t.last = at /\ t.kind = "UnrecognizedToken"
    BY <1>8, <2>1 DEF Lx!Unrecognized, Lx!Advance, Lx!Item
  <2>3. t.kind \in ItemKinds
    BY <2>2 DEF ItemKinds, Lx!Errors
  <2> QED
    BY <1>1, <1>5, <2>2, <2>3
<1>9. ASSUME NEW kind \in ItemKinds, Lx!EndBefore(kind)
      PROVE  \E u : Yields(u)
  <2>1. PICK t : t = Lx!Item(kind, tok.from, cpos, tok.first, at - 1)
    OBVIOUS
  <2>2. Lx!Yield(t) /\ at' = at /\ t.last = at - 1 /\ t.kind = kind
    BY <1>9, <2>1 DEF Lx!EndBefore, Lx!source, Lx!Item
  <2> QED
    BY <1>1, <1>5, <1>9, <2>2
<1>10. ASSUME NEW kind \in ItemKinds, Lx!EndWith(kind)
       PROVE  \E u : Yields(u)
  <2>1. PICK t : t = Lx!Item(kind, tok.from, cpos', tok.first, at)
    OBVIOUS
  <2>2. Lx!Yield(t) /\ at' = at + 1 /\ t.last = at /\ t.kind = kind
    BY <1>10, <2>1 DEF Lx!EndWith, Lx!Advance, Lx!Item
  <2> QED
    BY <1>1, <1>5, <1>10, <2>2
<1>11. mode = "double" => tok.kind \in DOMAIN Lx!Alone
  BY DEF LP!LexerInv, LP!TokenInv, LP!DoubleInv, LP!Begins, LP!Alone, Lx!Alone
<1>12. CASE Lx!EndDouble
  <2>1. Lx!Doubles[tok.kind][Lx!Current] \in ItemKinds
    BY <1>11, <1>12 DEF Lx!EndDouble, Lx!Joins, ItemKinds, OwnKinds, Lx!Doubles, Lx!Alone
  <2> QED
    BY <1>10, <1>12, <2>1 DEF Lx!EndDouble
<1>13. CASE Lx!EndAlone
  <2>1. PICK t : t = Lx!Item(Lx!Alone[tok.kind], tok.from,
                             IF tok.kind = "bang" THEN tok.from ELSE cpos, tok.first, at - 1)
    OBVIOUS
  <2>2. Lx!Yield(t) /\ at' = at /\ t.last = at - 1 /\ t.kind = Lx!Alone[tok.kind]
    BY <1>13, <2>1 DEF Lx!EndAlone, Lx!source, Lx!Item
  <2>3. t.kind \in ItemKinds
    BY <1>11, <1>13, <2>2 DEF Lx!EndAlone, ItemKinds, OwnKinds
  <2> QED
    BY <1>1, <1>5, <2>2, <2>3
<1>14. CASE Lx!EndWord
  <2>1. Lx!FromWord(Lx!Word) \in ItemKinds
    BY DEF Lx!FromWord, ItemKinds, OwnKinds
  <2> QED
    BY <1>9, <1>14, <2>1 DEF Lx!EndWord
<1>15. CASE Lx!EndNumber
  <2>1. tok.kind \in ItemKinds
    BY <1>15 DEF Lx!EndNumber, LP!LexerInv, LP!TokenInv, LP!NumberInv, ItemKinds
  <2> QED
    BY <1>9, <1>15, <2>1 DEF Lx!EndNumber
<1>16. CASE Lx!EndMalformed \/ Lx!EndString \/ Lx!Unterminated
  <2>1. {"MalformedNumber", "str", "UnexpectedStringEnd"} \subseteq ItemKinds
    BY DEF ItemKinds, OwnKinds, Lx!Errors
  <2> QED
    BY <1>9, <1>10, <1>16, <2>1 DEF Lx!EndMalformed, Lx!EndString, Lx!Unterminated
<1>17. CASE Lx!EndSkip
  <2>1. PICK t : t = Lx!Item(tok.kind, tok.from, tok.from + 1, tok.first, at' - 1)
    OBVIOUS
  <2>2. Lx!Yield(t) /\ t.last = at' - 1 /\ t.kind = tok.kind
    BY <1>17, <2>1 DEF Lx!EndSkip, Lx!Item
  <2>3. t.kind \in ItemKinds
    BY <1>17, <2>2
       DEF Lx!EndSkip, LP!LexerInv, LP!TokenInv, LP!StringInv, ItemKinds, Lx!Errors
  <2> QED
    BY <1>5, <2>2, <2>3
<1> QED
  BY <1>2, <1>3, <1>4, <1>6, <1>7, <1>8, <1>12, <1>13, <1>14, <1>15, <1>16, <1>17
     DEF Lx!Next

\* The lexer at first.
LEMMA LexInvFirst == Lx!Init => LexInv
<1>1. Lx!Init => LP!Init
  BY DEF Lx!Init, LP!Init, Lx!NoToken, LP!NoToken
<1>2. LP!Init => LP!LexerInv
  BY LexerAssumptions, LP!LexerInitFacts
<1>3. Lx!Init => out = <<>> /\ mode # "eof"
  BY DEF Lx!Init
<1> QED
  BY <1>1, <1>2, <1>3 DEF LexInv

\* The proofs about the lexer alone, for one step of it here.
LEMMA LexerMoves ==
  ASSUME LP!LexerInv, Lx!Next
  PROVE  LP!LexerInv' /\ LP!Grown
<1>1. LP!Next /\ LP!Ready
  BY SameLexer DEF LP!LexerInv, LP!Ready
<1>2. LP!LexerInv'
  BY <1>1, LexerAssumptions, LP!LexerStep
<1>3. LP!Moves
  BY <1>1, LexerAssumptions, LP!StepFacts
<1> QED
  BY <1>2, <1>3, LexerAssumptions, LP!MovesFacts DEF LP!LexerInv

\* The items are a sequence.
LEMMA OutIsSeq ==
  ASSUME LP!LexerInv
  PROVE  IsSeq(out) /\ Len(out) \in Nat /\ DOMAIN out = 1..Len(out)
<1>1. IsSeq(out)
  BY DEF LP!LexerInv, LP!OutInv, LP!IsSeq, IsSeq
<1> QED
  BY <1>1, SeqFacts

\* One item more.
LEMMA OutGrows ==
  ASSUME LP!LexerInv, NEW t, Yields(t)
  PROVE  /\ DOMAIN out' = 1..(Len(out) + 1) /\ Len(out') = Len(out) + 1
         /\ \A i \in 1..Len(out) : out'[i] = out[i]
         /\ out'[Len(out) + 1] = t
<1>1. IsSeq(out) /\ Len(out) \in Nat
  BY OutIsSeq
<1>2. IsSeq(out') /\ Len(out') = Len(out) + 1
  BY <1>1, AppendFacts DEF Yields
<1> QED
  BY <1>1, <1>2, AppendFacts, SeqFacts DEF Yields

\* The lexer at every step.
LEMMA LexInvIsStable ==
  ASSUME LexInv, Lx!Next \/ UNCHANGED lexer
  PROVE  LexInv'
<1>1. CASE Lx!Next
  <2>1. LP!LexerInv'
    BY <1>1, LexerMoves DEF LexInv
  <2>2. CASE out' = out /\ mode' # "eof"
    BY <2>1, <2>2 DEF LexInv
  <2>3. CASE out' = out /\ mode' = "eof" /\ UNCHANGED <<src, at>> /\ at > Len(src)
    BY <2>1, <2>3 DEF LexInv
  <2>4. CASE \E t : Yields(t)
    <3>1. PICK t : Yields(t)
      BY <2>4
    <3>2. Len(out) \in Nat /\ DOMAIN out = 1..Len(out)
      BY OutIsSeq DEF LexInv
    <3>3. /\ DOMAIN out' = 1..(Len(out) + 1)
          /\ \A i \in 1..Len(out) : out'[i] = out[i]
          /\ out'[Len(out) + 1] = t
      BY <3>1, OutGrows DEF LexInv
    <3>4. \A i \in DOMAIN out' : out'[i].kind \in ItemKinds
      <4> SUFFICES ASSUME NEW i \in 1..(Len(out) + 1)
                   PROVE  out'[i].kind \in ItemKinds
        BY <3>3
      <4>1. CASE i \in 1..Len(out)
        BY <3>2, <3>3, <4>1 DEF LexInv
      <4>2. CASE i = Len(out) + 1
        BY <3>1, <3>3, <4>2 DEF Yields
      <4> QED
        BY <3>2, <4>1, <4>2
    <3> QED
      BY <2>1, <3>1, <3>4 DEF LexInv, Yields, ItemKinds, OwnKinds
  <2> QED
    BY <1>1, <2>2, <2>3, <2>4, LexerDoes DEF LexInv
<1>2. CASE UNCHANGED lexer
  <2>1. LP!LexerInv'
    <3>1. UNCHANGED LP!vars
      BY <1>2 DEF lexer, LP!vars, LP!source
    <3> QED
      BY <3>1, LexerAssumptions, LP!LexerStep DEF LexInv
  <2>2. out' = out /\ mode' = mode /\ at' = at /\ src' = src
    BY <1>2 DEF lexer
  <2> QED
    BY <2>1, <2>2 DEF LexInv, ItemKinds, OwnKinds
<1> QED
  BY <1>1, <1>2

-----------------------------------------------------------------------------
(***************************************************************************)
(* The items, as the parser sees them.                                     *)
(***************************************************************************)

\* An item that is read from characters of the source is of a kind the parser
\* knows, and it is an error for the one if it is one for the other.
Read(t) ==
  /\ t.first \in 1..t.last /\ t.last \in 1..Len(src)
  /\ t.kind \in ItemKinds

\* Every item is one of these.
LEMMA ItemsAreRead ==
  ASSUME LexInv, NEW i \in DOMAIN out
  PROVE  Read(out[i])
BY DEF LexInv, LP!LexerInv, LP!OutInv, LP!Fits, Read

\* The source holds characters, and not too many.
LEMMA SourceIsRead ==
  ASSUME LP!LexerInv
  PROVE  /\ Len(src) \in 0..MaxChars /\ DOMAIN src = 1..Len(src)
         /\ \A p \in 1..Len(src) : src[p].ch \in Chars
<1>1. Len(src) \in Nat /\ DOMAIN src = 1..Len(src) /\ \A p \in DOMAIN src : src[p].ch \in Chars
  BY LexerAssumptions, LP!SourceFacts DEF LP!LexerInv
<1>2. Len(src) <= MaxChars
  BY DEF LP!LexerInv, LP!WindowInv
<1> QED
  BY <1>1, <1>2, MaxCharsAssumption

\* The text of an item spells a name, and can be read as an integer or as none.
LEMMA TextFacts ==
  ASSUME LP!LexerInv, NEW t, Read(t)
  PROVE  /\ Spelling(Text(t)) \in Idents
         /\ Reading(Text(t)) \in {"int", "neg", "big", "huge"}
<1>1. /\ Len(src) \in 0..MaxChars
      /\ \A p \in 1..Len(src) : src[p].ch \in Chars
  BY SourceIsRead
<1>2. PICK n \in Int : n = t.last - t.first + 1
  BY <1>1 DEF Read
<1>3. n \in 1..MaxChars /\ \A p \in 1..n : t.first + p - 1 \in 1..Len(src)
  BY <1>1, <1>2, MaxCharsAssumption DEF Read
<1>4. Text(t) = [p \in 1..n |-> src[t.first + p - 1].ch]
  BY <1>2 DEF Text
<1>5. \A p \in 1..n : src[t.first + p - 1].ch \in Chars
  BY <1>1, <1>3
<1>6. Text(t) \in [1..n -> Chars]
  BY <1>4, <1>5
<1>7. Spelling(Text(t)) \in Idents
  BY <1>3, <1>6, SpellingAssumption DEF AllSpelled
<1>8. Reading(Text(t)) \in Fitting(Text(t))
  BY <1>3, <1>6, ReadingAssumption DEF AllFit
<1> QED
  BY <1>7, <1>8 DEF Fitting

\* What the parser makes of an item.
LEMMA KindFacts ==
  ASSUME LP!LexerInv, NEW t, Read(t)
  PROVE  /\ KindOf(t) \in Kinds
         /\ KindOf(t) = "lexerr" <=> t.kind \in Lx!Errors
<1>1. t.kind \in ItemKinds
  BY DEF Read
<1>2. CASE t.kind \in Lx!Errors
  <2>1. t.kind \notin {"ident", "int", "float"}
    BY <1>2 DEF Lx!Errors
  <2>2. KindOf(t) = "lexerr"
    BY <1>2, <2>1 DEF KindOf
  <2> QED
    BY <1>2, <2>2 DEF Kinds
<1>3. CASE t.kind = "ident"
  <2>1. KindOf(t) = Spelling(Text(t))
    BY <1>3 DEF KindOf, Lx!Errors
  <2>2. KindOf(t) \in Idents
    BY <2>1, TextFacts
  <2>3. KindOf(t) # "lexerr"
    BY <2>2, IdentsAssumption
  <2>4. t.kind \notin Lx!Errors
    BY <1>3 DEF Lx!Errors
  <2> QED
    BY <2>2, <2>3, <2>4 DEF Kinds
<1>4. CASE t.kind \in {"int", "float"}
  <2>1. t.kind \notin Lx!Errors
    BY <1>4 DEF Lx!Errors
  <2>2. KindOf(t) \in {"int", "neg", "big", "huge", "float", "badfloat"}
    BY <1>4, <2>1, TextFacts DEF KindOf
  <2> QED
    BY <2>1, <2>2 DEF Kinds
<1>5. CASE t.kind \in OwnKinds
  <2>1. \A kind \in OwnKinds :
          kind \notin Lx!Errors \cup {"ident", "int", "float", "lexerr"}
    <3>1. \A kind \in Lx!WordTokens :
            kind \notin Lx!Errors \cup {"ident", "int", "float", "lexerr"}
      BY DEF Lx!WordTokens, Lx!Errors
    <3>2. \A kind \in {Keywords[w] : w \in DOMAIN Keywords} : kind \in Lx!WordTokens
      BY KeywordsAssumption
    <3>3. \A kind \in OwnKinds \ {Keywords[w] : w \in DOMAIN Keywords} :
            kind \notin Lx!Errors \cup {"ident", "int", "float", "lexerr"}
      BY DEF OwnKinds, Lx!Errors, Lx!Singles, Lx!Alone, Lx!Doubles
    <3> QED
      BY <3>1, <3>2, <3>3
  <2>2. KindOf(t) = t.kind
    BY <1>5, <2>1 DEF KindOf
  <2>3. OwnKinds \subseteq Kinds
    BY DEF OwnKinds, Kinds
  <2> QED
    BY <1>5, <2>1, <2>2, <2>3
<1> QED
  BY <1>1, <1>2, <1>3, <1>4, <1>5 DEF ItemKinds

\* The text of an item stays, and with it what the parser makes of it.
LEMMA KindStays ==
  ASSUME LP!LexerInv, LP!Grown, NEW t, Read(t)
  PROVE  KindOf(t)' = KindOf(t)
<1>1. Text(t)' = Text(t)
  <2>1. DOMAIN src = 1..Len(src) /\ Len(src) \in Int
    BY SourceIsRead
  <2>2. \A p \in 1..(t.last - t.first + 1) : t.first + p - 1 \in DOMAIN src
    BY <2>1 DEF Read
  <2>3. \A p \in 1..(t.last - t.first + 1) : src'[t.first + p - 1] = src[t.first + p - 1]
    BY <2>2 DEF LP!Grown
  <2> QED
    BY <2>3 DEF Text
<1>2. Dots(t)' = Dots(t)
  BY <1>1 DEF Dots
<1> QED
  BY <1>1, <1>2 DEF KindOf, Lx!Errors

\* What the parser has been given.
Given ==
  /\ Len(out) \in Nat /\ DOMAIN out = 1..Len(out)
  /\ toks \in Seq(Kinds) /\ Len(toks) = Len(out) /\ DOMAIN toks = 1..Len(out)
  /\ \A i \in 1..Len(out) :
       /\ toks[i] = KindOf(out[i])
       /\ toks[i] = "lexerr" <=> out[i].kind \in Lx!Errors

\* The tokens are the items, one by one.
LEMMA GivenFacts == LexInv => Given
<1> SUFFICES ASSUME LexInv
             PROVE  Given
  OBVIOUS
<1>1. Len(out) \in Nat /\ DOMAIN out = 1..Len(out)
  BY OutIsSeq DEF LexInv
<1>2. \A i \in 1..Len(out) :
        KindOf(out[i]) \in Kinds /\ (KindOf(out[i]) = "lexerr" <=> out[i].kind \in Lx!Errors)
  <2> SUFFICES ASSUME NEW i \in 1..Len(out)
               PROVE  /\ KindOf(out[i]) \in Kinds
                      /\ KindOf(out[i]) = "lexerr" <=> out[i].kind \in Lx!Errors
    OBVIOUS
  <2>1. PICK t : t = out[i]
    OBVIOUS
  <2>2. Read(t)
    BY <1>1, <2>1, ItemsAreRead
  <2> QED
    BY <2>1, <2>2, KindFacts DEF LexInv
<1>3. toks = [i \in 1..Len(out) |-> KindOf(out[i])]
  BY <1>1 DEF toks
<1>4. \A i \in 1..Len(out) : KindOf(out[i]) \in Kinds
  BY <1>2
<1>5. toks \in [1..Len(out) -> Kinds]
  BY <1>3, <1>4
<1> QED
  BY <1>1, <1>2, <1>3, <1>5 DEF Given

\* After a step as well.
LEMMA GivenNext == LexInv' => Given'
BY GivenFacts, PTL

\* The same items are the same tokens.
LEMMA SameGiven ==
  ASSUME LexInv, LP!Grown, out' = out
  PROVE  toks' = toks
<1>1. \A i \in DOMAIN out : KindOf(out[i])' = KindOf(out[i])
  <2> SUFFICES ASSUME NEW i \in DOMAIN out
               PROVE  KindOf(out[i])' = KindOf(out[i])
    OBVIOUS
  <2>1. PICK t : t = out[i]
    OBVIOUS
  <2>2. KindOf(t)' = KindOf(t)
    BY <2>1, ItemsAreRead, KindStays DEF LexInv
  <2>3. out'[i] = t
    BY <2>1
  <2> QED
    BY <2>1, <2>2, <2>3
<1> QED
  BY <1>1 DEF toks

\* One more item is one more token.
LEMMA OneMoreGiven ==
  ASSUME LexInv, LexInv', LP!Grown, NEW t, Yields(t)
  PROVE  \E kind \in Kinds : toks' = Append(toks, kind)
<1>1. /\ DOMAIN out' = 1..(Len(out) + 1) /\ Len(out') = Len(out) + 1
      /\ \A i \in 1..Len(out) : out'[i] = out[i]
      /\ out'[Len(out) + 1] = t
  BY OutGrows DEF LexInv
<1>2. /\ Len(out) \in Nat /\ DOMAIN out = 1..Len(out)
      /\ toks \in Seq(Kinds) /\ Len(toks) = Len(out) /\ DOMAIN toks = 1..Len(out)
      /\ \A i \in 1..Len(out) : toks[i] = KindOf(out[i])
  BY GivenFacts DEF Given
<1>3. /\ toks' \in Seq(Kinds) /\ Len(toks') = Len(out) + 1
      /\ DOMAIN toks' = 1..(Len(out) + 1)
  BY <1>1, GivenNext DEF Given
<1>4. \A i \in 1..Len(out) : toks'[i] = toks[i]
  <2> SUFFICES ASSUME NEW i \in 1..Len(out)
               PROVE  toks'[i] = toks[i]
    OBVIOUS
  <2>1. PICK u : u = out[i]
    OBVIOUS
  <2>2. KindOf(u)' = KindOf(u)
    BY <1>2, <2>1, ItemsAreRead, KindStays DEF LexInv
  <2>3. out'[i] = u /\ i \in DOMAIN out'
    BY <1>1, <1>2, <2>1
  <2>4. toks'[i] = KindOf(out[i])'
    BY <2>3 DEF toks
  <2> QED
    BY <1>2, <2>1, <2>2, <2>3, <2>4
<1>5. PICK kind : kind = toks'[Len(out) + 1]
  OBVIOUS
<1>6. kind \in Kinds
  BY <1>2, <1>3, <1>5, ElementOfSeq
<1>7. Append(toks, kind) = toks'
  <2>1. /\ Append(toks, kind) \in Seq(Kinds) /\ Len(Append(toks, kind)) = Len(out) + 1
        /\ \A i \in 1..Len(out) : Append(toks, kind)[i] = toks[i]
        /\ Append(toks, kind)[Len(out) + 1] = kind
    BY <1>2, <1>6
  <2>2. \A i \in 1..(Len(out) + 1) : Append(toks, kind)[i] = toks'[i]
    BY <1>2, <1>4, <1>5, <2>1
  <2> QED
    BY <1>3, <2>1, <2>2, SeqEqual
<1> QED
  BY <1>6, <1>7

-----------------------------------------------------------------------------
(***************************************************************************)
(* The refinement: a step of the lexer is the arrival of an item, or of    *)
(* the end, or nothing the parser sees.                                    *)
(***************************************************************************)
\* When the lexer is asked, an item arrives, the end does, or nothing as yet.
LEMMA FeedImplements ==
  ASSUME LexInv, LexInv', Feed
  PROVE  Px!Lex \/ UNCHANGED Px!vars
<1>1. /\ Lx!Next /\ UNCHANGED <<pos, ctl, frames, nodes, cmd, segs, outcome>>
      /\ ctl.at # "done" /\ ~ Px!Looked /\ LP!Grown
  BY LexerMoves DEF Feed, Asked, parser, LexInv
<1>2. mode # "eof"
  BY <1>1 DEF Px!Looked
<1>3. CASE out' = out /\ mode' # "eof"
  <2>1. toks' = toks
    BY <1>1, <1>3, SameGiven
  <2>2. (mode = "eof")' = (mode = "eof")
    BY <1>2, <1>3
  <2> QED
    BY <1>1, <2>1, <2>2 DEF Px!vars
<1>4. CASE out' = out /\ mode' = "eof"
  <2>1. toks' = toks
    BY <1>1, <1>4, SameGiven
  <2>2. (mode = "eof")' = TRUE
    BY <1>4
  <2> QED
    BY <1>1, <2>1, <2>2 DEF Px!Lex
<1>5. CASE \E t : Yields(t)
  <2>1. PICK t : Yields(t)
    BY <1>5
  <2>2. PICK kind \in Kinds : toks' = Append(toks, kind)
    BY <1>1, <2>1, OneMoreGiven
  <2>3. (mode = "eof")' = (mode = "eof")
    BY <1>2, <2>1 DEF Yields
  <2>4. Len(toks) < MaxChars
    <3>1. Len(out') = Len(out) + 1 /\ DOMAIN out' = 1..(Len(out) + 1) /\ Len(out) \in Nat
      BY <2>1, OutGrows, OutIsSeq DEF LexInv
    <3>2. PICK n : n = Len(out) + 1
      OBVIOUS
    <3>3. n \in DOMAIN out'
      BY <3>1, <3>2
    <3>4. n <= out'[n].last /\ out'[n].last \in 1..Len(src')
      BY <3>3 DEF LexInv, LP!LexerInv, LP!OutInv, LP!Fits
    <3>5. Len(src') \in 0..MaxChars
      BY MaxCharsAssumption DEF LexInv, LP!LexerInv, LP!WindowInv
    <3>6. Len(toks) = Len(out)
      BY GivenFacts DEF Given
    <3> QED
      BY <3>1, <3>2, <3>4, <3>5, <3>6, MaxCharsAssumption
  <2> QED
    BY <1>1, <2>2, <2>3, <2>4 DEF Px!Lex
<1> QED
  BY <1>1, <1>3, <1>4, <1>5, LexerDoes DEF LexInv

\* The lexer keeps what was proved of it alone, though it is only run when asked.
LEMMA LexerInvariant == Spec => []LexInv
<1>1. Init => LexInv
  BY LexInvFirst DEF Init
<1>2. LexInv /\ [Next]_vars => LexInv'
  <2>1. [Next]_vars => Lx!Next \/ UNCHANGED lexer
    BY DEF Next, vars, Feed, Parse
  <2> QED
    BY <2>1, LexInvIsStable
<1> QED
  BY <1>1, <1>2, PTL DEF Spec

\* Each step of the two is a step of the parser over some lexer, or none.
LEMMA EveryStep ==
  ASSUME LexInv, LexInv', [Next]_vars
  PROVE  [Px!Next]_(Px!vars)
<1>1. CASE Feed
  BY <1>1, FeedImplements DEF Px!Next
<1>2. CASE Parse
  BY <1>2 DEF Parse, Px!Next
<1>3. CASE UNCHANGED vars
  <2>1. out' = out /\ src' = src /\ mode' = mode /\ UNCHANGED parser
    BY <1>3 DEF vars, lexer, parser
  <2>2. toks' = toks
    BY <2>1 DEF toks, KindOf, Text, Dots, Lx!Errors
  <2> QED
    BY <2>1, <2>2 DEF Px!vars, parser
<1> QED
  BY <1>1, <1>2, <1>3 DEF Next

\* Parser::parse over a Lexer: the lexer is asked for one item at a time, and
\* whatever the source is, it is one of the lexers that the parser was modelled with.
THEOREM FrontendImplements == Spec => ImplementsParser
<1>1. Init => Px!Init
  BY DEF Init
<1>2. LexInv /\ LexInv' /\ [Next]_vars => [Px!Next]_(Px!vars)
  BY EveryStep
<1> QED
  BY <1>1, <1>2, LexerInvariant, PTL DEF Spec, ImplementsParser, Px!Spec

\* So all that was proved of the parser alone is true.
LEMMA ParserRuns == Spec => PP!Spec
<1>1. Px!Init => PP!Init
  BY DEF Px!Init, PP!Init, Px!Pending, PP!Pending, Px!Blank, PP!Blank, Px!Fresh, PP!Fresh
<1>2. [Px!Next]_(Px!vars) => [PP!Next]_(PP!vars)
  <2>1. Px!Lex => PP!Lex
    BY DEF Px!Lex, PP!Lex, Px!Looked, PP!Looked
  <2> QED
    BY <2>1, SameParser DEF Px!Next, PP!Next, Px!vars, PP!vars
<1> QED
  BY <1>1, <1>2, FrontendImplements, PTL DEF ImplementsParser, Px!Spec, PP!Spec

-----------------------------------------------------------------------------
(***************************************************************************)
(* What is accepted, and what is refused.                                  *)
(***************************************************************************)

\* At its end the lexer has read the whole source.
LEMMA Exhausted ==
  ASSUME LexInv, mode = "eof"
  PROVE  /\ at > Len(src) /\ at \in Int /\ Len(src) \in Int /\ DOMAIN src = 1..Len(src)
         /\ exhausted
<1>1. at > Len(src) /\ at \in Int
  BY DEF LexInv, LP!LexerInv, LP!WindowInv
<1>2. Len(src) \in Int /\ DOMAIN src = 1..Len(src)
  BY SourceIsRead DEF LexInv
<1>3. ~ exhausted => Len(src) = at + 1
  BY DEF LexInv, LP!LexerInv, LP!WindowInv
<1>4. ~ (Len(src) = at + 1)
  <2>1. at \in Int /\ Len(src) \in Int /\ at > Len(src)
    BY <1>1, <1>2
  <2> QED
    BY <2>1
<1>5. exhausted
  BY <1>3, <1>4, Zenon
<1> QED
  BY <1>1, <1>2, <1>5

\* Parser::parse returns Ok only for a source it has used as a whole.
THEOREM NothingIsIgnored == Spec => []NothingIgnored
<1>1. ASSUME LexInv, PP!FaultInv, PP!SegsInv, PP!CoverInv, outcome.res = "ok"
      PROVE  NothingIgnored
  <2>1. mode = "eof" /\ pos = Len(toks)
    BY <1>1 DEF PP!FaultInv
  <2>2. /\ at > Len(src) /\ at \in Int /\ Len(src) \in Int /\ DOMAIN src = 1..Len(src)
        /\ exhausted
    BY <1>1, <2>1, Exhausted
  <2>3. ASSUME NEW p \in DOMAIN src, src[p].ch # "space"
        PROVE  \E i \in DOMAIN out : p \in out[i].first..out[i].last
    <3>1. p \in 1..LP!Done
      BY <2>1, <2>2 DEF LP!Done
    <3>2. LP!Char(p) # "space"
      BY <2>3 DEF LP!Char
    <3> QED
      BY <1>1, <3>1, <3>2 DEF LexInv, LP!LexerInv, LP!OutInv
  <2>4. ASSUME NEW i \in DOMAIN out
        PROVE  \/ i = 1 /\ toks[i] = "semi"
               \/ \E s \in DOMAIN segs :
                    \/ i \in segs[s].cmd.from..segs[s].to
                    \/ s > 1 /\ i = segs[s].cmd.from - 1 /\ toks[i] = segs[s].cmd.op
    <3>1. /\ Len(toks) = Len(out) /\ Len(out) \in Nat /\ i \in 1..Len(out)
      BY <1>1, GivenFacts DEF Given
    <3>2. segs # <<>> /\ segs[Len(segs)].to = Len(toks)
      BY <1>1 DEF PP!SegsInv
    <3>3. CASE i = 1
      BY <1>1, <2>1, <3>1, <3>3 DEF PP!CoverInv
    <3>4. CASE i # 1
      <4>1. i \in 2..segs[Len(segs)].to
        BY <3>1, <3>2, <3>4
      <4>2. PP!Covered(i)
        BY <1>1, <3>2, <4>1 DEF PP!CoverInv
      <4> QED
        BY <4>2 DEF PP!Covered, PP!InCommand, PP!Joining
    <3> QED
      BY <3>3, <3>4
  <2> QED
    BY <2>2, <2>3, <2>4 DEF NothingIgnored
<1>2. LexInv /\ PP!FaultInv /\ PP!SegsInv /\ PP!CoverInv => NothingIgnored
  BY <1>1 DEF NothingIgnored
<1>3. PP!Spec => []PP!FaultInv /\ []PP!SegsInv /\ []PP!CoverInv
  BY ParserAssumptions, PP!FaultInvariant, PP!SegsInvariant, PP!CoverInvariant, PTL
<1> QED
  BY <1>2, <1>3, LexerInvariant, ParserRuns, PTL

\* Positions.
LEMMA OneBehind ==
  ASSUME NEW n \in Int, NEW m, m = n - 1
  PROVE  n = m + 1
OBVIOUS

\* At most one token is not consumed: an error at `e` is about that one, or the end.
LEMMA OneAhead ==
  ASSUME NEW p \in Int, NEW n \in Int, NEW e, p >= 0, p <= n, n <= p + 1, e = p + 1
  PROVE  /\ p < n => e = n /\ p + 1 \in 1..n
         /\ n = p => e = n + 1 /\ e # n
         /\ \A i \in 1..n : i \notin 1..p => i = p + 1 /\ p < n
         /\ n # 0 => n \in 1..n
OBVIOUS

\* What the lexer is asked for is what it has yielded last, until it is consumed.
PeekInv == pos < Len(out) => at = out[Len(out)].last + 1

\* No more is read before it is consumed.
LEMMA PeekInvIsStable ==
  ASSUME LexInv, LexInv', PP!ExprInv, PeekInv, [Next]_vars
  PROVE  PeekInv'
<1>1. /\ pos \in Nat /\ Len(toks) = Len(out) /\ Len(out) \in Nat
      /\ DOMAIN out = 1..Len(out) /\ pos <= Len(out)
  <2>1. Len(toks) = Len(out) /\ Len(out) \in Nat /\ DOMAIN out = 1..Len(out)
    BY GivenFacts DEF Given
  <2> QED
    BY <2>1, ParserAssumptions, PP!ToksFacts
<1>2. CASE Feed
  <2>1. Lx!Next /\ pos' = pos /\ ~ (pos < Len(out))
    BY <1>1, <1>2 DEF Feed, Asked, parser, Px!Looked
  <2>2. CASE out' = out
    BY <2>1, <2>2 DEF PeekInv
  <2>3. CASE \E t : Yields(t)
    <3>1. PICK t : Yields(t)
      BY <2>3
    <3>2. Len(out') = Len(out) + 1 /\ out'[Len(out) + 1] = t
      BY <3>1, OutGrows DEF LexInv
    <3>3. PICK a \in Int : a = at' /\ t.last = a - 1
      BY <3>1 DEF Yields, LexInv, LP!LexerInv, LP!WindowInv
    <3>4. at' = t.last + 1
      BY <3>3, OneBehind
    <3> QED
      BY <3>2, <3>4 DEF PeekInv
  <2> QED
    BY <2>1, <2>2, <2>3, LexerDoes DEF LexInv
<1>3. CASE Parse
  <2>1. PP!Step /\ out' = out /\ at' = at
    BY <1>3, SameParser DEF Parse, lexer
  <2>2. pos' = pos \/ pos' = pos + 1
    BY <2>1, ParserAssumptions, PP!StepLooks DEF PP!Looks, PP!GoesOn, PP!Ends
  <2>3. pos' < Len(out) => pos < Len(out)
    BY <1>1, <2>2
  <2> QED
    BY <2>1, <2>3 DEF PeekInv
<1>4. CASE UNCHANGED vars
  BY <1>4 DEF vars, lexer, parser, PeekInv
<1> QED
  BY <1>2, <1>3, <1>4 DEF Next

\* Parser::parse returns an Err as soon as the lexer has given it what is wrong.
THEOREM RefusalsAreAtOnce == Spec => []RefusedAtOnce
<1>1. ASSUME LexInv, PP!ExprInv, PP!FaultInv, PeekInv, outcome.res = "err"
      PROVE  RefusedAtOnce
  <2>1. /\ pos \in Int /\ Len(out) \in Int /\ pos <= Len(out) /\ Len(out) <= pos + 1
        /\ pos >= 0 /\ DOMAIN out = 1..Len(out) /\ outcome.at = pos + 1
        /\ mode = "eof" => Len(out) = pos
        /\ pos < Len(out) \/ mode = "eof"
    <3>1. Len(toks) = Len(out) /\ Len(out) \in Nat /\ DOMAIN out = 1..Len(out)
      BY <1>1, GivenFacts DEF Given
    <3>2. pos \in Nat /\ pos <= Len(toks)
      BY <1>1, ParserAssumptions, PP!ToksFacts
    <3>3. ctl.at = "done"
      BY <1>1 DEF PP!FaultInv, PP!Pending
    <3> QED
      BY <1>1, <3>1, <3>2, <3>3 DEF PP!FaultInv, PP!Looked
  <2>2. \A i \in DOMAIN out : toks[i] = "lexerr" <=> out[i].kind \in Lx!Errors
    BY <1>1, <2>1, GivenFacts DEF Given
  <2>3. /\ pos < Len(out) => outcome.at = Len(out)
        /\ mode = "eof" => outcome.at = Len(out) + 1 /\ outcome.at # Len(out)
    BY <2>1, OneAhead
  <2>4. mode = "eof" => exhausted /\ at > Len(src)
    BY <1>1, Exhausted DEF LexInv
  <2>5. out # <<>> => Len(src) <= at + 1 /\ out[Len(out)].last < at
    <3>1. Len(src) <= at + 1 /\ at \in Int
      BY <1>1 DEF LexInv, LP!LexerInv, LP!WindowInv
    <3>2. LP!Done \in Int /\ LP!Done <= at - 1
      BY <1>1, LexerAssumptions, LP!DoneFacts DEF LexInv, LP!LexerInv
    <3>3. ASSUME NEW n \in DOMAIN out
          PROVE  out[n].last < at
      <4>1. PICK last : last = out[n].last
        OBVIOUS
      <4>2. last <= LP!Done /\ last \in 1..Len(src) /\ Len(src) \in Int
        BY <1>1, <4>1, SourceIsRead DEF LexInv, LP!LexerInv, LP!OutInv, LP!Fits
      <4>3. last \in Int
        BY <4>2
      <4>4. last < at
        BY <3>1, <3>2, <4>2, <4>3
      <4> QED
        BY <4>1, <4>4
    <3>4. out # <<>> => Len(out) \in DOMAIN out
      <4>1. out # <<>> => Len(out) # 0
        BY <1>1, OutIsSeq, SeqFacts DEF LexInv
      <4>2. Len(out) # 0 => Len(out) \in 1..Len(out)
        BY <2>1, OneAhead
      <4> QED
        BY <2>1, <4>1, <4>2
    <3> QED
      BY <3>1, <3>3, <3>4
  <2>6. ASSUME NEW i \in DOMAIN out, out[i].kind \in Lx!Errors
        PROVE  i = pos + 1 /\ pos < Len(out) /\ outcome.what = "Lex"
    <3>1. toks[i] = "lexerr" /\ i \in 1..Len(out)
      BY <2>1, <2>2, <2>6
    <3>2. ~ (i \in 1..pos)
      BY <1>1, <3>1 DEF PP!FaultInv
    <3>3. i = pos + 1 /\ pos < Len(out)
      <4>1. \A j \in 1..Len(out) : j \notin 1..pos => j = pos + 1 /\ pos < Len(out)
        BY <2>1, OneAhead
      <4> QED
        BY <3>1, <3>2, <4>1
    <3>4. ctl.at = "done" /\ Len(toks) = Len(out)
      BY <1>1, GivenFacts DEF PP!FaultInv, PP!Pending, Given
    <3> QED
      BY <1>1, <3>1, <3>3, <3>4 DEF PP!FaultInv
  <2>7. ASSUME outcome.what = "Lex"
        PROVE  \E i \in DOMAIN out : out[i].kind \in Lx!Errors
    <3>1. pos < Len(out) /\ toks[pos + 1] = "lexerr"
      BY <1>1, <2>7, GivenFacts DEF PP!FaultInv, Given
    <3>2. PICK i : i = pos + 1
      OBVIOUS
    <3>3. i \in DOMAIN out
      BY <2>1, <3>1, <3>2, OneAhead
    <3> QED
      BY <2>2, <3>1, <3>2, <3>3
  <2>8. outcome.at = Len(out) => at = out[Len(out)].last + 1
    BY <1>1, <2>1, <2>3 DEF PeekInv
  <2>9. \A i \in DOMAIN out : out[i].kind \in Lx!Errors => i = outcome.at
    BY <2>1, <2>6
  <2> QED
    BY <2>1, <2>3, <2>4, <2>5, <2>6, <2>7, <2>8, <2>9 DEF RefusedAtOnce
<1>2. LexInv /\ PP!ExprInv /\ PP!FaultInv /\ PeekInv => RefusedAtOnce
  BY <1>1 DEF RefusedAtOnce
<1>3. PP!Spec => []PP!FaultInv /\ []PP!ExprInv
  BY ParserAssumptions, PP!FaultInvariant, PP!ExpressionInvariant, PTL
<1>4. Init => PeekInv
  BY DEF Init, Lx!Init, Px!Init, PeekInv
<1>5. LexInv /\ LexInv' /\ PP!ExprInv /\ PeekInv /\ [Next]_vars => PeekInv'
  BY PeekInvIsStable
<1> QED
  BY <1>2, <1>3, <1>4, <1>5, LexerInvariant, ParserRuns, PTL DEF Spec

-----------------------------------------------------------------------------
(***************************************************************************)
(* A minus in front of a digit is its sign.                                *)
(***************************************************************************)

\* The items that may be read from a minus.
Dashing == {"sub", "subsub", "int", "float", "str"} \cup Lx!Errors

NoMinus(first, last) == \A p \in first..last : Lx!Char(p) # "minus"

\* The operator is read from nothing else.
MinusFits(t) ==
  /\ t.kind \notin Dashing => NoMinus(t.first, t.last)
  /\ t.kind = "sub" => t.first = t.last

MinusInv ==
  /\ \A i \in DOMAIN out : MinusFits(out[i])
  /\ mode = "word" => NoMinus(tok.first, at - 1)

\* The two instances of the lexer mean the same by a character.
LEMMA SameChar == \A p : LP!Char(p) = Lx!Char(p)
BY DEF LP!Char, Lx!Char

\* The characters of an item stay what they were.
LEMMA MinusStays ==
  ASSUME LP!LexerInv, LP!Grown, NEW first \in Nat \ {0}, NEW last \in Int, last <= at,
         NoMinus(first, last)
  PROVE  NoMinus(first, last)'
<1>1. at \in Int
  BY DEF LP!LexerInv, LP!WindowInv
<1>2. \A p \in first..last : p \in 1..(at + 1)
  BY <1>1
<1>3. \A p \in 1..(at + 1) : Lx!Char(p)' = Lx!Char(p)
  <2>1. \A p \in 1..(at + 1) : LP!Char(p)' = LP!Char(p)
    BY DEF LP!Grown
  <2> QED
    BY <2>1 DEF LP!Char, Lx!Char
<1> QED
  BY <1>2, <1>3 DEF NoMinus

\* No word is the operator of a minus.
LEMMA WordTokensKinds ==
  \A kind \in Lx!WordTokens \cup {"ident"} : kind # "sub"
BY DEF Lx!WordTokens

\* What is yielded is like that.
LEMMA MinusYielded ==
  ASSUME LP!LexerInv, MinusInv, Lx!Next
  PROVE  out' = out \/ \E t : Lx!Yield(t) /\ MinusFits(t) /\ t.last <= at
<1>1. /\ at \in Int /\ (mode # "new" => at >= 1)
      /\ mode \notin {"new", "idle", "eof"} => tok.first \in 1..(at - 1)
  <2>1. at \in Int
    BY DEF LP!LexerInv, LP!WindowInv
  <2>2. /\ mode = "new" <=> at < 1
        /\ mode \notin {"new", "idle", "eof"} => tok.first \in 1..(at - 1)
    BY DEF LP!LexerInv, LP!TokenInv, LP!Begun
  <2> QED
    BY <2>1, <2>2
<1>2. CASE \/ Lx!New \/ Lx!SkipBlank \/ Lx!BeginWord \/ Lx!BeginNumber \/ Lx!BeginDouble
           \/ Lx!BeginString
  BY <1>2 DEF Lx!New, Lx!SkipBlank, Lx!BeginWord, Lx!BeginNumber, Lx!BeginDouble,
              Lx!BeginString, Lx!Goto, Lx!Begin
<1>3. CASE \/ Lx!InWord \/ Lx!InNumber \/ Lx!Spoil \/ Lx!InMalformed \/ Lx!InString
           \/ Lx!Backslash \/ Lx!Escape \/ Lx!BadEscape \/ Lx!Skip \/ Lx!Eof
  BY <1>3 DEF Lx!InWord, Lx!InNumber, Lx!Spoil, Lx!InMalformed, Lx!InString, Lx!Backslash,
              Lx!Escape, Lx!BadEscape, Lx!Skip, Lx!Goto, Lx!Eof
<1>4. ASSUME NEW p \in Int, Lx!Char(p) # "minus"
      PROVE  NoMinus(p, p)
  BY <1>4 DEF NoMinus
<1>5. CASE Lx!Single
  <2>1. PICK t : t = Lx!Item(Lx!Singles[Lx!Current], cpos, cpos', at, at)
    OBVIOUS
  <2>2. /\ Lx!Yield(t) /\ t.first = at /\ t.last = at /\ t.kind = Lx!Singles[Lx!Current]
        /\ Lx!Current \in DOMAIN Lx!Singles
    BY <1>5, <2>1 DEF Lx!Single, Lx!Item
  <2>3. Lx!Char(at) # "minus"
    BY <2>2 DEF Lx!Singles, Lx!Current
  <2>4. MinusFits(t)
    BY <1>1, <1>4, <2>2, <2>3 DEF MinusFits
  <2> QED
    BY <1>1, <2>2, <2>4
<1>6. CASE Lx!Dot
  <2>1. PICK t : t = IF Lx!Peek \in Lx!White \cup {"eof"}
                       THEN Lx!Item("UnfinishedDotAccess", cpos, cpos, at, at)
                       ELSE Lx!Item("dot", cpos, cpos', at, at)
    OBVIOUS
  <2>2. Lx!Yield(t) /\ t.first = at /\ t.last = at /\ Lx!Char(at) = "dot"
    BY <1>6, <2>1 DEF Lx!Dot, Lx!Item, Lx!Current
  <2>3. MinusFits(t)
    BY <1>1, <1>4, <2>2 DEF MinusFits
  <2> QED
    BY <1>1, <2>2, <2>3
<1>7. CASE Lx!Unrecognized
  <2>1. PICK t : t = Lx!Item("UnrecognizedToken", cpos, cpos, at, at)
    OBVIOUS
  <2>2. Lx!Yield(t) /\ t.last = at /\ t.kind = "UnrecognizedToken"
    BY <1>7, <2>1 DEF Lx!Unrecognized, Lx!Item
  <2>3. MinusFits(t)
    BY <2>2 DEF MinusFits, Dashing, Lx!Errors
  <2> QED
    BY <1>1, <2>2, <2>3
<1>8. CASE Lx!EndDouble
  <2>1. PICK kind, c, d : kind = Lx!Doubles[tok.kind][Lx!Current] /\ c = tok.kind /\ d = Lx!Current
    OBVIOUS
  <2>2. PICK t : t = Lx!Item(kind, tok.from, cpos', tok.first, at)
    OBVIOUS
  <2>3. /\ Lx!Yield(t) /\ t.first = tok.first /\ t.last = at /\ t.kind = kind
        /\ mode = "double" /\ d \in DOMAIN Lx!Doubles[c]
    BY <1>8, <2>1, <2>2 DEF Lx!EndDouble, Lx!EndWith, Lx!Item, Lx!Joins
  <2>4. /\ tok.first = at - 1 /\ c = Lx!Char(tok.first) /\ c \in DOMAIN Lx!Alone
    BY <2>1, <2>3, SameChar
       DEF LP!LexerInv, LP!TokenInv, LP!DoubleInv, LP!Begins, LP!Alone, Lx!Alone
  <2>5. c \in {"slash", "plus", "minus", "bang", "less", "greater"}
    BY <2>4 DEF Lx!Alone
  <2>6. CASE c = "minus"
    <3>1. kind = "subsub"
      BY <2>1, <2>3, <2>6 DEF Lx!Doubles
    <3> QED
      BY <1>1, <2>3, <3>1 DEF MinusFits, Dashing
  <2>7. CASE c # "minus"
    <3>1. d # "minus"
      BY <2>3, <2>5, <2>7 DEF Lx!Doubles
    <3>2. kind # "sub"
      BY <2>1, <2>3, <2>5, <2>7 DEF Lx!Doubles
    <3>3. NoMinus(tok.first, at)
      <4>1. ASSUME NEW p \in (at - 1)..at
            PROVE  Lx!Char(p) # "minus"
        <5>1. p = at - 1 \/ p = at
          BY <1>1
        <5> QED
          BY <2>1, <2>4, <2>7, <3>1, <5>1 DEF Lx!Current
      <4> QED
        BY <2>4, <4>1 DEF NoMinus
    <3> QED
      BY <1>1, <2>3, <3>2, <3>3 DEF MinusFits
  <2> QED
    BY <2>6, <2>7
<1>9. CASE Lx!EndAlone
  <2>1. PICK t : t = Lx!Item(Lx!Alone[tok.kind], tok.from,
                             IF tok.kind = "bang" THEN tok.from ELSE cpos, tok.first, at - 1)
    OBVIOUS
  <2>2. /\ Lx!Yield(t) /\ t.first = tok.first /\ t.last = at - 1 /\ t.kind = Lx!Alone[tok.kind]
        /\ mode = "double"
    BY <1>9, <2>1 DEF Lx!EndAlone, Lx!Item
  <2>3. tok.first = at - 1 /\ tok.kind = Lx!Char(tok.first) /\ tok.kind \in DOMAIN Lx!Alone
    BY <2>2, SameChar
       DEF LP!LexerInv, LP!TokenInv, LP!DoubleInv, LP!Begins, LP!Alone, Lx!Alone
  <2>4. CASE Lx!Char(at - 1) = "minus"
    <3>1. t.kind = "sub"
      BY <2>2, <2>3, <2>4 DEF Lx!Alone
    <3> QED
      BY <1>1, <2>2, <2>3, <3>1 DEF MinusFits, Dashing
  <2>5. CASE Lx!Char(at - 1) # "minus"
    <3>1. NoMinus(at - 1, at - 1)
      BY <1>1, <1>4, <2>5
    <3> QED
      BY <1>1, <2>2, <2>3, <3>1 DEF MinusFits
  <2> QED
    BY <2>4, <2>5
<1>10. CASE Lx!EndWord
  <2>1. PICK kind, t : /\ kind = Lx!FromWord(Lx!Word)
                       /\ t = Lx!Item(kind, tok.from, cpos, tok.first, at - 1)
    OBVIOUS
  <2>2. /\ Lx!Yield(t) /\ t.first = tok.first /\ t.last = at - 1 /\ t.kind = kind
        /\ mode = "word"
    BY <1>10, <2>1 DEF Lx!EndWord, Lx!EndBefore, Lx!Item
  <2>3. kind \in Lx!WordTokens \cup {"ident"}
    BY <2>1, KeywordsAssumption DEF Lx!FromWord
  <2>4. MinusFits(t)
    BY <2>2, <2>3, WordTokensKinds DEF MinusFits, MinusInv
  <2> QED
    BY <1>1, <2>2, <2>4
<1>11. ASSUME NEW t, Lx!Yield(t), t.kind \in Dashing, t.kind # "sub", t.last <= at
       PROVE  \E u : Lx!Yield(u) /\ MinusFits(u) /\ u.last <= at
  BY <1>11 DEF MinusFits
<1>12. CASE Lx!EndNumber
  <2>1. PICK t : t = Lx!Item(tok.kind, tok.from, cpos, tok.first, at - 1)
    OBVIOUS
  <2>2. Lx!Yield(t) /\ t.kind = tok.kind /\ t.last = at - 1
    BY <1>12, <2>1 DEF Lx!EndNumber, Lx!EndBefore, Lx!Item
  <2>3. t.kind \in {"int", "float"}
    BY <1>12, <2>2 DEF Lx!EndNumber, LP!LexerInv, LP!TokenInv, LP!NumberInv
  <2> QED
    BY <1>1, <1>11, <2>2, <2>3 DEF Dashing
<1>13. CASE Lx!EndMalformed \/ Lx!Unterminated
  <2>1. PICK kind \in {"MalformedNumber", "UnexpectedStringEnd"} : Lx!EndBefore(kind)
    BY <1>13 DEF Lx!EndMalformed, Lx!Unterminated
  <2>2. PICK t : t = Lx!Item(kind, tok.from, cpos, tok.first, at - 1)
    OBVIOUS
  <2>3. Lx!Yield(t) /\ t.kind = kind /\ t.last = at - 1
    BY <2>1, <2>2 DEF Lx!EndBefore, Lx!Item
  <2> QED
    BY <1>1, <1>11, <2>3 DEF Dashing, Lx!Errors
<1>14. CASE Lx!EndString
  <2>1. PICK t : t = Lx!Item("str", tok.from, cpos', tok.first, at)
    OBVIOUS
  <2>2. Lx!Yield(t) /\ t.kind = "str" /\ t.last = at
    BY <1>14, <2>1 DEF Lx!EndString, Lx!EndWith, Lx!Item
  <2> QED
    BY <1>1, <1>11, <2>2 DEF Dashing
<1>15. CASE Lx!EndSkip
  <2>1. PICK t : t = Lx!Item(tok.kind, tok.from, tok.from + 1, tok.first, at' - 1)
    OBVIOUS
  <2>2. Lx!Yield(t) /\ t.kind = tok.kind /\ t.last = at' - 1 /\ (at' = at \/ at' = at + 1)
    BY <1>15, <2>1 DEF Lx!EndSkip, Lx!Item, Lx!Advance, Lx!source
  <2>3. t.kind = "BadStringEscape" /\ t.last <= at
    BY <1>1, <1>15, <2>2 DEF Lx!EndSkip, LP!LexerInv, LP!TokenInv, LP!StringInv
  <2> QED
    BY <1>11, <2>2, <2>3 DEF Dashing, Lx!Errors
<1> QED
  BY <1>2, <1>3, <1>5, <1>6, <1>7, <1>8, <1>9, <1>10, <1>12, <1>13, <1>14, <1>15
     DEF Lx!Next

\* In a word there is no minus.
LEMMA WordsHaveNoMinus ==
  ASSUME LP!LexerInv, MinusInv, LP!Grown, Lx!Next, mode' = "word"
  PROVE  NoMinus(tok.first, at - 1)'
<1>1. /\ at \in Int
      /\ mode # "new" => at >= 1
      /\ mode \notin {"new", "idle", "eof"} => tok.first \in 1..(at - 1)
  <2>1. at \in Int
    BY DEF LP!LexerInv, LP!WindowInv
  <2>2. /\ mode = "new" <=> at < 1
        /\ mode \notin {"new", "idle", "eof"} => tok.first \in 1..(at - 1)
    BY DEF LP!LexerInv, LP!TokenInv, LP!Begun
  <2> QED
    BY <2>1, <2>2
<1>2. ASSUME NEW first \in Nat \ {0}, first = tok'.first, at' = at + 1, NoMinus(first, at)
      PROVE  NoMinus(tok.first, at - 1)'
  <2>1. PICK last \in Int : last = at
    BY <1>1
  <2>2. NoMinus(first, last)'
    BY <1>2, <2>1, MinusStays
  <2>3. \A p \in first..last : Lx!Char(p)' # "minus"
    BY <2>2 DEF NoMinus
  <2>4. at' - 1 = last
    BY <1>2, <2>1
  <2>5. \A p \in (tok'.first)..(at' - 1) : Lx!Char(p)' # "minus"
    BY <1>2, <2>3, <2>4
  <2> QED
    BY <2>5 DEF NoMinus
<1>3. CASE Lx!BeginWord
  <2>1. /\ Lx!Char(at) \in Lx!Alphabetic \cup {"_"} /\ tok'.first = at /\ at' = at + 1 /\ at >= 1
    BY <1>1, <1>3 DEF Lx!BeginWord, Lx!Idle, Lx!Begin, Lx!Advance, Lx!Current
  <2>2. PICK first \in Nat \ {0} : first = at
    <3>1. at \in Int /\ at >= 1
      BY <1>1, <2>1
    <3>2. \A i \in Int : i >= 1 => i \in Nat \ {0}
      OBVIOUS
    <3> QED
      BY <3>1, <3>2, Zenon
  <2>3. \A p \in first..first : p = first
    OBVIOUS
  <2>4. Lx!Char(first) # "minus"
    BY <2>1, <2>2 DEF Lx!Alphabetic
  <2>5. NoMinus(first, at)
    BY <2>2, <2>3, <2>4 DEF NoMinus
  <2> QED
    BY <1>2, <2>1, <2>2, <2>5
<1>4. CASE Lx!InWord
  <2>1. /\ Lx!Char(at) \in Lx!WordChar /\ tok' = tok /\ at' = at + 1 /\ mode = "word"
    BY <1>4 DEF Lx!InWord, Lx!Goto, Lx!Advance, Lx!Current
  <2>2. NoMinus(tok.first, at - 1) /\ tok.first \in 1..(at - 1)
    BY <1>1, <2>1 DEF MinusInv
  <2>3. \A p \in tok.first..at : p = at \/ p \in tok.first..(at - 1)
    BY <1>1, <2>2
  <2>4. Lx!Char(at) # "minus"
    BY <2>1 DEF Lx!WordChar, Lx!Alphabetic, Lx!Digit
  <2>5. NoMinus(tok.first, at)
    BY <2>2, <2>3, <2>4 DEF NoMinus
  <2> QED
    BY <1>1, <1>2, <2>1, <2>2, <2>5
<1>5. ASSUME ~ Lx!BeginWord, ~ Lx!InWord
      PROVE  FALSE
  <2>1. CASE Lx!New \/ Lx!SkipBlank \/ Lx!BeginNumber \/ Lx!BeginDouble \/ Lx!BeginString
    BY <2>1 DEF Lx!New, Lx!SkipBlank, Lx!BeginNumber, Lx!BeginDouble, Lx!BeginString,
                Lx!Goto, Lx!Begin
  <2>2. CASE \/ Lx!Spoil \/ Lx!InMalformed \/ Lx!InString \/ Lx!Backslash \/ Lx!Escape
             \/ Lx!BadEscape \/ Lx!Skip \/ Lx!Eof \/ Lx!InNumber
    BY <2>2 DEF Lx!Spoil, Lx!InMalformed, Lx!InString, Lx!Backslash, Lx!Escape,
                Lx!BadEscape, Lx!Skip, Lx!Eof, Lx!InNumber, Lx!Goto
  <2>3. CASE \/ Lx!Single \/ Lx!Dot \/ Lx!Unrecognized \/ Lx!EndDouble \/ Lx!EndAlone
             \/ Lx!EndWord \/ Lx!EndNumber \/ Lx!EndMalformed \/ Lx!EndString
             \/ Lx!Unterminated \/ Lx!EndSkip
    <3>1. \E t : Lx!Yield(t)
      BY <2>3 DEF Lx!Single, Lx!Dot, Lx!Unrecognized, Lx!EndDouble, Lx!EndAlone, Lx!EndWord,
                  Lx!EndNumber, Lx!EndMalformed, Lx!EndString, Lx!Unterminated, Lx!EndSkip,
                  Lx!EndWith, Lx!EndBefore
    <3> QED
      BY <3>1 DEF Lx!Yield
  <2> QED
    BY <1>5, <2>1, <2>2, <2>3 DEF Lx!Next
<1> QED
  BY <1>3, <1>4, <1>5

\* What may be read from a minus stays so with every character and every item.
LEMMA MinusInvIsStable ==
  ASSUME LexInv, LexInv', MinusInv, Lx!Next \/ UNCHANGED lexer
  PROVE  MinusInv'
<1>1. CASE Lx!Next
  <2>1. LP!LexerInv /\ LP!Grown
    BY <1>1, LexerMoves DEF LexInv
  <2>2. at \in Int
    BY <2>1 DEF LP!LexerInv, LP!WindowInv
  <2>3. ASSUME NEW t, MinusFits(t), t.first \in 1..t.last, t.last \in Int, t.last <= at
        PROVE  MinusFits(t)'
    <3>1. PICK first, last : first = t.first /\ last = t.last
      OBVIOUS
    <3>2. first \in Nat \ {0} /\ last \in Int /\ last <= at
      BY <2>3, <3>1
    <3>3. NoMinus(first, last) => NoMinus(first, last)'
      BY <2>1, <3>2, MinusStays
    <3>4. NoMinus(t.first, t.last) => NoMinus(t.first, t.last)'
      BY <3>1, <3>3
    <3> QED
      BY <2>3, <3>4 DEF MinusFits, Dashing, Lx!Errors
  <2>4. ASSUME NEW i \in DOMAIN out
        PROVE  MinusFits(out[i]) /\ out[i].first \in 1..out[i].last /\ out[i].last \in Int
               /\ out[i].last <= at
    <3>1. LP!Fits(out[i])
      BY <2>1 DEF LP!LexerInv, LP!OutInv
    <3> QED
      BY <3>1 DEF MinusInv, LP!Fits
  <2>5. IsSeq(out) /\ DOMAIN out = 1..Len(out) /\ Len(out) \in Nat
    BY <2>1, OutIsSeq
  <2>6. \A i \in DOMAIN out' : MinusFits(out[i])'
    <3> SUFFICES ASSUME NEW i \in DOMAIN out'
                 PROVE  MinusFits(out[i])'
      OBVIOUS
    <3>1. CASE i \in DOMAIN out /\ out'[i] = out[i]
      <4>1. PICK t : t = out[i]
        OBVIOUS
      <4>2. MinusFits(t)'
        BY <2>3, <2>4, <3>1, <4>1
      <4> QED
        BY <3>1, <4>1, <4>2
    <3>2. CASE \E t : Lx!Yield(t) /\ MinusFits(t) /\ t.last <= at
      <4>1. PICK t : out' = Append(out, t) /\ MinusFits(t) /\ t.last <= at
        BY <3>2 DEF Lx!Yield
      <4>2. /\ IsSeq(out') /\ Len(out') = Len(out) + 1 /\ out'[Len(out) + 1] = t
            /\ \A j \in 1..Len(out) : out'[j] = out[j]
        BY <2>5, <4>1, AppendFacts
      <4>3. i \in 1..Len(out) \/ i = Len(out) + 1
        BY <2>5, <4>2, SeqFacts
      <4>4. CASE i = Len(out) + 1
        <5>1. out'[i] = t
          BY <4>2, <4>4
        <5>2. LP!Fits(out[i])'
          BY DEF LexInv, LP!LexerInv, LP!OutInv
        <5>3. t.first \in 1..t.last /\ t.last \in Int
          BY <5>1, <5>2 DEF LP!Fits
        <5>4. MinusFits(t)'
          BY <2>3, <4>1, <5>3
        <5> QED
          BY <5>1, <5>4
      <4> QED
        BY <2>5, <3>1, <4>2, <4>3, <4>4
    <3> QED
      BY <1>1, <2>1, <3>1, <3>2, MinusYielded
  <2>7. mode' = "word" => NoMinus(tok.first, at - 1)'
    BY <1>1, <2>1, WordsHaveNoMinus
  <2> QED
    BY <2>6, <2>7 DEF MinusInv
<1>2. CASE UNCHANGED lexer
  BY <1>2 DEF lexer, MinusInv, MinusFits, NoMinus, Dashing, Lx!Errors, Lx!Char
<1> QED
  BY <1>1, <1>2

\* In a source of any length a minus is only read as an operator of one character, two
\* dashes, a number, a string or an error.
LEMMA MinusInvariant == Spec => []MinusInv
<1>1. Init => MinusInv
  BY DEF Init, Lx!Init, MinusInv
<1>2. LexInv /\ LexInv' /\ MinusInv /\ [Next]_vars => MinusInv'
  <2>1. [Next]_vars => Lx!Next \/ UNCHANGED lexer
    BY DEF Next, vars, Feed, Parse
  <2> QED
    BY <2>1, MinusInvIsStable
<1> QED
  BY <1>1, <1>2, LexerInvariant, PTL DEF Spec

\* Of the tokens that may be read from a minus only one is an operator.
LEMMA DashingIsNoOperator ==
  \A t \in {"subsub", "int", "neg", "big", "huge", "float", "badfloat", "str", "lexerr"} :
    t # "sub" /\ t \notin PP!BinOps
<1>1. ASSUME NEW t \in {"subsub", "int", "neg", "big", "huge", "float", "badfloat", "str", "lexerr"},
             NEW i \in 1..5
      PROVE  t \notin PP!Tiers[i]
  BY <1>1 DEF PP!Tiers
<1> QED
  BY <1>1 DEF PP!BinOps

\* What the parser is given for an item that holds a minus and is not the operator.
LEMMA SignedKind ==
  ASSUME LP!LexerInv, NEW t, Read(t), t.kind \in Dashing, t.kind # "sub"
  PROVE  KindOf(t) \in {"subsub", "int", "neg", "big", "huge", "float", "badfloat", "str", "lexerr"}
<1>1. CASE t.kind \in Lx!Errors
  <2>1. KindOf(t) = "lexerr"
    BY <1>1 DEF KindOf, Lx!Errors
  <2> QED
    BY <2>1
<1>2. CASE t.kind = "int"
  BY <1>2, TextFacts DEF KindOf, Lx!Errors
<1>3. CASE t.kind = "float"
  BY <1>3 DEF KindOf, Lx!Errors
<1>4. CASE t.kind \in {"subsub", "str"}
  BY <1>4 DEF KindOf, Lx!Errors
<1> QED
  BY <1>1, <1>2, <1>3, <1>4 DEF Dashing

\* `5-3` is two numbers: its minus is no operator, and the second of them begins an
\* element of a vector or an argument of a command.
THEOREM SignsAreSigns == Spec => []SignsAreNotOperators
<1>1. ASSUME LexInv, MinusInv, PP!ExprInv, PP!SignsGoOn
      PROVE  SignsAreNotOperators
  <2>1. ASSUME NEW i \in DOMAIN out, NEW p \in out[i].first..out[i].last, src[p].ch = "minus",
               p + 1 \in DOMAIN src, src[p + 1].ch \in Lx!Digit
        PROVE  /\ toks[i] # "sub"
               /\ \A n \in DOMAIN nodes : nodes[n].kind = "binary" => nodes[n].op # i
    <3>1. PICK t : t = out[i]
      OBVIOUS
    <3>2. LP!Fits(t) /\ MinusFits(t)
      BY <1>1, <3>1 DEF LexInv, LP!LexerInv, LP!OutInv, MinusInv
    <3>3. DOMAIN src = 1..Len(src) /\ Len(src) \in Int
      BY <1>1, SourceIsRead DEF LexInv
    <3>4. p \in t.first..t.last /\ p \in DOMAIN src
      BY <2>1, <3>1, <3>2, <3>3 DEF LP!Fits
    <3>5. Lx!Char(p) = "minus" /\ LP!Char(p + 1) \in LP!Digit
      BY <2>1, <3>4 DEF Lx!Char, LP!Char, LP!Digit, Lx!Digit
    <3>6. t.kind \in Dashing
      BY <3>2, <3>4, <3>5 DEF MinusFits, NoMinus
    <3>7. t.kind # "sub"
      <4>1. ASSUME t.kind = "sub"
            PROVE  FALSE
        <5>1. PICK a \in Int : a = t.first /\ a = t.last
          BY <3>2, <3>3, <4>1 DEF MinusFits, LP!Fits
        <5>2. p = a
          BY <3>4, <5>1
        <5> QED
          BY <3>2, <3>5, <4>1, <5>1, <5>2 DEF LP!Fits, LP!Longest
      <4> QED
        BY <4>1
    <3>8. toks[i] = KindOf(t)
      BY <3>1 DEF toks
    <3>9. toks[i] # "sub" /\ toks[i] \notin PP!BinOps
      BY <1>1, <3>1, <3>6, <3>7, <3>8, ItemsAreRead, SignedKind, DashingIsNoOperator DEF LexInv
    <3>10. ASSUME NEW n \in DOMAIN nodes, nodes[n].kind = "binary"
           PROVE  toks[nodes[n].op] \in PP!BinOps
      BY <1>1, <3>10 DEF PP!ExprInv, PP!NodeHolds, PP!Tiled
    <3> QED
      BY <3>9, <3>10
  <2>2. ASSUME NEW s \in DOMAIN segs, NEW c, c = segs[s].cmd, NEW i \in c.from..segs[s].to,
               c.kind = "custom", toks[i] = "neg", toks[i - 1] \in {"int", "neg"}
        PROVE  \/ \E n \in DOMAIN nodes : nodes[n].kind = "vector" /\ Begins(nodes[n].parts, i)
               \/ Begins(c.args, i) /\ (Len(c.args) > 1 \/ DOMAIN c.options # {})
    BY <1>1, <2>2 DEF PP!SignsGoOn, PP!Signed, PP!InVector, PP!Begins, Begins
  <2> QED
    BY <2>1, <2>2 DEF SignsAreNotOperators
<1>2. PP!Spec => []PP!ExprInv /\ []PP!SignsGoOn
  BY ParserAssumptions, PP!ExpressionInvariant, PP!ParserSigns, PTL
<1> QED
  BY <1>1, <1>2, LexerInvariant, MinusInvariant, ParserRuns, PTL
=============================================================================

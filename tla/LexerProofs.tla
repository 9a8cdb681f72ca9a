----------------------------- MODULE LexerProofs -----------------------------
(***************************************************************************)
(* Proofs about the lexer: what it has yielded stays true of the source    *)
(* while more of that is taken, and what it yields next is true of it too. *)
(***************************************************************************)
EXTENDS Lexer, UntypedSeqs

Modes == {"new", "idle", "word", "number", "malformed", "double", "string",
          "escape", "skip", "eof"}

\* The window of two characters is on the source: the iterator is one character
\* ahead of `current`, or has ended.
WindowInv ==
  /\ src \in Seq([off : Nat, ch : Chars])
  /\ Len(src) <= MaxChars
  /\ bytes \in Nat /\ cpos \in Nat /\ ppos \in Nat
  /\ at \in Int /\ at + 1 >= 0 /\ at <= Len(src) + 1
  /\ Len(src) <= at + 1
  /\ ~ ended => Len(src) = at + 1

\* Where the lexer takes character p to be: behind the source, one byte further.
Place(p) == IF p \in DOMAIN src THEN src[p].off ELSE src[Len(src)].off + 1

PlaceInv ==
  /\ \A p \in DOMAIN src :
       p + 1 \in DOMAIN src => src[p + 1].off = src[p].off + Width(src[p].ch)
  /\ src # <<>> =>
       /\ bytes = src[Len(src)].off + Width(src[Len(src)].ch)
       /\ at >= 1 => cpos = Place(at)
       /\ at \in 0..Len(src) => ppos = Place(at + 1)

\* What a step leaves alone: the characters in the window and those behind it.
Grown ==
  /\ at' >= at
  /\ Len(src') >= Len(src)
  /\ \A p \in DOMAIN src : p \in DOMAIN src' /\ src'[p] = src[p]
  /\ \A p \in 1..(at + 1) : Char(p)' = Char(p)
  /\ \A p \in 1..at : p \in DOMAIN src => (p = Len(src') <=> p = Len(src))

Moves == (Advance /\ at <= Len(src)) \/ UNCHANGED source

\* What has been taken of the source is a sequence of characters, with the end behind
\* it.
LEMMA SourceFacts ==
  ASSUME WindowInv
  PROVE  /\ Len(src) \in Nat
         /\ DOMAIN src = 1..Len(src)
         /\ \A p \in DOMAIN src : src[p].off \in Nat /\ src[p].ch \in Chars /\ src[p].ch # "eof"
         /\ \A p \in DOMAIN src : Char(p) = src[p].ch
         /\ \A p : p \notin DOMAIN src => Char(p) = "eof"
         /\ at >= 1 => (Current = "eof" <=> at = Len(src) + 1)
<1>1. Len(src) \in Nat /\ DOMAIN src = 1..Len(src)
  BY DEF WindowInv
<1>2. \A p \in 1..Len(src) : src[p] \in [off : Nat, ch : Chars]
  BY <1>1, ElementOfSeq DEF WindowInv
<1>3. \A p \in DOMAIN src : src[p].off \in Nat /\ src[p].ch \in Chars /\ src[p].ch # "eof"
  BY <1>1, <1>2, CharsAssumption
<1>4. ASSUME at >= 1
      PROVE  Current = "eof" <=> at = Len(src) + 1
  <2>1. at \in Int /\ at <= Len(src) + 1
    BY DEF WindowInv
  <2>2. CASE at \in DOMAIN src
    BY <1>1, <1>3, <2>1, <2>2 DEF Char, Current
  <2>3. CASE at \notin DOMAIN src
    BY <1>1, <1>4, <2>1, <2>3 DEF Char, Current
  <2> QED
    BY <2>2, <2>3
<1> QED
  BY <1>1, <1>3, <1>4 DEF Char

\* Widths are one or two.
LEMMA WidthFacts ==
  ASSUME NEW c
  PROVE  Width(c) \in 1..2
BY DEF Width

\* Taking one more character from the iterator leaves the others where they are.
LEMMA TakeOne ==
  ASSUME WindowInv, NEW c \in Chars
  PROVE  LET s == Append(src, [off |-> bytes, ch |-> c]) IN
         /\ s \in Seq([off : Nat, ch : Chars])
         /\ Len(s) = Len(src) + 1
         /\ DOMAIN s = 1..(Len(src) + 1)
         /\ \A p \in 1..Len(src) : s[p] = src[p]
         /\ s[Len(src) + 1].off = bytes
         /\ s[Len(src) + 1].ch = c
<1> DEFINE x == [off |-> bytes, ch |-> c]
<1>1. x \in [off : Nat, ch : Chars]
  BY DEF WindowInv
<1>2. x.off = bytes /\ x.ch = c
  OBVIOUS
<1> HIDE DEF x
<1> QED
  BY <1>1, <1>2 DEF WindowInv, x

\* The window moves on.
LEMMA AdvanceFacts ==
  ASSUME WindowInv, PlaceInv, Advance, at <= Len(src)
  PROVE  WindowInv' /\ PlaceInv' /\ Grown /\ at' = at + 1 /\ cpos' = ppos
<1>1. at' = at + 1 /\ cpos' = ppos /\ at \in Int /\ Len(src) \in Nat /\ DOMAIN src = 1..Len(src)
  BY DEF Advance, WindowInv
<1>2. CASE /\ ~ ended /\ Len(src) < MaxChars /\ ppos' = bytes /\ UNCHANGED ended
           /\ \E c \in Chars : /\ src' = Append(src, [off |-> bytes, ch |-> c])
                              /\ bytes' = bytes + Width(c)
  <2>1. PICK c \in Chars : /\ src' = Append(src, [off |-> bytes, ch |-> c])
                           /\ bytes' = bytes + Width(c)
    BY <1>2
  <2>2. ppos' = bytes /\ ended' = ended /\ Len(src) < MaxChars
    BY <1>2
  <2>3. /\ src' \in Seq([off : Nat, ch : Chars])
        /\ Len(src') = Len(src) + 1
        /\ DOMAIN src' = 1..(Len(src) + 1)
        /\ \A p \in 1..Len(src) : src'[p] = src[p]
        /\ src'[Len(src) + 1].off = bytes
        /\ src'[Len(src) + 1].ch = c
    BY <2>1, TakeOne
  <2>4. Len(src) = at + 1 /\ ~ ended
    BY <1>2 DEF WindowInv
  <2>5. WindowInv'
    <3>1. Len(src') <= MaxChars /\ bytes' \in Nat
      BY <2>1, <2>2, <2>3, WidthFacts, MaxCharsAssumption DEF WindowInv
    <3> QED
      BY <1>1, <2>2, <2>3, <2>4, <3>1 DEF WindowInv
  <2>6. Grown
    BY <1>1, <2>3, <2>4 DEF Grown, Char
  <2>7. PlaceInv'
    <3>1. \A p \in DOMAIN src' :
            p + 1 \in DOMAIN src' => src'[p + 1].off = src'[p].off + Width(src'[p].ch)
      <4> SUFFICES ASSUME NEW p \in 1..(Len(src) + 1), p + 1 \in 1..(Len(src) + 1)
                   PROVE  src'[p + 1].off = src'[p].off + Width(src'[p].ch)
        BY <2>3
      <4>1. CASE p + 1 \in 1..Len(src)
        <5>1. p \in 1..Len(src) /\ p \in DOMAIN src /\ p + 1 \in DOMAIN src
          BY <1>1, <4>1
        <5>2. src'[p] = src[p] /\ src'[p + 1] = src[p + 1]
          BY <2>3, <4>1, <5>1
        <5> QED
          BY <5>1, <5>2 DEF PlaceInv
      <4>2. CASE p = Len(src)
        BY <1>1, <2>3, <4>2 DEF PlaceInv
      <4> QED
        BY <1>1, <4>1, <4>2
    <3>2. at' >= 1 => cpos' = src'[at'].off
      BY <1>1, <2>3, <2>4 DEF PlaceInv, Place
    <3>3. ppos' = src'[at' + 1].off
      BY <1>1, <2>2, <2>3, <2>4
    <3> QED
      BY <1>1, <2>1, <2>3, <2>4, <3>1, <3>2, <3>3 DEF PlaceInv, Place
  <2> QED
    BY <1>1, <2>5, <2>6, <2>7
<1>3. CASE ended' = TRUE /\ ppos' = ppos + 1 /\ UNCHANGED <<src, bytes>>
  <2>0. src' = src /\ bytes' = bytes /\ ppos' = ppos + 1
    BY <1>3
  <2>1. WindowInv'
    <3>1. ~ ended' => FALSE
      BY <1>3
    <3>2. /\ src \in Seq([off : Nat, ch : Chars]) /\ Len(src) <= MaxChars
          /\ bytes \in Nat /\ ppos \in Nat /\ at + 1 >= 0 /\ Len(src) <= at + 1
      BY DEF WindowInv
    <3>3. /\ src' \in Seq([off : Nat, ch : Chars]) /\ Len(src') <= MaxChars
          /\ bytes' \in Nat /\ cpos' \in Nat /\ ppos' \in Nat
      BY <1>1, <2>0, <3>2
    <3>4. at' \in Int /\ at' + 1 >= 0 /\ at' <= Len(src') + 1 /\ Len(src') <= at' + 1
      BY <1>1, <2>0, <3>2
    <3> QED
      BY <3>1, <3>3, <3>4 DEF WindowInv
  <2>2. Grown
    BY <1>1, <2>0 DEF Grown, Char
  <2>3. PlaceInv'
    <3>1. src # <<>> /\ at >= 0 => ppos = Place(at + 1)
      BY <1>1 DEF PlaceInv
    <3>2. src # <<>> => Len(src) > 0
      BY SeqFacts DEF WindowInv, IsSeq
    <3>3. at + 1 >= Len(src)
      BY <1>1 DEF WindowInv
    <3> QED
      BY <1>1, <2>0, <3>1, <3>2, <3>3 DEF PlaceInv, Place
  <2> QED
    BY <1>1, <2>1, <2>2, <2>3
<1> QED
  BY <1>2, <1>3 DEF Advance

-----------------------------------------------------------------------------
\* Backslashes.

\* A run of backslashes that has begun goes on, or another one begins.
LEMMA RunOn ==
  ASSUME NEW f \in Nat, NEW q \in Int, NEW p \in Int, Run(f, q, p), Char(p) = "bslash"
  PROVE  Run(f, q, p + 1)
<1>1. q \in (f + 1)..(p + 1)
  BY DEF Run
<1>2. ASSUME NEW r \in q..p
      PROVE  Char(r) = "bslash"
  BY <1>2 DEF Run
<1> QED
  BY <1>1, <1>2 DEF Run

\* Behind the first character, or one that is no backslash, a run of backslashes begins
\* anew.
LEMMA RunAnew ==
  ASSUME NEW f \in Nat, NEW p \in Int, p >= f, p = f \/ Char(p) # "bslash"
  PROVE  Run(f, p + 1, p + 1)
<1>1. p + 1 \in (f + 1)..(p + 1) /\ (p + 1) - 1 = p
  OBVIOUS
<1>2. \A r \in (p + 1)..((p + 1) - 1) : Char(r) = "bslash"
  OBVIOUS
<1> QED
  BY <1>1, <1>2 DEF Run

\* There is one run in front of a character, so it is escaped or it is not.
LEMMA RunIsOne ==
  ASSUME NEW f \in Nat, NEW p \in Int, NEW q \in Int, NEW r \in Int,
         Run(f, q, p), Run(f, r, p)
  PROVE  q = r
<1>1. ASSUME NEW x \in Int, NEW y \in Int, Run(f, x, p), Run(f, y, p), x < y
      PROVE  FALSE
  <2>1. y - 1 \in x..(p - 1) /\ y # f + 1
    BY <1>1 DEF Run
  <2> QED
    BY <1>1, <2>1 DEF Run
<1> QED
  BY <1>1

\* A character is escaped if the run of backslashes in front of it is odd.
LEMMA EscapedByRun ==
  ASSUME NEW f \in Nat, NEW p \in Int, NEW q \in Int, Run(f, q, p)
  PROVE  Escaped(f, p) <=> (p - q) % 2 = 1
<1>1. q \in (f + 1)..p
  BY DEF Run
<1>2. (p - q) % 2 = 1 => Escaped(f, p)
  BY <1>1 DEF Escaped
<1>3. ASSUME Escaped(f, p)
      PROVE  (p - q) % 2 = 1
  <2>1. PICK x \in (f + 1)..p : Run(f, x, p) /\ (p - x) % 2 = 1
    BY <1>3 DEF Escaped
  <2>2. x = q
    BY <2>1, RunIsOne
  <2> QED
    BY <2>1, <2>2
<1> QED
  BY <1>2, <1>3

\* What has been taken of a string.
LEMMA QuotedOn ==
  ASSUME NEW f \in Nat, NEW p \in Int, p > f, Quoted(f, p),
         IF Escaped(f, p) THEN Char(p) \in Escapable ELSE Char(p) # "quote"
  PROVE  Quoted(f, p + 1)
<1> SUFFICES ASSUME NEW r \in (f + 1)..p
             PROVE  IF Escaped(f, r) THEN Char(r) \in Escapable ELSE Char(r) # "quote"
  BY DEF Quoted
<1>1. CASE r \in (f + 1)..(p - 1)
  BY <1>1 DEF Quoted
<1>2. CASE r = p
  BY <1>2
<1> QED
  BY <1>1, <1>2

\* It stays so.
LEMMA StringsStay ==
  ASSUME Grown, at \in Int, NEW f \in Nat, NEW p \in Int, p <= at + 2
  PROVE  /\ \A q \in Int : Run(f, q, p)' <=> Run(f, q, p)
         /\ Escaped(f, p)' <=> Escaped(f, p)
         /\ Quoted(f, p)' <=> Quoted(f, p)
<1>1. ASSUME NEW x \in Int, x <= at + 2, NEW q \in Int
      PROVE  Run(f, q, x)' <=> Run(f, q, x)
  <2>1. CASE q \in (f + 1)..x
    <3>1. \A r \in q..(x - 1) : Char(r)' = Char(r)
      BY <1>1, <2>1 DEF Grown
    <3>2. q = f + 1 \/ Char(q - 1)' = Char(q - 1)
      <4>1. q = f + 1 \/ q - 1 \in 1..(at + 1)
        BY <1>1, <2>1
      <4> QED
        BY <4>1 DEF Grown
    <3> QED
      BY <3>1, <3>2 DEF Run
  <2>2. CASE q \notin (f + 1)..x
    BY <2>2 DEF Run
  <2> QED
    BY <2>1, <2>2
<1>2. ASSUME NEW x \in Int, x <= at + 2
      PROVE  Escaped(f, x)' <=> Escaped(f, x)
  <2>1. \A q \in (f + 1)..x : Run(f, q, x)' <=> Run(f, q, x)
    BY <1>1, <1>2
  <2> QED
    BY <2>1 DEF Escaped
<1>3. Quoted(f, p)' <=> Quoted(f, p)
  <2>1. \A r \in (f + 1)..(p - 1) : Char(r)' = Char(r)
    BY DEF Grown
  <2>2. \A r \in (f + 1)..(p - 1) : Escaped(f, r)' <=> Escaped(f, r)
    BY <1>2
  <2> QED
    BY <2>1, <2>2 DEF Quoted
<1> QED
  BY <1>1, <1>2, <1>3

-----------------------------------------------------------------------------
\* The token that has been begun: where, and what of it has been taken.
Begun == mode \notin {"new", "idle", "eof"}

Begins(chars) == Char(tok.first) \in chars /\ tok.from = src[tok.first].off

Signed == Digit \cup {"minus"}

NumberInv ==
  mode \in {"number", "malformed"} =>
    /\ Begins(Signed)
    /\ tok.kind \in {"int", "float"}
    /\ tok.first = at - 1 /\ Char(tok.first) = "minus" =>
         mode = "number" /\ Current \in Digit

DoubleInv ==
  mode = "double" =>
    /\ Begins(DOMAIN Alone)
    /\ tok.first = at - 1 /\ tok.kind = Char(tok.first)
    /\ tok.kind = "minus" => Current \notin Digit

StringInv ==
  /\ mode \in {"string", "escape"} =>
       /\ Char(tok.first) = "quote" /\ tok.kind = "str"
       /\ tok.from = src[tok.first].off + 1
       /\ Quoted(tok.first, at)
       /\ \E q \in Int : Run(tok.first, q, at)
       /\ mode = "escape" <=> Escaped(tok.first, at)
  /\ mode = "skip" =>
       /\ Char(tok.first) = "quote" /\ tok.kind = "BadStringEscape"
       /\ \E p \in (tok.first + 1)..at :
            /\ Quoted(tok.first, p) /\ Escaped(tok.first, p) /\ Char(p) \notin Escapable
            /\ \A q \in p..(at - 1) : Char(q) # "quote"

TokenInv ==
  /\ mode \in Modes
  /\ mode = "new" <=> at < 1
  /\ tok = [kind |-> tok.kind, from |-> tok.from, first |-> tok.first]
  /\ Begun => tok.first \in 1..(at - 1)
  /\ mode = "word" => Begins(Alphabetic \cup {"_"})
  /\ NumberInv
  /\ DoubleInv
  /\ StringInv

\* What the lexer says of an item is so.
Exact(t) ==
  t.kind \notin Errors =>
    /\ t.from = IF t.kind = "str" THEN src[t.first].off + 1 ELSE src[t.first].off
    /\ t.to = IF t.kind = "not" /\ Char(t.first) = "bang" THEN src[t.first].off
              ELSE IF t.last = Len(src) THEN src[t.last].off + 1
              ELSE src[t.last + 1].off

Longest(t) ==
  /\ t.first = t.last /\ Char(t.first) \in DOMAIN Alone =>
       Char(t.last + 1) \notin DOMAIN Doubles[Char(t.first)]
  /\ t.kind = "sub" => Char(t.last + 1) \notin Digit
  /\ t.kind \in {"int", "float"} =>
       Char(t.last + 1) \notin Digit \cup Alphabetic \cup {"_", "dot"}
  /\ Char(t.first) \in Alphabetic \cup {"_"} => Char(t.last + 1) \notin WordChar

Delimited(t) ==
  /\ t.kind = "str" =>
       /\ Char(t.first) = "quote" /\ Char(t.last) = "quote" /\ t.first < t.last
       /\ Quoted(t.first, t.last) /\ ~ Escaped(t.first, t.last)
  /\ t.kind = "UnexpectedStringEnd" =>
       t.last = Len(src) /\ Quoted(t.first, t.last + 1)
  /\ t.kind = "BadStringEscape" =>
       \E p \in (t.first + 1)..(t.last + 1) :
         /\ Quoted(t.first, p) /\ Escaped(t.first, p) /\ Char(p) \notin Escapable
         /\ \A q \in p..(t.last - 1) : Char(q) # "quote"
         /\ Char(t.last) = "quote" \/ t.last = Len(src)

Fits(t) ==
  /\ t.first \in 1..t.last /\ t.last \in 1..Len(src) /\ t.last <= at
  /\ Exact(t) /\ Longest(t) /\ Delimited(t)

\* The items are read one behind the other, with blanks between them.
OutInv ==
  /\ IsSeq(out)
  /\ \A i \in DOMAIN out : Fits(out[i]) /\ out[i].last <= Done /\ i <= out[i].last
  /\ \A i \in DOMAIN out : i > 1 => out[i - 1].last < out[i].first
  /\ \A p \in 1..Done :
        \/ Char(p) = "space"
        \/ \E i \in DOMAIN out : p \in out[i].first..out[i].last

LexerInv == WindowInv /\ PlaceInv /\ TokenInv /\ OutInv

-----------------------------------------------------------------------------
\* Every step leaves the characters in the window, and moves on from none but a
\* character.
LEMMA MovesFacts ==
  ASSUME WindowInv, PlaceInv, Moves
  PROVE  WindowInv' /\ PlaceInv' /\ Grown /\ at' \in {at, at + 1}
<1>1. CASE Advance /\ at <= Len(src)
  BY <1>1, AdvanceFacts
<1>2. CASE UNCHANGED source
  <2>1. /\ src' = src /\ bytes' = bytes /\ ended' = ended /\ at' = at
        /\ cpos' = cpos /\ ppos' = ppos
    BY <1>2 DEF source
  <2>2. Grown
    BY <2>1 DEF Grown, Char, WindowInv
  <2>3. WindowInv'
    BY <2>1 DEF WindowInv
  <2>4. PlaceInv'
    BY <2>1 DEF PlaceInv, Place
  <2> QED
    BY <2>1, <2>2, <2>3, <2>4
<1> QED
  BY <1>1, <1>2 DEF Moves

\* If `current` is some character, the lexer is at a place of the source.
LEMMA AtCharacter ==
  ASSUME WindowInv, mode # "new", mode = "new" <=> at < 1, Current # "eof"
  PROVE  at \in 1..Len(src)
BY SourceFacts DEF WindowInv

\* If `current` is none, the lexer is just behind the last character.
LEMMA AtEnd ==
  ASSUME WindowInv, mode # "new", mode = "new" <=> at < 1, Current = "eof"
  PROVE  at = Len(src) + 1
BY SourceFacts DEF WindowInv

\* The tables of the tokens of one character and of two.
LEMMA Tables ==
  /\ DOMAIN Singles = {"eq", "star", "percent", "lpar", "rpar", "comma", "semi"}
  /\ DOMAIN Alone = {"slash", "plus", "minus", "bang", "less", "greater"}
  /\ \A c \in DOMAIN Singles :
       Singles[c] \in {"eq", "mul", "mod", "lpar", "rpar", "comma", "semi"}
  /\ \A c \in DOMAIN Alone :
       /\ Alone[c] \in {"div", "add", "sub", "not", "lt", "gt"}
       /\ Alone[c] = "sub" <=> c = "minus"
       /\ Alone[c] = "not" <=> c = "bang"
       /\ "eof" \notin DOMAIN Doubles[c]
       /\ \A d \in DOMAIN Doubles[c] :
            Doubles[c][d] \in {"divdiv", "concat", "subsub", "ne", "le", "pipe", "ge"}
<1>1. /\ DOMAIN Singles = {"eq", "star", "percent", "lpar", "rpar", "comma", "semi"}
      /\ \A c \in DOMAIN Singles :
           Singles[c] \in {"eq", "mul", "mod", "lpar", "rpar", "comma", "semi"}
  BY DEF Singles
<1>2. /\ DOMAIN Alone = {"slash", "plus", "minus", "bang", "less", "greater"}
      /\ \A c \in DOMAIN Alone :
           /\ Alone[c] \in {"div", "add", "sub", "not", "lt", "gt"}
           /\ Alone[c] = "sub" <=> c = "minus"
           /\ Alone[c] = "not" <=> c = "bang"
  BY DEF Alone
<1>3. ASSUME NEW c \in {"slash", "plus", "minus", "bang", "less", "greater"}
      PROVE  /\ "eof" \notin DOMAIN Doubles[c]
             /\ \A d \in DOMAIN Doubles[c] :
                  Doubles[c][d] \in {"divdiv", "concat", "subsub", "ne", "le", "pipe", "ge"}
  <2>1. CASE c = "slash"
    BY <2>1 DEF Doubles
  <2>2. CASE c = "plus"
    BY <2>2 DEF Doubles
  <2>3. CASE c = "minus"
    BY <2>3 DEF Doubles
  <2>4. CASE c = "bang"
    BY <2>4 DEF Doubles
  <2>5. CASE c = "less"
    BY <2>5 DEF Doubles
  <2>6. CASE c = "greater"
    BY <2>6 DEF Doubles
  <2> QED
    BY <2>1, <2>2, <2>3, <2>4, <2>5, <2>6
<1> QED
  BY <1>1, <1>2, <1>3

\* What a step takes: nothing or a blank, or all the characters of an item.
Took ==
  \/ /\ out' = out
     /\ Done' \in {Done, Done + 1}
     /\ Done' = Done + 1 /\ Done' >= 1 => Char(Done') = "space"
  \/ \E t : /\ out' = Append(out, t)
            /\ t.first = Done + 1 /\ t.last = Done'
            /\ Fits(t)

\* An item has been read.
LEMMA Yielded ==
  ASSUME WindowInv, PlaceInv, Moves, mode # "new", mode = "new" <=> at < 1,
         NEW t, Yield(t), t.first = Done + 1, t.last = at' - 1, Fits(t)
  PROVE  TokenInv' /\ Took
<1>1. /\ at' \in {at, at + 1} /\ at \in Int /\ at >= 1
      /\ mode' = "idle" /\ tok' = NoToken /\ out' = Append(out, t)
  BY MovesFacts DEF Yield, WindowInv
<1>2. Took
  <2>1. Done' = at' - 1
    BY <1>1 DEF Done
  <2> QED
    BY <1>1, <2>1 DEF Took
<1>3. tok' = [kind |-> tok'.kind, from |-> tok'.from, first |-> tok'.first]
  BY <1>1 DEF NoToken
<1>4. NumberInv' /\ DoubleInv' /\ StringInv'
  BY <1>1 DEF NumberInv, DoubleInv, StringInv
<1> QED
  BY <1>1, <1>2, <1>3, <1>4 DEF TokenInv, Begun, Modes

\* The lexer goes on: what it knows of the token begun stays so.
LEMMA BeginsStay ==
  ASSUME WindowInv, Grown, tok'.first = tok.first, tok'.from = tok.from,
         tok.first \in 1..(at - 1), NEW S, Begins(S)
  PROVE  Begins(S)'
<1>1. tok.first \in 1..(at + 1) /\ tok.first \in DOMAIN src
  BY SourceFacts DEF WindowInv
<1>2. src'[tok.first] = src[tok.first] /\ Char(tok.first)' = Char(tok.first)
  BY <1>1 DEF Grown
<1> QED
  BY <1>2 DEF Begins

-----------------------------------------------------------------------------
\* A place is the last one or in front of it.
LEMMA LastOrNot ==
  ASSUME NEW i \in Int, NEW n \in Int, i \in 1..n
  PROVE  i = n \/ i < n
OBVIOUS

\* The steps that only go on.
Ready == WindowInv /\ PlaceInv /\ TokenInv

\* Where a lexer between two steps is, and what its two offsets are there.
LEMMA ReadyFacts ==
  ASSUME Ready
  PROVE  /\ at \in Int /\ Len(src) \in Nat /\ DOMAIN src = 1..Len(src)
         /\ mode # "new" => at >= 1
         /\ Len(src) <= at + 1 /\ at <= Len(src) + 1
         /\ mode # "new" /\ Current # "eof" => at \in 1..Len(src)
         /\ mode # "new" /\ Current = "eof" => at = Len(src) + 1
         /\ at \in 1..Len(src) => Current = src[at].ch /\ cpos = src[at].off
         /\ at \in 1..Len(src) =>
              ppos = IF at = Len(src) THEN src[at].off + 1 ELSE src[at + 1].off
         /\ at > 1 => cpos = IF at - 1 = Len(src) THEN src[at - 1].off + 1 ELSE src[at].off
<1>1. /\ at \in Int /\ Len(src) \in Nat /\ DOMAIN src = 1..Len(src)
      /\ mode # "new" => at >= 1
      /\ Len(src) <= at + 1 /\ at <= Len(src) + 1
  <2>1. WindowInv /\ (mode = "new" <=> at < 1)
    BY DEF Ready, TokenInv
  <2>2. at \in Int /\ Len(src) <= at + 1 /\ at <= Len(src) + 1
    BY <2>1 DEF WindowInv
  <2> QED
    BY <2>1, <2>2, SourceFacts
<1>2. /\ mode # "new" /\ Current # "eof" => at \in 1..Len(src)
      /\ mode # "new" /\ Current = "eof" => at = Len(src) + 1
  BY AtCharacter, AtEnd DEF Ready, TokenInv
<1>3. src # <<>> <=> Len(src) # 0
  BY SeqFacts DEF Ready, WindowInv, IsSeq
<1>4. at \in 1..Len(src) => Current = src[at].ch /\ cpos = src[at].off
  BY <1>1, <1>3 DEF Ready, PlaceInv, Place, Current, Char
<1>0. at \in Int /\ Len(src) \in Nat /\ DOMAIN src = 1..Len(src)
  BY <1>1
<1>5. at \in 1..Len(src) =>
        ppos = IF at = Len(src) THEN src[at].off + 1 ELSE src[at + 1].off
  <2>1. at \in 1..Len(src) => ppos = Place(at + 1)
    BY <1>1, <1>3 DEF Ready, PlaceInv
  <2>2. CASE at = Len(src)
    BY <1>0, <2>1, <2>2 DEF Place
  <2>3. ASSUME at < Len(src), at \in 1..Len(src)
        PROVE  ppos = src[at + 1].off
    <3>1. at + 1 \in 1..Len(src)
      BY <1>0, <2>3
    <3> QED
      BY <1>0, <2>1, <2>3, <3>1 DEF Place
  <2>4. at \in 1..Len(src) => at = Len(src) \/ at < Len(src)
    <3>1. at \in Int /\ Len(src) \in Int
      BY <1>0
    <3> QED
      BY <3>1, LastOrNot
  <2> QED
    BY <1>0, <2>2, <2>3, <2>4
<1>6. at > 1 => cpos = IF at - 1 = Len(src) THEN src[at - 1].off + 1 ELSE src[at].off
  BY <1>1, <1>3 DEF Ready, PlaceInv, Place
<1> QED
  BY <1>1, <1>2, <1>4, <1>5, <1>6

\* Between tokens.
LEMMA GoesOnIdle ==
  ASSUME Ready, New \/ SkipBlank \/ Eof
  PROVE  Moves /\ TokenInv' /\ Took
<1>1. CASE New
  <2>1. mode = "new" /\ at < 1 /\ Advance /\ tok' = tok /\ out' = out
        /\ mode' = IF at = 0 THEN "idle" ELSE "new"
    BY <1>1 DEF New, Goto, Ready, TokenInv
  <2>2. Moves
    BY <2>1, ReadyFacts DEF Moves
  <2>3. at' = at + 1
    BY <2>1 DEF Advance
  <2>4. TokenInv'
    <3>1. NumberInv' /\ DoubleInv' /\ StringInv'
      BY <2>1 DEF NumberInv, DoubleInv, StringInv
    <3>2. at = 0 \/ at = -1
      BY <2>1, ReadyFacts DEF Ready, WindowInv
    <3>3. mode' \in Modes /\ ~ Begun' /\ (mode' = "new" <=> at' < 1) /\ mode' # "word"
      BY <2>1, <2>3, <3>2 DEF Modes, Begun
    <3> QED
      BY <2>1, <3>1, <3>3 DEF TokenInv, Ready
  <2>5. Took
    BY <2>1, <2>3, ReadyFacts DEF Took, Done
  <2> QED
    BY <2>2, <2>4, <2>5
<1>2. CASE SkipBlank
  <2>1. mode = "idle" /\ Current = "space" /\ Advance /\ tok' = tok /\ out' = out
        /\ mode' = "idle"
    BY <1>2 DEF SkipBlank, Idle, Goto
  <2>2. Moves /\ at >= 1
    BY <2>1, ReadyFacts DEF Moves
  <2>3. at' = at + 1
    BY <2>1 DEF Advance
  <2>4. TokenInv'
    <3>1. NumberInv' /\ DoubleInv' /\ StringInv'
      BY <2>1 DEF NumberInv, DoubleInv, StringInv
    <3>2. mode' \in Modes /\ ~ Begun' /\ (mode' = "new" <=> at' < 1) /\ mode' # "word"
      BY <2>1, <2>2, <2>3, ReadyFacts DEF Modes, Begun
    <3> QED
      BY <2>1, <3>1, <3>2 DEF TokenInv, Ready
  <2>5. Took
    BY <2>1, <2>3, ReadyFacts DEF Took, Done, Current
  <2> QED
    BY <2>2, <2>4, <2>5
<1>3. CASE Eof
  <2>1. /\ mode = "idle" /\ mode' = "eof" /\ tok' = tok /\ out' = out
        /\ UNCHANGED source /\ at' = at
    BY <1>3 DEF Eof, Idle, source
  <2>2. TokenInv'
    <3>1. NumberInv' /\ DoubleInv' /\ StringInv'
      BY <2>1 DEF NumberInv, DoubleInv, StringInv
    <3>2. mode' \in Modes /\ ~ Begun' /\ (mode' = "new" <=> at' < 1) /\ mode' # "word"
      BY <2>1, ReadyFacts DEF Modes, Begun
    <3> QED
      BY <2>1, <3>1, <3>2 DEF TokenInv, Ready
  <2>3. Took
    BY <2>1, ReadyFacts DEF Took, Done
  <2> QED
    BY <2>1, <2>2, <2>3 DEF Moves
<1> QED
  BY <1>1, <1>2, <1>3

\* A token begins.
LEMMA BeginFacts ==
  ASSUME Ready, mode = "idle", Current # "eof", NEW m, NEW kind,
         m \in Modes \ {"new", "idle", "eof"},
         Advance, mode' = m, out' = out, tok'.first = at, tok'.kind = kind,
         tok' = [kind |-> tok'.kind, from |-> tok'.from, first |-> tok'.first]
  PROVE  /\ Moves /\ Took /\ Grown /\ at' = at + 1 /\ at \in 1..Len(src) /\ cpos' = ppos
         /\ at' \in Int
         /\ mode' \in Modes /\ (mode' = "new" <=> at' < 1) /\ tok'.first \in 1..(at' - 1)
         /\ tok'.first = at' - 1
         /\ Char(tok.first)' = Current /\ src'[tok'.first] = src[at]
         /\ Current' = Peek
<1>1. at \in 1..Len(src) /\ at' = at + 1 /\ cpos' = ppos
  BY ReadyFacts DEF Advance
<1>2. Moves
  BY <1>1 DEF Moves
<1>3. Grown
  BY <1>2, MovesFacts DEF Ready
<1>4. Done = at - 1 /\ Done' = at - 1
  BY <1>1 DEF Done, Modes
<1>5. Took
  BY <1>1, <1>4 DEF Took
<1>6. PICK p \in 1..Len(src) : p = at
  BY <1>1
<1>7. Char(p)' = Char(p) /\ Char(p + 1)' = Char(p + 1) /\ src'[p] = src[p]
  BY <1>6, <1>3, ReadyFacts DEF Grown
<1>8. Current' = Char(p + 1)'
  BY <1>1, <1>6 DEF Current
<1>9. Char(tok.first)' = Char(p)'
  BY <1>6
<1> QED
  BY <1>1, <1>2, <1>3, <1>5, <1>6, <1>7, <1>8, <1>9, ReadyFacts DEF Current, Peek

\* Beginning a word, a number, a string or an operator of two characters: one character
\* taken.
LEMMA BeginsToken ==
  ASSUME Ready, BeginWord \/ BeginNumber \/ BeginDouble \/ BeginString
  PROVE  Moves /\ TokenInv' /\ Took
<1>1. CASE BeginWord
  <2>1. /\ mode = "idle" /\ mode' = "word" /\ Advance /\ out' = out
        /\ Current \in Alphabetic \cup {"_"}
        /\ tok' = [kind |-> "word", from |-> cpos, first |-> at]
    BY <1>1 DEF BeginWord, Begin, Idle
  <2>2. Current # "eof" /\ "word" \in Modes \ {"new", "idle", "eof"}
    BY <2>1 DEF Alphabetic, Modes
  <2>3. /\ tok'.kind = "word" /\ tok'.from = cpos /\ tok'.first = at
        /\ tok' = [kind |-> tok'.kind, from |-> tok'.from, first |-> tok'.first]
    BY <2>1
  <2>4. /\ Moves /\ Took /\ at \in 1..Len(src)
        /\ mode' \in Modes /\ (mode' = "new" <=> at' < 1) /\ tok'.first \in 1..(at' - 1)
        /\ Char(tok.first)' = Current /\ src'[tok'.first] = src[at]
    BY <2>1, <2>2, <2>3, BeginFacts
  <2>5. Begins(Alphabetic \cup {"_"})'
    BY <2>1, <2>3, <2>4, ReadyFacts DEF Begins, Alphabetic
  <2>6. NumberInv' /\ DoubleInv' /\ StringInv'
    BY <2>1 DEF NumberInv, DoubleInv, StringInv
  <2>7. TokenInv'
    BY <2>3, <2>4, <2>5, <2>6 DEF TokenInv
  <2> QED
    BY <2>4, <2>7
<1>2. CASE BeginNumber
  <2>1. /\ mode = "idle" /\ mode' = "number" /\ Advance /\ out' = out
        /\ tok' = [kind |-> "int", from |-> cpos, first |-> at]
        /\ Current \in Digit \/ (Current = "minus" /\ Peek \in Digit)
    BY <1>2 DEF BeginNumber, Begin, Idle, IsNumberStart
  <2>2. Current # "eof" /\ "number" \in Modes \ {"new", "idle", "eof"}
    BY <2>1 DEF Digit, Modes
  <2>3. /\ tok'.kind = "int" /\ tok'.from = cpos /\ tok'.first = at
        /\ tok' = [kind |-> tok'.kind, from |-> tok'.from, first |-> tok'.first]
    BY <2>1
  <2>4. /\ Moves /\ Took /\ at \in 1..Len(src)
        /\ mode' \in Modes /\ (mode' = "new" <=> at' < 1) /\ tok'.first \in 1..(at' - 1)
        /\ Char(tok.first)' = Current /\ src'[tok'.first] = src[at]
        /\ Current' = Peek
    BY <2>1, <2>2, <2>3, BeginFacts
  <2>5. Begins(Signed)'
    <3>1. Current \in Digit \cup {"minus"}
      BY <2>1
    <3> QED
      BY <3>1, <2>3, <2>4, ReadyFacts DEF Begins, Signed, Digit
  <2>6. NumberInv'
    <3>1. Current = "minus" => Current' \in Digit
      BY <2>1, <2>4 DEF Digit
    <3>2. Digit' = Digit
      BY DEF Digit
    <3> QED
      BY <2>1, <2>3, <2>4, <2>5, <3>1, <3>2 DEF NumberInv
  <2>7. DoubleInv' /\ StringInv'
    BY <2>1 DEF DoubleInv, StringInv
  <2>8. TokenInv'
    BY <2>1, <2>3, <2>4, <2>6, <2>7 DEF TokenInv
  <2> QED
    BY <2>4, <2>8
<1>3. CASE BeginDouble
  <2>1. /\ mode = "idle" /\ mode' = "double" /\ Advance /\ out' = out
        /\ tok' = [kind |-> Current, from |-> cpos, first |-> at]
        /\ Current \in DOMAIN Alone
        /\ ~ (Current = "minus" /\ Peek \in Digit)
    BY <1>3 DEF BeginDouble, Begin, Idle, IsNumberStart
  <2>2. Current # "eof" /\ "double" \in Modes \ {"new", "idle", "eof"}
    BY <2>1, Tables DEF Modes
  <2>3. /\ tok'.kind = Current /\ tok'.from = cpos /\ tok'.first = at
        /\ tok' = [kind |-> tok'.kind, from |-> tok'.from, first |-> tok'.first]
    BY <2>1
  <2>4. /\ Moves /\ Took /\ at \in 1..Len(src)
        /\ mode' \in Modes /\ (mode' = "new" <=> at' < 1) /\ tok'.first \in 1..(at' - 1)
        /\ tok'.first = at' - 1
        /\ Char(tok.first)' = Current /\ src'[tok'.first] = src[at]
        /\ Current' = Peek
    BY <2>1, <2>2, <2>3, BeginFacts
  <2>5. Begins(DOMAIN Alone)'
    BY <2>1, <2>3, <2>4, ReadyFacts DEF Begins, Alone
  <2>6. DoubleInv'
    BY <2>1, <2>3, <2>4, <2>5 DEF DoubleInv, Digit
  <2>7. NumberInv' /\ StringInv'
    BY <2>1 DEF NumberInv, StringInv
  <2>8. TokenInv'
    BY <2>1, <2>3, <2>4, <2>6, <2>7 DEF TokenInv
  <2> QED
    BY <2>4, <2>8
<1>4. CASE BeginString
  <2>1. /\ mode = "idle" /\ mode' = "string" /\ Advance /\ out' = out
        /\ tok' = [kind |-> "str", from |-> cpos', first |-> at]
        /\ Current = "quote"
    BY <1>4 DEF BeginString, Idle, StringStart
  <2>2. Current # "eof" /\ "string" \in Modes \ {"new", "idle", "eof"}
    BY <2>1 DEF Modes
  <2>3. /\ tok'.kind = "str" /\ tok'.from = cpos' /\ tok'.first = at
        /\ tok' = [kind |-> tok'.kind, from |-> tok'.from, first |-> tok'.first]
    BY <2>1
  <2>4. /\ Moves /\ Took /\ Grown /\ at \in 1..Len(src) /\ at' = at + 1 /\ cpos' = ppos
        /\ mode' \in Modes /\ (mode' = "new" <=> at' < 1) /\ tok'.first \in 1..(at' - 1)
        /\ Char(tok.first)' = Current /\ src'[tok'.first] = src[at]
    BY <2>1, <2>2, <2>3, BeginFacts
  <2>5. tok'.from = src'[tok'.first].off + 1
    <3>1. ppos = IF at = Len(src) THEN src[at].off + 1 ELSE src[at + 1].off
      BY <2>4, ReadyFacts
    <3>2. at \in Int /\ Len(src) \in Int
      BY ReadyFacts
    <3>3. at = Len(src) \/ at < Len(src)
      BY <2>4, <3>2, LastOrNot
    <3>4. at < Len(src) => src[at + 1].off = src[at].off + 1
      <4>1. at < Len(src) => at + 1 \in 1..Len(src)
        BY <3>2, <2>4
      <4>2. Width(src[at].ch) = 1
        BY <2>1, <2>4, ReadyFacts DEF Width
      <4> QED
        BY <2>4, <4>1, <4>2, ReadyFacts DEF Ready, PlaceInv
    <3> QED
      BY <2>3, <2>4, <3>1, <3>3, <3>4
  <2>6. StringInv'
    <3>1. PICK p \in Nat : p = at
      BY <2>4
    <3>2. Run(p, p + 1, p + 1)
      BY <3>1, RunAnew
    <3>3. ~ Escaped(p, p + 1)
      BY <3>2, EscapedByRun
    <3>4. Quoted(p, p + 1)
      BY <3>1 DEF Quoted
    <3>5. Run(p, p + 1, p + 1)' /\ ~ Escaped(p, p + 1)' /\ Quoted(p, p + 1)'
      BY <2>4, <3>1, <3>2, <3>3, <3>4, StringsStay
    <3>6. tok'.first = p /\ at' = p + 1 /\ p + 1 \in Int
      BY <2>3, <2>4, <3>1
    <3>7. /\ Quoted(tok.first, at)' /\ ~ Escaped(tok.first, at)'
          /\ \E q \in Int : Run(tok.first, q, at)'
      BY <3>5, <3>6
    <3> QED
      BY <2>1, <2>3, <2>4, <2>5, <3>7 DEF StringInv
  <2>7. NumberInv' /\ DoubleInv'
    BY <2>1 DEF NumberInv, DoubleInv
  <2>8. TokenInv'
    BY <2>1, <2>3, <2>4, <2>6, <2>7 DEF TokenInv
  <2> QED
    BY <2>4, <2>8
<1> QED
  BY <1>1, <1>2, <1>3, <1>4

\* A token goes on.
LEMMA GoesOnFacts ==
  ASSUME Ready, Begun, mode' \in Modes \ {"new", "idle", "eof"}, out' = out,
         tok'.first = tok.first, Advance, Current # "eof"
  PROVE  /\ Moves /\ Took /\ Grown /\ at' = at + 1 /\ at \in 1..Len(src)
         /\ mode' \in Modes /\ (mode' = "new" <=> at' < 1) /\ tok'.first \in 1..(at' - 1)
         /\ tok.first \in 1..(at - 1)
         /\ tok'.first # at' - 1
         /\ Char(tok.first)' = Char(tok.first)
         /\ src'[tok.first] = src[tok.first]
<1>1. at \in 1..Len(src) /\ at' = at + 1
  BY ReadyFacts DEF Advance, Begun
<1>2. Moves
  BY <1>1 DEF Moves
<1>3. Grown
  BY <1>2, MovesFacts DEF Ready
<1>4. tok.first \in 1..(at - 1)
  BY DEF Ready, TokenInv
<1>5. Took
  <2>1. Done = tok.first - 1 /\ Done' = tok.first - 1
    BY DEF Done, Begun
  <2> QED
    BY <1>4, <2>1 DEF Took
<1>6. PICK p \in 1..(at - 1) : p = tok.first
  BY <1>4
<1>7. Char(p)' = Char(p) /\ src'[p] = src[p]
  <2>0. at \in Int /\ Len(src) \in Int
    BY ReadyFacts
  <2>1. p \in 1..(at + 1) /\ p \in 1..Len(src)
    BY <1>1, <1>6, <2>0
  <2>2. DOMAIN src = 1..Len(src)
    BY ReadyFacts
  <2> QED
    BY <1>3, <2>1, <2>2 DEF Grown
<1>8. Char(tok.first)' = Char(p)'
  BY <1>6
<1> QED
  BY <1>1, <1>2, <1>3, <1>4, <1>5, <1>6, <1>7, <1>8

\* One more character of a word (`lex_identifier`).
LEMMA GoesOnWord ==
  ASSUME Ready, InWord
  PROVE  Moves /\ TokenInv' /\ Took
<1>1. /\ mode = "word" /\ mode' = "word" /\ Advance /\ out' = out /\ tok' = tok
      /\ Current # "eof"
  BY DEF InWord, Goto, WordChar, Alphabetic, Digit
<1>2. Begun /\ mode' \in Modes \ {"new", "idle", "eof"}
  BY <1>1 DEF Begun, Modes
<1>3. /\ Moves /\ Took /\ Grown
      /\ mode' \in Modes /\ (mode' = "new" <=> at' < 1) /\ tok'.first \in 1..(at' - 1)
      /\ Char(tok.first)' = Char(tok.first) /\ src'[tok.first] = src[tok.first]
  BY <1>1, <1>2, GoesOnFacts
<1>4. Begins(Alphabetic \cup {"_"})'
  BY <1>1, <1>3 DEF Ready, TokenInv, Begins, Alphabetic
<1>5. NumberInv' /\ DoubleInv' /\ StringInv'
  BY <1>1 DEF NumberInv, DoubleInv, StringInv
<1> QED
  BY <1>1, <1>3, <1>4, <1>5 DEF Ready, TokenInv

\* A number goes on (`lex_number`), well formed or not.
LEMMA GoesOnNumber ==
  ASSUME Ready, InNumber \/ Spoil \/ InMalformed
  PROVE  Moves /\ TokenInv' /\ Took
<1>1. /\ mode \in {"number", "malformed"} /\ mode' \in {"number", "malformed"}
      /\ Advance /\ out' = out
      /\ tok'.first = tok.first /\ tok'.from = tok.from /\ tok'.kind \in {"int", "float"}
      /\ tok' = [kind |-> tok'.kind, from |-> tok'.from, first |-> tok'.first]
      /\ Current # "eof"
  <2>1. /\ tok = [kind |-> tok.kind, from |-> tok.from, first |-> tok.first]
        /\ mode \in {"number", "malformed"} => tok.kind \in {"int", "float"}
    BY DEF Ready, TokenInv, NumberInv
  <2>2. CASE InNumber
    <3>1. /\ mode = "number" /\ mode' = "number" /\ Advance /\ out' = out
          /\ Current \in Digit \cup {"_", "dot"}
          /\ tok' = [tok EXCEPT !.kind = IF Current = "dot" THEN "float" ELSE tok.kind]
      BY <2>2 DEF InNumber
    <3>2. tok' = [kind |-> IF Current = "dot" THEN "float" ELSE tok.kind,
                  from |-> tok.from, first |-> tok.first]
      BY <2>1, <3>1
    <3> QED
      BY <2>1, <3>1, <3>2 DEF Digit
  <2>3. CASE Spoil \/ InMalformed
    <3>1. tok' = tok /\ out' = out /\ Advance /\ mode' = "malformed"
          /\ mode \in {"number", "malformed"}
      BY <2>3 DEF Spoil, InMalformed, Goto
    <3>2. Current # "eof"
      BY <2>3 DEF Spoil, InMalformed, Spoils, WordChar, Alphabetic, Digit
    <3> QED
      BY <2>1, <3>1, <3>2
  <2> QED
    BY <2>2, <2>3
<1>2. Begun /\ mode' \in Modes \ {"new", "idle", "eof"}
  BY <1>1 DEF Begun, Modes
<1>3. /\ Moves /\ Took /\ tok'.first # at' - 1
      /\ mode' \in Modes /\ (mode' = "new" <=> at' < 1) /\ tok'.first \in 1..(at' - 1)
      /\ Char(tok.first)' = Char(tok.first) /\ src'[tok.first] = src[tok.first]
  BY <1>1, <1>2, GoesOnFacts
<1>4. Begins(Signed)'
  BY <1>1, <1>3 DEF Ready, TokenInv, NumberInv, Begins, Signed, Digit
<1>5. NumberInv'
  BY <1>1, <1>3, <1>4 DEF NumberInv
<1>6. DoubleInv' /\ StringInv'
  BY <1>1 DEF DoubleInv, StringInv
<1> QED
  BY <1>1, <1>3, <1>5, <1>6 DEF TokenInv

\* One more character of a string (`lex_string`), which may be escaped by the one
\* before it.
LEMMA GoesOnString ==
  ASSUME Ready, InString \/ Backslash \/ Escape
  PROVE  Moves /\ TokenInv' /\ Took
<1>1. /\ mode \in {"string", "escape"} /\ mode' \in {"string", "escape"}
      /\ mode' = "escape" <=> mode = "string" /\ Current = "bslash"
      /\ mode = "string" => Current # "quote"
      /\ mode = "escape" => Current \in Escapable
      /\ Advance /\ out' = out /\ tok' = tok /\ Current # "eof"
  BY DEF InString, Backslash, Escape, Goto, Plain, Escapable
<1>2. Begun /\ mode' \in Modes \ {"new", "idle", "eof"}
  BY <1>1 DEF Begun, Modes
<1>3. /\ Moves /\ Took /\ Grown /\ at' = at + 1 /\ at \in 1..Len(src)
      /\ mode' \in Modes /\ (mode' = "new" <=> at' < 1) /\ tok'.first \in 1..(at' - 1)
      /\ tok.first \in 1..(at - 1)
      /\ Char(tok.first)' = Char(tok.first) /\ src'[tok.first] = src[tok.first]
  BY <1>1, <1>2, GoesOnFacts
<1>4. PICK f \in Nat, p \in Int : f = tok.first /\ p = at /\ p > f
  BY <1>3
<1>5. /\ Quoted(f, p) /\ (mode = "escape" <=> Escaped(f, p))
      /\ Char(f) = "quote" /\ tok.kind = "str" /\ tok.from = src[tok.first].off + 1
  BY <1>1, <1>4 DEF Ready, TokenInv, StringInv
<1>6. PICK q \in Int : Run(f, q, p)
  BY <1>1, <1>4 DEF Ready, TokenInv, StringInv
<1>7. mode = "escape" <=> (p - q) % 2 = 1
  BY <1>5, <1>6, EscapedByRun
<1>8. Quoted(f, p + 1)
  BY <1>1, <1>4, <1>5, QuotedOn DEF Current
<1>9. \E r \in Int : Run(f, r, p + 1) /\ (mode' = "escape" <=> Escaped(f, p + 1))
  <2>1. CASE Current = "bslash"
    <3>1. Run(f, q, p + 1)
      BY <1>4, <1>6, <2>1, RunOn DEF Current
    <3>2. Escaped(f, p + 1) <=> ((p + 1) - q) % 2 = 1
      <4>1. f \in Nat /\ p \in Int /\ p + 1 \in Int /\ q \in Int
        BY <1>4, <1>6
      <4> QED
        BY <3>1, <4>1, EscapedByRun
    <3>3. ((p + 1) - q) % 2 = 1 <=> (p - q) % 2 # 1
      BY <1>4, <1>6
    <3>4. mode' = "escape" <=> mode # "escape"
      BY <1>1, <2>1
    <3> QED
      BY <1>7, <3>1, <3>2, <3>3, <3>4
  <2>2. CASE Current # "bslash"
    <3>1. Run(f, p + 1, p + 1)
      BY <1>4, <2>2, RunAnew DEF Current
    <3>2. ~ Escaped(f, p + 1)
      <4>1. f \in Nat /\ p + 1 \in Int
        BY <1>4
      <4>2. Escaped(f, p + 1) <=> ((p + 1) - (p + 1)) % 2 = 1
        BY <3>1, <4>1, EscapedByRun
      <4> QED
        BY <4>1, <4>2
    <3> QED
      BY <1>1, <1>4, <2>2, <3>1, <3>2
  <2> QED
    BY <2>1, <2>2
<1>10. PICK r \in Int : Run(f, r, p + 1) /\ (mode' = "escape" <=> Escaped(f, p + 1))
  BY <1>9
<1>11. /\ Run(f, r, p + 1)' /\ Quoted(f, p + 1)'
       /\ Escaped(f, p + 1)' <=> Escaped(f, p + 1)
  BY <1>3, <1>4, <1>8, <1>10, StringsStay
<1>12. tok'.first = f /\ at' = p + 1
  BY <1>1, <1>3, <1>4
<1>13. /\ Quoted(tok.first, at)' /\ (mode' = "escape" <=> Escaped(tok.first, at)')
       /\ \E x \in Int : Run(tok.first, x, at)'
  BY <1>10, <1>11, <1>12
<1>14. StringInv'
  BY <1>1, <1>3, <1>4, <1>5, <1>13 DEF StringInv
<1>15. NumberInv' /\ DoubleInv'
  BY <1>1 DEF NumberInv, DoubleInv
<1> QED
  BY <1>1, <1>3, <1>14, <1>15 DEF Ready, TokenInv

\* A bad escape, and what is skipped behind it.
LEMMA GoesOnSkipping ==
  ASSUME Ready, BadEscape \/ Skip
  PROVE  Moves /\ TokenInv' /\ Took
<1>1. CASE BadEscape
  <2>1. /\ mode = "escape" /\ mode' = "skip" /\ out' = out /\ UNCHANGED source
        /\ src' = src /\ at' = at /\ Current \notin Escapable
        /\ tok' = [tok EXCEPT !.kind = "BadStringEscape", !.from = cpos - 1]
        /\ tok = [kind |-> tok.kind, from |-> tok.from, first |-> tok.first]
    BY <1>1 DEF BadEscape, Ready, TokenInv, source
  <2>2. tok' = [kind |-> "BadStringEscape", from |-> cpos - 1, first |-> tok.first]
    BY <2>1
  <2>3. /\ tok'.kind = "BadStringEscape" /\ tok'.first = tok.first
        /\ tok' = [kind |-> tok'.kind, from |-> tok'.from, first |-> tok'.first]
    BY <2>2
  <2>4. Moves
    BY <2>1 DEF Moves
  <2>5. /\ mode' \in Modes /\ (mode' = "new" <=> at' < 1) /\ tok'.first \in 1..(at' - 1)
    BY <2>1, <2>3 DEF Ready, TokenInv, Begun, Modes
  <2>6. Took
    <3>1. Done = tok.first - 1 /\ Done' = tok.first - 1
      BY <2>1, <2>3 DEF Done
    <3>2. tok.first \in Int
      BY <2>1 DEF Ready, TokenInv, Begun
    <3> QED
      BY <2>1, <3>1, <3>2 DEF Took
  <2>7. StringInv'
    <3>1. PICK f \in Nat, p \in Int : f = tok.first /\ p = at /\ p > f
      BY <2>1, <2>3, <2>5, ReadyFacts
    <3>2. Quoted(f, p) /\ Escaped(f, p) /\ Char(f) = "quote"
      BY <2>1, <3>1 DEF Ready, TokenInv, StringInv
    <3>3. Grown
      BY <2>4, MovesFacts DEF Ready
    <3>4. Quoted(f, p)' /\ Escaped(f, p)'
      BY <3>1, <3>2, <3>3, StringsStay
    <3>5. Char(f)' = Char(f) /\ Char(p)' = Char(p)
      BY <2>1 DEF Char
    <3>6. Char(p) \notin Escapable
      BY <2>1, <3>1 DEF Current
    <3>7. tok'.first = f /\ at' = p /\ p \in (f + 1)..p
      BY <2>1, <2>3, <3>1
    <3>8. \E x \in (tok'.first + 1)..at' :
            /\ Quoted(tok.first, x)' /\ Escaped(tok.first, x)' /\ Char(x)' \notin Escapable
            /\ \A q \in x..(at' - 1) : Char(q)' # "quote"
      BY <3>4, <3>5, <3>6, <3>7
    <3> QED
      BY <2>1, <2>3, <3>2, <3>5, <3>7, <3>8 DEF StringInv, Escapable
  <2>8. NumberInv' /\ DoubleInv'
    BY <2>1 DEF NumberInv, DoubleInv
  <2> QED
    BY <2>1, <2>3, <2>4, <2>5, <2>6, <2>7, <2>8 DEF TokenInv
<1>2. CASE Skip
  <2>1. /\ mode = "skip" /\ mode' = "skip" /\ Advance /\ out' = out /\ tok' = tok
        /\ Current # "quote" /\ Current # "eof"
    BY <1>2 DEF Skip, Skips, Goto
  <2>2. Begun /\ mode' \in Modes \ {"new", "idle", "eof"}
    BY <2>1 DEF Begun, Modes
  <2>3. /\ Moves /\ Took /\ Grown /\ at' = at + 1 /\ at \in 1..Len(src)
        /\ mode' \in Modes /\ (mode' = "new" <=> at' < 1) /\ tok'.first \in 1..(at' - 1)
        /\ tok.first \in 1..(at - 1)
        /\ Char(tok.first)' = Char(tok.first)
    BY <2>1, <2>2, GoesOnFacts
  <2>4. PICK f \in Nat, a \in Int : f = tok.first /\ a = at /\ a > f
    BY <2>3
  <2>5. Char(f) = "quote" /\ tok.kind = "BadStringEscape"
    BY <2>1, <2>4 DEF Ready, TokenInv, StringInv
  <2>6. PICK p \in (f + 1)..a :
          /\ Quoted(f, p) /\ Escaped(f, p) /\ Char(p) \notin Escapable
          /\ \A q \in p..(a - 1) : Char(q) # "quote"
    BY <2>1, <2>4 DEF Ready, TokenInv, StringInv
  <2>7. Quoted(f, p)' /\ Escaped(f, p)'
    BY <2>3, <2>4, <2>6, StringsStay
  <2>8. \A q \in 1..a : Char(q)' = Char(q)
    <3>1. \A q \in 1..a : q \in 1..(at + 1)
      BY <2>4
    <3> QED
      BY <2>3, <3>1 DEF Grown
  <2>9. \A q \in p..a : Char(q)' # "quote"
    <3>1. ASSUME NEW q \in p..a
          PROVE  Char(q) # "quote" /\ q \in 1..a
      BY <2>1, <2>4, <2>6 DEF Current
    <3> QED
      BY <2>8, <3>1
  <2>10. tok'.first = f /\ at' = a + 1 /\ p \in (f + 1)..(a + 1) /\ p \in 1..a
    BY <2>1, <2>3, <2>4, <2>6
  <2>11. \E x \in (tok'.first + 1)..at' :
          /\ Quoted(tok.first, x)' /\ Escaped(tok.first, x)' /\ Char(x)' \notin Escapable
          /\ \A q \in x..(at' - 1) : Char(q)' # "quote"
    BY <2>4, <2>6, <2>7, <2>8, <2>9, <2>10
  <2>12. StringInv'
    BY <2>1, <2>3, <2>4, <2>5, <2>11 DEF StringInv, Escapable
  <2>13. NumberInv' /\ DoubleInv'
    BY <2>1 DEF NumberInv, DoubleInv
  <2> QED
    BY <2>1, <2>3, <2>12, <2>13 DEF Ready, TokenInv
<1> QED
  BY <1>1, <1>2

-----------------------------------------------------------------------------
\* The steps that yield an item.

\* Where they end.
LEMMA EndsAfter ==
  ASSUME Ready, mode # "new", Advance, Current # "eof"
  PROVE  /\ at \in 1..Len(src) /\ at' = at + 1 /\ cpos' = ppos /\ Moves
         /\ at = at' - 1 /\ at <= at /\ at >= 1
         /\ mode = "idle" => Done + 1 = at /\ at \in 1..at
         /\ Begun => Done + 1 = tok.first /\ tok.first \in 1..at /\ tok.first < at
<1>1. at \in 1..Len(src) /\ at' = at + 1 /\ cpos' = ppos
  BY ReadyFacts DEF Advance
<1>2. at \in Int /\ Len(src) \in Int
  BY ReadyFacts
<1>3. at = at' - 1 /\ at <= at /\ at >= 1 /\ at \in 1..at /\ (at - 1) + 1 = at
  BY <1>1, <1>2
<1>4. Begun => tok.first \in 1..(at - 1) /\ Done = tok.first - 1
  BY DEF Ready, TokenInv, Begun, Done
<1>5. Begun => Done + 1 = tok.first /\ tok.first \in 1..at /\ tok.first < at
  BY <1>2, <1>4
<1>6. mode = "idle" => Done = at - 1
  BY DEF Done
<1>7. Moves
  BY <1>1 DEF Moves
<1> QED
  BY <1>1, <1>3, <1>5, <1>6, <1>7

\* A token that ends in front of `current` has its last character just before it.
LEMMA EndsInFront ==
  ASSUME Ready, Begun, UNCHANGED source
  PROVE  /\ at' = at /\ Moves /\ tok.first \in 1..(at - 1)
         /\ at - 1 \in 1..Len(src) /\ at > 1 /\ (at - 1) + 1 = at /\ at - 1 <= at
         /\ Done + 1 = tok.first /\ at - 1 = at' - 1
         /\ Current = "eof" => at - 1 = Len(src)
<1>1. at \in Int /\ Len(src) \in Int /\ at <= Len(src) + 1 /\ mode # "new"
  BY ReadyFacts DEF Begun
<1>2. at' = at /\ Moves
  BY DEF Moves, source
<1>3. tok.first \in 1..(at - 1) /\ Done = tok.first - 1
  BY DEF Ready, TokenInv, Begun, Done
<1>4. at - 1 \in 1..Len(src) /\ at > 1 /\ (at - 1) + 1 = at /\ at - 1 <= at
  BY <1>1, <1>3
<1>5. Done + 1 = tok.first
  BY <1>1, <1>3
<1>6. Current = "eof" => at = Len(src) + 1
  BY <1>1, ReadyFacts
<1>7. Current = "eof" => at - 1 = Len(src)
  BY <1>1, <1>6
<1> QED
  BY <1>2, <1>3, <1>4, <1>5, <1>7

\* It is of the current character.
LEMMA YieldsOne ==
  ASSUME Ready, mode = "idle", Advance, Current # "eof",
         Current \notin Alphabetic \cup {"_"} \cup DOMAIN Alone,
         NEW kind, NEW from, NEW to, Yield(Item(kind, from, to, at, at)),
         kind \notin {"str", "sub", "int", "float", "not",
                     "UnexpectedStringEnd", "BadStringEscape"},
         kind \notin Errors => from = cpos /\ to = cpos'
  PROVE  Moves /\ TokenInv' /\ Took
<1> DEFINE t == Item(kind, from, to, at, at)
<1>1. /\ t.kind = kind /\ t.from = from /\ t.to = to /\ t.first = at /\ t.last = at
  BY DEF Item
<1>2. Yield(t)
  OBVIOUS
<1> HIDE DEF t
<1>3. /\ at \in 1..Len(src) /\ cpos' = ppos /\ Moves /\ Done + 1 = at /\ at = at' - 1
      /\ at \in 1..at /\ at <= at
  BY EndsAfter
<1>4. t.first = Done + 1 /\ t.last = at' - 1
  BY <1>1, <1>3
<1>5. Exact(t)
  BY <1>1, <1>3, ReadyFacts DEF Exact
<1>6. Longest(t)
  BY <1>1 DEF Longest, Current
<1>7. Delimited(t)
  BY <1>1 DEF Delimited
<1>8. Fits(t)
  BY <1>1, <1>3, <1>5, <1>6, <1>7 DEF Fits
<1> QED
  BY <1>2, <1>3, <1>4, <1>8, Yielded DEF Ready, TokenInv

\* A token or an error of a single character.
LEMMA YieldsSingle ==
  ASSUME Ready, Single \/ Dot \/ Unrecognized
  PROVE  Moves /\ TokenInv' /\ Took
<1>1. CASE Single
  <2>1. /\ mode = "idle" /\ Current \in DOMAIN Singles /\ Advance
        /\ Yield(Item(Singles[Current], cpos, cpos', at, at))
    BY <1>1 DEF Single, Idle
  <2>2. /\ Current # "eof" /\ Current \notin Alphabetic \cup {"_"} \cup DOMAIN Alone
        /\ Singles[Current] \in {"eq", "mul", "mod", "lpar", "rpar", "comma", "semi"}
    BY <2>1, Tables DEF Alphabetic
  <2> QED
    BY <2>1, <2>2, YieldsOne
<1>2. CASE Dot
  <2>1. /\ mode = "idle" /\ Current = "dot" /\ Advance
        /\ \/ Yield(Item("UnfinishedDotAccess", cpos, cpos, at, at))
           \/ Yield(Item("dot", cpos, cpos', at, at))
    BY <1>2 DEF Dot, Idle
  <2>2. Current # "eof" /\ Current \notin Alphabetic \cup {"_"} \cup DOMAIN Alone
    BY <2>1, Tables DEF Alphabetic
  <2>3. CASE Yield(Item("UnfinishedDotAccess", cpos, cpos, at, at))
    BY <2>1, <2>2, <2>3, YieldsOne DEF Errors
  <2>4. CASE Yield(Item("dot", cpos, cpos', at, at))
    BY <2>1, <2>2, <2>4, YieldsOne
  <2> QED
    BY <2>1, <2>3, <2>4
<1>3. CASE Unrecognized
  <2>1. /\ mode = "idle" /\ Advance
        /\ Current # "eof" /\ Current \notin Alphabetic \cup {"_"} \cup DOMAIN Alone
        /\ Yield(Item("UnrecognizedToken", cpos, cpos, at, at))
    BY <1>3 DEF Unrecognized, Idle
  <2> QED
    BY <2>1, YieldsOne DEF Errors
<1> QED
  BY <1>1, <1>2, <1>3

\* It ends in front of the current character.
LEMMA YieldsBefore ==
  ASSUME Ready, Begun, UNCHANGED source,
         NEW kind, NEW from, NEW to, Yield(Item(kind, from, to, tok.first, at - 1)),
         kind \notin Errors =>
           /\ kind # "str" /\ from = src[tok.first].off
           /\ to = IF kind = "not" /\ Char(tok.first) = "bang" THEN from ELSE cpos,
         tok.first = at - 1 /\ Char(tok.first) \in DOMAIN Alone =>
           Current \notin DOMAIN Doubles[Char(tok.first)],
         kind = "sub" => Current \notin Digit,
         kind \in {"int", "float"} => Current \notin Digit \cup Alphabetic \cup {"_", "dot"},
         Char(tok.first) \in Alphabetic \cup {"_"} => Current \notin WordChar,
         kind = "UnexpectedStringEnd" => Current = "eof" /\ Quoted(tok.first, at),
         kind \notin {"str", "BadStringEscape"}
  PROVE  Moves /\ TokenInv' /\ Took
<1> DEFINE t == Item(kind, from, to, tok.first, at - 1)
<1>1. /\ t.kind = kind /\ t.from = from /\ t.to = to /\ t.first = tok.first
      /\ t.last = at - 1
  BY DEF Item
<1>2. Yield(t)
  OBVIOUS
<1> HIDE DEF t
<1>3. /\ at' = at /\ Moves /\ tok.first \in 1..(at - 1)
      /\ at - 1 \in 1..Len(src) /\ at > 1 /\ (at - 1) + 1 = at /\ at - 1 <= at
      /\ Done + 1 = tok.first /\ at - 1 = at' - 1
      /\ Current = "eof" => at - 1 = Len(src)
  BY EndsInFront
<1>4. t.first = Done + 1 /\ t.last = at' - 1
  BY <1>1, <1>3
<1>5. t.first \in 1..t.last /\ t.last \in 1..Len(src) /\ t.last <= at
  BY <1>1, <1>3
<1>6. Exact(t)
  <2>1. cpos = IF at - 1 = Len(src) THEN src[at - 1].off + 1 ELSE src[at].off
    BY <1>3, ReadyFacts
  <2> QED
    BY <1>1, <1>3, <2>1 DEF Exact
<1>7. Longest(t)
  BY <1>1, <1>3 DEF Longest, Current
<1>8. Delimited(t)
  BY <1>1, <1>3 DEF Delimited
<1>9. Fits(t)
  BY <1>5, <1>6, <1>7, <1>8 DEF Fits
<1> QED
  BY <1>2, <1>3, <1>4, <1>9, Yielded DEF Ready, TokenInv, Begun

\* The end of a word.
LEMMA YieldsWord ==
  ASSUME Ready, EndWord
  PROVE  Moves /\ TokenInv' /\ Took
<1>1. /\ mode = "word" /\ Begun /\ Current \notin WordChar /\ UNCHANGED source
      /\ Yield(Item(FromWord(Word), tok.from, cpos, tok.first, at - 1))
  BY DEF EndWord, EndBefore, Begun
<1>2. PICK kind : kind = FromWord(Word)
  OBVIOUS
<1>3. kind \in WordTokens \cup {"ident"}
  BY <1>2, KeywordsAssumption DEF FromWord
<1>4. Char(tok.first) \in Alphabetic \cup {"_"} /\ tok.from = src[tok.first].off
  BY <1>1 DEF Ready, TokenInv, Begins
<1>5. Yield(Item(kind, tok.from, cpos, tok.first, at - 1))
  BY <1>1, <1>2
<1>6. Char(tok.first) \notin DOMAIN Alone /\ Char(tok.first) # "bang"
  BY <1>4, Tables DEF Alphabetic
<1>7. /\ kind # "str" /\ kind # "sub" /\ kind \notin {"int", "float"}
      /\ kind # "UnexpectedStringEnd" /\ kind \notin {"str", "BadStringEscape"}
  BY <1>3 DEF WordTokens
<1> HIDE <1>2
<1> QED
  BY <1>1, <1>4, <1>5, <1>6, <1>7, YieldsBefore

\* The end of a number, well formed or not.
LEMMA YieldsNumber ==
  ASSUME Ready, EndNumber \/ EndMalformed
  PROVE  Moves /\ TokenInv' /\ Took
<1>1. /\ mode \in {"number", "malformed"} /\ Begun /\ UNCHANGED source
      /\ mode = "number" => /\ Current \notin Digit \cup {"_", "dot"} \cup Alphabetic
                            /\ Yield(Item(tok.kind, tok.from, cpos, tok.first, at - 1))
      /\ mode = "malformed" =>
           Yield(Item("MalformedNumber", tok.from, cpos, tok.first, at - 1))
  BY DEF EndNumber, EndMalformed, EndBefore, Begun, Spoils
<1>2. /\ Char(tok.first) \in Signed /\ tok.from = src[tok.first].off
      /\ tok.kind \in {"int", "float"}
      /\ tok.first = at - 1 /\ Char(tok.first) = "minus" =>
           mode = "number" /\ Current \in Digit
  BY <1>1 DEF Ready, TokenInv, NumberInv, Begins
<1>3. /\ tok.first = at - 1 => Char(tok.first) \notin DOMAIN Alone
      /\ Char(tok.first) \notin Alphabetic \cup {"_"} /\ Char(tok.first) # "bang"
  <2>1. tok.first = at - 1 => Char(tok.first) # "minus"
    BY <1>1, <1>2
  <2> QED
    BY <1>2, <2>1, Tables DEF Signed, Digit, Alphabetic
<1>4. CASE mode = "number"
  <2>1. PICK kind \in {"int", "float"} : kind = tok.kind
    BY <1>2
  <2>2. Yield(Item(kind, tok.from, cpos, tok.first, at - 1))
    BY <1>1, <1>4, <2>1
  <2>3. /\ kind # "str" /\ kind # "sub" /\ kind # "not"
        /\ kind # "UnexpectedStringEnd" /\ kind \notin {"str", "BadStringEscape"}
    OBVIOUS
  <2> QED
    BY <1>1, <1>2, <1>3, <1>4, <2>2, <2>3, YieldsBefore
<1>5. CASE mode = "malformed"
  BY <1>1, <1>2, <1>3, <1>5, YieldsBefore DEF Errors
<1> QED
  BY <1>1, <1>4, <1>5

\* A character that might have been the first one of two and was not.
LEMMA YieldsAlone ==
  ASSUME Ready, EndAlone
  PROVE  Moves /\ TokenInv' /\ Took
<1>1. /\ mode = "double" /\ Begun /\ UNCHANGED source
      /\ Current \notin DOMAIN Doubles[tok.kind]
      /\ Yield(Item(Alone[tok.kind], tok.from,
                    IF tok.kind = "bang" THEN tok.from ELSE cpos, tok.first, at - 1))
  BY DEF EndAlone, Joins, Begun
<1>2. /\ Char(tok.first) \in DOMAIN Alone /\ tok.from = src[tok.first].off
      /\ tok.kind = Char(tok.first) /\ (tok.kind = "minus" => Current \notin Digit)
  BY <1>1 DEF Ready, TokenInv, DoubleInv, Begins
<1>3. /\ Alone[tok.kind] \in {"div", "add", "sub", "not", "lt", "gt"}
      /\ Alone[tok.kind] = "sub" <=> tok.kind = "minus"
      /\ Alone[tok.kind] = "not" <=> tok.kind = "bang"
  BY <1>2, Tables
<1>4. PICK kind, to : /\ kind = Alone[tok.kind]
                      /\ to = IF tok.kind = "bang" THEN tok.from ELSE cpos
  OBVIOUS
<1>5. Yield(Item(kind, tok.from, to, tok.first, at - 1))
  BY <1>1, <1>4
<1>6. /\ kind \notin {"str", "BadStringEscape", "UnexpectedStringEnd", "int", "float"}
      /\ kind # "str" /\ kind # "UnexpectedStringEnd" /\ kind \notin {"int", "float"}
      /\ kind \notin {"str", "BadStringEscape"}
  BY <1>3, <1>4
<1>7. to = IF kind = "not" /\ Char(tok.first) = "bang" THEN tok.from ELSE cpos
  BY <1>2, <1>3, <1>4
<1>8. /\ Char(tok.first) \notin Alphabetic \cup {"_"}
      /\ kind = "sub" => Current \notin Digit
      /\ Current \notin DOMAIN Doubles[Char(tok.first)]
  BY <1>1, <1>2, <1>3, <1>4, Tables DEF Alphabetic
<1> QED
  BY <1>1, <1>2, <1>5, <1>6, <1>7, <1>8, YieldsBefore

\* The end of the source within a string.
LEMMA YieldsUnterminated ==
  ASSUME Ready, Unterminated
  PROVE  Moves /\ TokenInv' /\ Took
<1>1. /\ mode = "string" /\ Begun /\ UNCHANGED source /\ Current = "eof"
      /\ Yield(Item("UnexpectedStringEnd", tok.from, cpos, tok.first, at - 1))
  BY DEF Unterminated, EndBefore, Begun
<1>2. Char(tok.first) = "quote" /\ Quoted(tok.first, at)
  BY <1>1 DEF Ready, TokenInv, StringInv
<1>3. Char(tok.first) \notin Alphabetic \cup {"_"} /\ Char(tok.first) \notin DOMAIN Alone
  BY <1>2, Tables DEF Alphabetic
<1> QED
  BY <1>1, <1>2, <1>3, YieldsBefore DEF Errors

\* It ends with the current character.
LEMMA YieldsDouble ==
  ASSUME Ready, EndDouble
  PROVE  Moves /\ TokenInv' /\ Took
<1>1. /\ mode = "double" /\ Begun /\ Advance /\ Current \in DOMAIN Doubles[tok.kind]
      /\ Yield(Item(Doubles[tok.kind][Current], tok.from, cpos', tok.first, at))
  BY DEF EndDouble, EndWith, Joins, Begun
<1>2. /\ Char(tok.first) \in DOMAIN Alone /\ tok.from = src[tok.first].off
      /\ tok.kind = Char(tok.first)
  BY <1>1 DEF Ready, TokenInv, DoubleInv, Begins
<1>3. /\ Current # "eof"
      /\ Doubles[tok.kind][Current]
           \in {"divdiv", "concat", "subsub", "ne", "le", "pipe", "ge"}
      /\ Char(tok.first) \notin Alphabetic \cup {"_"}
  <2>1. PICK c \in DOMAIN Alone : c = tok.kind
    BY <1>2
  <2>2. PICK d \in DOMAIN Doubles[c] : d = Current
    BY <1>1, <2>1
  <2>3. /\ "eof" \notin DOMAIN Doubles[c]
        /\ Doubles[c][d] \in {"divdiv", "concat", "subsub", "ne", "le", "pipe", "ge"}
    BY Tables
  <2>4. Char(tok.first) \notin Alphabetic \cup {"_"}
    BY <1>2, Tables DEF Alphabetic
  <2>5. d # "eof"
    BY <2>3
  <2> QED
    BY <2>1, <2>2, <2>3, <2>4, <2>5
<1> DEFINE t == Item(Doubles[tok.kind][Current], tok.from, cpos', tok.first, at)
<1>4. /\ t.kind \in {"divdiv", "concat", "subsub", "ne", "le", "pipe", "ge"}
      /\ t.from = tok.from /\ t.to = cpos' /\ t.first = tok.first /\ t.last = at
  BY <1>3 DEF Item
<1>5. Yield(t)
  BY <1>1
<1> HIDE DEF t
<1>6. /\ at \in 1..Len(src) /\ cpos' = ppos /\ Moves /\ at = at' - 1 /\ at <= at
      /\ Done + 1 = tok.first /\ tok.first \in 1..at /\ tok.first < at
  BY <1>1, <1>3, EndsAfter DEF Begun
<1>7. t.first = Done + 1 /\ t.last = at' - 1 /\ t.first # t.last
  BY <1>4, <1>6
<1>8. Exact(t)
  <2>1. ppos = IF at = Len(src) THEN src[at].off + 1 ELSE src[at + 1].off
    BY <1>6, ReadyFacts
  <2> QED
    BY <1>2, <1>4, <1>6, <2>1 DEF Exact
<1>9. Longest(t)
  BY <1>3, <1>4, <1>7 DEF Longest
<1>10. Delimited(t)
  BY <1>4 DEF Delimited
<1>11. Fits(t)
  BY <1>4, <1>6, <1>8, <1>9, <1>10 DEF Fits
<1> QED
  BY <1>1, <1>5, <1>6, <1>7, <1>11, Yielded DEF Ready, TokenInv

\* The quote that ends a string.
LEMMA YieldsString ==
  ASSUME Ready, EndString
  PROVE  Moves /\ TokenInv' /\ Took
<1>1. /\ mode = "string" /\ Begun /\ Advance /\ Current = "quote" /\ Current # "eof"
      /\ Yield(Item("str", tok.from, cpos', tok.first, at))
  BY DEF EndString, EndWith, Begun
<1>2. /\ Char(tok.first) = "quote" /\ tok.from = src[tok.first].off + 1
      /\ Quoted(tok.first, at) /\ ~ Escaped(tok.first, at)
  BY <1>1 DEF Ready, TokenInv, StringInv
<1> DEFINE t == Item("str", tok.from, cpos', tok.first, at)
<1>3. /\ t.kind = "str" /\ t.from = tok.from /\ t.to = cpos' /\ t.first = tok.first
      /\ t.last = at
  BY DEF Item
<1>4. Yield(t)
  BY <1>1
<1> HIDE DEF t
<1>5. /\ at \in 1..Len(src) /\ cpos' = ppos /\ Moves /\ at = at' - 1 /\ at <= at
      /\ Done + 1 = tok.first /\ tok.first \in 1..at /\ tok.first < at
  BY <1>1, EndsAfter DEF Begun
<1>6. t.first = Done + 1 /\ t.last = at' - 1 /\ t.first < t.last /\ t.first # t.last
  <2>1. tok.first # at
    BY <1>5, ReadyFacts
  <2> QED
    BY <1>3, <1>5, <2>1
<1>7. Exact(t)
  <2>1. ppos = IF at = Len(src) THEN src[at].off + 1 ELSE src[at + 1].off
    BY <1>5, ReadyFacts
  <2> QED
    BY <1>2, <1>3, <1>5, <2>1 DEF Exact
<1>8. Longest(t)
  BY <1>2, <1>3, <1>6 DEF Longest, Alphabetic
<1>9. Delimited(t)
  BY <1>1, <1>2, <1>3, <1>6 DEF Delimited, Current
<1>10. Fits(t)
  BY <1>3, <1>5, <1>7, <1>8, <1>9 DEF Fits
<1> QED
  BY <1>1, <1>4, <1>5, <1>6, <1>10, Yielded DEF Ready, TokenInv

\* The end of what is skipped behind a bad escape.
LEMMA YieldsSkipped ==
  ASSUME Ready, EndSkip
  PROVE  Moves /\ TokenInv' /\ Took
<1>1. /\ mode = "skip" /\ Begun /\ mode # "new"
      /\ Current \in {"quote", "eof"}
      /\ IF Current = "quote" THEN Advance ELSE UNCHANGED source
      /\ Yield(Item(tok.kind, tok.from, tok.from + 1, tok.first, at' - 1))
  BY DEF EndSkip, SkipOver, Begun
<1>2. Char(tok.first) = "quote" /\ tok.kind = "BadStringEscape"
  BY <1>1 DEF Ready, TokenInv, StringInv
<1> DEFINE t == Item(tok.kind, tok.from, tok.from + 1, tok.first, at' - 1)
<1>3. t.kind = "BadStringEscape" /\ t.first = tok.first /\ t.last = at' - 1
  BY <1>2 DEF Item
<1>4. Yield(t)
  BY <1>1
<1> HIDE DEF t
<1>5. Exact(t)
  BY <1>3 DEF Exact, Errors
<1>6. Longest(t)
  BY <1>2, <1>3, Tables DEF Longest, Alphabetic
<1>7. PICK p \in (tok.first + 1)..at :
        /\ Quoted(tok.first, p) /\ Escaped(tok.first, p) /\ Char(p) \notin Escapable
        /\ \A q \in p..(at - 1) : Char(q) # "quote"
  BY <1>1 DEF Ready, TokenInv, StringInv
<1>8. CASE Current = "quote"
  <2>1. /\ at \in 1..Len(src) /\ Moves /\ at = at' - 1 /\ at <= at
        /\ Done + 1 = tok.first /\ tok.first \in 1..at
    BY <1>1, <1>8, EndsAfter
  <2>2. t.first = Done + 1 /\ t.last = at
    BY <1>3, <2>1
  <2>3. p \in (t.first + 1)..(t.last + 1)
    BY <1>3, <1>7, <2>1, <2>2
  <2>4. Delimited(t)
    BY <1>3, <1>7, <1>8, <2>2, <2>3 DEF Delimited, Current
  <2>5. Fits(t)
    BY <1>3, <1>5, <1>6, <2>1, <2>2, <2>4 DEF Fits
  <2> QED
    BY <1>1, <1>3, <1>4, <2>1, <2>2, <2>5, Yielded DEF Ready, TokenInv
<1>9. CASE Current = "eof"
  <2>1. /\ at' = at /\ Moves /\ tok.first \in 1..(at - 1)
        /\ at - 1 \in 1..Len(src) /\ at > 1 /\ (at - 1) + 1 = at /\ at - 1 <= at
        /\ Done + 1 = tok.first
        /\ at - 1 = Len(src)
    BY <1>1, <1>9, EndsInFront
  <2>2. t.first = Done + 1 /\ t.last = at - 1 /\ t.last + 1 = at /\ t.last = Len(src)
    BY <1>3, <2>1
  <2>3. p \in (t.first + 1)..(t.last + 1) /\ \A q \in p..(t.last - 1) : q \in p..(at - 1)
    BY <1>3, <1>7, <2>1, <2>2
  <2>4. Delimited(t)
    BY <1>3, <1>7, <2>2, <2>3 DEF Delimited
  <2>5. Fits(t)
    BY <1>3, <1>5, <1>6, <2>1, <2>2, <2>4 DEF Fits
  <2> QED
    BY <1>1, <1>3, <1>4, <2>1, <2>2, <2>5, Yielded DEF Ready, TokenInv
<1> QED
  BY <1>1, <1>8, <1>9

-----------------------------------------------------------------------------
\* Every step.
LEMMA StepFacts ==
  ASSUME Ready, Next
  PROVE  Moves /\ TokenInv' /\ Took
<1>1. CASE New \/ SkipBlank \/ Eof
  BY <1>1, GoesOnIdle
<1>2. CASE BeginWord \/ BeginNumber \/ BeginDouble \/ BeginString
  BY <1>2, BeginsToken
<1>3. CASE InWord
  BY <1>3, GoesOnWord
<1>4. CASE InNumber \/ Spoil \/ InMalformed
  BY <1>4, GoesOnNumber
<1>5. CASE InString \/ Backslash \/ Escape
  BY <1>5, GoesOnString
<1>6. CASE BadEscape \/ Skip
  BY <1>6, GoesOnSkipping
<1>7. CASE Single \/ Dot \/ Unrecognized
  BY <1>7, YieldsSingle
<1>8. CASE EndWord
  BY <1>8, YieldsWord
<1>9. CASE EndNumber \/ EndMalformed
  BY <1>9, YieldsNumber
<1>10. CASE EndAlone
  BY <1>10, YieldsAlone
<1>11. CASE EndDouble
  BY <1>11, YieldsDouble
<1>12. CASE EndString
  BY <1>12, YieldsString
<1>13. CASE Unterminated
  BY <1>13, YieldsUnterminated
<1>14. CASE EndSkip
  BY <1>14, YieldsSkipped
<1> QED
  BY <1>1, <1>2, <1>3, <1>4, <1>5, <1>6, <1>7, <1>8, <1>9, <1>10, <1>11, <1>12, <1>13,
     <1>14 DEF Next

\* What is said of an item stays so.
LEMMA FitsStay ==
  ASSUME WindowInv, WindowInv', Grown, NEW t, Fits(t)
  PROVE  Fits(t)'
<1>1. /\ t.first \in 1..t.last /\ t.last \in 1..Len(src) /\ t.last <= at
      /\ at \in Int /\ at' \in Int /\ at' >= at /\ Len(src) \in Int /\ Len(src') \in Int
      /\ Len(src') >= Len(src)
  BY SourceFacts DEF Fits, Grown, WindowInv
<1>2. PICK f \in Nat, l \in Nat : f = t.first /\ l = t.last
  BY <1>1
<1>3. /\ f \in 1..l /\ l \in 1..Len(src) /\ l <= at /\ f \in 1..Len(src)
      /\ f \in 1..(at + 1) /\ l \in 1..(at + 1) /\ l + 1 \in 1..(at + 1) /\ l \in 1..at
  BY <1>1, <1>2
<1>4. DOMAIN src = 1..Len(src) /\ DOMAIN src' = 1..Len(src')
  BY DEF WindowInv
<1>5. /\ Char(f)' = Char(f) /\ Char(l)' = Char(l) /\ Char(l + 1)' = Char(l + 1)
      /\ src'[f] = src[f] /\ src'[l] = src[l]
      /\ l = Len(src') <=> l = Len(src)
  BY <1>3, <1>4 DEF Grown
<1>6. l = Len(src) \/ src'[l + 1] = src[l + 1]
  <2>1. l = Len(src) \/ l < Len(src)
    BY <1>1, <1>2, <1>3, LastOrNot
  <2>2. l < Len(src) => l + 1 \in 1..Len(src)
    BY <1>1, <1>2
  <2> QED
    BY <1>4, <2>1, <2>2 DEF Grown
<1>7. Exact(t)'
  BY <1>2, <1>5, <1>6 DEF Fits, Exact, Errors
<1>8. Longest(t)'
  BY <1>2, <1>5 DEF Fits, Longest, Alone, Doubles, Digit, Alphabetic, WordChar
<1>9. Delimited(t)'
  <2>1. ASSUME NEW p \in Int, p <= l + 1
        PROVE  /\ Quoted(f, p)' <=> Quoted(f, p)
               /\ Escaped(f, p)' <=> Escaped(f, p)
    <3>1. p <= at + 2
      BY <1>1, <1>2, <2>1
    <3> QED
      BY <1>1, <2>1, <3>1, StringsStay
  <2>2. t.kind = "str" =>
          /\ Char(t.first)' = "quote" /\ Char(t.last)' = "quote" /\ t.first < t.last
          /\ Quoted(t.first, t.last)' /\ ~ Escaped(t.first, t.last)'
    <3>1. /\ Quoted(f, l)' <=> Quoted(f, l)
          /\ Escaped(f, l)' <=> Escaped(f, l)
      BY <1>2, <2>1
    <3> QED
      BY <1>2, <1>5, <3>1 DEF Fits, Delimited
  <2>3. t.kind = "UnexpectedStringEnd" => t.last = Len(src') /\ Quoted(t.first, t.last + 1)'
    <3>1. Quoted(f, l + 1)' <=> Quoted(f, l + 1)
      BY <1>2, <2>1
    <3> QED
      BY <1>2, <1>5, <3>1 DEF Fits, Delimited
  <2>4. ASSUME t.kind = "BadStringEscape"
        PROVE  \E p \in (t.first + 1)..(t.last + 1) :
                 /\ Quoted(t.first, p)' /\ Escaped(t.first, p)' /\ Char(p)' \notin Escapable
                 /\ \A q \in p..(t.last - 1) : Char(q)' # "quote"
                 /\ Char(t.last)' = "quote" \/ t.last = Len(src')
    <3>1. PICK p \in (f + 1)..(l + 1) :
            /\ Quoted(f, p) /\ Escaped(f, p) /\ Char(p) \notin Escapable
            /\ \A q \in p..(l - 1) : Char(q) # "quote"
            /\ Char(l) = "quote" \/ l = Len(src)
      BY <1>2, <2>4 DEF Fits, Delimited
    <3>2. Quoted(f, p)' /\ Escaped(f, p)'
      BY <2>1, <3>1
    <3>3. \A q \in p..(l + 1) : Char(q)' = Char(q)
      <4>1. \A q \in p..(l + 1) : q \in 1..(at + 1)
        BY <1>1, <1>2, <1>3
      <4> QED
        BY <4>1 DEF Grown
    <3>4. p \in p..(l + 1) /\ \A q \in p..(l - 1) : q \in p..(l + 1)
      BY <1>2
    <3> QED
      BY <1>2, <1>5, <3>1, <3>2, <3>3, <3>4
  <2> QED
    BY <2>2, <2>3, <2>4 DEF Delimited, Escapable
<1>10. t.first \in 1..t.last /\ t.last \in 1..Len(src') /\ t.last <= at'
  BY <1>1
<1> QED
  BY <1>7, <1>8, <1>9, <1>10 DEF Fits

\* The characters the lexer is done with are in front of the current one.
LEMMA DoneFacts ==
  ASSUME WindowInv, TokenInv
  PROVE  Done \in Int /\ Done <= at - 1
<1>1. at \in Int
  BY DEF WindowInv
<1>2. CASE Begun
  <2>1. tok.first \in 1..(at - 1) /\ Done = tok.first - 1
    BY <1>2 DEF TokenInv, Done, Begun
  <2> QED
    BY <1>1, <2>1
<1>3. CASE ~ Begun
  BY <1>1, <1>3 DEF Done, Begun
<1> QED
  BY <1>2, <1>3

\* Nothing is lost, and what has been yielded is right.
LEMMA OutStays ==
  ASSUME WindowInv, WindowInv', Grown, TokenInv, TokenInv', OutInv,
         out' = out, Done' \in {Done, Done + 1},
         Done' = Done + 1 /\ Done' >= 1 => Char(Done') = "space"
  PROVE  OutInv'
<1>1. /\ Done \in Int /\ Done' \in Int /\ Done <= at - 1 /\ Done' <= at /\ Done <= Done'
      /\ at \in Int
  BY DoneFacts DEF WindowInv
<1>2. \A i \in DOMAIN out' : Fits(out[i])' /\ out'[i].last <= Done' /\ i <= out'[i].last
  <2> SUFFICES ASSUME NEW i \in DOMAIN out
               PROVE  Fits(out[i])' /\ out'[i].last <= Done' /\ i <= out'[i].last
    OBVIOUS
  <2>1. PICK t : t = out[i]
    OBVIOUS
  <2>2. Fits(t) /\ t.last <= Done /\ i <= t.last
    BY <2>1 DEF OutInv
  <2>3. Fits(t)'
    BY <2>2, FitsStay
  <2>4. t.last \in Int
    BY <2>2, SourceFacts DEF Fits
  <2>5. out'[i] = t
    BY <2>1
  <2>6. Fits(out[i])'
    BY <2>3, <2>5
  <2> QED
    BY <1>1, <2>2, <2>4, <2>5, <2>6
<1>3. \A p \in 1..Done' :
        \/ Char(p)' = "space"
        \/ \E i \in DOMAIN out' : p \in out'[i].first..out'[i].last
  <2> SUFFICES ASSUME NEW p \in 1..Done'
               PROVE  \/ Char(p)' = "space"
                      \/ \E i \in DOMAIN out : p \in out[i].first..out[i].last
    OBVIOUS
  <2>1. Char(p)' = Char(p)
    <3>1. p \in 1..(at + 1)
      BY <1>1
    <3> QED
      BY <3>1 DEF Grown
  <2>2. CASE p \in 1..Done
    BY <2>1, <2>2 DEF OutInv
  <2>3. CASE p \notin 1..Done
    <3>1. p = Done' /\ Done' = Done + 1 /\ Done' >= 1
      BY <1>1, <2>3
    <3> QED
      BY <2>1, <3>1
  <2> QED
    BY <2>2, <2>3
<1> QED
  BY <1>2, <1>3 DEF OutInv

\* An item that fits and begins behind all others may be put out.
LEMMA OutGrows ==
  ASSUME WindowInv, WindowInv', Grown, TokenInv, TokenInv', OutInv,
         NEW t, out' = Append(out, t), t.first = Done + 1, t.last = Done', Fits(t)
  PROVE  OutInv'
<1>1. /\ Done \in Int /\ Done' \in Int /\ Done <= at - 1 /\ at \in Int
  BY DoneFacts, SourceFacts DEF WindowInv, Fits
<1>2. /\ t.first \in 1..t.last /\ t.last \in Int /\ t.first \in Int /\ t.last <= at
      /\ Done < t.first /\ Done < Done' /\ t.first >= 1 /\ t.first <= t.last
  BY <1>1, SourceFacts DEF Fits
<1>3. Fits(t)'
  BY FitsStay
<1>4. PICK n \in Nat : n = Len(out) /\ DOMAIN out = 1..n
  BY SeqFacts DEF OutInv
<1>5. /\ IsSeq(out') /\ DOMAIN out' = 1..(n + 1) /\ out'[n + 1] = t
      /\ \A i \in 1..n : out'[i] = out[i]
  BY <1>4, AppendFacts, SeqFacts DEF OutInv
<1>6. ASSUME NEW i \in 1..n
      PROVE  /\ Fits(out[i]) /\ out[i].last <= Done /\ i <= out[i].last
             /\ out[i].last \in Int
             /\ i > 1 => out[i - 1].last < out[i].first
  BY <1>4, SourceFacts DEF OutInv, Fits
<1>7. ASSUME NEW i \in 1..(n + 1)
      PROVE  Fits(out[i])' /\ out'[i].last <= Done' /\ i <= out'[i].last
  <2>1. CASE i \in 1..n
    <3>1. PICK x : x = out[i]
      OBVIOUS
    <3>2. Fits(x)'
      BY <1>6, <2>1, <3>1, FitsStay
    <3>3. out'[i] = x
      BY <1>5, <2>1, <3>1
    <3>4. Fits(out[i])'
      BY <3>2, <3>3
    <3>5. x.last <= Done /\ i <= x.last /\ x.last \in Int
      BY <1>6, <2>1, <3>1
    <3> QED
      BY <1>1, <1>2, <3>3, <3>4, <3>5
  <2>2. CASE i = n + 1
    <3>1. out'[i] = t
      BY <1>5, <2>2
    <3>2. Fits(out[i])'
      BY <1>3, <3>1
    <3>3. n + 1 <= t.last
      <4>1. CASE n = 0
        BY <1>2, <4>1
      <4>2. CASE n > 0
        <5>1. n <= out[n].last /\ out[n].last <= Done /\ out[n].last \in Int
          BY <1>6, <4>2
        <5> QED
          BY <1>1, <1>2, <5>1
      <4> QED
        BY <4>1, <4>2
    <3> QED
      BY <1>1, <1>2, <2>2, <3>1, <3>2, <3>3
  <2> QED
    BY <1>4, <2>1, <2>2
<1>8. ASSUME NEW i \in 1..(n + 1), i > 1
      PROVE  out'[i - 1].last < out'[i].first
  <2>1. i - 1 \in 1..n /\ out'[i - 1] = out[i - 1]
    BY <1>5, <1>8
  <2>2. CASE i \in 1..n
    BY <1>5, <1>6, <1>8, <2>1, <2>2
  <2>3. CASE i = n + 1
    <3>1. out'[i] = t /\ out[i - 1].last <= Done /\ out[i - 1].last \in Int
      BY <1>5, <1>6, <2>1, <2>3
    <3> QED
      BY <1>1, <1>2, <2>1, <3>1
  <2> QED
    BY <1>4, <1>8, <2>2, <2>3
<1>9. ASSUME NEW p \in 1..Done'
      PROVE  \/ Char(p)' = "space"
             \/ \E i \in 1..(n + 1) : p \in out'[i].first..out'[i].last
  <2>1. CASE p \in 1..Done
    <3>1. Char(p)' = Char(p)
      <4>1. p \in 1..(at + 1)
        BY <1>1, <2>1
      <4> QED
        BY <4>1 DEF Grown
    <3>2. CASE Char(p) = "space"
      BY <3>1, <3>2
    <3>3. CASE Char(p) # "space"
      <4>1. PICK i \in 1..n : p \in out[i].first..out[i].last
        BY <1>4, <2>1, <3>3 DEF OutInv
      <4>2. i \in 1..(n + 1) /\ out'[i] = out[i]
        BY <1>5
      <4> QED
        BY <4>1, <4>2
    <3> QED
      BY <3>2, <3>3
  <2>2. CASE p \notin 1..Done
    <3>1. p \in t.first..t.last
      BY <1>1, <1>2, <2>2
    <3>2. n + 1 \in 1..(n + 1)
      OBVIOUS
    <3> QED
      BY <1>5, <3>1, <3>2
  <2> QED
    BY <2>1, <2>2
<1> QED
  BY <1>5, <1>7, <1>8, <1>9 DEF OutInv

\* A new lexer has taken nothing and put out nothing.
LEMMA LexerInitFacts ==
  ASSUME Init
  PROVE  LexerInv
<1>1. WindowInv
  BY MaxCharsAssumption DEF Init, WindowInv
<1>2. PlaceInv
  BY DEF Init, PlaceInv
<1>3. TokenInv
  <2>1. tok = [kind |-> tok.kind, from |-> tok.from, first |-> tok.first]
    BY DEF Init, NoToken
  <2>2. NumberInv /\ DoubleInv /\ StringInv
    BY DEF Init, NumberInv, DoubleInv, StringInv
  <2> QED
    BY <2>1, <2>2 DEF Init, TokenInv, Modes, Begun
<1>4. OutInv
  <2>1. IsSeq(<<>>) /\ DOMAIN <<>> = {}
    BY DEF IsSeq
  <2>2. Done = -2
    BY DEF Init, Done
  <2> QED
    BY <2>1, <2>2 DEF Init, OutInv
<1> QED
  BY <1>1, <1>2, <1>3, <1>4 DEF LexerInv

\* Every step of the iterator keeps the invariant.
LEMMA LexerStep ==
  ASSUME LexerInv, [Next]_vars
  PROVE  LexerInv'
<1>1. CASE Next
  <2>1. Ready
    BY DEF LexerInv, Ready
  <2>2. Moves /\ TokenInv' /\ Took
    BY <1>1, <2>1, StepFacts
  <2>3. WindowInv' /\ PlaceInv' /\ Grown
    BY <2>2, MovesFacts DEF LexerInv
  <2>4. OutInv'
    BY <2>2, <2>3, OutStays, OutGrows DEF LexerInv, Took
  <2> QED
    BY <2>2, <2>3, <2>4 DEF LexerInv
<1>2. CASE UNCHANGED vars
  <2>1. /\ src' = src /\ bytes' = bytes /\ ended' = ended /\ at' = at
        /\ cpos' = cpos /\ ppos' = ppos /\ mode' = mode /\ tok' = tok /\ out' = out
        /\ UNCHANGED source
    BY <1>2 DEF vars, source
  <2>2. WindowInv' /\ PlaceInv' /\ Grown
    BY <2>1, MovesFacts DEF LexerInv, Moves
  <2>3. TokenInv'
    <3>1. NumberInv'
      BY <2>1 DEF LexerInv, TokenInv, NumberInv, Begins, Char, Current
    <3>2. DoubleInv'
      BY <2>1 DEF LexerInv, TokenInv, DoubleInv, Begins, Char, Current
    <3>3. StringInv'
      <4>1. \A p : Char(p)' = Char(p)
        BY <2>1 DEF Char
      <4>2. \A f, q, p : Run(f, q, p)' <=> Run(f, q, p)
        BY <4>1 DEF Run
      <4>3. \A f, p : Escaped(f, p)' <=> Escaped(f, p)
        BY <4>2 DEF Escaped
      <4>4. \A f, p : Quoted(f, p)' <=> Quoted(f, p)
        BY <4>1, <4>3 DEF Quoted, Escapable
      <4>5. StringInv
        BY DEF LexerInv, TokenInv
      <4>6. PICK f, a : f = tok.first /\ a = at
        OBVIOUS
      <4>7. /\ Quoted(tok.first, at)' <=> Quoted(f, a)
            /\ Escaped(tok.first, at)' <=> Escaped(f, a)
            /\ \A q : Run(tok.first, q, at)' <=> Run(f, q, a)
            /\ Char(tok.first)' = Char(f)
            /\ \A p : Quoted(tok.first, p)' <=> Quoted(f, p)
            /\ \A p : Escaped(tok.first, p)' <=> Escaped(f, p)
        BY <2>1, <4>1, <4>2, <4>3, <4>4, <4>6
      <4> QED
        BY <2>1, <4>1, <4>5, <4>6, <4>7 DEF StringInv, Escapable
    <3>4. Begins(Alphabetic \cup {"_"})' <=> Begins(Alphabetic \cup {"_"})
      BY <2>1 DEF Begins, Char, Alphabetic
    <3> QED
      BY <2>1, <3>1, <3>2, <3>3, <3>4 DEF LexerInv, TokenInv, Begun
  <2>4. OutInv'
    <3>1. Done' = Done /\ Done \in Int
      BY <2>1, DoneFacts DEF LexerInv, Done
    <3>2. ~ (Done' = Done + 1)
      BY <3>1
    <3> QED
      BY <2>1, <2>2, <2>3, <3>1, <3>2, OutStays DEF LexerInv
  <2> QED
    BY <2>2, <2>3, <2>4 DEF LexerInv
<1> QED
  BY <1>1, <1>2

\* The invariant holds for every alphabet and every length of source.
LEMMA LexerInvariant == Spec => []LexerInv
<1>1. Init => LexerInv
  BY LexerInitFacts
<1>2. LexerInv /\ [Next]_vars => LexerInv'
  BY LexerStep
<1> QED
  BY <1>1, <1>2, PTL DEF Spec

\* Lexer::next, current_loc: the window is on the source.
THEOREM LexerTyped == Spec => []TypeOK
<1>1. LexerInv => TypeOK
  <2> SUFFICES ASSUME LexerInv
               PROVE  TypeOK
    OBVIOUS
  <2>1. Ready /\ WindowInv /\ TokenInv
    BY DEF LexerInv, Ready
  <2>2. at \in (-1)..(Len(src) + 1) /\ (at > Len(src) => ended)
    <3>1. /\ at \in Int /\ Len(src) \in Int /\ at + 1 >= 0 /\ at <= Len(src) + 1
      BY <2>1, SourceFacts DEF WindowInv
    <3>2. ~ ended => Len(src) = at + 1
      BY <2>1 DEF WindowInv
    <3>3. Len(src) = at + 1 => ~ (at > Len(src))
      BY <3>1
    <3>4. at > Len(src) => ended
      BY <3>2, <3>3, Zenon
    <3> QED
      BY <3>1, <3>4
  <2>3. at \in DOMAIN src => cpos = src[at].off
    BY <2>1, ReadyFacts
  <2>4. mode \notin {"new", "idle", "eof"} => tok.first \in 1..(at - 1)
    BY <2>1 DEF TokenInv, Begun
  <2> QED
    BY <2>1, <2>2, <2>3, <2>4 DEF TypeOK, TokenInv, Modes, WindowInv
<1> QED
  BY <1>1, LexerInvariant, PTL

\* Lexer::consume and what it calls: no character is skipped but a blank, and none
\* is read twice.
THEOREM LexerLosesNothing == Spec => []NothingLost
<1>1. LexerInv => NothingLost
  BY DEF LexerInv, OutInv, Fits, NothingLost
<1> QED
  BY <1>1, LexerInvariant, PTL

\* The spans of the tokens, whatever has gone wrong in front of them.
THEOREM LexerSpans == Spec => []SpansAreExact
<1>1. LexerInv => SpansAreExact
  BY DEF LexerInv, OutInv, Fits, Exact, SpansAreExact
<1> QED
  BY <1>1, LexerInvariant, PTL

\* Tokens are as long as they can be.
THEOREM LexerMatches == Spec => []LongestMatch
<1>1. LexerInv => LongestMatch
  BY DEF LexerInv, OutInv, Fits, Longest, LongestMatch
<1> QED
  BY <1>1, LexerInvariant, PTL

\* lex_string: where a string ends, and where the lexer goes on after a bad one.
THEOREM LexerStrings == Spec => []StringsEnd
<1>1. LexerInv => StringsEnd
  BY DEF LexerInv, OutInv, Fits, Delimited, StringsEnd
<1> QED
  BY <1>1, LexerInvariant, PTL
=============================================================================

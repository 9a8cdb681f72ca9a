----------------------------- MODULE MCEvaluator -----------------------------
(***************************************************************************)
(* A small instance of Evaluator: a registry of three commands that are    *)
(* typed and may misbehave, and every pipeline of up to MaxLength of the   *)
(* commands below.                                                         *)
(***************************************************************************)
EXTENDS Evaluator, Builtins, Expressions

CONSTANTS MaxLength, Words

\* Strings: "a" is before "ab" and a part of it.
MCStrBefore(s, t)   == s = "a" /\ t = "ab"
MCStrContains(s, t) == s = t \/ (s = "ab" /\ t = "a")

MCHoldsNaN(v)      == holds_nan(v)
MCValueAt(e, item) == eval_expr(e, item)

It       == <<"it">>
Lit(v)   == <<"lit", v>>
Num(n)   == Lit(IntV(n))
Path(f)  == <<"path", <<f>>>>
Bin(op, l, r) == <<"bin", op, l, r>>

\* nums takes nothing and gives a list; pick takes a list or a string and must
\* be told a number; show takes a number and perhaps a string.
MCRegistry ==
  [nums |-> [depends_on |-> {}, arg |-> <<>>, returns |-> VectorT(IntT)],
   pick |-> [depends_on |-> {VectorT(IntT), StrT},
             arg |-> <<[accepts |-> {IntT, FloatT}, required |-> TRUE]>>,
             returns |-> IntT],
   show |-> [depends_on |-> {IntT},
             arg |-> <<[accepts |-> {StrT}, required |-> FALSE]>>,
             returns |-> StrT],
   mute |-> [depends_on |-> {}, arg |-> <<>>, returns |-> NoneT]]

\* A handler may reply as declared, with a value of another type, or fail.
MCHandlerReplies(name, call) ==
  CASE name = "nums" -> {Ok(VecV(<<IntV(1), IntV(2)>>)), Ok(VecV(<<IntV(0)>>))}
    [] name = "pick" -> {Ok(IntV(2)), Ok(StrV("a")), Err(<<"Handler">>)}
    [] name = "show" -> {Ok(StrV("ab"))}
    [] name = "mute" -> {Ok(NoneV)}

NoOptions == [o \in {} |-> It]
Call(name, arg, options) ==
  [kind |-> "custom", name |-> name, arg |-> arg, flags |-> {}, options |-> options]
Builtin(op, e) == [kind |-> "builtin", op |-> op, expr |-> e]

\* The commands, by the words that would spell them.
Lexicon ==
  [nums      |-> Call("nums", <<>>, NoOptions),
   pick1     |-> Call("pick", <<Num(1)>>, NoOptions),
   pickit    |-> Call("pick", <<It>>, NoOptions),
   pickopts  |-> Call("pick", <<Num(1)>>, [a |-> Path("f"), b |-> Bin("Add", It, Num(1))]),
   show      |-> Call("show", <<>>, NoOptions),
   mute      |-> Call("mute", <<>>, NoOptions),
   ghost     |-> Call("ghost", <<>>, NoOptions),
   filter1   |-> Builtin("filter", Bin("Gt", It, Num(1))),
   filterdiv |-> Builtin("filter", Bin("Ge", Bin("Div", Num(1), It), Num(0))),
   filterhas |-> Builtin("filter", Bin("Contains", It, Lit(StrV("a")))),
   sort      |-> [kind |-> "builtin", op |-> "sort", expr |-> It, dir |-> "Desc"],
   unique    |-> Builtin("unique", <<>>),
   take1     |-> [kind |-> "builtin", op |-> "take", n |-> 1],
   count     |-> Builtin("count", It),
   badtoken  |-> [kind |-> "bad", stage |-> "LexerStage"],
   badsyntax |-> [kind |-> "bad", stage |-> "ParserStage"]]

Segments == [op : {"pipe", "concat"}, cmd : {Lexicon[w] : w \in Words}]

Pipelines(n) ==
  IF n > MaxLength THEN {} ELSE {p \in [1..n -> Segments] : p[1].op = "pipe"}

\* Not the UNION of a set: TLC tests membership in \cup without enumerating.
MCPrograms == Pipelines(1) \cup Pipelines(2) \cup Pipelines(3) \cup Pipelines(4)
=============================================================================

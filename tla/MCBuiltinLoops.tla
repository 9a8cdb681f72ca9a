--------------------------- MODULE MCBuiltinLoops ---------------------------
(***************************************************************************)
(* A small instance of BuiltinLoops: lists of up to three of the values    *)
(* that are hard to compare, and of two of any integers.                   *)
(***************************************************************************)
EXTENDS BuiltinLoops, Expressions

MCStrBefore(s, t)   == s = "a" /\ t = "ab"
MCStrContains(s, t) == s = t \/ (s = "ab" /\ t = "a")

MCHoldsNaN(v)      == holds_nan(v)
MCValueAt(e, item) == eval_expr(e, item)

It      == <<"it">>
F       == <<"path", <<"f">>>>
Num(n)  == <<"lit", IntV(n)>>
Song(v) == ObjV([f |-> v])

\* 4, 5 and 4.0: 5 is beyond what a decimal takes exactly and ties with 4.0.
Hard == {IntV(4), IntV(5), DecV(8), NaNV, StrV("a"), StrV("ab"), NoneV,
         VecV(<<NaNV>>), Song(IntV(4)), Song(DecV(8)), Song(NaNV)}

Lists(S, n) == {VecV(l) : l \in [1..n -> S]}

MCInputs ==
  UNION {Lists(Hard, n) : n \in 0..2}
    \cup Lists(Hard \ {StrV("ab"), VecV(<<NaNV>>)}, 3) \cup Lists({IntV(n) : n \in MinInt..MaxInt}, 2)
    \cup {VecV(<<IntV(4), IntV(5), DecV(8), StrV("a")>>), NoneV}

Builtin(op, e) == [kind |-> "builtin", op |-> op, expr |-> e]
Sort(e, dir)   == [kind |-> "builtin", op |-> "sort", expr |-> e, dir |-> dir]

MCCommands ==
  {Builtin("filter", <<"bin", "Gt", It, Num(4)>>), Builtin("filter", F),
   Builtin("filter", <<"bin", "In", It, <<"vec", <<Num(4), It>>>>>>),
   Builtin("unique", <<>>), Builtin("unique", <<F>>),
   Sort(It, "Asc"), Sort(It, "Desc"), Sort(F, "Desc"),
   [kind |-> "builtin", op |-> "take", n |-> 2], Builtin("count", It)}
=============================================================================

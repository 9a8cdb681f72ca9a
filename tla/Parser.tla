-------------------------------- MODULE Parser --------------------------------
(***************************************************************************)
(* `Parser::parse`: the recursive descent over the tokens of a program, an *)
(* operator precedence loop for expressions inside it.                     *)
(*                                                                         *)
(* The lexer is an iterator behind a Peekable: an item is lexed when the   *)
(* parser first looks at it, and `toks` holds the items lexed so far, of   *)
(* which `pos` are consumed.  An item is the kind of its token, as what is *)
(* spelled does not matter to the parser, save for names that may coincide *)
(* and for digits that may not be a number; "lexerr" is a LexError.        *)
(*                                                                         *)
(* The pending calls of parse_expr and parse_group are the frames of       *)
(* `frames`.  The expressions are boxed in `nodes`; they know the tokens   *)
(* they were read from and keep their parentheses, which the code drops,   *)
(* so that the tree can be compared with the text.                         *)
(***************************************************************************)
EXTENDS Integers, Sequences

CONSTANTS
  Kinds,      \* the kinds of items the lexer may yield
  Idents,     \* those of them that are names, apart from asc and desc
  MaxTokens   \* a bound on the length of a program

\* "end" is none of them: it stands for their end.  No name is the token of two
\* dashes or of an integer, or "none", which is where there is no key.
ASSUME KindsAssumption ==
  "end" \notin Kinds \cup Idents /\ Idents \cap {"subsub", "int", "neg", "none"} = {}

ASSUME MaxTokensAssumption == MaxTokens \in Nat

VARIABLES
  toks,     \* the items lexed so far
  ended,    \* the lexer has no more
  pos,      \* how many of them are consumed
  ctl,      \* what the parser is doing: where it is, the least binding
            \* power it takes, and the node or position it holds
  frames,   \* the calls that wait for an expression, outermost first
  nodes,    \* the expressions parsed so far
  cmd,      \* the command being parsed
  segs,     \* the commands of the pipeline so far
  outcome   \* the result of parse

input == <<toks, ended>>
vars  == <<toks, ended, pos, ctl, frames, nodes, cmd, segs, outcome>>

-----------------------------------------------------------------------------
\* The tokens.

Names    == Idents \cup {"asc", "desc"}        \* identifiers
IsInt    == {"int", "neg"}                    \* digits that fit an i64,
IsUint   == {"int", "big"}                    \* a u64,
Integer  == IsInt \cup IsUint \cup {"huge"}   \* or neither
Float    == {"float", "badfloat"}             \* badfloat: as in 1.2.3
Literals == Names \cup Integer \cup Float \cup {"str", "bool"}
Joints   == {"pipe", "concat"}

\* BinOp::binding_power, to the left; to the right it is one more.
Tiers == << {"or"}, {"and"},
            {"in", "contains", "eq", "ne", "gt", "lt", "ge", "le"},
            {"add", "sub"},
            {"mul", "div", "divdiv", "mod"} >>

BinOps == UNION {Tiers[i] : i \in 1..5}

NotPower     == 80
LeftPower(t) == 20 + 10 * (CHOOSE i \in 1..5 : t \in Tiers[i])
\* The mutant makes operators associate to the right.
RightPowerSame(t) == LeftPower(t)
RightPower(t)     == LeftPower(t) + 1

\* The next item, once the lexer has been asked for it.  The mutant takes a
\* LexError for the end.
Looked    == pos < Len(toks) \/ ended
TokOrNone == IF pos < Len(toks) /\ toks[pos + 1] # "lexerr" THEN toks[pos + 1] ELSE "end"
Tok       == IF pos < Len(toks) THEN toks[pos + 1] ELSE "end"

Consume == pos' = pos + 1

-----------------------------------------------------------------------------
\* Frames, nodes and commands.

Go(at, bp, val) == ctl' = [at |-> at, bp |-> bp, val |-> val]

\* A call of `fn` with `bp` waits; it began at `from`, its operator is at `op`,
\* and it has the nodes `parts`.
Frame(fn, bp, from, op, parts) ==
  [fn |-> fn, bp |-> bp, from |-> from, op |-> op, parts |-> parts]

\* The mutant leaves the call on top that has returned.
Top       == frames[Len(frames)]
PoppedNot == frames
Popped    == SubSeq(frames, 1, Len(frames) - 1)

Waiting(fns) == frames # <<>> /\ Top.fn \in fns

Expr(kind, from, op, parts, to) ==
  [kind |-> kind, from |-> from, op |-> op, parts |-> parts, to |-> to]

\* The expression in hand is a new node, read up to token `to`.
Box(kind, from, op, parts, to, bp) ==
  /\ nodes' = Append(nodes, Expr(kind, from, op, parts, to))
  /\ Go("ops", bp, Len(nodes) + 1)

\* A command begins at the token behind `pos`.  Its `args` are the positional
\* arguments of a custom command (several are one vector), or the expression
\* of a builtin; "none" is no key.  The mutant takes any operator for a pipe.
Fresh(op) == [op |-> op, kind |-> "none", from |-> 0, args |-> <<>>,
              flags |-> {}, options |-> <<>>, dir |-> "desc", key |-> "none"]

BlankPipe(op) == Fresh("pipe")
Blank(op)     == Fresh(op)

Pending == [res |-> "pending", what |-> "none", at |-> 0]

Init ==
  /\ toks = <<>>
  /\ ended = FALSE
  /\ pos = 0
  /\ ctl = [at |-> "start", bp |-> 0, val |-> 0]
  /\ frames = <<>>
  /\ nodes = <<>>
  /\ cmd = Blank("pipe")
  /\ segs = <<>>
  /\ outcome = Pending

\* The parser asks for the next item: the lexer yields one, or has no more.
Lex ==
  /\ ctl.at # "done"
  /\ ~ Looked
  /\ \/ /\ Len(toks) < MaxTokens
        /\ \E k \in Kinds : toks' = Append(toks, k)
        /\ UNCHANGED ended
     \/ /\ ended' = TRUE
        /\ UNCHANGED toks
  /\ UNCHANGED <<pos, ctl, frames, nodes, cmd, segs, outcome>>

\* The parser is at `at` and looks at an item that is not an error.
At(at) == ctl.at = at /\ Looked /\ Tok # "lexerr"

\* The parser goes on with the item consumed, or without.
Advance(at, bp, val) ==
  Consume /\ Go(at, bp, val) /\ UNCHANGED <<input, frames, nodes, outcome>>
Stay(at) ==
  Go(at, 0, 0) /\ UNCHANGED <<input, pos, frames, nodes, outcome>>

\* An error ends all pending calls.
Fail(what) ==
  /\ outcome' = [res |-> "err", what |-> what, at |-> pos + 1]
  /\ Go("done", 0, 0)
  /\ frames' = <<>>
  /\ UNCHANGED <<input, pos, nodes, cmd, segs>>

\* Wherever the parser looks, a LexError is passed on.
LexFault ==
  /\ ctl.at # "done"
  /\ Looked
  /\ Tok = "lexerr"
  /\ Fail("Lex")

\* What must come where the parser is, and the error if it does not.
Heads  == {"filter", "sort", "take", "unique", "count"} \cup Names
Atoms  == (Literals \ (Integer \cup Float)) \cup IsInt \cup {"float", "it"}
Firsts == Atoms \cup {"dot", "not", "lpar"}

Wanted == [start |-> {"semi"}, command |-> Heads, pipeline |-> Joints \cup {"end"},
           key |-> Names, segment |-> Names, direction |-> {"asc", "desc"},
           take |-> IsUint, prefix |-> Firsts]

Complaint ==
  CASE Tok = "end" -> "UnexpectedEof"
    [] ctl.at = "pipeline" -> "UnexpectedTrailingToken"
    [] ctl.at \in {"start", "key", "segment"} -> "UnexpectedTokenWithContext"
    [] ctl.at = "take" /\ Tok \in Integer -> "InvalidUnsignedInt"
    [] ctl.at = "prefix" /\ Tok \in Integer -> "InvalidInt"
    [] ctl.at = "prefix" /\ Tok \in Float -> "InvalidFloat"
    [] OTHER -> "UnexpectedToken"

Reject ==
  /\ ctl.at \in DOMAIN Wanted
  /\ At(ctl.at)
  /\ Tok \notin Wanted[ctl.at]
  /\ Fail(Complaint)

-----------------------------------------------------------------------------
\* parse, parse_pipeline and parse_command.

\* expect_command_flag
Start ==
  /\ At("start")
  /\ Tok = "semi"
  /\ Advance("command", 0, 0)
  /\ UNCHANGED <<cmd, segs>>

\* c is over, and its last token is number `to`.
EndCommand(c, to) == segs' = Append(segs, [cmd |-> c, to |-> to])

\* parse_command
Command ==
  LET kind == IF Tok \in Names THEN "custom" ELSE Tok
      new  == [cmd EXCEPT !.kind = kind, !.from = pos + 1]
  IN  /\ At("command")
      /\ Tok \in Heads
      /\ cmd' = new
      /\ CASE kind = "count"  -> Advance("pipeline", 0, 0) /\ EndCommand(new, pos + 1)
           [] kind = "filter" -> Advance("prefix", 0, 0) /\ UNCHANGED segs
           [] OTHER           -> Advance(kind, 0, 0) /\ UNCHANGED segs

\* The loop of parse_pipeline, and what parse does behind it.
Pipeline ==
  /\ At("pipeline")
  /\ Tok \in Joints
  /\ Advance("command", 0, 0)
  /\ cmd' = Blank(Tok)
  /\ UNCHANGED segs

Finish ==
  /\ At("pipeline")
  /\ Tok = "end"
  /\ outcome' = [res |-> "ok", what |-> "none", at |-> pos + 1]
  /\ Go("done", 0, 0)
  /\ UNCHANGED <<input, pos, frames, nodes, cmd, segs>>

-----------------------------------------------------------------------------
\* The builtins and the custom command.  The loops of parse_sort and of
\* parse_custom_command end where the next command begins.

EndOfLoop ==
  /\ \/ At("custom") /\ Tok \in Joints \cup {"end"}
     \/ At("sort")   /\ Tok \in Joints \cup {"end"}
     \/ At("unique") /\ Tok # "dot"
  /\ Stay("pipeline")
  /\ EndCommand(cmd, pos)
  /\ UNCHANGED cmd

\* An expression comes next: in a loop, because nothing else can be meant; as
\* the field of unique, because of its dot; as the value of an option, because
\* a literal stands behind the key.  The mutant knows no numbers there.
ValueNextNoNumbers == Tok \in Literals \ Integer
ValueNext          == Tok \in Literals

ExpressionNext ==
  /\ \/ At("custom") /\ Tok \notin Joints \cup {"end", "subsub"}
     \/ At("sort")   /\ Tok \notin Joints \cup {"end", "sub", "subsub"}
     \/ At("unique") /\ Tok = "dot"
     \/ At("keyed")  /\ ValueNext
  /\ Stay("prefix")
  /\ UNCHANGED <<cmd, segs>>

Dashes ==
  /\ \/ At("custom") /\ Tok = "subsub"           /\ Advance("key", 0, 0)
     \/ At("sort")   /\ Tok \in {"sub", "subsub"} /\ Advance("direction", 0, 0)
  /\ UNCHANGED <<cmd, segs>>

\* expect_ident
Key ==
  /\ At("key")
  /\ Tok \in Names
  /\ Advance("keyed", 0, 0)
  /\ cmd' = [cmd EXCEPT !.key = Tok]
  /\ UNCHANGED segs

Flag ==
  /\ At("keyed")
  /\ ~ ValueNext
  /\ Stay("custom")
  /\ cmd' = [cmd EXCEPT !.flags = @ \cup {cmd.key}, !.key = "none"]
  /\ UNCHANGED segs

\* The direction of a sort is the last one; to the mutant, which takes what is not
\* the default for settled, an ascending sort stays one.
DirectedOnce(c, d) == IF c.dir = "asc" THEN c ELSE [c EXCEPT !.dir = d]
Directed(c, d)     == [c EXCEPT !.dir = d]

Direction ==
  /\ At("direction")
  /\ Tok \in {"asc", "desc"}
  /\ Advance("sort", 0, 0)
  /\ cmd' = Directed(cmd, Tok)
  /\ UNCHANGED segs

Take ==
  /\ At("take")
  /\ Tok \in IsUint
  /\ Advance("pipeline", 0, 0)
  /\ EndCommand(cmd, pos + 1)
  /\ UNCHANGED cmd

\* What a command does with an expression it has asked for: it is the field of a
\* sort, also if there was one (the mutant keeps that); the value of an option,
\* also if it had one; one more argument; or the command is over.
WithOption(c, e) ==
  [c EXCEPT !.key = "none",
            !.options = [k \in DOMAIN @ \cup {c.key} |-> IF k = c.key THEN e ELSE @[k]]]

FirstField(c, e) == [c EXCEPT !.args = IF @ = <<>> THEN <<e>> ELSE @]
WithField(c, e)  == [c EXCEPT !.args = <<e>>]

EndExpression(e) ==
  CASE cmd.kind = "sort" ->
         Stay("sort") /\ cmd' = WithField(cmd, e) /\ UNCHANGED segs
    [] cmd.kind = "custom" ->
         /\ Stay("custom")
         /\ cmd' = IF cmd.key # "none" THEN WithOption(cmd, e)
                                       ELSE [cmd EXCEPT !.args = Append(@, e)]
         /\ UNCHANGED segs
    [] OTHER ->
         Stay("pipeline") /\ cmd' = WithField(cmd, e) /\ EndCommand(cmd', pos)

-----------------------------------------------------------------------------
\* parse_expr up to its loop.

Leaf ==
  /\ At("prefix")
  /\ Tok \in Atoms
  /\ Consume
  /\ Box("leaf", pos + 1, pos + 1, <<>>, pos + 1, ctl.bp)
  /\ UNCHANGED <<input, frames, cmd, segs, outcome>>

\* A call goes on at `at`, taking what binds at least as `bp`.
Call(frame, at, bp) ==
  /\ Consume
  /\ frames' = Append(frames, frame)
  /\ Go(at, bp, 0)
  /\ UNCHANGED <<input, nodes, cmd, segs, outcome>>

Not ==
  /\ At("prefix")
  /\ Tok = "not"
  /\ Call(Frame("not", ctl.bp, pos + 1, pos + 1, <<>>), "prefix", NotPower)

Group ==
  /\ At("prefix")
  /\ Tok = "lpar"
  /\ Call(Frame("group", ctl.bp, pos + 1, pos + 1, <<>>), "group", 0)

\* parse_field_path: a dot and a name, and while there is a dot, another.
Dot ==
  /\ \/ At("prefix") /\ Tok = "dot" /\ Advance("segment", ctl.bp, pos + 1)
     \/ At("path")   /\ Tok = "dot" /\ Advance("segment", ctl.bp, ctl.val)
  /\ UNCHANGED <<cmd, segs>>

Segment ==
  /\ At("segment")
  /\ Tok \in Names
  /\ Advance("path", ctl.bp, ctl.val)
  /\ UNCHANGED <<cmd, segs>>

EndPath ==
  /\ At("path")
  /\ Tok # "dot"
  /\ Box("path", ctl.val, ctl.val, <<>>, pos, ctl.bp)
  /\ UNCHANGED <<input, pos, frames, cmd, segs, outcome>>

-----------------------------------------------------------------------------
\* The loop of parse_expr.

\* token_to_binop gives an operator, and it does not bind less than asked for.
Binds == Tok \in BinOps /\ LeftPower(Tok) >= ctl.bp

Operator ==
  /\ At("ops")
  /\ Binds
  /\ Call(Frame("binary", ctl.bp, nodes[ctl.val].from, pos + 1, <<ctl.val>>),
          "prefix", RightPower(Tok))

\* Otherwise the expression in hand is what the call returns: to a call that
\* waits for an operand, to a group, or to the command.
OperandsSwapped == <<ctl.val>> \o Top.parts      \* mutant
Operands        == Append(Top.parts, ctl.val)

EndOperand ==
  /\ At("ops")
  /\ ~ Binds
  /\ Waiting({"not", "binary"})
  /\ frames' = Popped
  /\ Box(Top.fn, Top.from, Top.op, Operands, pos, Top.bp)
  /\ UNCHANGED <<input, pos, cmd, segs, outcome>>

EndElement ==
  /\ At("ops")
  /\ ~ Binds
  /\ Waiting({"group"})
  /\ frames' = Append(Popped, [Top EXCEPT !.parts = Append(@, ctl.val)])
  /\ Go("group", 0, 0)
  /\ UNCHANGED <<input, pos, nodes, cmd, segs, outcome>>

EndArgument ==
  /\ At("ops")
  /\ ~ Binds
  /\ frames = <<>>
  /\ EndExpression(ctl.val)

\* The loop of parse_group.  Commas are read over, wherever they stand; the mutant
\* only peeks.
PastCommaPeeked == Stay("group")
PastComma       == Advance("group", 0, 0)

Comma ==
  /\ At("group")
  /\ Tok = "comma"
  /\ PastComma
  /\ UNCHANGED <<cmd, segs>>

Element ==
  /\ At("group")
  /\ Tok \notin {"rpar", "comma", "end"}
  /\ Stay("prefix")
  /\ UNCHANGED <<cmd, segs>>

EndGroup ==
  /\ At("group")
  /\ Tok = "rpar"
  /\ Top.parts # <<>>
  /\ Consume
  /\ frames' = Popped
  /\ Box(IF Len(Top.parts) = 1 THEN "paren" ELSE "vector",
         Top.from, Top.from, Top.parts, pos + 1, Top.bp)
  /\ UNCHANGED <<input, cmd, segs, outcome>>

NoGroup ==
  /\ At("group")
  /\ \/ Tok = "end" /\ Fail("UnexpectedEof")
     \/ Tok = "rpar" /\ Top.parts = <<>> /\ Fail("EmptyVector")

\* What the parser does with the items it has.
Step ==
  \/ LexFault \/ Reject
  \/ Start \/ Command \/ Pipeline \/ Finish
  \/ EndOfLoop \/ ExpressionNext \/ Dashes \/ Key \/ Flag \/ Direction \/ Take
  \/ Leaf \/ Not \/ Group \/ Dot \/ Segment \/ EndPath
  \/ Operator \/ EndOperand \/ EndElement \/ EndArgument
  \/ Comma \/ Element \/ EndGroup \/ NoGroup

Next == Lex \/ Step

Spec == Init /\ [][Next]_vars

-----------------------------------------------------------------------------
(***************************************************************************)
(* What holds of every parse.                                              *)
(***************************************************************************)

Modes == {"start", "command", "pipeline", "custom", "sort", "take", "unique", "key",
          "keyed", "direction", "prefix", "segment", "path", "ops", "group", "done"}

\* The variables have their types: no more is boxed than was consumed, calls
\* only wait while an expression is parsed, and a group is on top in its loop.
TypeOK ==
  /\ pos \in 0..Len(toks)
  /\ Len(toks) <= MaxTokens
  /\ ctl.at \in Modes
  /\ ctl.at = "ops" => ctl.val \in DOMAIN nodes
  /\ ctl.at \notin {"prefix", "segment", "path", "ops", "group"} => frames = <<>>
  /\ ctl.at = "group" => Waiting({"group"})
  /\ Len(nodes) <= pos
  /\ \A id \in DOMAIN nodes : \A i \in DOMAIN nodes[id].parts :
        nodes[id].parts[i] \in 1..(id - 1)

\* The tokens p of a sequence of nodes and of none of them, in order.
Within(parts, p) ==
  \E i \in DOMAIN parts : p \in nodes[parts[i]].from..nodes[parts[i]].to

Ordered(parts) ==
  \A i, j \in DOMAIN parts : i < j => nodes[parts[i]].to < nodes[parts[j]].from

Tiled(n) ==
  LET part(i) == nodes[n.parts[i]] IN
  CASE n.kind = "leaf" ->
         n.from = n.to /\ toks[n.from] \in Atoms
    [] n.kind = "path" ->
         /\ (n.to - n.from) % 2 = 1
         /\ \A p \in n.from..n.to :
               toks[p] \in IF (p - n.from) % 2 = 0 THEN {"dot"} ELSE Names
    [] n.kind = "not" ->
         toks[n.from] = "not" /\ part(1).from = n.from + 1 /\ part(1).to = n.to
    [] n.kind = "binary" ->
         /\ part(1).from = n.from
         /\ part(1).to + 1 = n.op
         /\ toks[n.op] \in BinOps
         /\ part(2).from = n.op + 1
         /\ part(2).to = n.to
    [] OTHER ->
         /\ toks[n.from] = "lpar" /\ toks[n.to] = "rpar"
         /\ n.kind = IF Len(n.parts) = 1 THEN "paren" ELSE "vector"
         /\ Ordered(n.parts)
         /\ \A p \in (n.from + 1)..(n.to - 1) :
               Within(n.parts, p) \/ toks[p] = "comma"

\* No token of an expression is lost, read twice or moved: every node is made of
\* its own tokens and the tokens of its parts, in source order.
TreeIsTiled == \A id \in DOMAIN nodes : Tiled(nodes[id])

\* How strongly an expression holds together.
Power(n) == IF n.kind = "binary" THEN LeftPower(toks[n.op]) ELSE NotPower

\* The tree is the one the binding powers mean: an operand never holds together
\* less than the operator above it, nor as much if it is to its right, so that
\* operators of one tier associate to the left; `not` takes no operator.
BindsAsDeclared ==
  \A id \in DOMAIN nodes :
     LET n == nodes[id] IN
     /\ n.kind = "binary" =>
          /\ Power(nodes[n.parts[1]]) >= Power(n)
          /\ Power(nodes[n.parts[2]]) > Power(n)
     /\ n.kind = "not" => Power(nodes[n.parts[1]]) = NotPower

\* The commands of the pipeline are the tokens between its operators, and each
\* is joined by the operator in front of it; a result leaves no token over.
SegmentsTile ==
  /\ \A i \in DOMAIN segs :
        LET c == segs[i].cmd IN
        /\ c.from <= segs[i].to
        /\ IF i = 1 THEN c.from = 2 /\ c.op = "pipe"
                    ELSE c.from = segs[i - 1].to + 2 /\ toks[c.from - 1] = c.op
  /\ outcome.res = "ok" => segs # <<>> /\ segs[Len(segs)].to = Len(toks)

\* An option takes the literal behind its key and everything that goes on with it,
\* also when a flag and an argument were meant, and the last value of a key is
\* kept; a key with anything else behind it is a flag.  All other tokens of a
\* custom command are in its arguments.
OptionsAreGreedy ==
  \A i \in DOMAIN segs :
     LET c       == segs[i].cmd
         tokens  == c.from..segs[i].to
         keys    == {p \in tokens : toks[p - 1] = "subsub"}
         valued  == {p \in keys : p + 1 \in tokens /\ toks[p + 1] \in Literals}
         last(k) == CHOOSE p \in valued :
                      toks[p] = k /\ \A q \in valued : toks[q] = k => q <= p
     IN  c.kind = "custom" =>
           /\ c.flags = {toks[p] : p \in keys \ valued}
           /\ DOMAIN c.options = {toks[p] : p \in valued}
           /\ \A k \in DOMAIN c.options : nodes[c.options[k]].from = last(k) + 1
           /\ Ordered(c.args)
           /\ \A p \in tokens \ ({c.from} \cup keys) :
                 \/ toks[p] = "subsub"
                 \/ Within(c.args, p)
                 \/ \E k \in DOMAIN c.options : Within(<<c.options[k]>>, p)
                 \/ \E q \in valued : q < p /\ q # last(toks[q])

\* Of the fields and directions of a sort the last ones count.  A direction
\* behind a single dash is only one if no field is in front of it: otherwise it
\* is subtracted from the field.
SortTakesTheLast ==
  \A i \in DOMAIN segs :
     LET c      == segs[i].cmd
         tokens == (c.from + 1)..segs[i].to
         dirs   == {p \in tokens : /\ toks[p] \in {"asc", "desc"}
                                   /\ toks[p - 1] \in {"sub", "subsub"}
                                   /\ \A n \in DOMAIN nodes : ~ Within(<<n>>, p)}
     IN  c.kind = "sort" =>
           /\ \A p \in tokens :
                 (\A e \in DOMAIN c.args : p > nodes[c.args[e]].to) =>
                    toks[p] \in {"sub", "subsub", "asc", "desc"}
           /\ IF dirs = {} THEN c.dir = "desc"
              ELSE \E p \in dirs : c.dir = toks[p] /\ \A q \in dirs : q <= p

\* The first fault in the source is the one reported: nothing behind a fault has
\* been lexed, and no LexError is passed over.
FirstFaultWins ==
  /\ outcome.res = "err" => outcome.at = Len(toks) \/ (ended /\ outcome.at = Len(toks) + 1)
  /\ \A i \in DOMAIN toks :
        toks[i] = "lexerr" =>
           /\ i = Len(toks)
           /\ outcome # Pending => outcome.what = "Lex"
=============================================================================

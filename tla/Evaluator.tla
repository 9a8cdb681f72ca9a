------------------------------ MODULE Evaluator ------------------------------
(***************************************************************************)
(* `Evaluator::execute`: the program is parsed to a tree of pipeline nodes *)
(* and the tree is walked.  The tree is a heap of nodes the loop of        *)
(* `parse_pipeline` allocates bottom up; the walk is the recursion of      *)
(* `eval_node`, its pending calls being the frames of `stack`.  Only one   *)
(* thing is ever going on, but the walk is suspended while a handler runs, *)
(* and what the handlers have done by then cannot be undone.               *)
(***************************************************************************)
EXTENDS Commands

VARIABLES
  prog,     \* the segments the tokens spell
  heap,     \* the nodes parsed so far
  ctl,      \* what the interpreter is doing: mode, node and value
  stack,    \* the calls of eval_node that wait for a child, outermost first
  calls,    \* the calls made of handlers, in order
  outcome   \* the verdict

vars == <<prog, heap, ctl, stack, calls, outcome>>

-----------------------------------------------------------------------------
\* The nodes.  `at` is the position of the last segment a node covers: what a
\* leaf is the command of.

Leaf(k)            == [kind |-> "command", lhs |-> 0, rhs |-> 0, at |-> k]
Branch(op, l, r, k) == [kind |-> op, lhs |-> l, rhs |-> r, at |-> k]

Root   == Len(heap)
Parsed == IF heap = <<>> THEN 0 ELSE heap[Root].at
Node   == heap[ctl.node]
Cmd    == prog[Node.at].cmd

\* The calls of eval_node that are waiting: for the left child of a pipe or of
\* a concatenation, or for the right child of a concatenation ("join"), whose
\* left value is kept.
Frame(kind, rhs, v) == [kind |-> kind, rhs |-> rhs, val |-> v]
Top     == stack[Len(stack)]
Popped  == SubSeq(stack, 1, Len(stack) - 1)

Waiting(kind) == stack # <<>> /\ Top.kind = kind

Enter(mode, node, v) == ctl' = [mode |-> mode, node |-> node, val |-> v]

-----------------------------------------------------------------------------
Init ==
  /\ prog \in Programs
  /\ heap = <<>>
  /\ ctl = [mode |-> "parse", node |-> 0, val |-> NoneV]
  /\ stack = <<>>
  /\ calls = <<>>
  /\ outcome = Pending

\* An error travels through every `?` up to the caller of `execute`.
Abort(r) ==
  /\ outcome' = r
  /\ Enter("done", ctl.node, NoneV)
  /\ stack' = <<>>
  /\ UNCHANGED <<prog, heap, calls>>

\* The command in front of the loop of parse_pipeline.
ParseFirst ==
  /\ ctl.mode = "parse"
  /\ heap = <<>>
  /\ ~ IsBad(prog[1].cmd)
  /\ heap' = <<Leaf(1)>>
  /\ UNCHANGED <<prog, ctl, stack, calls, outcome>>

\* The node the loop puts over all so far and the command it has just read;
\* the mutant is given the slot behind that of the command.
OverOffByOne(k) == Branch(prog[k].op, Root, Root + 2, k)
Over(k)         == Branch(prog[k].op, Root, Root + 1, k)

\* One turn of the loop: an operator, a command, a node.
ParseOperator ==
  LET k == Parsed + 1 IN
  /\ ctl.mode = "parse"
  /\ heap # <<>>
  /\ k \in DOMAIN prog
  /\ ~ IsBad(prog[k].cmd)
  /\ heap' = heap \o <<Leaf(k), Over(k)>>
  /\ UNCHANGED <<prog, ctl, stack, calls, outcome>>

ParseFault ==
  LET k == Parsed + 1 IN
  /\ ctl.mode = "parse"
  /\ k \in DOMAIN prog
  /\ IsBad(prog[k].cmd)
  /\ Abort(StageError(prog[k].cmd))

\* No token is left.  Mutants: what is left is not looked at; the last command
\* is taken for the end.
AtEndUnchecked == heap # <<>>
AtEndOffByOne  == heap # <<>> /\ Parsed = Len(prog) - 1
AtEnd          == heap # <<>> /\ Parsed = Len(prog)

\* evaluate_ast starts at the root.
ParseEnd ==
  /\ ctl.mode = "parse"
  /\ AtEnd
  /\ Enter("eval", Root, NoneV)
  /\ UNCHANGED <<prog, heap, stack, calls, outcome>>

-----------------------------------------------------------------------------
\* eval_node at a branch: the left child first, with the input of the node.  A
\* pipe gives its input away; a concatenation keeps a clone for the right child.
FirstChildRight == Node.rhs      \* mutant
FirstChild      == Node.lhs

SuspendedAsPipe == Frame("pipe", Node.rhs, NoneV)      \* mutant
Suspended ==
  Frame(Node.kind, Node.rhs, IF Node.kind = "concat" THEN ctl.val ELSE NoneV)

EnterBranch ==
  /\ ctl.mode = "eval"
  /\ Node.kind \in {"pipe", "concat"}
  /\ stack' = Append(stack, Suspended)
  /\ Enter("eval", FirstChild, ctl.val)
  /\ UNCHANGED <<prog, heap, calls, outcome>>

AtCommand(kind) ==
  /\ ctl.mode = "eval"
  /\ Node.kind = "command"
  /\ Cmd.kind = kind

\* A command is over: its value is returned, or its error is the verdict.
Conclude(r) ==
  IF IsOk(r)
    THEN /\ Enter("return", ctl.node, r.val)
         /\ UNCHANGED <<prog, heap, stack, calls, outcome>>
    ELSE Abort(r)

RunBuiltin ==
  /\ AtCommand("builtin")
  /\ \E r \in BuiltinOutcomes(Cmd, ctl.val) : Conclude(r)

RefuseCall ==
  /\ AtCommand("custom")
  /\ \E r \in GateErrors(Cmd, ctl.val) : Abort(r)

CallHandler ==
  /\ AtCommand("custom")
  /\ Admitted(Cmd, ctl.val)
  /\ Enter("await", ctl.node, ctl.val)
  /\ calls' = Append(calls, CallOf(Node.at, Cmd, ctl.val))
  /\ UNCHANGED <<prog, heap, stack, outcome>>

\* The future of the handler is ready; only now is the type it returns checked.
HandlerReply ==
  /\ ctl.mode = "await"
  /\ \E reply \in HandlerReplies(Cmd.name, CallOf(Node.at, Cmd, ctl.val)) :
        Conclude(ReplyResult(Cmd, reply))

-----------------------------------------------------------------------------
\* eval_node coming back with a value.

\* Pipe: the value of the left child is the input of the right one.
ResumePipe ==
  /\ ctl.mode = "return"
  /\ Waiting("pipe")
  /\ Enter("eval", Top.rhs, ctl.val)
  /\ stack' = Popped
  /\ UNCHANGED <<prog, heap, calls, outcome>>

\* Concat: the right child gets the input the node itself was given, not (the
\* mutant) the value of the left child.
RightInputThreaded == ctl.val
RightInput         == Top.val

ResumeConcat ==
  /\ ctl.mode = "return"
  /\ Waiting("concat")
  /\ Enter("eval", Top.rhs, RightInput)
  /\ stack' = Append(Popped, Frame("join", Top.rhs, ctl.val))
  /\ UNCHANGED <<prog, heap, calls, outcome>>

\* Both children are done; the mutant joins them the wrong way round.
JoinedSwapped == concat_values(ctl.val, Top.val)
Joined        == concat_values(Top.val, ctl.val)

ResumeJoin ==
  /\ ctl.mode = "return"
  /\ Waiting("join")
  /\ Enter("return", ctl.node, Joined)
  /\ stack' = Popped
  /\ UNCHANGED <<prog, heap, calls, outcome>>

Finish ==
  /\ ctl.mode = "return"
  /\ stack = <<>>
  /\ outcome' = Ok(ctl.val)
  /\ Enter("done", ctl.node, NoneV)
  /\ UNCHANGED <<prog, heap, stack, calls>>

Parse == ParseFirst \/ ParseOperator \/ ParseFault \/ ParseEnd
Walk  == \/ EnterBranch
         \/ RunBuiltin \/ RefuseCall \/ CallHandler
         \/ ResumePipe \/ ResumeConcat \/ ResumeJoin \/ Finish

Next == Parse \/ Walk \/ HandlerReply

Spec == Init /\ [][Next]_vars

\* `execute` is one future: polled, it goes on until it waits for a handler,
\* and it is polled again when the handler is ready.  That every handler does
\* reply is assumed of the host program.
FairSpec == Spec /\ WF_vars(Parse \/ Walk) /\ WF_vars(HandlerReply)

-----------------------------------------------------------------------------
(***************************************************************************)
(* What holds of every run.                                                *)
(***************************************************************************)

Modes == {"parse", "eval", "await", "return", "done"}

NodeOK(id) ==
  LET n == heap[id] IN
  /\ n.kind \in {"command", "pipe", "concat"}
  /\ n.at \in DOMAIN prog
  /\ n.kind # "command" => /\ n.lhs \in 1..(id - 1)
                           /\ n.rhs \in 1..(id - 1)

\* The variables have their types: the children of a node are nodes allocated
\* before it, a frame waits to enter a node, and the walk is at a node until
\* there is a verdict.
TypeOK ==
  /\ ProgramOK(prog)
  /\ \A id \in DOMAIN heap : NodeOK(id)
  /\ ctl.mode \in Modes
  /\ ctl.mode \in {"eval", "await", "return"} => ctl.node \in DOMAIN heap
  /\ \A j \in DOMAIN stack : /\ stack[j].kind \in {"pipe", "concat", "join"}
                             /\ stack[j].rhs \in DOMAIN heap
  /\ \A i \in DOMAIN calls : calls[i].at \in DOMAIN prog
  /\ ctl.mode # "done" => outcome = Pending
  /\ ctl.mode = "done" => stack = <<>>

IsCustom(k) == prog[k].cmd.kind = "custom"

\* `execute` parses the whole program before it evaluates any of it: no
\* handler has run if there is a fault anywhere, even behind the last command.
NothingRunsUnparsed == calls # <<>> => WellFormed(prog)

\* Handlers have effects, so it matters which were called: those of a prefix
\* of the custom commands in source order, each once, and all of them when the
\* verdict is Ok.
CallsInSourceOrder ==
  /\ \A i \in DOMAIN calls :
        \A k \in DOMAIN prog :
           IsCustom(k) =>
             (k <= calls[i].at <=> \E j \in 1..i : calls[j].at = k)
  /\ \A i, j \in DOMAIN calls : i < j => calls[i].at < calls[j].at
  /\ outcome.res = "ok" =>
        \A k \in DOMAIN prog :
           IsCustom(k) => \E i \in DOMAIN calls : calls[i].at = k

\* The command behind `++` never sees what came before it: it is fed the input
\* the whole concatenation was fed, which is Value::None.
ConcatStartsFresh ==
  \A i \in DOMAIN calls :
     prog[calls[i].at].op = "concat" => calls[i].input = NoneV

\* A handler that declares what it depends on is only ever handed that, and a
\* required argument is of a type its schema accepts.
HandlerContract ==
  \A i \in DOMAIN calls :
     LET def == Registry[prog[calls[i].at].cmd.name] IN
     /\ def.depends_on # {} =>
          \E t \in def.depends_on : Matches(t, calls[i].input)
     /\ (def.arg # <<>> /\ def.arg[1].required /\ def.arg[1].accepts # {}) =>
          \E t \in def.arg[1].accepts : Matches(t, calls[i].arg)

\* What a handler finds behind `>>` is what the command in front of it
\* declared it returns, or, if that one was joined by `++`, a vector.
TypedHandoff ==
  \A i \in DOMAIN calls :
     LET k == calls[i].at IN
     k > 1 /\ prog[k].op = "pipe" =>
       CASE prog[k - 1].op = "concat" -> IsVec(calls[i].input)
         [] prog[k - 1].op = "pipe" /\ IsCustom(k - 1) ->
              Matches(Registry[prog[k - 1].cmd.name].returns, calls[i].input)
         [] OTHER -> TRUE

\* The doc of `execute`: a failure of evaluation is an EvalError.
ExecuteReturns == outcome.res # "panic"

\* A command that declares that it returns `none` may return it.
DeclaredNoneAccepted ==
  (outcome.res = "err" /\ outcome.val[1] = "UnexpectedReturnType") =>
     ~ (Registry[outcome.val[2]].returns = NoneT /\ outcome.val[3] = "null")

\* The type a mismatch says it got is not one of those it says it expected.
BlamedTypeIsWrong ==
  ( /\ outcome.res = "err"
    /\ outcome.val[1] = "TypeMismatch"
    /\ outcome.val[2] = "list or string" ) =>
     outcome.val[3] \notin {"vec", "string"}

\* Every program gets its verdict, if every handler replies.
Terminates == <>(outcome # Pending)

-----------------------------------------------------------------------------
(***************************************************************************)
(* The evaluator implements PipelineSem.  Its accumulator is the value     *)
(* being passed around, except that while the right side of `++` is        *)
(* evaluated it is the value of the left side, kept in the frame on top.   *)
(***************************************************************************)
pcBar ==
  CASE ctl.mode = "parse" -> 1
    [] ctl.mode = "eval" -> IF Node.kind = "command" THEN Node.at ELSE 1
    [] ctl.mode = "await" -> Node.at
    [] ctl.mode = "return" -> Node.at + 1
    [] ctl.mode = "done" -> 0

accBar ==
  CASE ctl.mode \in {"eval", "await"} ->
         IF Waiting("join") THEN Top.val ELSE ctl.val
    [] ctl.mode = "return" ->
         IF Waiting("join") THEN concat_values(Top.val, ctl.val) ELSE ctl.val
    [] OTHER -> NoneV

Sem == INSTANCE PipelineSem
         WITH pc <- pcBar, acc <- accBar, waiting <- (ctl.mode = "await")

\* The tree walk computes what the straight reading of the program says.
ImplementsSem == Sem!Spec

-----------------------------------------------------------------------------
(***************************************************************************)
(* Why it holds.  The tree leans to the left: the nodes of segment k+1 are *)
(* its leaf at 2k and the branch over everything up to it at 2k+1.  So the *)
(* frames below the top stand for the segments still to come, in order,    *)
(* and at most one "join" lies on top, that of the command being run.      *)
(***************************************************************************)
LeafOf(k)   == IF k = 1 THEN 1 ELSE 2 * k - 2
BranchOf(k) == 2 * k - 1

HeapIs(m) ==
  /\ Len(heap) = 2 * m - 1
  /\ DOMAIN heap = 1..(2 * m - 1)
  /\ heap[1] = Leaf(1)
  /\ \A k \in 2..m :
       /\ heap[LeafOf(k)] = Leaf(k)
       /\ heap[BranchOf(k)] =
            Branch(prog[k].op, BranchOf(k - 1), LeafOf(k), k)
       /\ prog[k].op \in {"pipe", "concat"}

\* d frames wait for the segments behind the first Len(prog) - d.
FramesAre(d) ==
  \A j \in 1..d :
     LET k == Len(prog) + 1 - j IN
     stack[j] = Frame(prog[k].op, LeafOf(k), NoneV)

\* A join for segment k is on top of the d frames.
JoinOn(d, k) ==
  /\ k > 1
  /\ prog[k].op = "concat"
  /\ Len(stack) = d + 1
  /\ stack[d + 1].kind = "join"
  /\ stack[d + 1].rhs = LeafOf(k)

ParsingInv ==
  /\ heap # <<>> => \E m \in DOMAIN prog : HeapIs(m)
  /\ \A k \in DOMAIN prog : k <= Parsed => ~ IsBad(prog[k].cmd)
  /\ ctl.val = NoneV
  /\ stack = <<>>
  /\ calls = <<>>

\* The walk goes down at the branch of segment k, is at its command, or comes
\* back from it with d segments behind it; its input is None if nothing is
\* piped into it.
AtBranch(d, k) ==
  /\ ctl.mode = "eval"
  /\ k > 1
  /\ ctl.node = BranchOf(k)
  /\ ctl.val = NoneV
  /\ Len(stack) = d

AtLeaf(d, k) ==
  /\ ctl.mode \in {"eval", "await"}
  /\ ctl.node = LeafOf(k)
  /\ k = 1 \/ prog[k].op = "concat" => ctl.val = NoneV
  /\ IF k > 1 /\ prog[k].op = "concat" THEN JoinOn(d, k) ELSE Len(stack) = d

Back(d, k) ==
  /\ ctl.mode = "return"
  /\ ctl.node = LeafOf(k)
  /\ Len(stack) = d \/ JoinOn(d, k)

WalkInv(k) ==
  LET d == Len(prog) - k IN
  /\ HeapIs(Len(prog))
  /\ WellFormed(prog)
  /\ Len(stack) >= d
  /\ FramesAre(d)
  /\ AtBranch(d, k) \/ AtLeaf(d, k) \/ Back(d, k)

\* The inductive invariant of the walk.
WalksTheTree ==
  /\ ctl.mode = "parse" => ParsingInv
  /\ ctl.mode \in {"eval", "await", "return"} =>
        \E k \in DOMAIN prog : WalkInv(k)
=============================================================================

-------------------------- MODULE RefinementProofs --------------------------
(***************************************************************************)
(* The tree walk implements PipelineSem, for every program: every step of  *)
(* Evaluator is a step of it or changes nothing that it can see.           *)
(***************************************************************************)
EXTENDS EvaluatorProofs

AtLeafNode == \/ ctl.mode = "eval" /\ Node.kind = "command"
              \/ ctl.mode = "await"

\* What the accumulator and the program counter are, at every point of the walk.
Bars ==
  /\ ctl.mode = "parse" => pcBar = 1 /\ accBar = NoneV
  /\ ctl.mode = "eval" /\ Node.kind # "command" =>
       pcBar = 1 /\ accBar = NoneV /\ ctl.val = NoneV
  /\ AtLeafNode =>
       /\ Node.at \in DOMAIN prog
       /\ WellFormed(prog)
       /\ pcBar = Node.at
       /\ IF prog[Node.at].op = "concat"
            THEN ctl.val = NoneV /\ Waiting("join") /\ accBar = Top.val
            ELSE ~ Waiting("join") /\ accBar = ctl.val
  /\ ctl.mode = "return" =>
       /\ pcBar = Node.at + 1
       /\ accBar = IF Waiting("join") THEN concat_values(Top.val, ctl.val) ELSE ctl.val
  /\ ctl.mode = "done" => pcBar = 0 /\ accBar = NoneV

\* PipelineSem is instantiated with the data of Commands: what it calls by a
\* name is what is called by that name here.
LEMMA SameData ==
  /\ Sem!NoneV = NoneV
  /\ Sem!Pending = Pending
  /\ \A v : Sem!Ok(v) = Ok(v)
  /\ \A r : Sem!IsOk(r) = IsOk(r)
  /\ \A a, b : Sem!concat_values(a, b) = concat_values(a, b)
  /\ \A c : Sem!StageError(c) = StageError(c)
  /\ \A c : Sem!IsBad(c) = IsBad(c)
  /\ Sem!WellFormed(prog) = WellFormed(prog)
  /\ Sem!FirstBad(prog) = FirstBad(prog)
<1>1. /\ Sem!NoneV = NoneV
      /\ \A r : Sem!IsOk(r) = IsOk(r)
      /\ \A c : Sem!IsBad(c) = IsBad(c)
  BY DEF Sem!NoneV, NoneV, Sem!IsOk, IsOk, Sem!IsBad, IsBad
<1>2. Sem!Pending = Pending
  BY <1>1 DEF Sem!Pending, Pending
<1>3. \A v : Sem!Ok(v) = Ok(v)
  BY DEF Sem!Ok, Ok
<1>4. \A a, b : Sem!concat_values(a, b) = concat_values(a, b)
  BY DEF Sem!concat_values, concat_values, Sem!VecV, VecV, Sem!AsSeq, AsSeq,
         Sem!IsVec, IsVec, Sem!Tag, Tag, Sem!Payload, Payload
<1>5. \A c : Sem!StageError(c) = StageError(c)
  BY DEF Sem!StageError, StageError, Sem!Err, Err
<1>6. Sem!WellFormed(prog) = WellFormed(prog)
  BY DEF Sem!WellFormed, WellFormed, Sem!IsBad, IsBad
<1>7. Sem!FirstBad(prog) = FirstBad(prog)
  BY DEF Sem!FirstBad, FirstBad, Sem!IsBad, IsBad
<1> QED
  BY <1>1, <1>2, <1>3, <1>4, <1>5, <1>6, <1>7

\* The gates of `eval_custom` are those of `Commands` in the instance as well.
LEMMA SameGates ==
  /\ \A c, v : Sem!GateErrors(c, v) = GateErrors(c, v)
  /\ \A c, v : Sem!Admitted(c, v) = Admitted(c, v)
<1>1. \A c, v : Sem!ArgResult(c, v) = ArgResult(c, v)
  BY DEF Sem!ArgResult, ArgResult, Sem!Ok, Ok, Sem!NoneV, NoneV
<1>2. \A c, v : Sem!OptionFailures(c, v) = OptionFailures(c, v)
  BY DEF Sem!OptionFailures, OptionFailures, Sem!IsOk, IsOk
<1>3. \A v : Sem!type_name(v) = type_name(v)
  BY DEF Sem!type_name, type_name, Sem!TypeNames, TypeNames, Sem!Tag, Tag
<1>4. \A c : Sem!Known(c) = Known(c)
  BY DEF Sem!Known, Known
<1>5. /\ \A def, v : Sem!WrongInput(def, v) = WrongInput(def, v)
      /\ \A def, v : Sem!WrongArg(def, v) = WrongArg(def, v)
  BY DEF Sem!WrongInput, WrongInput, Sem!WrongArg, WrongArg
<1>6. /\ \A c : Sem!UnknownCommand(c) = UnknownCommand(c)
      /\ \A c, t : Sem!UnexpectedInputType(c, t) = UnexpectedInputType(c, t)
      /\ \A c, t : Sem!UnexpectedArgumentType(c, t) = UnexpectedArgumentType(c, t)
      /\ \A r : Sem!IsOk(r) = IsOk(r)
  BY DEF Sem!UnknownCommand, UnknownCommand, Sem!UnexpectedInputType, UnexpectedInputType,
         Sem!UnexpectedArgumentType, UnexpectedArgumentType, Sem!Err, Err, Sem!IsOk, IsOk
<1>7. \A c, v : Sem!GateErrors(c, v) = GateErrors(c, v)
  BY <1>1, <1>2, <1>3, <1>4, <1>5, <1>6 DEF Sem!GateErrors, GateErrors
<1> QED
  BY <1>7 DEF Sem!Admitted, Admitted

\* What a handler is given and what becomes of its reply are the same in the instance.
LEMMA SameCalls ==
  /\ \A k, c, v : Sem!CallOf(k, c, v) = CallOf(k, c, v)
  /\ \A c, r : Sem!ReplyResult(c, r) = ReplyResult(c, r)
<1>1. \A c, v : Sem!ArgResult(c, v) = ArgResult(c, v)
  BY DEF Sem!ArgResult, ArgResult, Sem!Ok, Ok, Sem!NoneV, NoneV
<1>2. \A v : Sem!type_name(v) = type_name(v)
  BY DEF Sem!type_name, type_name, Sem!TypeNames, TypeNames, Sem!Tag, Tag
<1>3. /\ \A c, t : Sem!UnexpectedReturnType(c, t) = UnexpectedReturnType(c, t)
      /\ \A r : Sem!IsOk(r) = IsOk(r)
  BY DEF Sem!UnexpectedReturnType, UnexpectedReturnType, Sem!Err, Err, Sem!IsOk, IsOk
<1> QED
  BY <1>1, <1>2, <1>3 DEF Sem!CallOf, CallOf, Sem!ReplyResult, ReplyResult

-----------------------------------------------------------------------------
\* A stack of frames that wait for segments has no join on top.
LEMMA NoJoin ==
  ASSUME prog \in Programs, IsSeq(stack), NEW k \in 1..Len(prog),
         FramesAre(Len(prog) - k), Len(stack) = Len(prog) - k
  PROVE  ~ Waiting("join")
<1> SUFFICES ASSUME stack # <<>> PROVE Top.kind # "join"
  BY DEF Waiting
<1> DEFINE n == Len(prog)
           d == n - k
<1>1. n \in Nat /\ d \in Nat \ {0}
  BY ProgramFacts, SeqFacts
<1>2. d \in 1..d /\ n + 1 - d = k + 1 /\ k + 1 \in 1..n
  BY <1>1
<1>3. stack[d] = Frame(prog[k + 1].op, LeafOf(k + 1), NoneV)
  BY <1>2 DEF FramesAre
<1>4. prog[k + 1].op \in {"pipe", "concat"}
  BY <1>2, ProgramFacts
<1> QED
  BY <1>3, <1>4 DEF Top, Frame

\* It follows from where the walk is.
LEMMA BarsHold == WalkInvariant => Bars
<1> SUFFICES ASSUME WalkInvariant PROVE Bars
  OBVIOUS
<1>1. prog \in Programs /\ IsSeq(stack)
  BY DEF WalkInvariant
<1>2. ctl.mode = "parse" => pcBar = 1 /\ accBar = NoneV
  BY DEF pcBar, accBar
<1>3. ASSUME ctl.mode = "eval", Node.kind # "command"
      PROVE  pcBar = 1 /\ accBar = NoneV /\ ctl.val = NoneV
  <2>1. PICK k \in 1..Len(prog) : WalkInv(k)
    BY <1>3, WalkFacts
  <2>2. AtBranch(Len(prog) - k, k)
    <3>1. HeapIs(Len(prog)) /\ Len(prog) \in Nat
      BY <1>1, <2>1, ProgramFacts DEF WalkInv
    <3>2. ctl.node # LeafOf(k)
      BY <1>3, <3>1, LeafNode DEF Node
    <3> QED
      BY <2>1, <3>2 DEF WalkInv, AtLeaf, Back
  <2>3. ~ Waiting("join")
    BY <1>1, <2>1, <2>2, NoJoin DEF WalkInv, AtBranch
  <2> QED
    BY <1>3, <2>2, <2>3 DEF pcBar, accBar, AtBranch
<1>4. ASSUME AtLeafNode
      PROVE  /\ Node.at \in DOMAIN prog
             /\ WellFormed(prog)
             /\ pcBar = Node.at
             /\ IF prog[Node.at].op = "concat"
                  THEN ctl.val = NoneV /\ Waiting("join") /\ accBar = Top.val
                  ELSE ~ Waiting("join") /\ accBar = ctl.val
  <2>1. PICK k \in 1..Len(prog) : /\ k \in DOMAIN prog
                                  /\ WalkInv(k)
                                  /\ AtLeaf(Len(prog) - k, k)
                                  /\ Node.at = k
    BY <1>4, AtCommandFacts DEF AtLeafNode
  <2>2. WellFormed(prog) /\ FramesAre(Len(prog) - k)
    BY <2>1 DEF WalkInv
  <2>3. pcBar = k
    BY <1>4, <2>1 DEF pcBar, AtLeafNode
  <2>4. CASE prog[k].op = "concat"
    <3>1. k > 1
      BY <1>1, <2>4, ProgramFacts
    <3>2. JoinOn(Len(prog) - k, k) /\ ctl.val = NoneV
      BY <2>1, <2>4, <3>1 DEF AtLeaf
    <3>3. Len(prog) - k \in Nat
      BY <1>1, ProgramFacts
    <3>4. Waiting("join")
      BY <1>1, <3>2, <3>3, SeqFacts DEF JoinOn, Waiting, Top
    <3>5. accBar = Top.val
      BY <1>4, <3>4 DEF accBar, AtLeafNode
    <3> QED
      BY <2>1, <2>2, <2>3, <2>4, <3>2, <3>4, <3>5
  <2>5. CASE prog[k].op # "concat"
    <3>1. ~ Waiting("join")
      BY <1>1, <2>1, <2>2, <2>5, NoJoin DEF AtLeaf
    <3>2. accBar = ctl.val
      BY <1>4, <3>1 DEF accBar, AtLeafNode
    <3> QED
      BY <2>1, <2>2, <2>3, <2>5, <3>1, <3>2
  <2> QED
    BY <2>4, <2>5
<1>5. ctl.mode = "return" =>
        /\ pcBar = Node.at + 1
        /\ accBar = IF Waiting("join") THEN concat_values(Top.val, ctl.val) ELSE ctl.val
  BY DEF pcBar, accBar
<1>6. ctl.mode = "done" => pcBar = 0 /\ accBar = NoneV
  BY DEF pcBar, accBar
<1> QED
  BY <1>2, <1>3, <1>4, <1>5, <1>6 DEF Bars

-----------------------------------------------------------------------------
\* A verdict of the walk is a verdict of PipelineSem.
LEMMA AbortMaps ==
  ASSUME Bars', NEW r, Abort(r)
  PROVE  Sem!Verdict(r) /\ UNCHANGED <<prog, calls>> /\ ctl'.mode = "done"
<1>1. ctl'.mode = "done" /\ outcome' = r /\ UNCHANGED <<prog, calls>>
  BY DEF Abort, Enter
<1>2. pcBar' = 0 /\ accBar' = NoneV
  BY <1>1 DEF Bars
<1> QED
  BY <1>1, <1>2, SameData DEF Sem!Verdict

\* The result of a command is the result of its segment.
LEMMA ConcludeMaps ==
  ASSUME Bars, Bars', NEW r, Conclude(r), AtLeafNode
  PROVE  /\ Sem!Conclude(r)
         /\ UNCHANGED <<prog, calls>>
         /\ ctl'.mode # "await"
<1>1. CASE ~ IsOk(r)
  BY <1>1, AbortMaps, SameData DEF Conclude, Sem!Conclude
<1>2. CASE IsOk(r)
  <2>1. /\ UNCHANGED <<prog, heap, stack, calls, outcome>>
        /\ ctl' = [mode |-> "return", node |-> ctl.node, val |-> r.val]
    BY <1>2 DEF Conclude, Enter
  <2>2. /\ Node' = Node
        /\ Top' = Top
        /\ Waiting("join")' = Waiting("join")
    BY <2>1 DEF Node, Top, Waiting
  <2>3. /\ pcBar' = Node.at + 1
        /\ accBar' = IF Waiting("join") THEN concat_values(Top.val, r.val) ELSE r.val
    BY <2>1, <2>2 DEF Bars
  <2>4. /\ pcBar = Node.at
        /\ IF prog[Node.at].op = "concat"
             THEN Waiting("join") /\ accBar = Top.val
             ELSE ~ Waiting("join")
    BY DEF Bars
  <2> QED
    BY <1>2, <2>1, <2>3, <2>4, SameData DEF Sem!Conclude
<1> QED
  BY <1>1, <1>2

\* At a command the walk and PipelineSem agree on the command and its input.
LEMMA FeedMaps ==
  ASSUME Bars, AtLeafNode
  PROVE  /\ Sem!Cmd = Cmd
         /\ Sem!Feed = ctl.val
         /\ pcBar = Node.at
         /\ ctl.mode = "eval" => Sem!Running
BY SameData DEF Bars, AtLeafNode, Sem!Cmd, Sem!Feed, Sem!Running, Cmd

\* Parsing and the way down to the first command are not seen.
LEMMA DescentMaps ==
  ASSUME WalkInvariant, Bars, Bars',
         ParseFirst \/ ParseOperator \/ ParseEnd \/ EnterBranch
  PROVE  UNCHANGED Sem!vars
<1>1. /\ UNCHANGED <<prog, calls, outcome>>
      /\ ctl.mode \in {"parse", "eval"} /\ ctl'.mode \in {"parse", "eval"}
  BY DEF ParseFirst, ParseOperator, ParseEnd, EnterBranch, Enter
<1>2. pcBar = 1 /\ accBar = NoneV
  BY DEF Bars, ParseFirst, ParseOperator, ParseEnd, EnterBranch
<1>3. pcBar' = 1 /\ accBar' = NoneV
  <2>1. CASE ctl'.mode = "parse"
    BY <2>1 DEF Bars
  <2>2. CASE ctl'.mode = "eval"
    <3>1. /\ UNCHANGED heap
          /\ ctl'.val = NoneV
          /\ \E k \in 1..Len(prog) : HeapIs(Len(prog)) /\ ctl'.node = BranchOf(k)
      <4>1. CASE ParseEnd
        <5>1. PICK m \in DOMAIN prog : HeapIs(m)
          BY <4>1 DEF ParseEnd, AtEnd, WalkInvariant, WalksTheTree, ParsingInv
        <5>2. Len(prog) \in Nat \ {0} /\ DOMAIN prog = 1..Len(prog)
          BY ProgramFacts DEF WalkInvariant
        <5>3. m = Len(prog) /\ Root = BranchOf(Len(prog))
          BY <4>1, <5>1, <5>2, RootNode DEF ParseEnd, AtEnd
        <5> QED
          BY <4>1, <5>1, <5>2, <5>3 DEF ParseEnd, Enter
      <4>2. CASE EnterBranch
        <5>1. PICK k \in 1..Len(prog) : WalkInv(k)
          BY <4>2, WalkFacts DEF EnterBranch
        <5>2. HeapIs(Len(prog)) /\ Node.kind # "command" /\ Len(prog) \in Nat
          BY <4>2, <5>1, ProgramFacts DEF WalkInv, EnterBranch, WalkInvariant
        <5>3. ctl.node # LeafOf(k)
          BY <5>1, <5>2, LeafNode DEF Node
        <5>4. k \in 2..Len(prog) /\ ctl.node = BranchOf(k)
          BY <5>1, <5>2, <5>3 DEF WalkInv, AtBranch, AtLeaf, Back
        <5>5. Node.lhs = BranchOf(k - 1) /\ k - 1 \in 1..Len(prog)
          BY <5>2, <5>4, BranchNode DEF Node
        <5>6. ctl.val = NoneV
          BY <4>2, <5>2 DEF Bars, EnterBranch
        <5> QED
          BY <4>2, <5>2, <5>5, <5>6 DEF EnterBranch, FirstChild, Enter
      <4>3. CASE ParseFirst \/ ParseOperator
        BY <2>2, <4>3 DEF ParseFirst, ParseOperator
      <4> QED
        BY <4>1, <4>2, <4>3
    <3>2. PICK k \in 1..Len(prog) : HeapIs(Len(prog)) /\ ctl'.node = BranchOf(k)
      BY <3>1
    <3>3. Node' = heap[BranchOf(k)]
      BY <3>1, <3>2 DEF Node
    <3>4. CASE k = 1
      <4>1. Node'.kind = "command" /\ Node'.at = 1
        <5>1. prog \in Programs
          BY DEF WalkInvariant
        <5>2. Len(prog) \in Nat /\ 1 \in 1..Len(prog)
          BY <5>1, ProgramFacts
        <5>3. BranchOf(k) = LeafOf(1)
          BY <3>4 DEF LeafOf, BranchOf
        <5> QED
          BY <3>2, <3>3, <5>2, <5>3, LeafNode
      <4>2. prog'[1].op = "pipe"
        BY <1>1, ProgramFacts DEF WalkInvariant
      <4> QED
        BY <2>2, <3>1, <4>1, <4>2 DEF Bars, AtLeafNode
    <3>5. CASE k # 1
      <4>1. k \in 2..Len(prog) /\ Len(prog) \in Nat
        BY <3>5, ProgramFacts DEF WalkInvariant
      <4>2. Node'.kind # "command"
        BY <3>2, <3>3, <4>1, BranchNode
      <4> QED
        BY <2>2, <4>2 DEF Bars
    <3> QED
      BY <3>4, <3>5
  <2> QED
    BY <1>1, <2>1, <2>2
<1> QED
  BY <1>1, <1>2, <1>3 DEF Sem!vars

\* Neither is the way back.
LEMMA ResumeMaps ==
  ASSUME WalkInvariant, Bars, WalkInvariant', Bars',
         ResumePipe \/ ResumeConcat \/ ResumeJoin
  PROVE  UNCHANGED Sem!vars
<1>1. /\ UNCHANGED <<prog, heap, calls, outcome>>
      /\ ctl.mode = "return" /\ stack # <<>>
      /\ ctl'.mode \in {"eval", "return"}
  BY DEF ResumePipe, ResumeConcat, ResumeJoin, Enter, Waiting
<1>2. PICK k \in 1..Len(prog) :
             /\ WalkInv(k)
             /\ ctl.node = LeafOf(k)
             /\ IsSeq(Popped)
             /\ Len(Popped) = Len(stack) - 1
             /\ \/ Top.kind = "join" /\ Len(stack) = Len(prog) - k + 1
                \/ /\ k + 1 \in DOMAIN prog
                   /\ Top.kind = prog[k + 1].op
                   /\ Top.rhs = LeafOf(k + 1)
  BY <1>1, ResumeFacts
<1>3. Len(prog) \in Nat /\ DOMAIN prog = 1..Len(prog) /\ HeapIs(Len(prog))
  BY <1>2, ProgramFacts DEF WalkInv, WalkInvariant
<1>4. Node.at = k /\ pcBar = k + 1
  BY <1>1, <1>2, <1>3, LeafNode DEF Bars, Node
<1>5. CASE ResumeJoin
  <2>1. /\ ctl' = [mode |-> "return", node |-> ctl.node, val |-> Joined]
        /\ stack' = Popped
        /\ Waiting("join")
    BY <1>5 DEF ResumeJoin, Enter
  <2>2. Node' = Node /\ pcBar' = k + 1
    BY <1>1, <1>4, <2>1 DEF Node, Bars
  <2>3. ~ Waiting("join")'
    <3>1. Len(stack') = Len(prog) - k /\ FramesAre(Len(prog) - k)
      BY <1>2, <1>3, <2>1, ProgramFacts DEF WalkInv, Waiting, WalkInvariant
    <3>2. ASSUME stack' # <<>> PROVE Top'.kind # "join"
      <4> DEFINE d == Len(prog) - k
      <4>1. d \in Nat \ {0} /\ d \in 1..d /\ Len(prog) + 1 - d = k + 1 /\ k + 1 \in DOMAIN prog
        <5>1. d \in Int /\ Len(stack') = d
          BY <1>3, <3>1
        <5>2. stack' = Popped /\ IsSeq(stack')
          BY <1>2, <2>1
        <5>3. Len(stack') \in Nat \ {0}
          BY <3>2, <5>2, SeqFacts
        <5>4. d \in Nat \ {0}
          BY <5>1, <5>3
        <5>5. k \in 1..Len(prog) /\ Len(prog) \in Nat /\ DOMAIN prog = 1..Len(prog)
          BY <1>2, <1>3
        <5>6. k \in Int /\ Len(prog) + 1 - d = k + 1 /\ k + 1 = Len(prog) - (d - 1)
          BY <5>5
        <5> HIDE DEF d
        <5>7. d \in 1..d /\ d - 1 \in Nat
          BY <5>4
        <5>8. k + 1 \in 1..Len(prog)
          BY <5>5, <5>6, <5>7
        <5> QED
          BY <5>4, <5>5, <5>6, <5>7, <5>8
      <4>2. stack[d] = Frame(prog[k + 1].op, LeafOf(k + 1), NoneV)
        BY <3>1, <4>1 DEF FramesAre
      <4>3. Popped[d] = stack[d]
        BY <1>1, <1>2, <2>1, <3>1, <4>1, PopFacts DEF WalkInvariant, Popped
      <4>4. prog[k + 1].op \in {"pipe", "concat"}
        BY <4>1, <1>3, ProgramFacts DEF WalkInvariant
      <4> QED
        BY <2>1, <3>1, <4>2, <4>3, <4>4 DEF Top, Frame
    <3> QED
      BY <3>2 DEF Waiting
  <2>4. accBar' = Joined
    BY <2>1, <2>3 DEF Bars
  <2>5. accBar = Joined
    BY <1>1, <2>1 DEF Bars, Joined
  <2> QED
    BY <1>1, <1>4, <2>1, <2>2, <2>4, <2>5 DEF Sem!vars
<1>6. CASE ResumePipe \/ ResumeConcat
  <2>1. /\ Top.kind \in {"pipe", "concat"}
        /\ ~ Waiting("join")
        /\ ctl'.mode = "eval"
        /\ ctl'.node = Top.rhs
    BY <1>6 DEF ResumePipe, ResumeConcat, Enter, Waiting
  <2>2. /\ k + 1 \in 1..Len(prog)
        /\ Top.kind = prog[k + 1].op
        /\ ctl'.node = LeafOf(k + 1)
    BY <1>2, <1>3, <2>1
  <2>3. Node'.kind = "command" /\ Node'.at = k + 1
    BY <1>1, <1>3, <2>2, LeafNode DEF Node
  <2>4. AtLeafNode'
    BY <2>1, <2>3 DEF AtLeafNode
  <2>5. pcBar' = k + 1
    BY <2>3, <2>4 DEF Bars
  <2>6. accBar = ctl.val
    BY <1>1, <2>1 DEF Bars
  <2>7. accBar' = ctl.val
    <3>1. CASE ResumePipe
      <4>1. ctl'.val = ctl.val /\ prog'[Node'.at].op = "pipe"
        BY <1>1, <2>2, <2>3, <3>1 DEF ResumePipe, Enter, Waiting
      <4> QED
        BY <2>4, <4>1 DEF Bars
    <3>2. CASE ResumeConcat
      <4>1. prog'[Node'.at].op = "concat"
        BY <1>1, <2>2, <2>3, <3>2 DEF ResumeConcat, Waiting
      <4>2. Top'.val = ctl.val
        <5>1. /\ Len(Append(Popped, Frame("join", Top.rhs, ctl.val))) = Len(Popped) + 1
              /\ Append(Popped, Frame("join", Top.rhs, ctl.val))[Len(Popped) + 1]
                   = Frame("join", Top.rhs, ctl.val)
          BY <1>2, AppendFacts
        <5> QED
          BY <3>2, <5>1 DEF ResumeConcat, Top, Frame
      <4> QED
        BY <2>4, <4>1, <4>2 DEF Bars
    <3> QED
      BY <1>6, <3>1, <3>2
  <2> QED
    BY <1>1, <1>4, <2>1, <2>5, <2>6, <2>7 DEF Sem!vars
<1> QED
  BY <1>5, <1>6

-----------------------------------------------------------------------------
\* A step that is seen.  Nothing is parsed, nothing has run.
LEMMA InitMaps == Init => Sem!Init
<1> SUFFICES ASSUME Init PROVE Sem!Init
  OBVIOUS
<1>1. ctl.mode = "parse"
  BY DEF Init
<1>2. pcBar = 1 /\ accBar = NoneV
  BY <1>1 DEF pcBar, accBar
<1>3. prog \in Programs /\ calls = <<>> /\ outcome = Pending
  BY DEF Init
<1> QED
  BY <1>1, <1>2, <1>3, SameData DEF Sem!Init

\* The parser stops at the first fault.
LEMMA RejectMaps ==
  ASSUME WalkInvariant, Bars, Bars', ParseFault
  PROVE  Sem!Reject
<1> DEFINE k == Parsed + 1
<1>1. k \in DOMAIN prog /\ IsBad(prog[k].cmd) /\ Abort(StageError(prog[k].cmd))
  BY DEF ParseFault
<1>2. ctl.mode = "parse" /\ ParsingInv
  BY DEF ParseFault, WalkInvariant, WalksTheTree
<1>3. \A j \in DOMAIN prog : j <= Parsed => ~ IsBad(prog[j].cmd)
  BY <1>2 DEF ParsingInv
<1>4. prog \in Programs
  BY DEF WalkInvariant
<1>5. DOMAIN prog = 1..Len(prog) /\ Len(prog) \in Nat
  BY <1>4, ProgramFacts
<1>6. Parsed \in Int
  <2>1. CASE heap = <<>>
    BY <2>1 DEF Parsed
  <2>2. CASE heap # <<>>
    <3>1. PICK m \in DOMAIN prog : HeapIs(m)
      BY <1>2, <2>2 DEF ParsingInv
    <3> QED
      BY <1>5, <3>1, RootNode
  <2> QED
    BY <2>1, <2>2
<1>7. \A j \in DOMAIN prog : j < k => ~ IsBad(prog[j].cmd)
  BY <1>3, <1>5, <1>6
<1>8. FirstBad(prog) = k
  <2>1. ASSUME NEW j \in DOMAIN prog, IsBad(prog[j].cmd),
               \A i \in DOMAIN prog : i < j => ~ IsBad(prog[i].cmd)
        PROVE  j = k
    BY <1>1, <1>5, <1>7, <2>1
  <2> QED
    BY <1>1, <1>7, <2>1 DEF FirstBad
<1>9. ~ WellFormed(prog)
  BY <1>1 DEF WellFormed
<1>10. pcBar = 1
  BY <1>2 DEF Bars
<1>11. /\ Sem!Verdict(StageError(prog[k].cmd))
       /\ UNCHANGED <<prog, calls>>
       /\ ctl'.mode = "done"
  BY <1>1, AbortMaps
<1> QED
  BY <1>2, <1>8, <1>9, <1>10, <1>11, SameData DEF Sem!Reject

\* A builtin.
LEMMA BuiltinMaps ==
  ASSUME Bars, Bars', RunBuiltin
  PROVE  Sem!RunBuiltin
<1>1. ctl.mode = "eval" /\ Node.kind = "command" /\ Cmd.kind = "builtin"
  BY DEF RunBuiltin, AtCommand
<1>2. AtLeafNode
  BY <1>1 DEF AtLeafNode
<1>3. Sem!Cmd = Cmd /\ Sem!Feed = ctl.val /\ Sem!Running
  BY <1>1, <1>2, FeedMaps
<1>4. PICK r \in BuiltinOutcomes(Cmd, ctl.val) : Conclude(r)
  BY DEF RunBuiltin
<1>5. Sem!Conclude(r) /\ UNCHANGED <<prog, calls>> /\ ctl'.mode # "await"
  BY <1>2, <1>4, ConcludeMaps
<1> QED
  BY <1>1, <1>3, <1>4, <1>5 DEF Sem!RunBuiltin

\* A command that is refused by a gate.
LEMMA RefuseMaps ==
  ASSUME Bars, Bars', RefuseCall
  PROVE  Sem!Refuse
<1>1. ctl.mode = "eval" /\ Node.kind = "command" /\ Cmd.kind = "custom"
  BY DEF RefuseCall, AtCommand
<1>2. AtLeafNode
  BY <1>1 DEF AtLeafNode
<1>3. Sem!Cmd = Cmd /\ Sem!Feed = ctl.val /\ Sem!Running
  BY <1>1, <1>2, FeedMaps
<1>4. PICK r \in GateErrors(Cmd, ctl.val) : Abort(r)
  BY DEF RefuseCall
<1>5. Sem!Verdict(r) /\ UNCHANGED <<prog, calls>> /\ ctl'.mode = "done"
  BY <1>4, AbortMaps
<1>6. r \in Sem!GateErrors(Sem!Cmd, Sem!Feed)
  BY <1>3, <1>4, SameGates
<1> QED
  BY <1>1, <1>3, <1>5, <1>6 DEF Sem!Refuse

\* The call of a handler.
LEMMA CallMaps ==
  ASSUME Bars, Bars', CallHandler
  PROVE  Sem!Call
<1>1. ctl.mode = "eval" /\ Node.kind = "command" /\ Cmd.kind = "custom"
  BY DEF CallHandler, AtCommand
<1>2. AtLeafNode
  BY <1>1 DEF AtLeafNode
<1>3. Sem!Cmd = Cmd /\ Sem!Feed = ctl.val /\ Sem!Running /\ pcBar = Node.at
  BY <1>1, <1>2, FeedMaps
<1>4. /\ Admitted(Cmd, ctl.val)
      /\ calls' = Append(calls, CallOf(Node.at, Cmd, ctl.val))
      /\ ctl' = [mode |-> "await", node |-> ctl.node, val |-> ctl.val]
      /\ UNCHANGED <<prog, heap, stack, outcome>>
  BY DEF CallHandler, Enter
<1>5. Sem!Admitted(Sem!Cmd, Sem!Feed)
  BY <1>3, <1>4, SameGates
<1>6. calls' = Append(calls, Sem!CallOf(pcBar, Sem!Cmd, Sem!Feed))
  BY <1>3, <1>4, SameCalls
<1>7. pcBar' = pcBar
  <2>1. Node' = Node /\ ctl'.mode = "await"
    BY <1>4 DEF Node
  <2>2. AtLeafNode'
    BY <2>1 DEF AtLeafNode
  <2> QED
    BY <1>3, <2>1, <2>2 DEF Bars
<1>8. accBar' = accBar
  <2>1. /\ Top' = Top
        /\ Waiting("join")' = Waiting("join")
        /\ ctl'.mode = "await" /\ ctl'.val = ctl.val
    BY <1>4 DEF Top, Waiting
  <2> QED
    BY <1>1, <2>1 DEF accBar
<1> QED
  BY <1>1, <1>3, <1>4, <1>5, <1>6, <1>7, <1>8 DEF Sem!Call

\* The reply of a handler.
LEMMA ReplyMaps ==
  ASSUME Bars, Bars', HandlerReply
  PROVE  Sem!Reply
<1>1. ctl.mode = "await" /\ AtLeafNode
  BY DEF HandlerReply, AtLeafNode
<1>2. Sem!Cmd = Cmd /\ Sem!Feed = ctl.val /\ pcBar = Node.at
  BY <1>1, FeedMaps
<1>3. PICK reply \in HandlerReplies(Cmd.name, CallOf(Node.at, Cmd, ctl.val)) :
             Conclude(ReplyResult(Cmd, reply))
  BY DEF HandlerReply
<1>4. /\ Sem!Conclude(ReplyResult(Cmd, reply))
      /\ UNCHANGED <<prog, calls>>
      /\ ctl'.mode # "await"
  BY <1>1, <1>3, ConcludeMaps
<1>5. reply \in HandlerReplies(Sem!Cmd.name, Sem!CallOf(pcBar, Sem!Cmd, Sem!Feed))
  BY <1>2, <1>3, SameCalls
<1>6. Sem!Conclude(Sem!ReplyResult(Sem!Cmd, reply))
  BY <1>2, <1>4, SameCalls
<1> QED
  BY <1>1, <1>4, <1>5, <1>6 DEF Sem!Reply

\* The value of the last segment is the verdict.
LEMMA FinishMaps ==
  ASSUME WalkInvariant, Bars, Bars', Finish
  PROVE  Sem!Finish
<1>1. /\ ctl.mode = "return"
      /\ stack = <<>>
      /\ outcome' = Ok(ctl.val)
      /\ ctl' = [mode |-> "done", node |-> ctl.node, val |-> NoneV]
      /\ UNCHANGED <<prog, calls>>
  BY DEF Finish, Enter
<1>2. PICK k \in 1..Len(prog) : WalkInv(k) /\ Len(prog) - k \in Nat
  BY <1>1, WalkFacts
<1>3. Len(prog) \in Nat /\ HeapIs(Len(prog))
  BY <1>2, ProgramFacts DEF WalkInv, WalkInvariant
<1>4. Back(Len(prog) - k, k) /\ Len(stack) >= Len(prog) - k
  BY <1>1, <1>2 DEF WalkInv, AtBranch, AtLeaf
<1>5. k = Len(prog)
  BY <1>1, <1>2, <1>3, <1>4
<1>6. Node.at = k
  BY <1>3, <1>4, LeafNode DEF Back, Node
<1>7. pcBar = Len(prog) + 1 /\ accBar = ctl.val
  BY <1>1, <1>5, <1>6 DEF Bars, Waiting
<1>8. pcBar' = 0 /\ accBar' = NoneV
  BY <1>1 DEF Bars
<1> QED
  BY <1>1, <1>7, <1>8, SameData DEF Sem!Finish, Sem!Verdict

\* Every step of the walk is a step of PipelineSem or is not seen.
LEMMA StepMaps ==
  WalkInvariant /\ Bars /\ WalkInvariant' /\ Bars' /\ [Next]_vars
    => [Sem!Next]_Sem!vars
<1> SUFFICES ASSUME WalkInvariant, Bars, WalkInvariant', Bars', [Next]_vars
             PROVE  Sem!Next \/ UNCHANGED Sem!vars
  OBVIOUS
<1>1. CASE ParseFirst \/ ParseOperator \/ ParseEnd \/ EnterBranch
  BY <1>1, DescentMaps
<1>2. CASE ParseFault
  BY <1>2, RejectMaps DEF Sem!Next
<1>3. CASE RunBuiltin
  BY <1>3, BuiltinMaps DEF Sem!Next
<1>4. CASE RefuseCall
  BY <1>4, RefuseMaps DEF Sem!Next
<1>5. CASE CallHandler
  BY <1>5, CallMaps DEF Sem!Next
<1>6. CASE HandlerReply
  BY <1>6, ReplyMaps DEF Sem!Next
<1>7. CASE ResumePipe \/ ResumeConcat \/ ResumeJoin
  BY <1>7, ResumeMaps
<1>8. CASE Finish
  BY <1>8, FinishMaps DEF Sem!Next
<1>9. CASE UNCHANGED vars
  BY <1>9 DEF vars, Sem!vars, pcBar, accBar, Node, Top, Waiting
<1> QED
  BY <1>1, <1>2, <1>3, <1>4, <1>5, <1>6, <1>7, <1>8, <1>9 DEF Next, Parse, Walk

\* The tree walk of `execute` computes what the straight reading of the program
\* from left to right says, and calls the same handlers with the same data.
THEOREM Refinement == Spec => ImplementsSem
<1>1. Init => Sem!Init
  BY InitMaps
<1>2. WalkInvariant => Bars
  BY BarsHold
<1>3. WalkInvariant /\ Bars /\ WalkInvariant' /\ Bars' /\ [Next]_vars
        => [Sem!Next]_Sem!vars
  BY StepMaps
<1>4. Spec => []WalkInvariant
  BY TreeWalk
<1> QED
  BY <1>1, <1>2, <1>3, <1>4, PTL DEF Spec, ImplementsSem, Sem!Spec
=============================================================================

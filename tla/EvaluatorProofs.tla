--------------------------- MODULE EvaluatorProofs ---------------------------
(***************************************************************************)
(* Proofs about Evaluator, for every registry, every set of programs and   *)
(* whatever expressions, builtins and handlers do.                         *)
(***************************************************************************)
EXTENDS Evaluator, UntypedSeqs, TLAPS

\* The invariant the others follow from.  WalksTheTree is what TLC checks; the
\* rest says that the variables hold sequences.
WalkInvariant ==
  /\ prog \in Programs
  /\ IsSeq(heap)
  /\ IsSeq(stack)
  /\ IsSeq(calls)
  /\ ctl.mode \in Modes
  /\ WalksTheTree

\* What the assumption on programs says of this one.
LEMMA ProgramFacts ==
  ASSUME prog \in Programs
  PROVE  /\ Len(prog) \in Nat \ {0}
         /\ DOMAIN prog = 1..Len(prog)
         /\ prog[1].op = "pipe"
         /\ \A k \in 1..Len(prog) : /\ prog[k].op \in {"pipe", "concat"}
                                    /\ prog[k].cmd.kind \in {"builtin", "custom", "bad"}
BY ProgramsAssumption DEF ProgramOK

\* The node of a command, in a tree of m of them.
LEMMA LeafNode ==
  ASSUME NEW m \in Nat, HeapIs(m), NEW k \in 1..m
  PROVE  /\ LeafOf(k) \in DOMAIN heap
         /\ LeafOf(k) \in Int
         /\ heap[LeafOf(k)] = Leaf(k)
         /\ heap[LeafOf(k)].kind = "command"
         /\ heap[LeafOf(k)].at = k
<1>1. heap[LeafOf(k)] = Leaf(k)
  BY DEF HeapIs, LeafOf
<1>2. LeafOf(k) \in Int /\ LeafOf(k) \in DOMAIN heap
  BY DEF HeapIs, LeafOf
<1> QED
  BY <1>1, <1>2 DEF Leaf

\* The branch over the first k commands.
LEMMA BranchNode ==
  ASSUME NEW m \in Nat, HeapIs(m), NEW k \in 2..m
  PROVE  LET n == heap[BranchOf(k)] IN
         /\ BranchOf(k) \in DOMAIN heap
         /\ n.kind = prog[k].op
         /\ n.kind \in {"pipe", "concat"}
         /\ n.lhs = BranchOf(k - 1)
         /\ n.rhs = LeafOf(k)
         /\ n.at = k
<1>1. heap[BranchOf(k)] = Branch(prog[k].op, BranchOf(k - 1), LeafOf(k), k)
  BY DEF HeapIs
<1>2. BranchOf(k) \in DOMAIN heap
  BY DEF HeapIs, BranchOf
<1>3. prog[k].op \in {"pipe", "concat"}
  BY DEF HeapIs
<1> QED
  BY <1>1, <1>2, <1>3 DEF Branch

\* The root of a tree of m commands covers all m.
LEMMA RootNode ==
  ASSUME NEW m \in Nat \ {0}, HeapIs(m)
  PROVE  Root = BranchOf(m) /\ heap # <<>> /\ Parsed = m
<1>1. Root = BranchOf(m) /\ Len(heap) > 0
  BY DEF HeapIs, Root, BranchOf
<1>2. heap # <<>>
  BY <1>1
<1>3. heap[Root].at = m
  <2>1. CASE m = 1
    BY <2>1, <1>1, LeafNode DEF LeafOf, BranchOf
  <2>2. CASE m # 1
    <3>1. m \in 2..m
      BY <2>2
    <3> QED
      BY <3>1, <1>1, BranchNode
  <2> QED
    BY <2>1, <2>2
<1> QED
  BY <1>1, <1>2, <1>3 DEF Parsed

\* The top frame of a walk that comes back from segment k is the join of k, or
\* it waits for segment k + 1.
LEMMA TopFrame ==
  ASSUME prog \in Programs, IsSeq(stack), NEW k \in DOMAIN prog, stack # <<>>,
         LET d == Len(prog) - k IN
         /\ Len(stack) = d \/ JoinOn(d, k)
         /\ FramesAre(d)
  PROVE  \/ /\ Top.kind = "join"
            /\ JoinOn(Len(prog) - k, k)
         \/ /\ k + 1 \in DOMAIN prog
            /\ Len(stack) = Len(prog) - k
            /\ Top = Frame(prog[k + 1].op, LeafOf(k + 1), NoneV)
            /\ Top.kind = prog[k + 1].op
            /\ Top.rhs = LeafOf(k + 1)
            /\ Top.val = NoneV
<1> DEFINE d == Len(prog) - k
<1>1. Len(prog) \in Nat /\ DOMAIN prog = 1..Len(prog) /\ d \in Nat
  BY ProgramFacts
<1>2. Len(stack) \in Nat \ {0}
  BY SeqFacts
<1>3. CASE JoinOn(d, k)
  BY <1>3 DEF JoinOn, Top
<1>4. CASE Len(stack) = d
  <2>1. d \in 1..d /\ Len(prog) + 1 - d = k + 1 /\ k + 1 \in DOMAIN prog
    BY <1>1, <1>2, <1>4
  <2>2. stack[d] = Frame(prog[k + 1].op, LeafOf(k + 1), NoneV)
    BY <2>1 DEF FramesAre
  <2> QED
    BY <2>1, <2>2, <1>4 DEF Top, Frame
<1> QED
  BY <1>3, <1>4

\* It holds at first: nothing is parsed.
LEMMA InitInvariant == Init => WalkInvariant
<1> SUFFICES ASSUME Init PROVE WalkInvariant
  OBVIOUS
<1>1. IsSeq(<<>>)
  <2>1. <<>> \in Seq({})
    OBVIOUS
  <2> QED
    BY <2>1 DEF IsSeq
<1>2. \A k \in DOMAIN prog : ~ k <= Parsed
  BY ProgramFacts DEF Init, Parsed
<1> QED
  BY <1>1, <1>2 DEF Init, WalkInvariant, WalksTheTree, ParsingInv, Modes

\* The parser: the tree of k commands becomes that of k + 1.
LEMMA ParseFirstStep ==
  WalkInvariant /\ ParseFirst => WalkInvariant'
<1> SUFFICES ASSUME WalkInvariant, ParseFirst PROVE WalkInvariant'
  OBVIOUS
<1>1. heap' = <<Leaf(1)>> /\ IsSeq(heap')
  <2>1. <<Leaf(1)>> \in Seq({Leaf(1)})
    OBVIOUS
  <2> QED
    BY <2>1 DEF ParseFirst, IsSeq
<1>2. HeapIs(1)'
  BY <1>1 DEF HeapIs, Leaf
<1>3. Parsed' = 1
  BY <1>1 DEF Parsed, Root, Leaf
<1>4. 1 \in DOMAIN prog
  BY ProgramFacts DEF WalkInvariant
<1>5. ParsingInv'
  <2>1. \A k \in DOMAIN prog : k <= 1 => ~ IsBad(prog[k].cmd)
    BY ProgramFacts DEF ParseFirst, WalkInvariant
  <2> QED
    BY <1>2, <1>3, <1>4, <2>1 DEF ParseFirst, ParsingInv, WalkInvariant, WalksTheTree, IsBad
<1> QED
  BY <1>1, <1>5 DEF ParseFirst, WalkInvariant, WalksTheTree, Modes

\* A turn of the loop of parse_pipeline puts one leaf and one branch behind the
\* nodes there are, and these stay where they were.
LEMMA ParseOperatorStep ==
  WalkInvariant /\ ParseOperator => WalkInvariant'
<1> SUFFICES ASSUME WalkInvariant, ParseOperator PROVE WalkInvariant'
  OBVIOUS
<1>1. PICK m \in DOMAIN prog : HeapIs(m)
  BY DEF ParseOperator, WalkInvariant, WalksTheTree, ParsingInv
<1>2. /\ DOMAIN prog = 1..Len(prog)
      /\ Len(prog) \in Nat
      /\ m \in Nat \ {0}
  BY ProgramFacts DEF WalkInvariant
<1>3. Parsed = m /\ Root = 2 * m - 1
  BY <1>1, <1>2, RootNode DEF BranchOf
<1>4. m + 1 \in DOMAIN prog /\ ~ IsBad(prog[m + 1].cmd)
  BY <1>3 DEF ParseOperator
<1> DEFINE new == Branch(prog[m + 1].op, BranchOf(m), LeafOf(m + 1), m + 1)
<1>5. heap' = heap \o <<Leaf(m + 1), new>>
  <2>1. heap' = heap \o <<Leaf(m + 1), Over(m + 1)>>
    BY <1>3 DEF ParseOperator
  <2>2. BranchOf(m) = Root /\ LeafOf(m + 1) = Root + 1
    BY <1>2, <1>3 DEF BranchOf, LeafOf
  <2>3. Over(m + 1) = new
    BY <2>2 DEF Over
  <2> QED
    BY <2>1, <2>3
<1>6. /\ IsSeq(heap')
      /\ Len(heap') = 2 * m + 1
      /\ \A i \in 1..(2 * m - 1) : heap'[i] = heap[i]
      /\ heap'[2 * m] = Leaf(m + 1)
      /\ heap'[2 * m + 1] = new
  <2>1. Len(heap) = 2 * m - 1
    BY <1>1 DEF HeapIs
  <2> HIDE DEF new
  <2>2. IsSeq(heap)
    BY DEF WalkInvariant
  <2>3. /\ IsSeq(heap')
        /\ Len(heap') = Len(heap) + 2
        /\ \A i \in 1..Len(heap) : heap'[i] = heap[i]
        /\ heap'[Len(heap) + 1] = Leaf(m + 1)
        /\ heap'[Len(heap) + 2] = new
    <3>1. ASSUME NEW x, NEW y, heap' = heap \o <<x, y>>
          PROVE  /\ IsSeq(heap')
                 /\ Len(heap') = Len(heap) + 2
                 /\ \A i \in 1..Len(heap) : heap'[i] = heap[i]
                 /\ heap'[Len(heap) + 1] = x
                 /\ heap'[Len(heap) + 2] = y
      <4>1. /\ IsSeq(heap \o <<x, y>>)
            /\ Len(heap \o <<x, y>>) = Len(heap) + 2
            /\ \A i \in 1..Len(heap) : (heap \o <<x, y>>)[i] = heap[i]
            /\ (heap \o <<x, y>>)[Len(heap) + 1] = x
            /\ (heap \o <<x, y>>)[Len(heap) + 2] = y
        BY <2>2, PairFacts
      <4> QED
        BY <3>1, <4>1
    <3> QED
      BY <1>5, <3>1
  <2>4. Len(heap) + 1 = 2 * m /\ Len(heap) + 2 = 2 * m + 1
    BY <1>2, <2>1
  <2> QED
    BY <2>1, <2>3, <2>4
<1> HIDE DEF new
<1>7. prog[m + 1].op \in {"pipe", "concat"}
  BY <1>2, <1>4, ProgramFacts DEF WalkInvariant
<1>8. HeapIs(m + 1)'
  <2>1. DOMAIN heap' = 1..(2 * (m + 1) - 1) /\ Len(heap') = 2 * (m + 1) - 1
    BY <1>2, <1>6, SeqFacts
  <2>2. heap'[1] = Leaf(1)
    BY <1>1, <1>2, <1>6 DEF HeapIs
  <2>3. ASSUME NEW k \in 2..(m + 1)
        PROVE  /\ heap'[LeafOf(k)] = Leaf(k)
               /\ heap'[BranchOf(k)] = Branch(prog[k].op, BranchOf(k - 1), LeafOf(k), k)
               /\ prog[k].op \in {"pipe", "concat"}
    <3>1. CASE k = m + 1
      <4>1. LeafOf(k) = 2 * m /\ BranchOf(k) = 2 * m + 1 /\ k - 1 = m
        BY <3>1, <1>2 DEF LeafOf, BranchOf
      <4> QED
        BY <4>1, <3>1, <1>6, <1>7 DEF new
    <3>2. CASE k # m + 1
      <4>1. k \in 2..m /\ LeafOf(k) \in 1..(2 * m - 1) /\ BranchOf(k) \in 1..(2 * m - 1)
        BY <3>2, <1>2 DEF LeafOf, BranchOf
      <4>2. heap'[LeafOf(k)] = heap[LeafOf(k)] /\ heap'[BranchOf(k)] = heap[BranchOf(k)]
        BY <4>1, <1>6
      <4> QED
        BY <4>1, <4>2, <1>1 DEF HeapIs
    <3> QED
      BY <3>1, <3>2
  <2>4. prog' = prog
    BY DEF ParseOperator
  <2> QED
    BY <2>1, <2>2, <2>3, <2>4 DEF HeapIs
<1>9. Parsed' = m + 1
  <2>1. heap' # <<>>
    BY <1>2, <1>6
  <2> QED
    BY <2>1, <1>2, <1>6 DEF Parsed, Root, new, Branch
<1>10. ParsingInv'
  <2>1. \A k \in DOMAIN prog : k <= m => ~ IsBad(prog[k].cmd)
    BY <1>3 DEF ParseOperator, WalkInvariant, WalksTheTree, ParsingInv
  <2>2. \A k \in DOMAIN prog : k <= m + 1 => ~ IsBad(prog[k].cmd)
    BY <2>1, <1>2, <1>4
  <2> QED
    BY <2>2, <1>4, <1>8, <1>9
       DEF ParseOperator, ParsingInv, WalkInvariant, WalksTheTree, IsBad
<1> QED
  BY <1>6, <1>10 DEF ParseOperator, WalkInvariant, WalksTheTree

\* The walk starts at the root, at the last command.
LEMMA ParseEndStep ==
  WalkInvariant /\ ParseEnd => WalkInvariant'
<1> SUFFICES ASSUME WalkInvariant, ParseEnd PROVE WalkInvariant'
  OBVIOUS
<1> DEFINE n == Len(prog)
<1>1. PICK m \in DOMAIN prog : HeapIs(m)
  BY DEF ParseEnd, AtEnd, WalkInvariant, WalksTheTree, ParsingInv
<1>2. n \in Nat \ {0} /\ DOMAIN prog = 1..n
  BY ProgramFacts DEF WalkInvariant
<1>3. m = n /\ Root = BranchOf(n)
  BY <1>1, <1>2, RootNode DEF ParseEnd, AtEnd
<1>4. HeapIs(n)'
  BY <1>1, <1>3 DEF ParseEnd, HeapIs
<1>5. WellFormed(prog)'
  <2>1. Parsed = n
    BY DEF ParseEnd, AtEnd
  <2>2. \A k \in DOMAIN prog : ~ IsBad(prog[k].cmd)
    BY <1>2, <2>1 DEF ParseEnd, WalkInvariant, WalksTheTree, ParsingInv
  <2> QED
    BY <2>2 DEF ParseEnd, WellFormed, IsBad
<1>6. /\ prog' = prog
      /\ stack' = <<>>
      /\ ctl' = [mode |-> "eval", node |-> BranchOf(n), val |-> NoneV]
  BY <1>3 DEF ParseEnd, Enter, WalkInvariant, WalksTheTree, ParsingInv
<1>7. WalkInv(n)'
  <2>1. Len(prog') - n = 0 /\ Len(stack') = 0 /\ FramesAre(0)'
    BY <1>2, <1>6 DEF FramesAre
  <2>2. AtBranch(0, n)' \/ AtLeaf(0, n)'
    BY <1>2, <1>6 DEF AtBranch, AtLeaf, LeafOf, BranchOf
  <2> QED
    BY <2>1, <2>2, <1>4, <1>5, <1>6 DEF WalkInv
<1> QED
  BY <1>2, <1>6, <1>7 DEF ParseEnd, WalkInvariant, WalksTheTree, Modes

\* The walk is somewhere, and the heap and the program stay as they are.
LEMMA WalkFacts ==
  ASSUME WalkInvariant, ctl.mode \in {"eval", "await", "return"}
  PROVE  \E k \in DOMAIN prog : /\ WalkInv(k)
                                /\ k \in 1..Len(prog)
                                /\ Len(prog) - k \in Nat
BY ProgramFacts DEF WalkInvariant, WalksTheTree

\* Down a branch: its frame goes on the stack.
LEMMA EnterBranchStep ==
  WalkInvariant /\ EnterBranch => WalkInvariant'
<1> SUFFICES ASSUME WalkInvariant, EnterBranch PROVE WalkInvariant'
  OBVIOUS
<1>1. PICK k \in 1..Len(prog) : k \in DOMAIN prog /\ WalkInv(k) /\ Len(prog) - k \in Nat
  BY WalkFacts DEF EnterBranch
<1> DEFINE n == Len(prog)
           d == n - k
<1>2. n \in Nat \ {0} /\ DOMAIN prog = 1..n /\ IsSeq(stack)
  BY ProgramFacts DEF WalkInvariant
<1>3. HeapIs(n) /\ WellFormed(prog) /\ FramesAre(d)
  BY <1>1 DEF WalkInv
<1>4. AtBranch(d, k)
  <2>1. ~ AtLeaf(d, k)
    BY <1>1, <1>2, <1>3, LeafNode DEF AtLeaf, EnterBranch, Node
  <2> QED
    BY <1>1, <2>1 DEF WalkInv, Back, EnterBranch
<1>5. k \in 2..n
  BY <1>1, <1>4 DEF AtBranch
<1>6. /\ Node.kind = prog[k].op
      /\ Node.lhs = BranchOf(k - 1)
      /\ Node.rhs = LeafOf(k)
  BY <1>2, <1>3, <1>4, <1>5, BranchNode DEF AtBranch, Node
<1> DEFINE f == Frame(prog[k].op, LeafOf(k), NoneV)
<1>7. stack' = Append(stack, f) /\ Len(stack) = d
  BY <1>4, <1>6 DEF EnterBranch, Suspended, AtBranch
<1>8. /\ IsSeq(stack')
      /\ Len(stack') = d + 1
      /\ \A i \in 1..d : stack'[i] = stack[i]
      /\ stack'[d + 1] = f
  <2> HIDE DEF f
  <2> QED
    BY <1>2, <1>7, AppendFacts
<1>9. /\ ctl' = [mode |-> "eval", node |-> BranchOf(k - 1), val |-> NoneV]
      /\ prog' = prog /\ heap' = heap /\ calls' = calls
  BY <1>4, <1>6 DEF EnterBranch, FirstChild, Enter, AtBranch
<1>10. FramesAre(d + 1)'
  <2> SUFFICES ASSUME NEW j \in 1..(d + 1)
               PROVE  LET i == n + 1 - j IN
                      stack'[j] = Frame(prog[i].op, LeafOf(i), NoneV)
    BY <1>9 DEF FramesAre
  <2>1. CASE j = d + 1
    <3>1. n + 1 - j = k
      BY <2>1, <1>2, <1>5
    <3> QED
      BY <3>1, <2>1, <1>8
  <2>2. CASE j # d + 1
    <3>1. j \in 1..d
      BY <2>2, <1>1, <1>2
    <3> QED
      BY <3>1, <1>3, <1>8 DEF FramesAre
  <2> QED
    BY <2>1, <2>2
<1>11. k - 1 \in 1..n /\ n - (k - 1) = d + 1
  BY <1>2, <1>5
<1>12. AtBranch(d + 1, k - 1)' \/ AtLeaf(d + 1, k - 1)'
  <2>1. CASE k - 1 = 1
    BY <2>1, <1>8, <1>9 DEF AtLeaf, LeafOf, BranchOf
  <2>2. CASE k - 1 # 1
    BY <2>2, <1>8, <1>9, <1>11 DEF AtBranch
  <2> QED
    BY <2>1, <2>2
<1>13. WalkInv(k - 1)'
  <2>1. HeapIs(Len(prog))' /\ WellFormed(prog)'
    BY <1>3, <1>9 DEF HeapIs, WellFormed, IsBad
  <2> QED
    BY <1>1, <1>8, <1>9, <1>10, <1>11, <1>12, <2>1 DEF WalkInv
<1> QED
  BY <1>2, <1>8, <1>9, <1>11, <1>13 DEF WalkInvariant, WalksTheTree, Modes

\* A verdict: the walk is over.
LEMMA AbortStep ==
  ASSUME WalkInvariant, NEW r, Abort(r)
  PROVE  WalkInvariant'
<1>1. IsSeq(<<>>)
  <2>1. <<>> \in Seq({})
    OBVIOUS
  <2> QED
    BY <2>1 DEF IsSeq
<1> QED
  BY <1>1 DEF Abort, Enter, WalkInvariant, WalksTheTree, Modes

\* A command is at its leaf, and nothing but the mode and the value change.
LEMMA AtCommandFacts ==
  ASSUME WalkInvariant,
         \/ ctl.mode = "eval" /\ Node.kind = "command"
         \/ ctl.mode = "await"
  PROVE  \E k \in 1..Len(prog) :
            /\ k \in DOMAIN prog
            /\ WalkInv(k)
            /\ AtLeaf(Len(prog) - k, k)
            /\ Node.at = k
            /\ Cmd = prog[k].cmd
<1>1. PICK k \in 1..Len(prog) : k \in DOMAIN prog /\ WalkInv(k)
  BY WalkFacts
<1> DEFINE n == Len(prog)
<1>2. n \in Nat /\ HeapIs(n)
  BY <1>1, ProgramFacts DEF WalkInvariant, WalkInv
<1>3. AtLeaf(n - k, k)
  <2>1. ~ AtBranch(n - k, k)
    <3>1. SUFFICES ASSUME AtBranch(n - k, k) PROVE FALSE
      OBVIOUS
    <3>2. k \in 2..n
      BY <3>1 DEF AtBranch
    <3> QED
      BY <1>2, <3>1, <3>2, BranchNode DEF AtBranch, Node
  <2>2. ~ Back(n - k, k)
    BY DEF Back
  <2> QED
    BY <1>1, <2>1, <2>2 DEF WalkInv
<1>4. Node.at = k
  BY <1>2, <1>3, LeafNode DEF AtLeaf, Node
<1> QED
  BY <1>1, <1>3, <1>4 DEF Cmd

\* eval_command is over: its value is on its way back, or there is a verdict.
LEMMA ConcludeStep ==
  ASSUME WalkInvariant, NEW r, Conclude(r),
         \/ ctl.mode = "eval" /\ Node.kind = "command"
         \/ ctl.mode = "await"
  PROVE  WalkInvariant'
<1>1. CASE ~ IsOk(r)
  BY <1>1, AbortStep DEF Conclude
<1>2. CASE IsOk(r)
  <2>1. PICK k \in 1..Len(prog) :
               k \in DOMAIN prog /\ WalkInv(k) /\ AtLeaf(Len(prog) - k, k)
    BY AtCommandFacts
  <2>2. /\ ctl' = [mode |-> "return", node |-> ctl.node, val |-> r.val]
        /\ UNCHANGED <<prog, heap, stack, calls>>
    BY <1>2 DEF Conclude, Enter
  <2>3. Back(Len(prog) - k, k)'
    BY <2>1, <2>2 DEF AtLeaf, Back, JoinOn
  <2>4. WalkInv(k)'
    BY <2>1, <2>2, <2>3 DEF WalkInv, HeapIs, FramesAre, WellFormed, IsBad
  <2> QED
    BY <2>1, <2>2, <2>4 DEF WalkInvariant, WalksTheTree, Modes
<1> QED
  BY <1>1, <1>2

\* The call of a handler leaves the walk where it is.
LEMMA CallHandlerStep ==
  WalkInvariant /\ CallHandler => WalkInvariant'
<1> SUFFICES ASSUME WalkInvariant, CallHandler PROVE WalkInvariant'
  OBVIOUS
<1>1. PICK k \in 1..Len(prog) :
             k \in DOMAIN prog /\ WalkInv(k) /\ AtLeaf(Len(prog) - k, k)
  BY AtCommandFacts DEF CallHandler, AtCommand
<1>2. /\ ctl' = [mode |-> "await", node |-> ctl.node, val |-> ctl.val]
      /\ UNCHANGED <<prog, heap, stack>>
  BY DEF CallHandler, Enter
<1>3. AtLeaf(Len(prog) - k, k)'
  BY <1>1, <1>2 DEF AtLeaf, JoinOn
<1>4. WalkInv(k)'
  BY <1>1, <1>2, <1>3 DEF WalkInv, HeapIs, FramesAre, WellFormed, IsBad
<1>5. IsSeq(calls')
  BY AppendFacts DEF CallHandler, WalkInvariant
<1> QED
  BY <1>1, <1>2, <1>4, <1>5 DEF WalkInvariant, WalksTheTree, Modes

\* Popping leaves the frames of the segments still to come.
LEMMA ResumeFacts ==
  ASSUME WalkInvariant, ctl.mode = "return", stack # <<>>
  PROVE  \E k \in 1..Len(prog) :
           LET d == Len(prog) - k IN
           /\ k \in DOMAIN prog
           /\ d \in Nat
           /\ WalkInv(k)
           /\ ctl.node = LeafOf(k)
           /\ IsSeq(Popped)
           /\ Len(Popped) = Len(stack) - 1
           /\ \A i \in 1..(Len(stack) - 1) : Popped[i] = stack[i]
           /\ \/ /\ Top.kind = "join"
                 /\ Len(stack) = d + 1
              \/ /\ k + 1 \in DOMAIN prog
                 /\ Len(stack) = d
                 /\ Top.kind = prog[k + 1].op
                 /\ Top.rhs = LeafOf(k + 1)
                 /\ Top.val = NoneV
<1>1. PICK k \in 1..Len(prog) : k \in DOMAIN prog /\ WalkInv(k) /\ Len(prog) - k \in Nat
  BY WalkFacts
<1>2. Back(Len(prog) - k, k)
  BY <1>1 DEF WalkInv, AtBranch, AtLeaf
<1>3. FramesAre(Len(prog) - k)
  BY <1>1 DEF WalkInv
<1>4. /\ IsSeq(Popped)
      /\ Len(Popped) = Len(stack) - 1
      /\ \A i \in 1..(Len(stack) - 1) : Popped[i] = stack[i]
  BY PopFacts DEF WalkInvariant, Popped
<1>5. \/ Top.kind = "join" /\ Len(stack) = Len(prog) - k + 1
      \/ /\ k + 1 \in DOMAIN prog
         /\ Len(stack) = Len(prog) - k
         /\ Top.kind = prog[k + 1].op
         /\ Top.rhs = LeafOf(k + 1)
         /\ Top.val = NoneV
  BY <1>1, <1>2, <1>3, TopFrame DEF WalkInvariant, Back, JoinOn
<1> QED
  BY <1>1, <1>2, <1>4, <1>5 DEF Back

\* `>>`: the frame of segment k + 1 is popped and its command entered.
LEMMA ResumePipeStep ==
  WalkInvariant /\ ResumePipe => WalkInvariant'
<1> SUFFICES ASSUME WalkInvariant, ResumePipe PROVE WalkInvariant'
  OBVIOUS
<1>1. ctl.mode = "return" /\ stack # <<>> /\ Top.kind = "pipe"
  BY DEF ResumePipe, Waiting
<1> DEFINE n == Len(prog)
<1>2. PICK k \in 1..n :
             /\ WalkInv(k)
             /\ IsSeq(Popped)
             /\ Len(Popped) = Len(stack) - 1
             /\ \A i \in 1..(Len(stack) - 1) : Popped[i] = stack[i]
             /\ k + 1 \in DOMAIN prog
             /\ Len(stack) = n - k
             /\ prog[k + 1].op = "pipe"
             /\ Top.rhs = LeafOf(k + 1)
  BY <1>1, ResumeFacts
<1>3. n \in Nat /\ DOMAIN prog = 1..n /\ k + 1 \in 1..n
  BY <1>2, ProgramFacts DEF WalkInvariant
<1> DEFINE d == n - (k + 1)
<1>4. /\ ctl' = [mode |-> "eval", node |-> LeafOf(k + 1), val |-> ctl.val]
      /\ stack' = Popped
      /\ UNCHANGED <<prog, heap, calls>>
  BY <1>2 DEF ResumePipe, Enter
<1>5. d \in Nat /\ Len(stack') = d /\ \A i \in 1..d : stack'[i] = stack[i]
  BY <1>2, <1>3, <1>4
<1>6. FramesAre(d)'
  <2>1. FramesAre(n - k)
    BY <1>2 DEF WalkInv
  <2>2. \A j \in 1..d : j \in 1..(n - k)
    BY <1>3
  <2> QED
    BY <1>4, <1>5, <2>1, <2>2 DEF FramesAre
<1>7. AtLeaf(d, k + 1)'
  BY <1>2, <1>3, <1>4, <1>5 DEF AtLeaf
<1>8. HeapIs(n)' /\ WellFormed(prog)'
  BY <1>2, <1>4 DEF WalkInv, HeapIs, WellFormed, IsBad
<1>9. WalkInv(k + 1)'
  BY <1>4, <1>5, <1>6, <1>7, <1>8 DEF WalkInv
<1> QED
  BY <1>2, <1>4, <1>9 DEF WalkInvariant, WalksTheTree, Modes

\* `++`: the frame of segment k + 1 becomes its join, above the same frames.
LEMMA ResumeConcatStep ==
  WalkInvariant /\ ResumeConcat => WalkInvariant'
<1> SUFFICES ASSUME WalkInvariant, ResumeConcat PROVE WalkInvariant'
  OBVIOUS
<1>1. ctl.mode = "return" /\ stack # <<>> /\ Top.kind = "concat"
  BY DEF ResumeConcat, Waiting
<1> DEFINE n == Len(prog)
<1>2. PICK k \in 1..n :
             /\ WalkInv(k)
             /\ IsSeq(Popped)
             /\ Len(Popped) = Len(stack) - 1
             /\ \A i \in 1..(Len(stack) - 1) : Popped[i] = stack[i]
             /\ k + 1 \in DOMAIN prog
             /\ Len(stack) = n - k
             /\ prog[k + 1].op = "concat"
             /\ Top.rhs = LeafOf(k + 1)
             /\ Top.val = NoneV
  BY <1>1, ResumeFacts
<1>3. n \in Nat /\ DOMAIN prog = 1..n /\ k + 1 \in 1..n
  BY <1>2, ProgramFacts DEF WalkInvariant
<1> DEFINE d == n - (k + 1)
           f == Frame("join", Top.rhs, ctl.val)
<1>4. /\ ctl' = [mode |-> "eval", node |-> LeafOf(k + 1), val |-> NoneV]
      /\ stack' = Append(Popped, f)
      /\ UNCHANGED <<prog, heap, calls>>
  BY <1>2 DEF ResumeConcat, RightInput, Enter
<1>5. d \in Nat /\ Len(Popped) = d /\ \A i \in 1..d : Popped[i] = stack[i]
  BY <1>2, <1>3
<1>6. /\ IsSeq(stack')
      /\ Len(stack') = d + 1
      /\ \A i \in 1..d : stack'[i] = stack[i]
      /\ stack'[d + 1] = f
  <2> HIDE DEF f
  <2>1. /\ IsSeq(stack')
        /\ Len(stack') = Len(Popped) + 1
        /\ \A i \in 1..Len(Popped) : stack'[i] = Popped[i]
        /\ stack'[Len(Popped) + 1] = f
    BY <1>2, <1>4, AppendFacts
  <2> QED
    BY <1>5, <2>1
<1>7. FramesAre(d)'
  <2>1. FramesAre(n - k)
    BY <1>2 DEF WalkInv
  <2>2. \A j \in 1..d : j \in 1..(n - k)
    BY <1>3
  <2> QED
    BY <1>4, <1>6, <2>1, <2>2 DEF FramesAre
<1>8. AtLeaf(d, k + 1)'
  BY <1>2, <1>3, <1>4, <1>6 DEF AtLeaf, JoinOn, Frame
<1>9. HeapIs(n)' /\ WellFormed(prog)'
  BY <1>2, <1>4 DEF WalkInv, HeapIs, WellFormed, IsBad
<1>10. WalkInv(k + 1)'
  BY <1>4, <1>5, <1>6, <1>7, <1>8, <1>9 DEF WalkInv
<1> QED
  BY <1>2, <1>4, <1>6, <1>10 DEF WalkInvariant, WalksTheTree, Modes

\* The join is popped and the walk is still on its way back from segment k.
LEMMA ResumeJoinStep ==
  WalkInvariant /\ ResumeJoin => WalkInvariant'
<1> SUFFICES ASSUME WalkInvariant, ResumeJoin PROVE WalkInvariant'
  OBVIOUS
<1>1. ctl.mode = "return" /\ stack # <<>> /\ Top.kind = "join"
  BY DEF ResumeJoin, Waiting
<1> DEFINE n == Len(prog)
<1>2. PICK k \in 1..n :
             /\ k \in DOMAIN prog
             /\ n - k \in Nat
             /\ WalkInv(k)
             /\ ctl.node = LeafOf(k)
             /\ IsSeq(Popped)
             /\ Len(Popped) = Len(stack) - 1
             /\ \A i \in 1..(Len(stack) - 1) : Popped[i] = stack[i]
             /\ Len(stack) = n - k + 1
  <2>1. "join" \notin {"pipe", "concat"}
    OBVIOUS
  <2> QED
    BY <1>1, <2>1, ResumeFacts, ProgramFacts DEF WalkInvariant
<1> DEFINE d == n - k
<1>3. /\ ctl' = [mode |-> "return", node |-> LeafOf(k), val |-> Joined]
      /\ stack' = Popped
      /\ UNCHANGED <<prog, heap, calls>>
  BY <1>2 DEF ResumeJoin, Enter
<1>4. Len(stack') = d /\ \A i \in 1..d : stack'[i] = stack[i]
  BY <1>2, <1>3
<1>5. FramesAre(d)'
  BY <1>2, <1>3, <1>4 DEF WalkInv, FramesAre
<1>6. Back(d, k)'
  BY <1>3, <1>4 DEF Back
<1>7. WalkInv(k)'
  BY <1>2, <1>3, <1>4, <1>5, <1>6 DEF WalkInv, HeapIs, WellFormed, IsBad
<1> QED
  BY <1>2, <1>3, <1>7 DEF WalkInvariant, WalksTheTree, Modes

-----------------------------------------------------------------------------
\* Every step keeps the invariant.
LEMMA NextInvariant == WalkInvariant /\ [Next]_vars => WalkInvariant'
<1> SUFFICES ASSUME WalkInvariant, [Next]_vars PROVE WalkInvariant'
  OBVIOUS
<1>1. CASE ParseFirst
  BY <1>1, ParseFirstStep
<1>2. CASE ParseOperator
  BY <1>2, ParseOperatorStep
<1>3. CASE ParseFault
  BY <1>3, AbortStep DEF ParseFault
<1>4. CASE ParseEnd
  BY <1>4, ParseEndStep
<1>5. CASE EnterBranch
  BY <1>5, EnterBranchStep
<1>6. CASE RunBuiltin
  BY <1>6, ConcludeStep DEF RunBuiltin, AtCommand
<1>7. CASE RefuseCall
  BY <1>7, AbortStep DEF RefuseCall
<1>8. CASE CallHandler
  BY <1>8, CallHandlerStep
<1>9. CASE HandlerReply
  BY <1>9, ConcludeStep DEF HandlerReply
<1>10. CASE ResumePipe
  BY <1>10, ResumePipeStep
<1>11. CASE ResumeConcat
  BY <1>11, ResumeConcatStep
<1>12. CASE ResumeJoin
  BY <1>12, ResumeJoinStep
<1>13. CASE Finish
  BY <1>13 DEF Finish, Enter, WalkInvariant, WalksTheTree, Modes
<1>14. CASE UNCHANGED vars
  BY <1>14 DEF vars, WalkInvariant, WalksTheTree, ParsingInv, WalkInv, HeapIs,
               FramesAre, JoinOn, AtBranch, AtLeaf, Back, Parsed, Root,
               WellFormed, IsBad
<1> QED
  BY <1>1, <1>2, <1>3, <1>4, <1>5, <1>6, <1>7, <1>8, <1>9, <1>10, <1>11,
     <1>12, <1>13, <1>14 DEF Next, Parse, Walk

\* The walk keeps to the tree: at every moment the stack holds exactly the
\* segments still to come, in order, and at most one half-done `++` on top.
THEOREM TreeWalk == Spec => []WalkInvariant
<1>1. Init => WalkInvariant
  BY InitInvariant
<1>2. WalkInvariant /\ [Next]_vars => WalkInvariant'
  BY NextInvariant
<1> QED
  BY <1>1, <1>2, PTL DEF Spec

\* The part of it that TLC checks.
THEOREM TreeWalkChecked == Spec => []WalksTheTree
<1>1. WalkInvariant => WalksTheTree
  BY DEF WalkInvariant
<1> QED
  BY <1>1, TreeWalk, PTL

-----------------------------------------------------------------------------
(***************************************************************************)
(* What the handlers of the host program can rely on: which of them are    *)
(* called, in which order and with what, in every program.                 *)
(***************************************************************************)

\* How many segments have been given to their commands, at every point of the
\* walk: a branch is only entered on the way down to the first command.
Reached ==
  CASE ctl.mode = "parse" -> 0
    [] ctl.mode = "eval" -> IF Node.kind = "command" THEN Node.at - 1 ELSE 0
    [] OTHER -> Node.at

\* The calls are those of the custom commands of the first n segments, in
\* order.
CalledUpTo(n) ==
  /\ \A i \in DOMAIN calls : calls[i].at \in 1..n /\ IsCustom(calls[i].at)
  /\ \A k \in 1..n : IsCustom(k) => \E i \in DOMAIN calls : calls[i].at = k
  /\ \A i, j \in DOMAIN calls : i < j => calls[i].at < calls[j].at

\* The heap is a tree of some commands, also when there is a verdict.
HeapInv == heap # <<>> => \E m \in DOMAIN prog : HeapIs(m)

\* CallsInSourceOrder is not inductive: it does not say how far the walk is.
CallsInvariant ==
  /\ WalkInvariant
  /\ HeapInv
  /\ ctl.mode # "done" => outcome = Pending /\ CalledUpTo(Reached)
  /\ ctl.mode = "done" =>
       /\ stack = <<>>
       /\ \E n \in 0..Len(prog) :
             CalledUpTo(n) /\ (outcome.res = "ok" => n = Len(prog))
  /\ NothingRunsUnparsed
  /\ ConcatStartsFresh
  /\ HandlerContract

-----------------------------------------------------------------------------
\* Where the walk is at segment k, it has given out k - 1 segments before the
\* command is run and k behind it.
LEMMA ReachedAtLeaf ==
  ASSUME WalkInvariant, NEW k \in 1..Len(prog), WalkInv(k), ctl.node = LeafOf(k)
  PROVE  /\ Node.kind = "command"
         /\ Node.at = k
         /\ ctl.mode = "eval" => Reached = k - 1
         /\ ctl.mode \in {"await", "return"} => Reached = k
<1>1. Len(prog) \in Nat /\ HeapIs(Len(prog))
  BY ProgramFacts DEF WalkInvariant, WalkInv
<1>2. Node.kind = "command" /\ Node.at = k
  BY <1>1, LeafNode DEF Node
<1> QED
  BY <1>2 DEF Reached

\* The custom commands among the first n segments and a segment that is not
\* custom are those among the first n + 1.
LEMMA SkipSegment ==
  ASSUME NEW n \in Nat, CalledUpTo(n), ~ IsCustom(n + 1)
  PROVE  CalledUpTo(n + 1)
<1>1. 1..(n + 1) = 1..n \cup {n + 1}
  OBVIOUS
<1> QED
  BY <1>1 DEF CalledUpTo

\* What a call adds: the last of the calls, of the segment the walk is at, with
\* everything the gates let through.
LEMMA NewCall ==
  ASSUME WalkInvariant, CallHandler
  PROVE  \E k \in 1..Len(prog) :
           LET c == prog[k].cmd
               n == Len(calls)
           IN  /\ k \in DOMAIN prog
               /\ WalkInv(k)
               /\ AtLeaf(Len(prog) - k, k)
               /\ IsCustom(k)
               /\ Admitted(c, ctl.val)
               /\ n \in Nat
               /\ DOMAIN calls = 1..n
               /\ DOMAIN calls' = 1..(n + 1)
               /\ \A i \in 1..n : calls'[i] = calls[i]
               /\ calls'[n + 1] = CallOf(k, c, ctl.val)
<1>1. PICK k \in 1..Len(prog) :
             /\ k \in DOMAIN prog
             /\ WalkInv(k)
             /\ AtLeaf(Len(prog) - k, k)
             /\ Node.at = k
             /\ Cmd = prog[k].cmd
  BY AtCommandFacts DEF CallHandler, AtCommand
<1> DEFINE c == CallOf(k, prog[k].cmd, ctl.val)
<1>2. calls' = Append(calls, c) /\ IsSeq(calls)
  BY <1>1 DEF CallHandler, WalkInvariant
<1>3. /\ Len(calls) \in Nat
      /\ DOMAIN calls = 1..Len(calls)
      /\ DOMAIN calls' = 1..(Len(calls) + 1)
      /\ \A i \in 1..Len(calls) : calls'[i] = calls[i]
      /\ calls'[Len(calls) + 1] = c
  <2> HIDE DEF c
  <2>1. IsSeq(calls') /\ Len(calls') = Len(calls) + 1
    BY <1>2, AppendFacts
  <2> QED
    BY <1>2, <2>1, SeqFacts, AppendFacts
<1>4. IsCustom(k) /\ Admitted(prog[k].cmd, ctl.val)
  BY <1>1 DEF CallHandler, AtCommand, IsCustom
<1> QED
  BY <1>1, <1>3, <1>4

\* The walk never gives out more segments than there are.
LEMMA ReachedRange ==
  ASSUME WalkInvariant, ctl.mode # "done"
  PROVE  Reached \in 0..Len(prog)
<1>1. Len(prog) \in Nat \ {0}
  BY ProgramFacts DEF WalkInvariant
<1>2. CASE ctl.mode = "parse"
  BY <1>1, <1>2 DEF Reached
<1>3. CASE ctl.mode # "parse"
  <2>1. ctl.mode \in {"eval", "await", "return"}
    BY <1>3 DEF WalkInvariant, Modes
  <2>2. PICK k \in 1..Len(prog) : WalkInv(k)
    BY <2>1, WalkFacts
  <2>3. CASE ctl.node = LeafOf(k)
    BY <1>1, <2>1, <2>2, <2>3, ReachedAtLeaf
  <2>4. CASE ctl.node # LeafOf(k)
    <3>1. AtBranch(Len(prog) - k, k)
      BY <2>2, <2>4 DEF WalkInv, AtLeaf, Back
    <3>2. HeapIs(Len(prog)) /\ k \in 2..Len(prog)
      BY <1>1, <2>2, <3>1 DEF WalkInv, AtBranch
    <3>3. Node.kind \in {"pipe", "concat"} /\ ctl.mode = "eval"
      BY <1>1, <3>1, <3>2, BranchNode DEF AtBranch, Node
    <3>4. Reached = 0
      BY <3>3 DEF Reached
    <3> QED
      BY <1>1, <3>4
  <2> QED
    BY <2>3, <2>4
<1> QED
  BY <1>2, <1>3

\* A step that calls nobody and gives no verdict, and passes at most a command
\* that is not custom.
LEMMA QuietStep ==
  ASSUME CallsInvariant, WalkInvariant',
         ctl.mode # "done", ctl'.mode # "done",
         UNCHANGED <<prog, calls, outcome>>,
         \/ Reached' = Reached
         \/ Reached' = Reached + 1 /\ ~ IsCustom(Reached + 1)
  PROVE  CallsInvariant'
<1>1. CalledUpTo(Reached) /\ Reached \in Nat
  <2>1. Reached \in 0..Len(prog) /\ Len(prog) \in Nat
    BY ReachedRange, ProgramFacts DEF CallsInvariant, WalkInvariant
  <2> QED
    BY <2>1 DEF CallsInvariant
<1>2. CalledUpTo(Reached')
  BY <1>1, SkipSegment
<1>3. CalledUpTo(Reached)'
  BY <1>2 DEF CalledUpTo, IsCustom
<1>4. HeapInv'
  <2>1. CASE ctl'.mode = "parse"
    BY <2>1 DEF WalkInvariant, WalksTheTree, ParsingInv, HeapInv
  <2>2. CASE ctl'.mode # "parse"
    <3>1. PICK k \in DOMAIN prog' : WalkInv(k)'
      BY <2>2 DEF WalkInvariant, WalksTheTree, Modes
    <3>2. prog \in Programs
      BY DEF CallsInvariant, WalkInvariant
    <3>3. Len(prog) \in DOMAIN prog
      BY <3>2, ProgramFacts
    <3> QED
      BY <3>1, <3>3 DEF WalkInv, HeapInv
  <2> QED
    BY <2>1, <2>2
<1>5. NothingRunsUnparsed' /\ ConcatStartsFresh' /\ HandlerContract'
  BY DEF CallsInvariant, NothingRunsUnparsed, ConcatStartsFresh, HandlerContract,
         WellFormed, IsBad
<1> QED
  BY <1>3, <1>4, <1>5 DEF CallsInvariant

\* A step that gives the verdict; it is only Ok behind the last segment.
LEMMA VerdictStep ==
  ASSUME CallsInvariant, WalkInvariant',
         ctl.mode # "done", ctl'.mode = "done",
         UNCHANGED <<prog, heap, calls>>,
         stack' = <<>>,
         outcome'.res = "ok" => Reached = Len(prog)
  PROVE  CallsInvariant'
<1>1. Reached \in 0..Len(prog) /\ CalledUpTo(Reached)
  BY ReachedRange DEF CallsInvariant
<1>2. PICK n \in 0..Len(prog) : n = Reached
  BY <1>1
<1>3. CalledUpTo(n)'
  BY <1>1, <1>2 DEF CalledUpTo, IsCustom
<1>4. HeapInv'
  BY DEF CallsInvariant, HeapInv, HeapIs
<1>5. NothingRunsUnparsed' /\ ConcatStartsFresh' /\ HandlerContract'
  BY DEF CallsInvariant, NothingRunsUnparsed, ConcatStartsFresh, HandlerContract,
         WellFormed, IsBad
<1> QED
  BY <1>2, <1>3, <1>4, <1>5 DEF CallsInvariant

\* What the gates have established when they let a call through.
LEMMA AdmittedFacts ==
  ASSUME NEW c, NEW v, Admitted(c, v)
  PROVE  /\ Known(c)
         /\ ~ WrongInput(Registry[c.name], v)
         /\ ~ WrongArg(Registry[c.name], ArgResult(c, v).val)
<1>1. GateErrors(c, v) = {}
  BY DEF Admitted
<1>2. Known(c)
  BY <1>1 DEF GateErrors
<1>3. ~ WrongInput(Registry[c.name], v)
  BY <1>1, <1>2 DEF GateErrors
<1>4. /\ OptionFailures(c, v) = {}
      /\ ~ WrongArg(Registry[c.name], ArgResult(c, v).val)
  <2> HIDE DEF Known, WrongInput, WrongArg, OptionFailures, ArgResult
  <2> QED
    BY <1>1, <1>2, <1>3 DEF GateErrors
<1> QED
  BY <1>2, <1>3, <1>4

\* A call: the only step that adds one.
LEMMA CallStep ==
  ASSUME CallsInvariant, WalkInvariant', CallHandler
  PROVE  CallsInvariant'
<1>1. PICK k \in 1..Len(prog) :
             LET c == prog[k].cmd
                 n == Len(calls)
             IN  /\ k \in DOMAIN prog
                 /\ WalkInv(k)
                 /\ AtLeaf(Len(prog) - k, k)
                 /\ IsCustom(k)
                 /\ Admitted(c, ctl.val)
                 /\ n \in Nat
                 /\ DOMAIN calls = 1..n
                 /\ DOMAIN calls' = 1..(n + 1)
                 /\ \A i \in 1..n : calls'[i] = calls[i]
                 /\ calls'[n + 1] = CallOf(k, c, ctl.val)
  BY NewCall DEF CallsInvariant
<1> DEFINE c == prog[k].cmd
           n == Len(calls)
           new == CallOf(k, c, ctl.val)
<1>2. /\ UNCHANGED <<prog, heap, stack, outcome>>
      /\ ctl.mode = "eval"
      /\ ctl' = [mode |-> "await", node |-> ctl.node, val |-> ctl.val]
  BY DEF CallHandler, AtCommand, Enter
<1>3. new.at = k /\ new.input = ctl.val /\ new.arg = ArgResult(c, ctl.val).val
  BY DEF CallOf
<1>4. CalledUpTo(k - 1) /\ Reached' = k
  <2>1. Reached = k - 1 /\ Node.at = k
    BY <1>1, <1>2, ReachedAtLeaf DEF CallsInvariant, AtLeaf
  <2>2. Reached' = Node.at
    BY <1>2 DEF Reached, Node
  <2> QED
    BY <1>2, <2>1, <2>2 DEF CallsInvariant
<1> HIDE DEF new, c
<1>5. CalledUpTo(k)'
  <2>1. /\ k \in Nat \ {0}
        /\ \A i \in 1..n : calls'[i].at = calls[i].at
        /\ calls'[n + 1].at = k
    BY <1>1, <1>3 DEF new, c
  <2>2. \A i \in DOMAIN calls' : calls'[i].at \in 1..k /\ IsCustom(calls'[i].at)
    <3>1. \A i \in 1..n : calls[i].at \in 1..k /\ IsCustom(calls[i].at)
      BY <1>1, <1>4, <2>1 DEF CalledUpTo
    <3> QED
      BY <1>1, <2>1, <3>1
  <2>3. \A j \in 1..k : IsCustom(j) => \E i \in DOMAIN calls' : calls'[i].at = j
    <3>1. \A j \in 1..(k - 1) : IsCustom(j) => \E i \in 1..n : calls'[i].at = j
      BY <1>1, <1>4, <2>1 DEF CalledUpTo
    <3>2. n + 1 \in DOMAIN calls' /\ 1..n \subseteq DOMAIN calls'
      BY <1>1
    <3> QED
      BY <2>1, <3>1, <3>2
  <2>4. \A i, j \in DOMAIN calls' : i < j => calls'[i].at < calls'[j].at
    <3>1. \A i \in 1..n : calls[i].at \in 1..(k - 1)
      BY <1>1, <1>4 DEF CalledUpTo
    <3>2. \A i, j \in 1..n : i < j => calls[i].at < calls[j].at
      BY <1>1, <1>4 DEF CalledUpTo
    <3> QED
      BY <1>1, <2>1, <3>1, <3>2
  <2> QED
    BY <1>2, <2>2, <2>3, <2>4 DEF CalledUpTo, IsCustom
<1>6. NothingRunsUnparsed'
  BY <1>1, <1>2 DEF WalkInv, NothingRunsUnparsed, WellFormed, IsBad
<1>7. ConcatStartsFresh'
  <2>1. prog[k].op = "concat" => ctl.val = NoneV
    BY <1>1 DEF AtLeaf
  <2>2. \A i \in 1..n : prog[calls[i].at].op = "concat" => calls[i].input = NoneV
    BY <1>1 DEF CallsInvariant, ConcatStartsFresh
  <2> QED
    BY <1>1, <1>2, <1>3, <2>1, <2>2 DEF ConcatStartsFresh, new, c
<1>8. HandlerContract'
  <2> DEFINE Kept(call) ==
        LET def == Registry[prog[call.at].cmd.name] IN
        /\ def.depends_on # {} =>
             \E t \in def.depends_on : Matches(t, call.input)
        /\ (def.arg # <<>> /\ def.arg[1].required /\ def.arg[1].accepts # {}) =>
             \E t \in def.arg[1].accepts : Matches(t, call.arg)
  <2>1. Kept(new)
    <3>1. /\ ~ WrongInput(Registry[c.name], ctl.val)
          /\ ~ WrongArg(Registry[c.name], ArgResult(c, ctl.val).val)
      BY <1>1, AdmittedFacts DEF c
    <3>2. prog[new.at].cmd = c
      BY <1>3 DEF c
    <3> QED
      BY <1>3, <3>1, <3>2 DEF WrongInput, WrongArg
  <2>2. \A i \in 1..n : Kept(calls[i])
    BY <1>1 DEF CallsInvariant, HandlerContract
  <2> HIDE DEF Kept
  <2>3. \A i \in DOMAIN calls' : Kept(calls'[i])
    BY <1>1, <2>1, <2>2 DEF new, c
  <2> QED
    BY <1>2, <2>3 DEF Kept, HandlerContract
<1>9. HeapInv'
  BY <1>2 DEF CallsInvariant, HeapInv, HeapIs
<1> QED
  BY <1>2, <1>4, <1>5, <1>6, <1>7, <1>8, <1>9 DEF CallsInvariant

\* At the branch over the first k commands there is nothing to run yet, unless
\* it is the first command itself.
LEMMA NothingAbove ==
  ASSUME NEW m \in Nat, HeapIs(m), NEW k \in 1..m
  PROVE  heap[BranchOf(k)].kind = "command" => heap[BranchOf(k)].at = 1
<1>1. CASE k = 1
  BY <1>1, LeafNode DEF LeafOf, BranchOf
<1>2. CASE k # 1
  <2>1. k \in 2..m
    BY <1>2
  <2> QED
    BY <2>1, BranchNode
<1> QED
  BY <1>1, <1>2

\* On the way down the walk is at a branch, or at the first command.
LEMMA DownNode ==
  ASSUME CallsInvariant, ParseEnd \/ EnterBranch
  PROVE  /\ Len(prog) \in Nat
         /\ \E k \in 1..Len(prog) : HeapIs(Len(prog)) /\ ctl'.node = BranchOf(k)
<1> DEFINE n == Len(prog)
<1>1. n \in Nat \ {0}
  BY ProgramFacts DEF CallsInvariant, WalkInvariant
<1>2. CASE ParseEnd
  <2>1. PICK m \in DOMAIN prog : HeapIs(m)
    BY <1>2 DEF ParseEnd, AtEnd, CallsInvariant, HeapInv
  <2>2. m = n /\ Root = BranchOf(n)
    BY <1>1, <1>2, <2>1, RootNode, ProgramFacts
       DEF ParseEnd, AtEnd, CallsInvariant, WalkInvariant
  <2> QED
    BY <1>1, <1>2, <2>1, <2>2 DEF ParseEnd, Enter
<1>3. CASE EnterBranch
  <2>1. PICK k \in 1..n : WalkInv(k)
    BY <1>3, WalkFacts DEF CallsInvariant, EnterBranch
  <2>2. HeapIs(n) /\ Node.kind # "command" /\ ctl.mode = "eval"
    BY <1>3, <2>1 DEF WalkInv, EnterBranch
  <2>3. ctl.node # LeafOf(k)
    BY <1>1, <2>1, <2>2, LeafNode DEF Node
  <2>4. k \in 2..n /\ ctl.node = BranchOf(k)
    BY <1>1, <2>1, <2>3 DEF WalkInv, AtBranch, AtLeaf, Back
  <2>5. Node.lhs = BranchOf(k - 1)
    BY <1>1, <2>2, <2>4, BranchNode DEF Node
  <2>6. ctl'.node = BranchOf(k - 1)
    BY <1>3, <2>5 DEF EnterBranch, FirstChild, Enter
  <2> QED
    BY <1>1, <2>2, <2>4, <2>6
<1> QED
  BY <1>2, <1>3

\* The way down gives nothing out.
LEMMA DownStep ==
  ASSUME CallsInvariant, WalkInvariant', ParseEnd \/ EnterBranch
  PROVE  CallsInvariant'
<1>1. /\ UNCHANGED <<prog, heap, calls, outcome>>
      /\ ctl.mode # "done"
      /\ ctl'.mode = "eval"
  BY DEF ParseEnd, EnterBranch, Enter
<1>2. PICK k \in 1..Len(prog) : HeapIs(Len(prog)) /\ ctl'.node = BranchOf(k)
  BY DownNode
<1>3. Reached' = 0
  BY <1>1, <1>2, DownNode, NothingAbove DEF Reached, Node
<1>4. Reached = 0
  BY DEF Reached, ParseEnd, EnterBranch
<1> QED
  BY <1>1, <1>3, <1>4, QuietStep

\* The result of a command that calls no handler any more.
LEMMA ResultStep ==
  ASSUME CallsInvariant, WalkInvariant', NEW r, Conclude(r),
         AtCommand("builtin") \/ ctl.mode = "await"
  PROVE  CallsInvariant'
<1>1. PICK k \in 1..Len(prog) :
             /\ WalkInv(k)
             /\ AtLeaf(Len(prog) - k, k)
             /\ Node.at = k
             /\ Cmd = prog[k].cmd
  BY AtCommandFacts DEF AtCommand, CallsInvariant
<1>2. /\ ctl.mode = "eval" => Reached = k - 1 /\ ~ IsCustom(k)
      /\ ctl.mode = "await" => Reached = k
  BY <1>1, ReachedAtLeaf DEF CallsInvariant, AtLeaf, AtCommand, IsCustom
<1>3. ctl.mode \in {"eval", "await"}
  BY DEF AtCommand
<1>4. CASE IsOk(r)
  <2>1. /\ UNCHANGED <<prog, heap, calls, outcome>>
        /\ ctl' = [mode |-> "return", node |-> ctl.node, val |-> r.val]
    BY <1>4 DEF Conclude, Enter
  <2>2. Reached' = k
    BY <1>1, <2>1 DEF Reached, Node
  <2>3. k - 1 + 1 = k
    <3>1. prog \in Programs
      BY DEF CallsInvariant, WalkInvariant
    <3>2. k \in Int
      BY <3>1, ProgramFacts
    <3> QED
      BY <3>2
  <2> QED
    BY <1>2, <1>3, <2>1, <2>2, <2>3, QuietStep
<1>5. CASE ~ IsOk(r)
  BY <1>3, <1>5, VerdictStep DEF Conclude, Abort, Enter, IsOk
<1> QED
  BY <1>4, <1>5

\* On to the next command, or back from a join.
LEMMA ResumeStep ==
  ASSUME CallsInvariant, WalkInvariant', ResumePipe \/ ResumeConcat \/ ResumeJoin
  PROVE  CallsInvariant'
<1>1. /\ UNCHANGED <<prog, heap, calls, outcome>>
      /\ ctl.mode = "return" /\ stack # <<>>
      /\ ctl'.mode \in {"eval", "return"}
  BY DEF ResumePipe, ResumeConcat, ResumeJoin, Enter, Waiting
<1>2. PICK k \in 1..Len(prog) :
             /\ WalkInv(k)
             /\ ctl.node = LeafOf(k)
             /\ \/ Top.kind = "join"
                \/ k + 1 \in DOMAIN prog /\ Top.rhs = LeafOf(k + 1)
  BY <1>1, ResumeFacts DEF CallsInvariant
<1>3. Reached = k /\ Node.at = k
  BY <1>1, <1>2, ReachedAtLeaf DEF CallsInvariant
<1>4. CASE ResumeJoin
  <2>1. ctl'.mode = "return" /\ ctl'.node = ctl.node
    BY <1>4 DEF ResumeJoin, Enter
  <2>2. Reached' = Reached
    BY <1>1, <1>3, <2>1 DEF Reached, Node
  <2> QED
    BY <1>1, <2>1, <2>2, QuietStep
<1>5. CASE ResumePipe \/ ResumeConcat
  <2>1. /\ ctl'.mode = "eval"
        /\ ctl'.node = Top.rhs
        /\ Top.kind # "join"
    BY <1>5 DEF ResumePipe, ResumeConcat, Enter, Waiting
  <2>2. k + 1 \in 1..Len(prog) /\ ctl'.node = LeafOf(k + 1) /\ Len(prog) \in Nat
    BY <1>2, <2>1, ProgramFacts DEF CallsInvariant, WalkInvariant
  <2>3. heap[LeafOf(k + 1)].kind = "command" /\ heap[LeafOf(k + 1)].at = k + 1
    BY <1>2, <2>2, LeafNode DEF WalkInv
  <2>4. Reached' = k
    BY <1>1, <1>2, <2>1, <2>2, <2>3 DEF Reached, Node
  <2> QED
    BY <1>1, <1>3, <2>1, <2>4, QuietStep
<1> QED
  BY <1>4, <1>5

\* The walk only ends behind the last segment.
LEMMA FinishStep ==
  ASSUME CallsInvariant, WalkInvariant', Finish
  PROVE  CallsInvariant'
<1>1. PICK k \in 1..Len(prog) : WalkInv(k) /\ Len(prog) - k \in Nat
  BY WalkFacts DEF CallsInvariant, Finish
<1>2. Len(stack) = 0
  BY DEF Finish
<1>3. k = Len(prog)
  <2>1. prog \in Programs /\ Len(stack) >= Len(prog) - k
    BY <1>1 DEF WalkInv, CallsInvariant, WalkInvariant
  <2>2. Len(prog) \in Nat /\ k \in 1..Len(prog)
    BY <2>1, ProgramFacts
  <2> QED
    BY <1>1, <1>2, <2>1, <2>2
<1>4. ctl.node = LeafOf(k)
  BY <1>1 DEF WalkInv, AtBranch, AtLeaf, Back, Finish
<1>5. Reached = Len(prog)
  BY <1>1, <1>3, <1>4, ReachedAtLeaf DEF CallsInvariant, Finish
<1> QED
  BY <1>5, VerdictStep DEF Finish, Enter

\* It holds at first: nobody is called.
LEMMA InitCalls == Init => CallsInvariant
<1> SUFFICES ASSUME Init PROVE CallsInvariant
  OBVIOUS
<1>1. WalkInvariant
  BY InitInvariant
<1>2. Reached = 0 /\ ctl.mode = "parse" /\ DOMAIN calls = {} /\ heap = <<>>
  BY DEF Init, Reached
<1> QED
  BY <1>1, <1>2 DEF Init, CallsInvariant, CalledUpTo, HeapInv, NothingRunsUnparsed,
                    ConcatStartsFresh, HandlerContract

\* Every step keeps it.
LEMMA NextCalls == CallsInvariant /\ [Next]_vars => CallsInvariant'
<1> SUFFICES ASSUME CallsInvariant, [Next]_vars PROVE CallsInvariant'
  OBVIOUS
<1>1. WalkInvariant'
  BY NextInvariant DEF CallsInvariant
<1>2. CASE ParseFirst \/ ParseOperator
  <2>1. /\ UNCHANGED <<prog, ctl, calls, outcome>>
        /\ ctl.mode = "parse"
    BY <1>2 DEF ParseFirst, ParseOperator
  <2>2. Reached' = Reached
    BY <2>1 DEF Reached
  <2> QED
    BY <1>1, <2>1, <2>2, QuietStep
<1>3. CASE ParseFault
  BY <1>1, <1>3, VerdictStep DEF ParseFault, Abort, Enter, StageError, Err
<1>4. CASE ParseEnd \/ EnterBranch
  BY <1>1, <1>4, DownStep
<1>5. CASE RunBuiltin \/ HandlerReply
  BY <1>1, <1>5, ResultStep DEF RunBuiltin, HandlerReply
<1>6. CASE RefuseCall
  <2>1. PICK r \in GateErrors(Cmd, ctl.val) : Abort(r)
    BY <1>6 DEF RefuseCall
  <2>2. r.res # "ok"
    BY <2>1 DEF GateErrors, OptionFailures, IsOk, UnknownCommand,
                UnexpectedInputType, UnexpectedArgumentType, Err
  <2> QED
    BY <1>1, <1>6, <2>1, <2>2, VerdictStep DEF RefuseCall, AtCommand, Abort, Enter
<1>7. CASE CallHandler
  BY <1>1, <1>7, CallStep
<1>8. CASE ResumePipe \/ ResumeConcat \/ ResumeJoin
  BY <1>1, <1>8, ResumeStep
<1>9. CASE Finish
  BY <1>1, <1>9, FinishStep
<1>10. CASE UNCHANGED vars
  BY <1>1, <1>10 DEF vars, CallsInvariant, CalledUpTo, Reached, Node, HeapInv, HeapIs,
      IsCustom, NothingRunsUnparsed, ConcatStartsFresh, HandlerContract, WellFormed, IsBad
<1> QED
  BY <1>2, <1>3, <1>4, <1>5, <1>6, <1>7, <1>8, <1>9, <1>10 DEF Next, Parse, Walk

\* So it holds of every run.
LEMMA CallsHold == Spec => []CallsInvariant
<1> QED
  BY InitCalls, NextCalls, PTL DEF Spec

-----------------------------------------------------------------------------
\* Every even number is twice another, and every odd one one more.
LEMMA EvenOrOdd ==
  ASSUME NEW n \in Nat
  PROVE  \E j \in Nat : n = 2 * j \/ n = 2 * j + 1
<1>1. n \div 2 \in Nat /\ (n = 2 * (n \div 2) \/ n = 2 * (n \div 2) + 1)
  BY SMT
<1> QED
  BY <1>1

\* What the invariant says of the tree, node by node.
LEMMA NodesOK ==
  ASSUME CallsInvariant, NEW id \in DOMAIN heap
  PROVE  NodeOK(id)
<1>1. prog \in Programs /\ IsSeq(heap)
  BY DEF CallsInvariant, WalkInvariant
<1>2. heap # <<>> /\ id \in Nat \ {0}
  BY <1>1, SeqFacts
<1>3. PICK m \in DOMAIN prog : HeapIs(m)
  BY <1>2 DEF CallsInvariant, HeapInv
<1>4. DOMAIN prog = 1..Len(prog) /\ Len(prog) \in Nat /\ m \in 1..Len(prog)
  BY <1>1, <1>3, ProgramFacts
<1>5. id \in 1..(2 * m - 1)
  BY <1>3 DEF HeapIs
<1>6. CASE id = 1
  BY <1>3, <1>4, <1>6 DEF HeapIs, NodeOK, Leaf
<1>7. CASE id # 1
  <2>1. PICK j \in Nat : id = 2 * j \/ id = 2 * j + 1
    BY <1>2, EvenOrOdd
  <2> DEFINE k == j + 1
  <2>2. k \in 2..m /\ k \in DOMAIN prog
    BY <1>4, <1>5, <1>7, <2>1
  <2>3. CASE id = 2 * j
    <3>1. LeafOf(k) = id
      BY <2>2, <2>3 DEF LeafOf
    <3> QED
      BY <1>3, <1>4, <2>2, <3>1, LeafNode DEF NodeOK
  <2>4. CASE id = 2 * j + 1
    <3>1. BranchOf(k) = id
      BY <2>2, <2>4 DEF BranchOf
    <3>2. BranchOf(k - 1) \in 1..(id - 1) /\ LeafOf(k) \in 1..(id - 1)
      BY <2>2, <2>4 DEF LeafOf, BranchOf
    <3> QED
      BY <1>3, <1>4, <2>2, <3>1, <3>2, BranchNode DEF NodeOK
  <2> QED
    BY <2>1, <2>3, <2>4
<1> QED
  BY <1>6, <1>7

\* And of the stack, frame by frame.
LEMMA FramesOK ==
  ASSUME CallsInvariant, NEW j \in DOMAIN stack
  PROVE  stack[j].kind \in {"pipe", "concat", "join"} /\ stack[j].rhs \in DOMAIN heap
<1>1. prog \in Programs /\ IsSeq(stack)
  BY DEF CallsInvariant, WalkInvariant
<1>2. stack # <<>> /\ DOMAIN stack = 1..Len(stack) /\ Len(stack) \in Nat
  BY <1>1, SeqFacts
<1>3. ctl.mode \in {"eval", "await", "return"}
  BY <1>2 DEF CallsInvariant, WalkInvariant, WalksTheTree, ParsingInv, Modes
<1>4. PICK k \in 1..Len(prog) : WalkInv(k) /\ Len(prog) - k \in Nat
  BY <1>3, WalkFacts DEF CallsInvariant
<1> DEFINE n == Len(prog)
           d == n - k
<1>5. n \in Nat \ {0} /\ HeapIs(n) /\ FramesAre(d)
  BY <1>1, <1>4, ProgramFacts DEF WalkInv
<1>6. CASE j \in 1..d
  <2>1. n + 1 - j \in 1..n /\ n + 1 - j \in 2..n
    BY <1>4, <1>5, <1>6
  <2>2. prog[n + 1 - j].op \in {"pipe", "concat"} /\ LeafOf(n + 1 - j) \in DOMAIN heap
    BY <1>1, <1>5, <2>1, ProgramFacts, LeafNode
  <2>3. stack[j] = Frame(prog[n + 1 - j].op, LeafOf(n + 1 - j), NoneV)
    BY <1>5, <1>6 DEF FramesAre
  <2> QED
    BY <2>2, <2>3 DEF Frame
<1>7. CASE j \notin 1..d
  <2>1. JoinOn(d, k) /\ j = d + 1
    BY <1>2, <1>4, <1>7 DEF WalkInv, AtBranch, AtLeaf, Back, JoinOn
  <2>2. LeafOf(k) \in DOMAIN heap
    BY <1>4, <1>5, LeafNode
  <2> QED
    BY <2>1, <2>2 DEF JoinOn
<1> QED
  BY <1>6, <1>7

\* And of the node the walk is at.
LEMMA NodeInHeap ==
  ASSUME CallsInvariant, ctl.mode \in {"eval", "await", "return"}
  PROVE  ctl.node \in DOMAIN heap
<1>1. PICK k \in 1..Len(prog) : WalkInv(k)
  BY WalkFacts DEF CallsInvariant
<1>2. HeapIs(Len(prog)) /\ Len(prog) \in Nat
  BY <1>1, ProgramFacts DEF WalkInv, CallsInvariant, WalkInvariant
<1>3. LeafOf(k) \in DOMAIN heap
  BY <1>1, <1>2, LeafNode
<1>4. CASE ctl.node = LeafOf(k)
  BY <1>3, <1>4
<1>5. CASE ctl.node # LeafOf(k)
  <2>1. k \in 2..Len(prog) /\ ctl.node = BranchOf(k)
    BY <1>1, <1>2, <1>5 DEF WalkInv, AtBranch, AtLeaf, Back
  <2> QED
    BY <1>2, <2>1, BranchNode
<1> QED
  BY <1>4, <1>5

\* How far the calls have got, whatever the walk is doing.
LEMMA CallsSoFar ==
  ASSUME CallsInvariant
  PROVE  \E n \in 0..Len(prog) : CalledUpTo(n) /\ (outcome.res = "ok" => n = Len(prog))
<1>1. CASE ctl.mode = "done"
  BY <1>1 DEF CallsInvariant
<1>2. CASE ctl.mode # "done"
  BY <1>2, ReachedRange DEF CallsInvariant, Pending
<1> QED
  BY <1>1, <1>2

\* The variables have their types in every run of every program: no node refers
\* to one that is not there, no frame waits for one, and a verdict ends it all.
THEOREM TypeCorrect == Spec => []TypeOK
<1>1. CallsInvariant => TypeOK
  <2> SUFFICES ASSUME CallsInvariant PROVE TypeOK
    OBVIOUS
  <2>1. prog \in Programs /\ ctl.mode \in Modes
    BY DEF CallsInvariant, WalkInvariant
  <2>2. ProgramOK(prog) /\ DOMAIN prog = 1..Len(prog) /\ Len(prog) \in Nat
    BY <2>1, ProgramsAssumption, ProgramFacts
  <2>3. \A i \in DOMAIN calls : calls[i].at \in DOMAIN prog
    <3>1. PICK n \in 0..Len(prog) : CalledUpTo(n)
      BY CallsSoFar
    <3> QED
      BY <2>2, <3>1 DEF CalledUpTo
  <2>4. /\ ctl.mode # "done" => outcome = Pending
        /\ ctl.mode = "done" => stack = <<>>
    BY DEF CallsInvariant
  <2> QED
    BY <2>1, <2>2, <2>3, <2>4, NodesOK, FramesOK, NodeInHeap DEF TypeOK
<1> QED
  BY <1>1, CallsHold, PTL

\* The handlers that are called are those of a prefix of the custom commands in
\* source order, each once, and all of them if the verdict is Ok.
THEOREM SourceOrder == Spec => []CallsInSourceOrder
<1>1. CallsInvariant => CallsInSourceOrder
  <2> SUFFICES ASSUME CallsInvariant PROVE CallsInSourceOrder
    OBVIOUS
  <2>1. prog \in Programs /\ IsSeq(calls)
    BY DEF CallsInvariant, WalkInvariant
  <2>2. DOMAIN prog = 1..Len(prog) /\ Len(prog) \in Nat
    BY <2>1, ProgramFacts
  <2>3. DOMAIN calls = 1..Len(calls) /\ Len(calls) \in Nat
    BY <2>1, SeqFacts
  <2>4. PICK n \in 0..Len(prog) : CalledUpTo(n) /\ (outcome.res = "ok" => n = Len(prog))
    BY CallsSoFar
  <2>5. \A i, j \in DOMAIN calls : i < j => calls[i].at < calls[j].at
    BY <2>4 DEF CalledUpTo
  <2>6. ASSUME NEW i \in DOMAIN calls, NEW k \in DOMAIN prog, IsCustom(k)
        PROVE  k <= calls[i].at <=> \E j \in 1..i : calls[j].at = k
    <3>1. calls[i].at \in 1..n /\ 1..i \subseteq DOMAIN calls
      BY <2>3, <2>4 DEF CalledUpTo
    <3>2. ASSUME k <= calls[i].at PROVE \E j \in 1..i : calls[j].at = k
      <4>1. PICK j \in DOMAIN calls : calls[j].at = k
        <5>1. k \in 1..n
          BY <2>2, <3>1, <3>2
        <5> QED
          BY <2>4, <2>6, <5>1 DEF CalledUpTo
      <4>2. ~ i < j
        BY <2>2, <2>5, <3>1, <3>2, <4>1
      <4> QED
        BY <2>3, <4>1, <4>2
    <3>3. ASSUME NEW j \in 1..i, calls[j].at = k PROVE k <= calls[i].at
      <4>1. j \in DOMAIN calls /\ (j = i \/ j < i)
        BY <2>3, <3>1
      <4> QED
        BY <2>2, <2>5, <3>1, <3>3, <4>1
    <3> QED
      BY <3>2, <3>3
  <2>7. outcome.res = "ok" =>
          \A k \in DOMAIN prog : IsCustom(k) => \E i \in DOMAIN calls : calls[i].at = k
    BY <2>2, <2>4 DEF CalledUpTo
  <2> QED
    BY <2>5, <2>6, <2>7 DEF CallsInSourceOrder
<1> QED
  BY <1>1, CallsHold, PTL

\* No handler has run if the program has a fault anywhere.
THEOREM ParsedFirst == Spec => []NothingRunsUnparsed
<1>1. CallsInvariant => NothingRunsUnparsed
  BY DEF CallsInvariant
<1> QED
  BY <1>1, CallsHold, PTL

\* A handler behind `++` is handed Value::None, wherever the `++` is.
THEOREM FreshConcat == Spec => []ConcatStartsFresh
<1>1. CallsInvariant => ConcatStartsFresh
  BY DEF CallsInvariant
<1> QED
  BY <1>1, CallsHold, PTL

\* A handler is handed what its definition asks for.
THEOREM ContractKept == Spec => []HandlerContract
<1>1. CallsInvariant => HandlerContract
  BY DEF CallsInvariant
<1> QED
  BY <1>1, CallsHold, PTL

-----------------------------------------------------------------------------
(***************************************************************************)
(* What one command hands to the next: the type that is checked when a     *)
(* handler has replied still holds when the value is used, however many    *)
(* nodes of the tree it has gone through in between.                       *)
(***************************************************************************)

\* v is what segment k may give out.
Handed(k, v) ==
  CASE prog[k].op = "concat" -> IsVec(v)
    [] prog[k].op = "pipe" /\ IsCustom(k) ->
         Matches(Registry[prog[k].cmd.name].returns, v)
    [] OTHER -> TRUE

\* TypedHandoff speaks of calls that were made; a value on its way to one is of
\* the type of the segment it came from, unless it has yet to be joined.
Delivery ==
  /\ /\ ctl.mode \in {"eval", "await"} /\ Node.kind = "command"
     /\ Node.at > 1 /\ prog[Node.at].op = "pipe"
     => Handed(Node.at - 1, ctl.val)
  /\ ctl.mode = "return" /\ ~ Waiting("join") => Handed(Node.at, ctl.val)

HandoffInvariant == CallsInvariant /\ Delivery /\ TypedHandoff

\* Steps that make no call.
LEMMA SameHandoffs ==
  ASSUME TypedHandoff, UNCHANGED <<prog, calls>>
  PROVE  TypedHandoff'
BY DEF TypedHandoff, IsCustom

\* A join that is on top is what the walk returns to.
LEMMA TopIsJoin ==
  ASSUME WalkInvariant, NEW k \in 1..Len(prog), JoinOn(Len(prog) - k, k)
  PROVE  Waiting("join")
<1>1. IsSeq(stack) /\ Len(prog) \in Nat
  BY ProgramFacts DEF WalkInvariant
<1>2. Len(stack) = Len(prog) - k + 1 /\ stack[Len(stack)].kind = "join"
  BY DEF JoinOn
<1>3. stack # <<>>
  BY <1>1, <1>2, SeqFacts
<1> QED
  BY <1>2, <1>3 DEF Waiting, Top

\* A command is over and its value goes back.
LEMMA ConcludeHandoff ==
  ASSUME HandoffInvariant, NEW r, Conclude(r), UNCHANGED prog,
         \/ AtCommand("builtin")
         \/ ctl.mode = "await" /\ \E reply : r = ReplyResult(Cmd, reply)
  PROVE  Delivery' /\ TypedHandoff'
<1>1. PICK k \in 1..Len(prog) : /\ AtLeaf(Len(prog) - k, k)
                               /\ Node.at = k
                               /\ Cmd = prog[k].cmd
  BY AtCommandFacts DEF AtCommand, HandoffInvariant, CallsInvariant
<1>2. CASE IsOk(r)
  <2>1. /\ UNCHANGED <<prog, heap, stack, calls>>
        /\ ctl' = [mode |-> "return", node |-> ctl.node, val |-> r.val]
    BY <1>2 DEF Conclude, Enter
  <2>2. Node'.at = k
    BY <1>1, <2>1 DEF Node
  <2>3. ~ Waiting("join") => Handed(k, r.val)
    <3> SUFFICES ASSUME ~ Waiting("join") PROVE Handed(k, r.val)
      OBVIOUS
    <3>1. CASE k > 1 /\ prog[k].op = "concat"
      <4>1. JoinOn(Len(prog) - k, k)
        BY <1>1, <3>1 DEF AtLeaf
      <4>2. Waiting("join")
        BY <4>1, TopIsJoin DEF HandoffInvariant, CallsInvariant
      <4> QED
        BY <4>2
    <3>2. CASE prog[k].op = "pipe" /\ IsCustom(k)
      <4>1. PICK reply : r = ReplyResult(prog[k].cmd, reply)
        BY <1>1, <3>2 DEF AtCommand, IsCustom
      <4>2. Matches(Registry[prog[k].cmd.name].returns, r.val)
        BY <1>2, <4>1 DEF ReplyResult, IsOk, UnexpectedReturnType, Err
      <4> QED
        BY <3>2, <4>2 DEF Handed
    <3>3. prog[k].op = "concat" => k > 1
      <4>1. prog \in Programs
        BY DEF HandoffInvariant, CallsInvariant, WalkInvariant
      <4>2. prog[1].op = "pipe" /\ Len(prog) \in Nat
        BY <4>1, ProgramFacts
      <4> QED
        BY <4>2
    <3> QED
      BY <3>1, <3>2, <3>3 DEF Handed
  <2>4. Delivery'
    BY <2>1, <2>2, <2>3 DEF Delivery, Waiting, Top, Handed, IsCustom
  <2> QED
    BY <2>1, <2>4, SameHandoffs DEF HandoffInvariant
<1>3. CASE ~ IsOk(r)
  <2>1. ctl'.mode = "done" /\ UNCHANGED <<prog, calls>>
    BY <1>3 DEF Conclude, Abort, Enter
  <2> QED
    BY <2>1, SameHandoffs DEF Delivery, HandoffInvariant
<1> QED
  BY <1>2, <1>3

\* A handler is called with what was delivered.
LEMMA CallHandoff ==
  ASSUME HandoffInvariant, CallHandler
  PROVE  Delivery' /\ TypedHandoff'
<1>1. PICK k \in 1..Len(prog) :
             LET n == Len(calls)
             IN  /\ AtLeaf(Len(prog) - k, k)
                 /\ n \in Nat
                 /\ DOMAIN calls = 1..n
                 /\ DOMAIN calls' = 1..(n + 1)
                 /\ \A i \in 1..n : calls'[i] = calls[i]
                 /\ calls'[n + 1] = CallOf(k, prog[k].cmd, ctl.val)
                 /\ WalkInv(k)
  BY NewCall DEF HandoffInvariant, CallsInvariant
<1>2. /\ UNCHANGED <<prog, heap, stack>>
      /\ ctl.mode = "eval"
      /\ ctl' = [mode |-> "await", node |-> ctl.node, val |-> ctl.val]
  BY DEF CallHandler, AtCommand, Enter
<1>3. Node.kind = "command" /\ Node.at = k
  BY <1>1, ReachedAtLeaf DEF HandoffInvariant, CallsInvariant, AtLeaf
<1>4. k > 1 /\ prog[k].op = "pipe" => Handed(k - 1, ctl.val)
  BY <1>2, <1>3 DEF HandoffInvariant, Delivery
<1>5. Delivery'
  BY <1>2, <1>3, <1>4 DEF Delivery, Node, Handed, IsCustom
<1>6. TypedHandoff'
  <2> DEFINE Typed(call) == call.at > 1 /\ prog[call.at].op = "pipe" =>
                              Handed(call.at - 1, call.input)
             new == CallOf(k, prog[k].cmd, ctl.val)
  <2>1. new.at = k /\ new.input = ctl.val
    BY DEF CallOf
  <2>2. Typed(new)
    BY <1>4, <2>1
  <2>3. \A i \in DOMAIN calls : Typed(calls[i])
    BY DEF HandoffInvariant, TypedHandoff, Handed
  <2> HIDE DEF Typed, new
  <2>4. \A i \in DOMAIN calls' : Typed(calls'[i])
    BY <1>1, <2>2, <2>3 DEF new
  <2> QED
    BY <1>2, <2>4 DEF Typed, TypedHandoff, Handed, IsCustom
<1> QED
  BY <1>5, <1>6

\* The value of one command becomes the input of the next, or is joined.
LEMMA ResumeHandoff ==
  ASSUME HandoffInvariant, ResumePipe \/ ResumeConcat \/ ResumeJoin
  PROVE  Delivery' /\ TypedHandoff'
<1>1. /\ UNCHANGED <<prog, heap, calls>>
      /\ ctl.mode = "return" /\ stack # <<>>
  BY DEF ResumePipe, ResumeConcat, ResumeJoin, Waiting
<1>2. PICK k \in 1..Len(prog) :
             /\ WalkInv(k)
             /\ ctl.node = LeafOf(k)
             /\ \/ Top.kind = "join" /\ JoinOn(Len(prog) - k, k)
                \/ k + 1 \in DOMAIN prog /\ Top.rhs = LeafOf(k + 1) /\ Top.kind = prog[k + 1].op
  <2>1. PICK k \in 1..Len(prog) :
               /\ WalkInv(k)
               /\ Len(prog) - k \in Nat
               /\ ctl.node = LeafOf(k)
               /\ \/ Top.kind = "join" /\ Len(stack) = Len(prog) - k + 1
                  \/ k + 1 \in DOMAIN prog /\ Top.rhs = LeafOf(k + 1) /\ Top.kind = prog[k + 1].op
    BY <1>1, ResumeFacts DEF HandoffInvariant, CallsInvariant
  <2>2. Back(Len(prog) - k, k)
    BY <1>1, <2>1 DEF WalkInv, AtBranch, AtLeaf
  <2>3. Len(stack) = Len(prog) - k + 1 => JoinOn(Len(prog) - k, k)
    BY <2>1, <2>2 DEF Back
  <2> QED
    BY <2>1, <2>3
<1>3. Node.at = k
  BY <1>1, <1>2, ReachedAtLeaf DEF HandoffInvariant, CallsInvariant
<1>4. CASE ResumeJoin
  <2>1. /\ ctl' = [mode |-> "return", node |-> ctl.node, val |-> Joined]
        /\ Top.kind = "join"
    BY <1>4 DEF ResumeJoin, Enter, Waiting
  <2>2. prog[k].op = "concat"
    BY <1>2, <2>1, ProgramFacts DEF JoinOn, HandoffInvariant, CallsInvariant, WalkInvariant
  <2>3. IsVec(Joined)
    BY DEF Joined, concat_values, IsVec, VecV, Tag
  <2>4. Node'.at = k
    BY <1>1, <1>3, <2>1 DEF Node
  <2> QED
    BY <1>1, <2>1, <2>2, <2>3, <2>4, SameHandoffs
       DEF Delivery, Handed, HandoffInvariant
<1>5. CASE ResumePipe \/ ResumeConcat
  <2>1. /\ ctl'.mode = "eval"
        /\ ctl'.node = Top.rhs
        /\ Top.kind # "join"
    BY <1>5 DEF ResumePipe, ResumeConcat, Enter, Waiting
  <2>2. k + 1 \in 1..Len(prog) /\ ctl'.node = LeafOf(k + 1) /\ Len(prog) \in Nat
    BY <1>2, <2>1, ProgramFacts DEF HandoffInvariant, CallsInvariant, WalkInvariant
  <2>3. heap[LeafOf(k + 1)].at = k + 1
    BY <1>2, <2>2, LeafNode DEF WalkInv
  <2>4. Node'.at = k + 1 /\ k + 1 - 1 = k
    BY <1>1, <2>2, <2>3 DEF Node
  <2>5. prog[k + 1].op = "pipe" => Handed(k, ctl'.val)
    <3> SUFFICES ASSUME prog[k + 1].op = "pipe" PROVE Handed(k, ctl'.val)
      OBVIOUS
    <3>1. ResumePipe /\ ctl'.val = ctl.val /\ ~ Waiting("join")
      BY <1>2, <1>5, <2>1 DEF ResumePipe, ResumeConcat, Waiting, Enter
    <3> QED
      BY <1>1, <1>3, <3>1 DEF HandoffInvariant, Delivery
  <2> QED
    BY <1>1, <2>1, <2>4, <2>5, SameHandoffs
       DEF Delivery, Handed, IsCustom, HandoffInvariant
<1> QED
  BY <1>4, <1>5

\* Before `execute` begins nothing has been handed over.
LEMMA InitHandoff == Init => HandoffInvariant
<1> SUFFICES ASSUME Init PROVE HandoffInvariant
  OBVIOUS
<1>1. CallsInvariant
  BY InitCalls
<1>2. ctl.mode = "parse" /\ calls = <<>>
  BY DEF Init
<1> QED
  BY <1>1, <1>2 DEF HandoffInvariant, Delivery, TypedHandoff

\* Every step of the walk keeps what is known of the values on their way to a handler.
LEMMA NextHandoff == HandoffInvariant /\ [Next]_vars => HandoffInvariant'
<1> SUFFICES ASSUME HandoffInvariant, [Next]_vars PROVE HandoffInvariant'
  OBVIOUS
<1>1. CallsInvariant'
  BY NextCalls DEF HandoffInvariant
<1>2. CASE ParseFirst \/ ParseOperator \/ ParseFault \/ RefuseCall \/ Finish
  <2>1. ctl'.mode \in {"parse", "done"} /\ UNCHANGED <<prog, calls>>
    BY <1>2 DEF ParseFirst, ParseOperator, ParseFault, RefuseCall, Finish, Abort, Enter
  <2> QED
    BY <1>1, <2>1, SameHandoffs DEF HandoffInvariant, Delivery
<1>3. CASE ParseEnd \/ EnterBranch
  <2>1. UNCHANGED <<prog, heap, calls>> /\ ctl'.mode = "eval"
    BY <1>3 DEF ParseEnd, EnterBranch, Enter
  <2>2. PICK k \in 1..Len(prog) : HeapIs(Len(prog)) /\ ctl'.node = BranchOf(k)
    BY <1>3, DownNode DEF HandoffInvariant
  <2>3. Node'.kind = "command" => ~ (Node'.at > 1)
    BY <1>3, <2>1, <2>2, DownNode, NothingAbove DEF Node, HandoffInvariant
  <2> QED
    BY <1>1, <2>1, <2>3, SameHandoffs DEF HandoffInvariant, Delivery
<1>4. CASE RunBuiltin
  <2>1. PICK r \in BuiltinOutcomes(Cmd, ctl.val) : Conclude(r)
    BY <1>4 DEF RunBuiltin
  <2>2. UNCHANGED prog
    BY <2>1 DEF Conclude, Abort
  <2> QED
    BY <1>1, <1>4, <2>1, <2>2, ConcludeHandoff DEF RunBuiltin, HandoffInvariant
<1>5. CASE HandlerReply
  <2>1. PICK r : Conclude(r) /\ \E reply : r = ReplyResult(Cmd, reply)
    BY <1>5 DEF HandlerReply
  <2>2. UNCHANGED prog
    BY <2>1 DEF Conclude, Abort
  <2> QED
    BY <1>1, <1>5, <2>1, <2>2, ConcludeHandoff DEF HandlerReply, HandoffInvariant
<1>6. CASE CallHandler
  BY <1>1, <1>6, CallHandoff DEF HandoffInvariant
<1>7. CASE ResumePipe \/ ResumeConcat \/ ResumeJoin
  BY <1>1, <1>7, ResumeHandoff DEF HandoffInvariant
<1>8. CASE UNCHANGED vars
  BY <1>1, <1>8 DEF vars, HandoffInvariant, Delivery, TypedHandoff, Node, Waiting, Top,
                    Handed, IsCustom
<1> QED
  BY <1>2, <1>3, <1>4, <1>5, <1>6, <1>7, <1>8 DEF Next, Parse, Walk

\* What a handler finds behind `>>` is of the type that the command in front of
\* it declared, or a vector if that one was joined by `++`.
THEOREM HandoffTyped == Spec => []TypedHandoff
<1>1. Spec => []HandoffInvariant
  BY InitHandoff, NextHandoff, PTL DEF Spec
<1> QED
  BY <1>1, PTL DEF HandoffInvariant
=============================================================================

----------------------------- MODULE ParserProofs -----------------------------
(***************************************************************************)
(* Proofs about the parser.  Its recursive functions are the frames of a   *)
(* stack here, so what is to be shown of each call is said of its frame    *)
(* and of the position and the binding power of the call above it.         *)
(***************************************************************************)
EXTENDS Parser, UntypedSeqs

\* Where the expression in hand begins, or the one that comes next.
Here ==
  CASE ctl.at \in {"segment", "path"} -> ctl.val
    [] ctl.at = "ops" -> nodes[ctl.val].from
    [] OTHER -> pos + 1

\* A node is made of tokens that are consumed and of nodes that were boxed before
\* it, and binds as it should.
NodeHolds(n, id) ==
  /\ n.from \in 1..n.to /\ n.to \in 1..pos /\ n.op \in n.from..n.to
  /\ n.parts \in Seq(Nat)
  /\ \A i \in DOMAIN n.parts : n.parts[i] \in 1..(id - 1)
  /\ n.kind = "binary" => Len(n.parts) = 2
  /\ n.kind = "not" => Len(n.parts) = 1
  /\ Tiled(n)
  /\ n.kind = "binary" =>
       /\ Power(nodes[n.parts[1]]) >= Power(n)
       /\ Power(nodes[n.parts[2]]) > Power(n)
  /\ n.kind = "not" => Power(nodes[n.parts[1]]) = NotPower

\* A call that waits for an expression which begins at `start` and takes what
\* binds at least as `bp`.
FrameHolds(f, start, bp) ==
  /\ f = Frame(f.fn, f.bp, f.from, f.op, f.parts)
  /\ f.fn \in {"not", "binary", "group"}
  /\ f.op \in 1..pos /\ f.from \in 1..f.op
  /\ f.bp \in 0..NotPower
  /\ start \in (f.op + 1)..(pos + 1)
  /\ f.parts \in Seq(Nat)
  /\ \A i \in DOMAIN f.parts : f.parts[i] \in 1..Len(nodes)
  /\ f.fn = "not" =>
       /\ f.parts = <<>> /\ f.op = f.from /\ toks[f.from] = "not"
       /\ start = f.op + 1 /\ bp = NotPower
  /\ f.fn = "binary" =>
       /\ Len(f.parts) = 1
       /\ nodes[f.parts[1]].from = f.from /\ nodes[f.parts[1]].to + 1 = f.op
       /\ toks[f.op] \in BinOps
       /\ start = f.op + 1 /\ bp = RightPower(toks[f.op])
       /\ LeftPower(toks[f.op]) >= f.bp
       /\ Power(nodes[f.parts[1]]) >= LeftPower(toks[f.op])
  /\ f.fn = "group" =>
       /\ f.op = f.from /\ toks[f.from] = "lpar"
       /\ Ordered(f.parts)
       /\ \A i \in DOMAIN f.parts :
            f.from < nodes[f.parts[i]].from /\ nodes[f.parts[i]].to < start
       /\ \A p \in (f.from + 1)..(start - 1) : Within(f.parts, p) \/ toks[p] = "comma"

\* Every call waits for what the call above it parses.
StackHolds ==
  \A i \in DOMAIN frames :
    IF i = Len(frames) THEN FrameHolds(frames[i], Here, ctl.bp)
    ELSE FrameHolds(frames[i], frames[i + 1].from, frames[i + 1].bp)

\* The expression in hand ends where the parser is, and the operator behind it,
\* if it is one itself, binds no more than it.
HandHolds ==
  /\ ctl.at \in {"segment", "path"} =>
       /\ ctl.val \in 1..pos
       /\ (pos - ctl.val) % 2 = IF ctl.at = "path" THEN 1 ELSE 0
       /\ \A p \in ctl.val..pos :
            toks[p] \in IF (p - ctl.val) % 2 = 0 THEN {"dot"} ELSE Names
  /\ ctl.at = "ops" =>
       /\ ctl.val \in 1..Len(nodes)
       /\ nodes[ctl.val].to = pos
       /\ Power(nodes[ctl.val]) >= ctl.bp
       /\ nodes[ctl.val].kind = "binary" =>
            Looked /\ (Tok \in BinOps => LeftPower(Tok) <= Power(nodes[ctl.val]))

Parsing == {"prefix", "segment", "path", "ops", "group"}

ShapeHolds ==
  /\ toks \in Seq(Kinds) /\ Len(toks) <= MaxTokens
  /\ pos \in 0..Len(toks)
  /\ ctl = [at |-> ctl.at, bp |-> ctl.bp, val |-> ctl.val]
  /\ ctl.at \in Modes /\ ctl.bp \in 0..NotPower
  /\ IsSeq(frames) /\ IsSeq(nodes)
  /\ frames # <<>> => ctl.at \in Parsing
  /\ ctl.at = "group" => Waiting({"group"}) /\ ctl.bp = 0
  /\ Len(nodes) + Len(frames) + (IF ctl.at \in {"segment", "path"} THEN 1 ELSE 0) <= pos

ExprInv ==
  /\ ShapeHolds
  /\ HandHolds
  /\ StackHolds
  /\ \A id \in DOMAIN nodes : NodeHolds(nodes[id], id)


-----------------------------------------------------------------------------
\* Binding powers.
LEMMA NotBinds == NotPower = 80
BY DEF NotPower

\* The power of a binary operator is within the tiers of the code.
LEMMA OperatorBinds ==
  ASSUME NEW t \in BinOps
  PROVE  LeftPower(t) \in 30..70
<1> DEFINE i == CHOOSE i \in 1..5 : t \in Tiers[i]
<1>1. \E j \in 1..5 : t \in Tiers[j]
  BY DEF BinOps
<1>2. i \in 1..5
  BY <1>1
<1>3. LeftPower(t) = 20 + 10 * i
  BY DEF LeftPower
<1> HIDE DEF i
<1> QED
  BY <1>2, <1>3

\* What a step leaves alone: the tokens consumed and the nodes.
Kept ==
  /\ pos' >= pos
  /\ \A p \in 1..pos : toks'[p] = toks[p]
  /\ Len(nodes') >= Len(nodes)
  /\ \A id \in 1..Len(nodes) : nodes'[id] = nodes[id]

\* The nodes are where the text is.
Placed ==
  /\ pos \in Nat /\ Len(nodes) \in Nat
  /\ \A id \in 1..Len(nodes) :
       LET n == nodes[id] IN
       n.from \in 1..n.to /\ n.to \in 1..pos /\ n.op \in n.from..n.to

\* Places of tokens consumed remain so when more are consumed.
LEMMA RangesGrow ==
  ASSUME NEW p \in Int, NEW q \in Int, q >= p, NEW op \in Int, op \in 1..p,
         NEW from \in Int, from \in 1..op, NEW start \in Int, start \in (op + 1)..(p + 1)
  PROVE  op \in 1..q /\ from \in 1..p /\ start \in (op + 1)..(q + 1)
OBVIOUS

\* The parts of a node are what they were, however many nodes are made behind them.
LEMMA PartsStay ==
  ASSUME Placed, Kept,
         NEW parts \in Seq(Nat), \A i \in DOMAIN parts : parts[i] \in 1..Len(nodes)
  PROVE  /\ \A i \in DOMAIN parts :
              /\ nodes'[parts[i]] = nodes[parts[i]]
              /\ nodes[parts[i]].to \in 1..pos /\ nodes[parts[i]].from \in 1..pos
              /\ Power(nodes[parts[i]])' = Power(nodes[parts[i]])
         /\ \A p : Within(parts, p)' <=> Within(parts, p)
         /\ Ordered(parts)' <=> Ordered(parts)
<1>1. \A i \in DOMAIN parts : nodes'[parts[i]] = nodes[parts[i]]
  BY DEF Kept
<1>2. ASSUME NEW i \in DOMAIN parts
      PROVE  /\ nodes[parts[i]].to \in 1..pos /\ nodes[parts[i]].from \in 1..pos
             /\ nodes[parts[i]].op \in 1..pos
  <2>1. PICK n : n = nodes[parts[i]]
    OBVIOUS
  <2>2. pos \in Nat /\ n.from \in 1..n.to /\ n.to \in 1..pos /\ n.op \in n.from..n.to
    BY <2>1 DEF Placed
  <2>3. n.from \in 1..pos /\ n.op \in 1..pos
    BY <2>2
  <2> QED
    BY <2>1, <2>2, <2>3
<1>3. ASSUME NEW i \in DOMAIN parts
      PROVE  Power(nodes[parts[i]])' = Power(nodes[parts[i]])
  <2>1. toks'[nodes[parts[i]].op] = toks[nodes[parts[i]].op]
    BY <1>2 DEF Kept
  <2> QED
    BY <1>1, <2>1 DEF Power
<1>4. \A p : Within(parts, p)' <=> Within(parts, p)
  BY <1>1 DEF Within
<1>5. Ordered(parts)' <=> Ordered(parts)
  BY <1>1 DEF Ordered
<1> QED
  BY <1>1, <1>2, <1>3, <1>4, <1>5

\* A finished node stays tiled and bound as it was.
LEMMA NodeStays ==
  ASSUME Placed, Kept, pos' \in Nat, NEW id \in 1..Len(nodes), NEW n, NodeHolds(n, id)
  PROVE  NodeHolds(n, id)'
<1>1. /\ pos \in Nat /\ Len(nodes) \in Nat /\ n.parts \in Seq(Nat)
      /\ n.from \in 1..n.to /\ n.to \in 1..pos /\ n.op \in n.from..n.to /\ pos' >= pos
  BY DEF NodeHolds, Placed, Kept
<1>2. n.to \in 1..pos' /\ n.from \in 1..pos /\ n.op \in 1..pos
  BY <1>1
<1>3. \A i \in DOMAIN n.parts : n.parts[i] \in 1..(id - 1) /\ n.parts[i] \in 1..Len(nodes)
  BY <1>1 DEF NodeHolds
<1>4. PICK parts \in Seq(Nat) : parts = n.parts
  BY <1>1
<1>5. /\ \A i \in DOMAIN parts :
           /\ nodes'[parts[i]] = nodes[parts[i]]
           /\ Power(nodes[parts[i]])' = Power(nodes[parts[i]])
      /\ \A p : Within(parts, p)' <=> Within(parts, p)
      /\ Ordered(parts)' <=> Ordered(parts)
  BY <1>3, <1>4, PartsStay
<1>6. \A p \in n.from..n.to : toks'[p] = toks[p]
  BY <1>1 DEF Kept
<1>7. toks'[n.op] = toks[n.op] /\ toks'[n.from] = toks[n.from] /\ toks'[n.to] = toks[n.to]
  BY <1>1, <1>2 DEF Kept
<1>8. /\ n.kind = "binary" => Len(parts) = 2 /\ 1 \in DOMAIN parts /\ 2 \in DOMAIN parts
      /\ n.kind = "not" => Len(parts) = 1 /\ 1 \in DOMAIN parts
  BY <1>4 DEF NodeHolds
<1>9. Tiled(n)'
  <2>1. Tiled(n)
    BY DEF NodeHolds
  <2>2. CASE n.kind = "leaf"
    BY <2>1, <2>2, <1>7 DEF Tiled
  <2>3. CASE n.kind = "path"
    BY <2>1, <2>3, <1>6 DEF Tiled
  <2>4. CASE n.kind = "not"
    BY <2>1, <2>4, <1>4, <1>5, <1>7, <1>8 DEF Tiled
  <2>5. CASE n.kind = "binary"
    BY <2>1, <2>5, <1>4, <1>5, <1>7, <1>8 DEF Tiled
  <2>6. CASE n.kind \notin {"leaf", "path", "not", "binary"}
    <3>1. \A p \in (n.from + 1)..(n.to - 1) : toks'[p] = toks[p]
      <4>1. n.from \in Int /\ n.to \in Int
        BY <1>1
      <4>2. \A p \in (n.from + 1)..(n.to - 1) : p \in n.from..n.to
        BY <4>1
      <4> QED
        BY <1>6, <4>2
    <3> QED
      BY <2>1, <2>6, <3>1, <1>4, <1>5, <1>7 DEF Tiled
  <2> QED
    BY <2>2, <2>3, <2>4, <2>5, <2>6
<1>10. /\ n.kind = "binary" =>
            /\ Power(nodes[n.parts[1]])' >= Power(n)'
            /\ Power(nodes[n.parts[2]])' > Power(n)'
       /\ n.kind = "not" => Power(nodes[n.parts[1]])' = NotPower
  <2>1. Power(n)' = Power(n)
    BY <1>7 DEF Power
  <2> QED
    BY <2>1, <1>4, <1>5, <1>8 DEF NodeHolds
<1> QED
  BY <1>1, <1>2, <1>3, <1>4, <1>8, <1>9, <1>10 DEF NodeHolds

\* A pending call keeps what it has parsed.
LEMMA FrameStays ==
  ASSUME Placed, Kept, pos' \in Nat, Len(nodes') \in Nat,
         NEW f, NEW start, NEW bp, FrameHolds(f, start, bp)
  PROVE  FrameHolds(f, start, bp)'
<1>1. /\ pos \in Nat /\ Len(nodes) \in Nat /\ f.parts \in Seq(Nat)
      /\ f.op \in 1..pos /\ f.from \in 1..f.op /\ start \in (f.op + 1)..(pos + 1)
      /\ pos' >= pos /\ Len(nodes') >= Len(nodes)
  BY DEF FrameHolds, Placed, Kept
<1>2. f.op \in 1..pos' /\ start \in (f.op + 1)..(pos' + 1) /\ f.from \in 1..pos
  <2>1. f.op \in Int /\ f.from \in Int /\ start \in Int /\ pos \in Int /\ pos' \in Int
    BY <1>1
  <2> QED
    BY <1>1, <2>1, RangesGrow
<1>3. \A i \in DOMAIN f.parts : f.parts[i] \in 1..Len(nodes)
  BY DEF FrameHolds
<1>4. PICK parts \in Seq(Nat) : parts = f.parts
  BY <1>1
<1>5. /\ \A i \in DOMAIN parts :
           /\ nodes'[parts[i]] = nodes[parts[i]]
           /\ Power(nodes[parts[i]])' = Power(nodes[parts[i]])
      /\ \A p : Within(parts, p)' <=> Within(parts, p)
      /\ Ordered(parts)' <=> Ordered(parts)
  BY <1>3, <1>4, PartsStay
<1>6. toks'[f.op] = toks[f.op] /\ toks'[f.from] = toks[f.from]
  BY <1>1, <1>2 DEF Kept
<1>7. \A p \in (f.from + 1)..(start - 1) : toks'[p] = toks[p]
  <2>1. \A p \in (f.from + 1)..(start - 1) : p \in 1..pos
    BY <1>1, <1>2
  <2> QED
    BY <2>1 DEF Kept
<1>8. \A i \in DOMAIN parts : parts[i] \in 1..Len(nodes')
  BY <1>1, <1>3, <1>4
<1>9. f.fn = "binary" => Len(parts) = 1 /\ 1 \in DOMAIN parts
  BY <1>4 DEF FrameHolds
<1>10. CASE f.fn = "not"
  BY <1>1, <1>2, <1>4, <1>6, <1>8, <1>10 DEF FrameHolds
<1>11. CASE f.fn = "binary"
  BY <1>1, <1>2, <1>4, <1>5, <1>6, <1>8, <1>9, <1>11 DEF FrameHolds
<1>12. CASE f.fn = "group"
  BY <1>1, <1>2, <1>4, <1>5, <1>6, <1>7, <1>8, <1>12 DEF FrameHolds
<1> QED
  BY <1>10, <1>11, <1>12 DEF FrameHolds

\* Nodes and pending calls are finite sequences, and the parser is at a number.
LEMMA PlacedFacts ==
  ASSUME ExprInv
  PROVE  /\ Placed /\ IsSeq(nodes) /\ IsSeq(frames) /\ pos \in Nat
         /\ DOMAIN nodes = 1..Len(nodes) /\ Len(nodes) \in Nat
         /\ DOMAIN frames = 1..Len(frames) /\ Len(frames) \in Nat
<1>1. IsSeq(nodes) /\ IsSeq(frames) /\ pos \in Nat
  <2>1. Len(toks) \in Nat /\ pos \in 0..Len(toks)
    BY DEF ExprInv, ShapeHolds
  <2> QED
    BY <2>1 DEF ExprInv, ShapeHolds
<1>2. /\ DOMAIN nodes = 1..Len(nodes) /\ Len(nodes) \in Nat
      /\ DOMAIN frames = 1..Len(frames) /\ Len(frames) \in Nat
  BY <1>1, SeqFacts
<1>3. Placed
  BY <1>1, <1>2 DEF ExprInv, NodeHolds, Placed
<1> QED
  BY <1>1, <1>2, <1>3

-----------------------------------------------------------------------------
\* The nodes, when there is one more.
LEMMA SameNodes ==
  ASSUME ExprInv, Kept, pos' \in Nat, nodes' = nodes
  PROVE  \A id \in DOMAIN nodes' : NodeHolds(nodes[id], id)'
<1> SUFFICES ASSUME NEW id \in DOMAIN nodes
             PROVE  NodeHolds(nodes[id], id)'
  OBVIOUS
<1>1. PICK n : n = nodes[id]
  OBVIOUS
<1>2. id \in 1..Len(nodes) /\ Placed
  BY PlacedFacts
<1>3. NodeHolds(n, id)
  BY <1>1 DEF ExprInv
<1>4. NodeHolds(n, id)'
  BY <1>2, <1>3, NodeStays
<1>5. nodes'[id] = n
  BY <1>1
<1> QED
  BY <1>4, <1>5

\* Boxing one expression adds one node and keeps the others.
LEMMA OneMoreNode ==
  ASSUME ExprInv, pos' \in Nat, pos' >= pos, \A p \in 1..pos : toks'[p] = toks[p],
         NEW n, nodes' = Append(nodes, n), NEW m, m = Len(nodes) + 1, NodeHolds(n, m)'
  PROVE  /\ \A id \in DOMAIN nodes' : NodeHolds(nodes[id], id)'
         /\ Kept /\ IsSeq(nodes') /\ Len(nodes') = Len(nodes) + 1 /\ Len(nodes') \in Nat
         /\ nodes'[Len(nodes) + 1] = n /\ Len(nodes) + 1 \in 1..Len(nodes')
         /\ \A id \in 1..Len(nodes) : nodes'[id] = nodes[id]
<1>1. PICK k \in Nat : k = Len(nodes)
  BY PlacedFacts
<1>2. /\ IsSeq(nodes') /\ Len(nodes') = k + 1 /\ DOMAIN nodes' = 1..(k + 1)
      /\ nodes'[k + 1] = n /\ \A id \in 1..k : nodes'[id] = nodes[id]
      /\ DOMAIN nodes = 1..k
  BY <1>1, PlacedFacts, AppendFacts, SeqFacts
<1>3. Kept
  BY <1>1, <1>2 DEF Kept
<1>4. ASSUME NEW id \in 1..(k + 1)
      PROVE  NodeHolds(nodes[id], id)'
  <2>1. PICK x : x = nodes'[id]
    OBVIOUS
  <2>2. CASE id \in 1..k
    <3>1. NodeHolds(x, id) /\ Placed
      BY <1>2, <2>1, <2>2, PlacedFacts DEF ExprInv
    <3>2. NodeHolds(x, id)'
      BY <1>1, <1>3, <2>2, <3>1, NodeStays
    <3> QED
      BY <2>1, <3>2
  <2>3. CASE id = k + 1
    BY <1>1, <1>2, <2>3
  <2> QED
    BY <1>1, <2>2, <2>3
<1> QED
  BY <1>1, <1>2, <1>3, <1>4

-----------------------------------------------------------------------------
\* The stack, when the call on top goes on, calls, or returns.
LEMMA OldFrame ==
  ASSUME ExprInv, Kept, pos' \in Nat, Len(nodes') \in Nat,
         NEW i \in 1..Len(frames), NEW f, f = frames[i],
         NEW start, NEW bp,
         IF i = Len(frames) THEN start = Here /\ bp = ctl.bp
         ELSE start = frames[i + 1].from /\ bp = frames[i + 1].bp
  PROVE  FrameHolds(f, start, bp)'
<1>1. FrameHolds(f, start, bp) /\ Placed
  BY PlacedFacts DEF ExprInv, StackHolds
<1> QED
  BY <1>1, FrameStays

\* A step that calls nothing and returns from nothing leaves the pending calls
\* consistent.
LEMMA SameStack ==
  ASSUME ExprInv, Kept, pos' \in Nat, Len(nodes') \in Nat, frames' = frames,
         frames # <<>> => Here' = Here /\ ctl'.bp = ctl.bp
  PROVE  StackHolds'
<1> SUFFICES ASSUME NEW i \in 1..Len(frames)
             PROVE  IF i = Len(frames) THEN FrameHolds(frames[i], Here, ctl.bp)'
                    ELSE FrameHolds(frames[i], frames[i + 1].from, frames[i + 1].bp)'
  BY PlacedFacts DEF StackHolds
<1>1. Here' = Here /\ ctl'.bp = ctl.bp
  BY PlacedFacts
<1>2. PICK f, h, b : f = frames[i] /\ h = Here /\ b = ctl.bp
  OBVIOUS
<1>3. PICK s, c : s = frames[i + 1].from /\ c = frames[i + 1].bp
  OBVIOUS
<1>4. i = Len(frames) => FrameHolds(f, h, b)'
  BY <1>2, OldFrame
<1>5. i # Len(frames) => FrameHolds(f, s, c)'
  BY <1>2, <1>3, OldFrame
<1>6. i = Len(frames) => FrameHolds(frames[i], Here, ctl.bp)'
  BY <1>1, <1>2, <1>4
<1>7. i # Len(frames) => FrameHolds(frames[i], frames[i + 1].from, frames[i + 1].bp)'
  BY <1>2, <1>3, <1>5
<1> QED
  BY <1>6, <1>7

\* A call of `parse_expr` or `parse_group`: the caller waits where it is.
LEMMA OneMoreFrame ==
  ASSUME ExprInv, Kept, pos' \in Nat, Len(nodes') \in Nat,
         NEW f, frames' = Append(frames, f), f.from = Here, f.bp = ctl.bp,
         FrameHolds(f, Here, ctl.bp)'
  PROVE  /\ StackHolds' /\ IsSeq(frames') /\ Len(frames') = Len(frames) + 1
         /\ frames'[Len(frames) + 1] = f
<1>1. PICK k \in Nat : k = Len(frames)
  BY PlacedFacts
<1>2. /\ IsSeq(frames') /\ Len(frames') = k + 1 /\ DOMAIN frames' = 1..(k + 1)
      /\ frames'[k + 1] = f /\ \A i \in 1..k : frames'[i] = frames[i]
  BY <1>1, PlacedFacts, AppendFacts, SeqFacts
<1>3. ASSUME NEW i \in 1..(k + 1)
      PROVE  IF i = k + 1 THEN FrameHolds(frames[i], Here, ctl.bp)'
             ELSE FrameHolds(frames[i], frames[i + 1].from, frames[i + 1].bp)'
  <2>1. CASE i = k + 1
    BY <1>2, <2>1
  <2>2. CASE i \in 1..k
    <3>1. PICK g, s, b : g = frames'[i] /\ s = frames'[i + 1].from /\ b = frames'[i + 1].bp
      OBVIOUS
    <3>2. g = frames[i]
      BY <1>2, <2>2, <3>1
    <3>3. IF i = k THEN s = Here /\ b = ctl.bp
          ELSE s = frames[i + 1].from /\ b = frames[i + 1].bp
      <4>1. CASE i = k
        BY <1>2, <3>1, <4>1
      <4>2. CASE i # k
        <5>1. i + 1 \in 1..k
          BY <2>2, <4>2
        <5> QED
          BY <1>2, <3>1, <4>2, <5>1
      <4> QED
        BY <4>1, <4>2
    <3>4. FrameHolds(g, s, b)'
      BY <1>1, <2>2, <3>2, <3>3, OldFrame
    <3>5. FrameHolds(frames[i], frames[i + 1].from, frames[i + 1].bp)'
      BY <3>1, <3>4
    <3>6. i # k + 1
      BY <2>2
    <3> QED
      BY <3>5, <3>6
  <2> QED
    BY <1>1, <2>1, <2>2
<1> QED
  BY <1>1, <1>2, <1>3 DEF StackHolds

\* A return to the uppermost pending call.
LEMMA OneFrameLess ==
  ASSUME ExprInv, Kept, pos' \in Nat, Len(nodes') \in Nat,
         frames # <<>>, frames' = Popped, Here' = Top.from, ctl'.bp = Top.bp
  PROVE  StackHolds'
<1>0. Len(frames) \in Nat /\ Len(frames) # 0
  BY PlacedFacts, SeqFacts
<1>1. PICK k \in Nat : k = Len(frames) /\ k > 0
  BY <1>0
<1>2. /\ IsSeq(frames') /\ Len(frames') = k - 1 /\ DOMAIN frames' = 1..(k - 1)
      /\ \A i \in 1..(k - 1) : frames'[i] = frames[i]
  BY <1>1, PlacedFacts, PopFacts, SeqFacts DEF Popped
<1>3. ASSUME NEW i \in 1..(k - 1)
      PROVE  IF i = k - 1 THEN FrameHolds(frames[i], Here, ctl.bp)'
             ELSE FrameHolds(frames[i], frames[i + 1].from, frames[i + 1].bp)'
  <2>1. PICK g, s, b : g = frames[i] /\ s = frames[i + 1].from /\ b = frames[i + 1].bp
    OBVIOUS
  <2>2. i \in 1..k /\ i # k
    BY <1>1
  <2>3. FrameHolds(g, s, b)'
    BY <1>1, <2>1, <2>2, OldFrame
  <2>4. g = frames'[i]
    BY <1>2, <2>1
  <2>5. CASE i = k - 1
    <3>1. i + 1 = k
      BY <1>1, <2>5
    <3>2. Here' = s /\ ctl'.bp = b
      BY <1>1, <2>1, <3>1 DEF Top
    <3> QED
      BY <2>3, <2>4, <2>5, <3>2
  <2>6. CASE i # k - 1
    <3>1. i + 1 \in 1..(k - 1)
      BY <1>1, <2>6
    <3>2. s = frames'[i + 1].from /\ b = frames'[i + 1].bp
      BY <1>2, <2>1, <3>1
    <3> QED
      BY <2>3, <2>4, <2>6, <3>2
  <2> QED
    BY <2>5, <2>6
<1> QED
  BY <1>1, <1>2, <1>3 DEF StackHolds

-----------------------------------------------------------------------------
\* An item that is there to be looked at.
LEMMA ToksFacts ==
  ASSUME ExprInv
  PROVE  /\ Len(toks) \in Nat /\ toks \in Seq(Kinds) /\ DOMAIN toks = 1..Len(toks)
         /\ pos \in Nat /\ pos <= Len(toks) /\ Len(toks) <= MaxTokens
         /\ pos < Len(toks) => /\ pos + 1 \in 1..Len(toks) /\ Tok = toks[pos + 1]
                               /\ Tok \in Kinds /\ Tok # "end"
         /\ ~ (pos < Len(toks)) => pos = Len(toks) /\ Tok = "end"
<1>1. /\ Len(toks) \in Nat /\ toks \in Seq(Kinds) /\ DOMAIN toks = 1..Len(toks)
      /\ Len(toks) <= MaxTokens /\ pos \in 0..Len(toks)
  BY DEF ExprInv, ShapeHolds
<1>2. pos < Len(toks) => pos + 1 \in 1..Len(toks)
  BY <1>1
<1>3. pos < Len(toks) => Tok = toks[pos + 1] /\ Tok \in Kinds /\ Tok # "end"
  BY <1>1, <1>2, ElementOfSeq, KindsAssumption DEF Tok
<1>4. ~ (pos < Len(toks)) => pos = Len(toks) /\ Tok = "end"
  <2>1. pos \in Int /\ Len(toks) \in Int /\ pos <= Len(toks)
    BY <1>1
  <2>2. ~ (pos < Len(toks)) => pos = Len(toks)
    BY <2>1
  <2> QED
    BY <2>2 DEF Tok
<1>5. pos \in Nat /\ pos <= Len(toks)
  BY <1>1
<1> QED
  BY <1>1, <1>2, <1>3, <1>4, <1>5

\* The end of the tokens is none of the kinds the parser looks for.
LEMMA EndIsNoToken ==
  /\ "end" \notin Names /\ "end" \notin Atoms /\ "end" \notin BinOps
  /\ "end" \notin Literals /\ "end" \notin Heads /\ "end" \notin IsUint /\ "end" \notin Joints
<1>1. "end" \notin Names /\ "end" \notin IsUint /\ "end" \notin Joints
  BY KindsAssumption DEF Names, IsUint, Joints
<1>2. "end" \notin Literals /\ "end" \notin Heads
  BY <1>1 DEF Literals, Heads, Integer, IsInt, IsUint, Float
<1>3. "end" \notin Atoms
  BY <1>2 DEF Atoms, IsInt
<1>4. ASSUME NEW i \in 1..5
      PROVE  "end" \notin Tiers[i]
  BY <1>4 DEF Tiers
<1>5. "end" \notin BinOps
  BY <1>4 DEF BinOps
<1> QED
  BY <1>1, <1>2, <1>3, <1>5

\* The parser goes on outside of expressions, or at the beginning of one.
Quiet(a) ==
  /\ UNCHANGED <<toks, ended, nodes>>
  /\ frames' = <<>>
  /\ a \in Modes \ {"group", "segment", "path", "ops"}
  /\ ctl'.at = a /\ ctl'.bp = 0
  /\ ctl' = [at |-> ctl'.at, bp |-> ctl'.bp, val |-> ctl'.val]
  /\ pos' = pos \/ (pos' = pos + 1 /\ Tok # "end")

\* A step that touches no node and no call keeps the invariant.
LEMMA QuietSteps ==
  ASSUME ExprInv, NEW a, Quiet(a)
  PROVE  ExprInv'
<1>1. /\ toks' = toks /\ nodes' = nodes /\ frames' = <<>> /\ ctl'.at = a /\ ctl'.bp = 0
      /\ ctl' = [at |-> ctl'.at, bp |-> ctl'.bp, val |-> ctl'.val]
      /\ a \in Modes \ {"group", "segment", "path", "ops"}
  BY DEF Quiet
<1>2. pos' \in Nat /\ pos' >= pos /\ pos' <= Len(toks)
  <2>1. pos' = pos \/ (pos' = pos + 1 /\ pos < Len(toks))
    BY ToksFacts DEF Quiet
  <2>2. pos \in Nat /\ Len(toks) \in Nat /\ pos <= Len(toks)
    BY ToksFacts
  <2> QED
    BY <2>1, <2>2
<1>3. Kept
  BY <1>1, <1>2, PlacedFacts DEF Kept
<1>4. \A id \in DOMAIN nodes' : NodeHolds(nodes[id], id)'
  BY <1>1, <1>2, <1>3, SameNodes
<1>5. StackHolds'
  BY <1>1 DEF StackHolds
<1>6. HandHolds'
  BY <1>1 DEF HandHolds
<1>7. ShapeHolds'
  <2>1. Len(nodes) <= pos'
    <3>1. Len(nodes) + Len(frames) + (IF ctl.at \in {"segment", "path"} THEN 1 ELSE 0) <= pos
      BY DEF ExprInv, ShapeHolds
    <3>2. Len(nodes) \in Nat /\ Len(frames) \in Nat /\ pos \in Nat
      BY PlacedFacts
    <3> QED
      BY <1>2, <3>1, <3>2
  <2>2. IsSeq(<<>>) /\ Len(<<>>) = 0 /\ frames' = <<>>
    BY <1>1 DEF IsSeq
  <2>3. Len(nodes') + Len(frames')
          + (IF ctl'.at \in {"segment", "path"} THEN 1 ELSE 0) <= pos'
    BY <1>1, <2>1, <2>2, PlacedFacts
  <2>4. pos' \in 0..Len(toks') /\ ctl'.bp \in 0..NotPower
    BY <1>1, <1>2, ToksFacts DEF NotPower
  <2> QED
    BY <1>1, <2>2, <2>3, <2>4 DEF ExprInv, ShapeHolds
<1> QED
  BY <1>4, <1>5, <1>6, <1>7 DEF ExprInv

\* The steps of that kind.
LEMMA FailQuiet ==
  ASSUME NEW what, Fail(what)
  PROVE  Quiet("done")
BY DEF Fail, Go, Quiet, input, Modes

\* The actions outside of expressions, and the errors, are such steps.
LEMMA QuietActions ==
  ASSUME ExprInv,
         \/ LexFault \/ Reject \/ Start \/ Command \/ Pipeline \/ Finish
         \/ EndOfLoop \/ ExpressionNext \/ Dashes \/ Key \/ Flag \/ Direction \/ Take
         \/ EndArgument \/ NoGroup
  PROVE  ExprInv'
<1>1. ctl.at \notin Parsing => frames = <<>>
  BY DEF ExprInv, ShapeHolds
<1>2. ASSUME NEW a \in Modes \ {"group", "segment", "path", "ops"}, NEW v,
             Advance(a, 0, v), Tok # "end", frames = <<>>
      PROVE  Quiet(a)
  BY <1>2 DEF Advance, Consume, Go, Quiet, input
<1>3. ASSUME NEW a \in Modes \ {"group", "segment", "path", "ops"}, Stay(a), frames = <<>>
      PROVE  Quiet(a)
  BY <1>3 DEF Stay, Go, Quiet, input
<1>4. CASE LexFault \/ Reject \/ NoGroup
  BY <1>4, FailQuiet, QuietSteps DEF LexFault, Reject, NoGroup
<1>5. CASE Start
  BY <1>5, <1>1, <1>2, QuietSteps DEF Start, At, Parsing, Modes
<1>6. CASE Command
  <2>1. /\ ctl.at = "command" /\ Tok \in Heads
        /\ \E a \in Modes \ {"group", "segment", "path", "ops"} : Advance(a, 0, 0)
    <3> DEFINE kind == IF Tok \in Names THEN "custom" ELSE Tok
    <3>1. /\ ctl.at = "command" /\ Tok \in Heads
          /\ \/ kind = "count" /\ Advance("pipeline", 0, 0)
             \/ kind = "filter" /\ Advance("prefix", 0, 0)
             \/ kind \notin {"count", "filter"} /\ Advance(kind, 0, 0)
      BY <1>6 DEF Command, At
    <3>2. kind \in {"filter", "sort", "take", "unique", "count", "custom"}
      BY <3>1 DEF Heads
    <3>3. /\ "pipeline" \in Modes \ {"group", "segment", "path", "ops"}
          /\ "prefix" \in Modes \ {"group", "segment", "path", "ops"}
          /\ kind \notin {"count", "filter"} =>
               kind \in Modes \ {"group", "segment", "path", "ops"}
      BY <3>2 DEF Modes
    <3> HIDE DEF kind
    <3> QED
      BY <3>1, <3>3
  <2>2. Tok # "end" /\ frames = <<>>
    BY <1>1, <2>1, EndIsNoToken DEF Parsing
  <2> QED
    BY <1>2, <2>1, <2>2, QuietSteps
<1>7. CASE Pipeline
  <2>1. ctl.at = "pipeline" /\ Tok # "end" /\ Advance("command", 0, 0)
    BY <1>7, EndIsNoToken DEF Pipeline, At
  <2> QED
    BY <1>1, <1>2, <2>1, QuietSteps DEF Parsing, Modes
<1>8. CASE Finish
  <2>1. Quiet("done")
    BY <1>1, <1>8 DEF Finish, At, Go, Quiet, input, Modes, Parsing
  <2> QED
    BY <2>1, QuietSteps
<1>9. CASE EndOfLoop
  BY <1>1, <1>3, <1>9, QuietSteps DEF EndOfLoop, At, Parsing, Modes
<1>10. CASE ExpressionNext
  BY <1>1, <1>3, <1>10, QuietSteps DEF ExpressionNext, At, Parsing, Modes
<1>11. CASE Dashes
  <2>1. Tok # "end" /\ frames = <<>>
    BY <1>1, <1>11 DEF Dashes, At, Parsing
  <2> QED
    BY <1>2, <1>11, <2>1, QuietSteps DEF Dashes, Modes
<1>12. CASE Key
  <2>1. Tok # "end" /\ frames = <<>>
    BY <1>1, <1>12, EndIsNoToken DEF Key, At, Parsing
  <2> QED
    BY <1>2, <1>12, <2>1, QuietSteps DEF Key, Modes
<1>13. CASE Flag
  BY <1>1, <1>3, <1>13, QuietSteps DEF Flag, At, Parsing, Modes
<1>14. CASE Direction
  <2>1. Tok # "end" /\ frames = <<>>
    BY <1>1, <1>14 DEF Direction, At, Parsing
  <2> QED
    BY <1>2, <1>14, <2>1, QuietSteps DEF Direction, Modes
<1>15. CASE Take
  <2>1. Tok # "end" /\ frames = <<>>
    BY <1>1, <1>15, EndIsNoToken DEF Take, At, Parsing
  <2> QED
    BY <1>2, <1>15, <2>1, QuietSteps DEF Take, Modes
<1>16. CASE EndArgument
  <2>1. frames = <<>> /\ \E a \in {"sort", "custom", "pipeline"} : Stay(a)
    BY <1>16 DEF EndArgument, EndExpression
  <2> QED
    BY <1>3, <2>1, QuietSteps DEF Modes
<1> QED
  BY <1>4, <1>5, <1>6, <1>7, <1>8, <1>9, <1>10, <1>11, <1>12, <1>13, <1>14, <1>15, <1>16

-----------------------------------------------------------------------------
\* How strongly the expressions hold together, and that a step does not change it.
LEMMA PowerStays ==
  ASSUME ExprInv, Kept, NEW id \in 1..Len(nodes), NEW n, n = nodes[id]
  PROVE  nodes'[id] = n /\ Power(n)' = Power(n)
<1>1. pos \in Nat /\ n.from \in 1..n.to /\ n.to \in 1..pos /\ n.op \in n.from..n.to
  BY PlacedFacts DEF Placed
<1>2. n.op \in 1..pos
  BY <1>1
<1> QED
  BY <1>2 DEF Kept, Power

\* A binary node binds as the tier of its operator says, any other node as `not` does.
LEMMA PowerBounds ==
  ASSUME ExprInv, NEW id \in 1..Len(nodes), NEW n, n = nodes[id]
  PROVE  /\ Power(n) \in 30..80
         /\ n.kind # "binary" => Power(n) = NotPower
<1>1. NodeHolds(n, id)
  BY PlacedFacts DEF ExprInv
<1>2. CASE n.kind = "binary"
  <2>1. toks[n.op] \in BinOps
    BY <1>1, <1>2 DEF NodeHolds, Tiled
  <2>2. Power(n) = LeftPower(toks[n.op])
    BY <1>2 DEF Power
  <2>3. Power(n) \in 30..70
    BY <2>1, <2>2, OperatorBinds
  <2> QED
    BY <1>2, <2>3
<1>3. CASE n.kind # "binary"
  BY <1>3, NotBinds DEF Power
<1> QED
  BY <1>2, <1>3

\* The lexer yields an item.
LEMMA LexKeeps ==
  ASSUME ExprInv, Lex
  PROVE  ExprInv'
<1>1. /\ pos' = pos /\ ctl' = ctl /\ frames' = frames /\ nodes' = nodes /\ ~ Looked
      /\ \/ toks' = toks
         \/ Len(toks) < MaxTokens /\ \E k \in Kinds : toks' = Append(toks, k)
  BY DEF Lex
<1>2. pos = Len(toks) /\ ~ ended
  BY <1>1, ToksFacts DEF Looked
<1>3. /\ toks' \in Seq(Kinds) /\ Len(toks') <= MaxTokens /\ pos' \in 0..Len(toks')
      /\ \A p \in 1..pos : toks'[p] = toks[p]
  <2>1. toks \in Seq(Kinds) /\ Len(toks) \in Nat /\ Len(toks) <= MaxTokens /\ MaxTokens \in Nat
    BY ToksFacts, MaxTokensAssumption
  <2>2. CASE toks' = toks
    BY <1>1, <1>2, <2>1, <2>2
  <2>3. CASE Len(toks) < MaxTokens /\ \E k \in Kinds : toks' = Append(toks, k)
    <3>1. PICK k \in Kinds : toks' = Append(toks, k)
      BY <2>3
    <3>2. /\ toks' \in Seq(Kinds) /\ Len(toks') = Len(toks) + 1
          /\ \A p \in 1..Len(toks) : toks'[p] = toks[p]
      BY <2>1, <3>1
    <3>3. pos' = Len(toks)
      BY <1>1, <1>2
    <3>4. Len(toks') <= MaxTokens /\ pos' \in 0..Len(toks')
      <4>1. Len(toks) \in Int /\ Len(toks) >= 0 /\ MaxTokens \in Int /\ Len(toks) < MaxTokens
        BY <2>1, <2>3
      <4> QED
        BY <3>2, <3>3, <4>1
    <3> QED
      BY <1>2, <3>2, <3>4
  <2> QED
    BY <1>1, <2>2, <2>3
<1>4. pos' \in Nat /\ Kept /\ Len(nodes') \in Nat
  BY <1>1, <1>3, PlacedFacts DEF Kept
<1>5. \A id \in DOMAIN nodes' : NodeHolds(nodes[id], id)'
  BY <1>1, <1>4, SameNodes
<1>6. StackHolds'
  <2>1. Here' = Here
    BY <1>1 DEF Here
  <2> QED
    BY <1>1, <1>4, <2>1, SameStack
<1>7. HandHolds'
  <2>1. CASE ctl.at \in {"segment", "path"}
    <3>1. /\ ctl.val \in 1..pos /\ pos \in Nat
          /\ (pos - ctl.val) % 2 = IF ctl.at = "path" THEN 1 ELSE 0
          /\ \A p \in ctl.val..pos :
               toks[p] \in IF (p - ctl.val) % 2 = 0 THEN {"dot"} ELSE Names
      BY <2>1, PlacedFacts DEF ExprInv, HandHolds
    <3>2. \A p \in ctl.val..pos : toks'[p] = toks[p]
      BY <1>3, <3>1
    <3>3. ctl.at # "ops"
      BY <2>1
    <3> QED
      BY <1>1, <3>1, <3>2, <3>3 DEF HandHolds
  <2>2. CASE ctl.at = "ops"
    <3>1. PICK n, id : id = ctl.val /\ n = nodes[id]
      OBVIOUS
    <3>2. /\ id \in 1..Len(nodes) /\ n.to = pos /\ Power(n) >= ctl.bp
          /\ n.kind # "binary"
      BY <1>1, <2>2, <3>1 DEF ExprInv, HandHolds
    <3>3. Power(n)' = Power(n) /\ nodes'[id] = n
      BY <1>4, <3>1, <3>2, PowerStays
    <3>4. ctl'.val = id /\ ctl'.at = "ops" /\ ctl'.bp = ctl.bp
      BY <1>1, <2>2, <3>1
    <3>5. Power(nodes[ctl.val])' >= ctl'.bp
      BY <3>2, <3>3, <3>4
    <3> QED
      BY <1>1, <3>2, <3>3, <3>4, <3>5 DEF HandHolds
  <2>3. CASE ctl.at \notin {"segment", "path", "ops"}
    BY <1>1, <2>3 DEF HandHolds
  <2> QED
    BY <2>1, <2>2, <2>3
<1>8. ShapeHolds'
  BY <1>1, <1>3 DEF ExprInv, ShapeHolds, Waiting, Top
<1> QED
  BY <1>5, <1>6, <1>7, <1>8 DEF ExprInv

-----------------------------------------------------------------------------
\* A path is a dot and a name in turn.
LEMMA Parity ==
  ASSUME NEW n \in Nat
  PROVE  /\ n % 2 = 0 => (n + 1) % 2 = 1
         /\ n % 2 = 1 => (n + 1) % 2 = 0
OBVIOUS

\* One more dot or name of a path.
LEMMA PathGrows ==
  ASSUME ExprInv, ctl.at \in {"prefix", "segment", "path"}, pos < Len(toks),
         UNCHANGED <<input, frames, nodes>>, pos' = pos + 1,
         NEW at \in {"segment", "path"}, NEW val \in Nat,
         val = Here, ctl' = [at |-> at, bp |-> ctl.bp, val |-> val],
         at = "segment" => Tok = "dot" /\ ctl.at # "segment",
         at = "path" => Tok \in Names /\ ctl.at = "segment"
  PROVE  ExprInv'
<1>1. /\ pos \in Nat /\ Len(toks) \in Nat /\ Tok = toks[pos + 1] /\ toks' = toks
      /\ nodes' = nodes /\ frames' = frames
      /\ ctl'.at = at /\ ctl'.bp = ctl.bp /\ ctl'.val = val
  BY ToksFacts DEF input
<1>2. /\ val \in 1..(pos + 1)
      /\ ctl.at = "prefix" => val = pos + 1
      /\ ctl.at # "prefix" => /\ val = ctl.val /\ val <= pos
                              /\ (pos - val) % 2 = IF ctl.at = "path" THEN 1 ELSE 0
                              /\ \A p \in val..pos :
                                   toks[p] \in IF (p - val) % 2 = 0 THEN {"dot"} ELSE Names
  <2>1. CASE ctl.at = "prefix"
    <3>1. val = pos + 1
      BY <2>1 DEF Here
    <3> QED
      BY <1>1, <2>1, <3>1
  <2>2. CASE ctl.at # "prefix"
    <3>1. val = ctl.val
      BY <2>2 DEF Here
    <3>2. val \in 1..pos
      BY <2>2, <3>1 DEF ExprInv, HandHolds
    <3>3. val \in 1..(pos + 1) /\ val <= pos
      BY <1>1, <3>2
    <3> QED
      BY <2>2, <3>1, <3>3 DEF ExprInv, HandHolds
  <2> QED
    BY <2>1, <2>2
<1>3. pos' \in Nat /\ Len(nodes') \in Nat /\ Kept
  BY <1>1, PlacedFacts DEF Kept
<1>4. \A id \in DOMAIN nodes' : NodeHolds(nodes[id], id)'
  BY <1>1, <1>3, SameNodes
<1>5. StackHolds'
  <2>1. Here' = val
    BY <1>1 DEF Here
  <2> QED
    BY <1>1, <1>3, <2>1, SameStack
<1>6. (pos + 1 - val) % 2 = IF at = "path" THEN 1 ELSE 0
  <2>1. CASE ctl.at = "prefix"
    BY <1>1, <1>2, <2>1
  <2>2. CASE ctl.at # "prefix"
    <3>1. PICK n \in Nat : n = pos - val
      BY <1>1, <1>2, <2>2
    <3>2. pos + 1 - val = n + 1
      BY <1>1, <3>1
    <3> QED
      BY <1>2, <2>2, <3>1, <3>2, Parity
  <2> QED
    BY <2>1, <2>2
<1>7. \A p \in val..(pos + 1) : toks[p] \in IF (p - val) % 2 = 0 THEN {"dot"} ELSE Names
  <2>1. toks[pos + 1] \in IF (pos + 1 - val) % 2 = 0 THEN {"dot"} ELSE Names
    BY <1>1, <1>6
  <2> SUFFICES ASSUME NEW p \in val..pos
               PROVE  toks[p] \in IF (p - val) % 2 = 0 THEN {"dot"} ELSE Names
    BY <1>1, <2>1
  <2>2. ctl.at # "prefix"
    BY <1>1, <1>2
  <2> QED
    BY <1>2, <2>2
<1>8. HandHolds'
  BY <1>1, <1>2, <1>6, <1>7 DEF HandHolds
<1>9. ShapeHolds'
  <2>1. Len(nodes') + Len(frames') + 1 <= pos'
    <3>1. Len(nodes) + Len(frames) <= pos
      <4>1. Len(nodes) + Len(frames) + (IF ctl.at \in {"segment", "path"} THEN 1 ELSE 0) <= pos
        BY DEF ExprInv, ShapeHolds
      <4>2. Len(nodes) \in Nat /\ Len(frames) \in Nat /\ pos \in Nat
        BY PlacedFacts
      <4> QED
        BY <4>1, <4>2
    <3> QED
      BY <1>1, <3>1, PlacedFacts
  <2>2. pos' \in 0..Len(toks') /\ at \in Modes /\ at \in Parsing
    BY <1>1 DEF Modes, Parsing
  <2> QED
    BY <1>1, <2>1, <2>2 DEF ExprInv, ShapeHolds
<1> QED
  BY <1>4, <1>5, <1>8, <1>9 DEF ExprInv

\* The loop of `parse_path` keeps the invariant.
LEMMA PathSteps ==
  ASSUME ExprInv, Dot \/ Segment
  PROVE  ExprInv'
<1>1. Here \in Nat \/ ctl.at \notin {"prefix", "segment", "path"}
  <2>1. CASE ctl.at = "prefix"
    BY <2>1, PlacedFacts DEF Here
  <2>2. CASE ctl.at \in {"segment", "path"}
    <3>1. Here = ctl.val /\ ctl.val \in 1..pos
      BY <2>2 DEF Here, ExprInv, HandHolds
    <3> QED
      BY <3>1
  <2> QED
    BY <2>1, <2>2
<1>2. Tok # "end" => pos < Len(toks)
  BY ToksFacts
<1>3. CASE Dot
  <2>1. /\ ctl.at \in {"prefix", "path"} /\ Tok = "dot" /\ pos' = pos + 1
        /\ ctl' = [at |-> "segment", bp |-> ctl.bp, val |-> Here]
        /\ UNCHANGED <<input, frames, nodes>>
    BY <1>3 DEF Dot, At, Advance, Consume, Go, Here
  <2> QED
    BY <1>1, <1>2, <2>1, PathGrows
<1>4. CASE Segment
  <2>1. /\ ctl.at = "segment" /\ Tok \in Names /\ pos' = pos + 1
        /\ ctl' = [at |-> "path", bp |-> ctl.bp, val |-> Here]
        /\ UNCHANGED <<input, frames, nodes>>
    BY <1>4 DEF Segment, At, Advance, Consume, Go, Here
  <2> QED
    BY <1>1, <1>2, <2>1, PathGrows, EndIsNoToken
<1> QED
  BY <1>3, <1>4

-----------------------------------------------------------------------------
\* An expression is boxed: by the call that goes on with it, or by the one that it
\* is returned to.
LEMMA Boxed ==
  ASSUME ExprInv, UNCHANGED input, pos' = pos \/ (pos' = pos + 1 /\ pos < Len(toks)),
         NEW n, NEW m, m = Len(nodes) + 1, nodes' = Append(nodes, n), NEW bp,
         ctl' = [at |-> "ops", bp |-> bp, val |-> m],
         NodeHolds(n, m)', n.to = pos', Power(n)' >= bp,
         n.kind = "binary" =>
           Looked' /\ (Tok' \in BinOps => LeftPower(Tok') <= Power(n)'),
         \/ frames' = frames /\ n.from = Here /\ bp = ctl.bp
         \/ frames # <<>> /\ frames' = Popped /\ n.from = Top.from /\ bp = Top.bp,
         Len(nodes) + 1 + Len(frames') <= pos'
  PROVE  ExprInv'
<1>1. /\ pos' \in Nat /\ pos' >= pos /\ pos' <= Len(toks) /\ toks' = toks
      /\ \A p \in 1..pos : toks'[p] = toks[p]
  BY ToksFacts DEF input
<1>2. /\ \A id \in DOMAIN nodes' : NodeHolds(nodes[id], id)'
      /\ Kept /\ IsSeq(nodes') /\ Len(nodes') = m /\ Len(nodes') \in Nat
      /\ nodes'[m] = n /\ m \in 1..Len(nodes')
  BY <1>1, OneMoreNode
<1>3. ctl'.at = "ops" /\ ctl'.bp = bp /\ ctl'.val = m
  OBVIOUS
<1>4. Here' = n.from
  BY <1>2, <1>3 DEF Here
<1>5. StackHolds'
  <2>1. CASE frames' = frames /\ n.from = Here /\ bp = ctl.bp
    BY <1>1, <1>2, <1>3, <1>4, <2>1, SameStack
  <2>2. CASE frames # <<>> /\ frames' = Popped /\ n.from = Top.from /\ bp = Top.bp
    BY <1>1, <1>2, <1>3, <1>4, <2>2, OneFrameLess
  <2> QED
    BY <2>1, <2>2
<1>6. HandHolds'
  <2>1. Power(nodes[ctl.val])' = Power(n)'
    BY <1>2, <1>3
  <2>2. /\ nodes'[ctl'.val] = n /\ ctl'.val \in 1..Len(nodes')
        /\ ctl'.at \notin {"segment", "path"}
    BY <1>2, <1>3
  <2> QED
    BY <1>3, <2>1, <2>2 DEF HandHolds
<1>7. IsSeq(frames') /\ bp \in 0..NotPower
  <2>1. CASE frames' = frames /\ bp = ctl.bp
    BY <2>1 DEF ExprInv, ShapeHolds
  <2>2. CASE frames # <<>> /\ frames' = Popped /\ bp = Top.bp
    <3>1. IsSeq(frames')
      BY <2>2, PlacedFacts, PopFacts DEF Popped
    <3>2. Len(frames) \in 1..Len(frames)
      BY <2>2, PlacedFacts, SeqFacts
    <3>3. FrameHolds(Top, Here, ctl.bp)
      BY <3>2, PlacedFacts DEF ExprInv, StackHolds, Top
    <3> QED
      BY <2>2, <3>1, <3>3 DEF FrameHolds
  <2> QED
    BY <2>1, <2>2
<1>8. ShapeHolds'
  <2>1. pos' \in 0..Len(toks')
    BY <1>1, ToksFacts
  <2>2. /\ Len(nodes') + Len(frames')
             + (IF ctl'.at \in {"segment", "path"} THEN 1 ELSE 0) <= pos'
        /\ ctl'.at \in Modes /\ ctl'.at \in Parsing /\ ctl'.at # "group"
    <3>1. Len(frames') \in Nat /\ Len(nodes) \in Nat
      BY <1>7, SeqFacts, PlacedFacts
    <3> QED
      BY <1>1, <1>2, <1>3, <3>1 DEF Modes, Parsing
  <2> QED
    BY <1>1, <1>2, <1>3, <1>7, <2>1, <2>2 DEF ExprInv, ShapeHolds
<1> QED
  BY <1>2, <1>5, <1>6, <1>8 DEF ExprInv

\* There are never more nodes and pending calls than tokens consumed.
LEMMA CountFacts ==
  ASSUME ExprInv
  PROVE  /\ Len(nodes) + Len(frames) <= pos
         /\ ctl.at \in {"segment", "path"} => Len(nodes) + 1 + Len(frames) <= pos
<1>1. Len(nodes) + Len(frames) + (IF ctl.at \in {"segment", "path"} THEN 1 ELSE 0) <= pos
  BY DEF ExprInv, ShapeHolds
<1>2. Len(nodes) \in Nat /\ Len(frames) \in Nat /\ pos \in Nat
  BY PlacedFacts
<1> QED
  BY <1>1, <1>2

\* An expression of one token is boxed.
LEMMA LeafKeeps ==
  ASSUME ExprInv, Leaf
  PROVE  ExprInv'
<1>1. PICK n, m : n = Expr("leaf", pos + 1, pos + 1, <<>>, pos + 1) /\ m = Len(nodes) + 1
  OBVIOUS
<1>2. /\ ctl.at = "prefix" /\ Tok \in Atoms /\ pos' = pos + 1
      /\ nodes' = Append(nodes, n) /\ ctl' = [at |-> "ops", bp |-> ctl.bp, val |-> m]
      /\ UNCHANGED <<input, frames>>
  BY <1>1 DEF Leaf, At, Consume, Box, Go
<1>3. pos < Len(toks) /\ Tok = toks[pos + 1] /\ pos \in Nat /\ toks' = toks
  BY <1>2, ToksFacts, EndIsNoToken DEF input
<1>4. /\ n.kind = "leaf" /\ n.from = pos + 1 /\ n.op = pos + 1 /\ n.to = pos + 1
      /\ n.parts = <<>>
  BY <1>1 DEF Expr
<1>5. NodeHolds(n, m)'
  <2>1. Tiled(n)'
    BY <1>2, <1>3, <1>4 DEF Tiled
  <2>2. n.from \in 1..n.to /\ n.to \in 1..pos' /\ n.op \in n.from..n.to
    BY <1>2, <1>3, <1>4
  <2> QED
    BY <1>4, <2>1, <2>2 DEF NodeHolds
<1>6. Power(n)' >= ctl.bp
  <2>1. ctl.bp \in 0..NotPower
    BY DEF ExprInv, ShapeHolds
  <2>2. Power(n)' = NotPower
    BY <1>4 DEF Power
  <2> QED
    BY <2>1, <2>2, NotBinds
<1>7. Here = pos + 1
  BY <1>2 DEF Here
<1>8. Len(nodes) + 1 + Len(frames') <= pos'
  BY <1>2, <1>3, CountFacts, PlacedFacts
<1> QED
  BY <1>1, <1>2, <1>3, <1>4, <1>5, <1>6, <1>7, <1>8, Boxed

\* A path ends and is boxed.
LEMMA EndPathKeeps ==
  ASSUME ExprInv, EndPath
  PROVE  ExprInv'
<1>1. PICK n, m : n = Expr("path", ctl.val, ctl.val, <<>>, pos) /\ m = Len(nodes) + 1
  OBVIOUS
<1>2. /\ ctl.at = "path" /\ pos' = pos /\ nodes' = Append(nodes, n)
      /\ ctl' = [at |-> "ops", bp |-> ctl.bp, val |-> m]
      /\ UNCHANGED <<input, frames>> /\ toks' = toks
  BY <1>1 DEF EndPath, At, Box, Go, input
<1>3. /\ pos \in Nat /\ ctl.val \in 1..pos /\ (pos - ctl.val) % 2 = 1
      /\ \A p \in ctl.val..pos :
           toks[p] \in IF (p - ctl.val) % 2 = 0 THEN {"dot"} ELSE Names
  BY <1>2, PlacedFacts DEF ExprInv, HandHolds
<1>4. /\ n.kind = "path" /\ n.from = ctl.val /\ n.op = ctl.val /\ n.to = pos
      /\ n.parts = <<>>
  BY <1>1 DEF Expr
<1>5. NodeHolds(n, m)'
  <2>1. Tiled(n)'
    BY <1>2, <1>3, <1>4 DEF Tiled
  <2>2. n.from \in 1..n.to /\ n.to \in 1..pos' /\ n.op \in n.from..n.to
    BY <1>2, <1>3, <1>4
  <2> QED
    BY <1>4, <2>1, <2>2 DEF NodeHolds
<1>6. Power(n)' >= ctl.bp
  <2>1. ctl.bp \in 0..NotPower
    BY DEF ExprInv, ShapeHolds
  <2>2. Power(n)' = NotPower
    BY <1>4 DEF Power
  <2> QED
    BY <2>1, <2>2, NotBinds
<1>7. Here = ctl.val
  BY <1>2 DEF Here
<1>8. Len(nodes) + 1 + Len(frames') <= pos'
  BY <1>2, CountFacts
<1> QED
  BY <1>1, <1>2, <1>4, <1>5, <1>6, <1>7, <1>8, Boxed

\* The call on top, and what it has.
LEMMA TopFacts ==
  ASSUME ExprInv, frames # <<>>, NEW f, f = Top
  PROVE  /\ FrameHolds(f, Here, ctl.bp)
         /\ IsSeq(Popped) /\ Len(Popped) = Len(frames) - 1
         /\ \A i \in 1..(Len(frames) - 1) : Popped[i] = frames[i]
         /\ Len(frames) \in Nat \ {0}
<1>1. Len(frames) \in Nat \ {0} /\ Len(frames) \in DOMAIN frames
  BY PlacedFacts, SeqFacts
<1>2. FrameHolds(f, Here, ctl.bp)
  BY <1>1 DEF ExprInv, StackHolds, Top
<1> QED
  BY <1>1, <1>2, PlacedFacts, PopFacts DEF Popped

\* The expression in hand.
LEMMA InHand ==
  ASSUME ExprInv, ctl.at = "ops", NEW e, e = ctl.val, NEW x, x = nodes[e]
  PROVE  /\ e \in 1..Len(nodes) /\ NodeHolds(x, e) /\ x.to = pos /\ Here = x.from
         /\ x.from \in 1..pos /\ pos \in Nat /\ Len(nodes) \in Nat
         /\ Power(x) >= ctl.bp /\ Power(x) \in 30..80
         /\ x.kind # "binary" => Power(x) = NotPower
         /\ x.kind = "binary" => Looked /\ (Tok \in BinOps => LeftPower(Tok) <= Power(x))
<1>1. /\ e \in 1..Len(nodes) /\ x.to = pos /\ Power(x) >= ctl.bp
      /\ x.kind = "binary" => Looked /\ (Tok \in BinOps => LeftPower(Tok) <= Power(x))
  BY DEF ExprInv, HandHolds
<1>2. NodeHolds(x, e)
  BY <1>1, PlacedFacts DEF ExprInv
<1>3. Here = x.from
  BY DEF Here
<1>4. x.from \in 1..pos
  BY <1>1, <1>2 DEF NodeHolds
<1> QED
  BY <1>1, <1>2, <1>3, <1>4, PowerBounds, PlacedFacts

\* One part more.
LEMMA PartsGrow ==
  ASSUME NEW parts \in Seq(Nat), NEW e \in Nat
  PROVE  /\ Append(parts, e) \in Seq(Nat) /\ Len(Append(parts, e)) = Len(parts) + 1
         /\ DOMAIN Append(parts, e) = 1..(Len(parts) + 1)
         /\ \A i \in DOMAIN parts : Append(parts, e)[i] = parts[i]
         /\ Append(parts, e)[Len(parts) + 1] = e
         /\ \A i \in DOMAIN Append(parts, e) : i \in DOMAIN parts \/ i = Len(parts) + 1
OBVIOUS

\* The operand of an operator or of `not` is complete and boxed with it.
LEMMA EndOperandKeeps ==
  ASSUME ExprInv, EndOperand
  PROVE  ExprInv'
<1>1. PICK f, e, x : f = Top /\ e = ctl.val /\ x = nodes[e]
  OBVIOUS
<1>2. PICK n, m : n = Expr(f.fn, f.from, f.op, Append(f.parts, e), pos) /\ m = Len(nodes) + 1
  OBVIOUS
<1>3. /\ ctl.at = "ops" /\ Looked /\ ~ Binds /\ frames # <<>> /\ f.fn \in {"not", "binary"}
      /\ frames' = Popped /\ pos' = pos /\ nodes' = Append(nodes, n)
      /\ ctl' = [at |-> "ops", bp |-> f.bp, val |-> m]
      /\ toks' = toks /\ ended' = ended /\ UNCHANGED input
  BY <1>1, <1>2 DEF EndOperand, At, Waiting, Box, Go, input, Operands
<1>4. /\ n.kind = f.fn /\ n.from = f.from /\ n.op = f.op /\ n.to = pos
      /\ n.parts = Append(f.parts, e)
  BY <1>2 DEF Expr
<1>5. FrameHolds(f, Here, ctl.bp) /\ Len(Popped) = Len(frames) - 1 /\ Len(frames) \in Nat
  BY <1>1, <1>3, TopFacts
<1>6. /\ e \in 1..Len(nodes) /\ NodeHolds(x, e) /\ x.to = pos /\ Here = x.from
      /\ x.from \in 1..pos /\ pos \in Nat /\ Len(nodes) \in Nat
      /\ Power(x) >= ctl.bp /\ Power(x) \in 30..80
  BY <1>1, <1>3, InHand
<1>7. /\ f.op \in 1..pos /\ f.from \in 1..f.op /\ f.bp \in 0..NotPower
      /\ f.parts \in Seq(Nat) /\ \A i \in DOMAIN f.parts : f.parts[i] \in 1..Len(nodes)
  BY <1>5 DEF FrameHolds
<1>8. /\ nodes'[e] = x /\ Power(x)' = Power(x)
      /\ \A id \in 1..Len(nodes) : nodes'[id] = nodes[id]
      /\ Kept
  <2>1. \A id \in 1..Len(nodes) : nodes'[id] = nodes[id]
    BY <1>3, PlacedFacts, AppendFacts
  <2>2. Kept
    BY <1>3, <1>6, <2>1, PlacedFacts, AppendFacts DEF Kept
  <2> QED
    BY <1>1, <1>6, <2>1, <2>2, PowerStays
<1>9. /\ n.parts \in Seq(Nat) /\ \A i \in DOMAIN n.parts : n.parts[i] \in 1..(m - 1)
  <2>1. e \in Nat /\ m - 1 = Len(nodes)
    BY <1>2, <1>6
  <2> QED
    BY <1>4, <1>6, <1>7, <2>1, PartsGrow
<1>10. n.from \in 1..n.to /\ n.to \in 1..pos' /\ n.op \in n.from..n.to
  BY <1>3, <1>4, <1>6, <1>7
<1>11. CASE f.fn = "not"
  <2>1. /\ f.parts = <<>> /\ f.op = f.from /\ toks[f.from] = "not"
        /\ x.from = f.op + 1 /\ ctl.bp = NotPower
    BY <1>5, <1>6, <1>11 DEF FrameHolds
  <2>2. Power(x) = NotPower
    <3>1. Power(x) \in 30..80 /\ Power(x) >= ctl.bp /\ ctl.bp = 80
      BY <1>6, <2>1, NotBinds
    <3> QED
      BY <3>1, NotBinds
  <2>3. Len(n.parts) = 1 /\ n.parts[1] = e
    BY <1>4, <2>1
  <2>4. Tiled(n)'
    BY <1>3, <1>4, <1>6, <1>8, <1>11, <2>1, <2>3 DEF Tiled
  <2>5. Power(nodes[n.parts[1]])' = NotPower
    <3>1. nodes'[n.parts[1]] = x
      BY <1>8, <2>3
    <3> QED
      BY <1>8, <2>2, <3>1
  <2>6. NodeHolds(n, m)'
    BY <1>4, <1>9, <1>10, <1>11, <2>3, <2>4, <2>5 DEF NodeHolds
  <2>7. Power(n)' >= f.bp
    <3>1. Power(n)' = NotPower
      BY <1>4, <1>11 DEF Power
    <3>2. f.bp \in 0..80
      BY <1>7, NotBinds
    <3> QED
      BY <3>1, <3>2, NotBinds
  <2>8. Len(nodes) + 1 + Len(frames') <= pos'
    BY <1>3, <1>5, <1>6, CountFacts
  <2> QED
    BY <1>1, <1>2, <1>3, <1>4, <1>11, <2>6, <2>7, <2>8, Boxed
<1>12. CASE f.fn = "binary"
  <2>1. /\ Len(f.parts) = 1 /\ 1 \in DOMAIN f.parts /\ f.parts[1] \in 1..Len(nodes)
        /\ nodes[f.parts[1]].from = f.from /\ nodes[f.parts[1]].to + 1 = f.op
        /\ toks[f.op] \in BinOps
        /\ x.from = f.op + 1 /\ ctl.bp = RightPower(toks[f.op])
        /\ LeftPower(toks[f.op]) >= f.bp
        /\ Power(nodes[f.parts[1]]) >= LeftPower(toks[f.op])
    BY <1>5, <1>6, <1>7, <1>12 DEF FrameHolds
  <2>2. PICK y, d : d = f.parts[1] /\ y = nodes[d]
    OBVIOUS
  <2>3. Len(n.parts) = 2 /\ n.parts[1] = d /\ n.parts[2] = e
    <3>1. e \in Nat
      BY <1>6
    <3> QED
      BY <1>4, <1>7, <2>1, <2>2, <3>1, PartsGrow
  <2>4. nodes'[d] = y /\ Power(y)' = Power(y)
    BY <1>8, <2>1, <2>2, PowerStays
  <2>5. PICK lp \in 30..70 : lp = LeftPower(toks[f.op])
    BY <2>1, OperatorBinds
  <2>6. Power(n)' = lp
    BY <1>3, <1>4, <1>12, <2>5 DEF Power
  <2>7. Tiled(n)'
    BY <1>3, <1>4, <1>6, <1>8, <1>12, <2>1, <2>2, <2>3, <2>4 DEF Tiled
  <2>8. Power(x) > lp /\ ctl.bp = lp + 1
    <3>1. ctl.bp = lp + 1
      BY <2>1, <2>5 DEF RightPower
    <3>2. Power(x) \in 30..80 /\ Power(x) >= ctl.bp
      BY <1>6
    <3> QED
      BY <3>1, <3>2
  <2>9. /\ Power(nodes[n.parts[1]])' >= Power(n)'
        /\ Power(nodes[n.parts[2]])' > Power(n)'
    <3>1. nodes'[n.parts[1]] = y /\ nodes'[n.parts[2]] = x
      BY <1>8, <2>3, <2>4
    <3>2. Power(y) >= lp
      BY <2>1, <2>2, <2>5
    <3>3. Power(nodes[n.parts[1]])' = Power(y) /\ Power(nodes[n.parts[2]])' = Power(x)
      BY <1>8, <2>4, <3>1
    <3> QED
      BY <2>6, <2>8, <3>2, <3>3
  <2>10. NodeHolds(n, m)'
    BY <1>4, <1>9, <1>10, <1>12, <2>3, <2>7, <2>9 DEF NodeHolds
  <2>11. Power(n)' >= f.bp
    BY <2>1, <2>5, <2>6
  <2>12. Looked' /\ (Tok' \in BinOps => LeftPower(Tok') <= Power(n)')
    <3>1. Looked' /\ Tok' = Tok
      BY <1>3 DEF Looked, Tok
    <3>2. ASSUME Tok \in BinOps
          PROVE  LeftPower(Tok) <= lp
      <4>1. LeftPower(Tok) \in 30..70 /\ ~ (LeftPower(Tok) >= ctl.bp)
        BY <1>3, <3>2, OperatorBinds DEF Binds
      <4> QED
        BY <2>8, <4>1
    <3>3. LeftPower(Tok') = LeftPower(Tok)
      BY <3>1
    <3> QED
      BY <2>6, <3>1, <3>2, <3>3
  <2>13. Len(nodes) + 1 + Len(frames') <= pos'
    BY <1>3, <1>5, <1>6, CountFacts
  <2> QED
    BY <1>1, <1>2, <1>3, <1>4, <2>10, <2>11, <2>12, <2>13, Boxed
<1> QED
  BY <1>3, <1>11, <1>12

\* The closing parenthesis of a group or a vector.
LEMMA EndGroupKeeps ==
  ASSUME ExprInv, EndGroup
  PROVE  ExprInv'
<1>1. PICK f : f = Top
  OBVIOUS
<1>2. PICK n, m : /\ n = Expr(IF Len(f.parts) = 1 THEN "paren" ELSE "vector",
                              f.from, f.from, f.parts, pos + 1)
                  /\ m = Len(nodes) + 1
  OBVIOUS
<1>3. /\ ctl.at = "group" /\ Tok = "rpar" /\ f.parts # <<>>
      /\ frames' = Popped /\ pos' = pos + 1 /\ nodes' = Append(nodes, n)
      /\ ctl' = [at |-> "ops", bp |-> f.bp, val |-> m]
      /\ toks' = toks /\ UNCHANGED input
  BY <1>1, <1>2 DEF EndGroup, At, Consume, Box, Go, input
<1>4. /\ n.kind = (IF Len(f.parts) = 1 THEN "paren" ELSE "vector")
      /\ n.from = f.from /\ n.op = f.from /\ n.to = pos + 1 /\ n.parts = f.parts
      /\ n.kind \in {"paren", "vector"}
  BY <1>2 DEF Expr
<1>5. frames # <<>> /\ f.fn = "group" /\ Here = pos + 1
  BY <1>1, <1>3 DEF ExprInv, ShapeHolds, Waiting, Here
<1>6. /\ FrameHolds(f, pos + 1, ctl.bp)
      /\ Len(Popped) = Len(frames) - 1 /\ Len(frames) \in Nat
  BY <1>1, <1>5, TopFacts
<1>7. /\ pos < Len(toks) /\ toks[pos + 1] = "rpar" /\ pos \in Nat /\ Len(nodes) \in Nat
  BY <1>3, ToksFacts, PlacedFacts
<1>8. /\ f.op = f.from /\ toks[f.from] = "lpar" /\ f.from \in 1..pos
      /\ f.bp \in 0..NotPower
      /\ f.parts \in Seq(Nat) /\ \A i \in DOMAIN f.parts : f.parts[i] \in 1..Len(nodes)
      /\ Ordered(f.parts)
  <2>1. f.op \in 1..pos /\ f.from \in 1..f.op
    BY <1>6 DEF FrameHolds
  <2>2. f.from \in 1..pos
    BY <2>1, <1>7
  <2> QED
    BY <1>5, <1>6, <2>2 DEF FrameHolds
<1>9. \A p \in (f.from + 1)..pos : Within(f.parts, p) \/ toks[p] = "comma"
  <2>1. PICK start : start = pos + 1
    OBVIOUS
  <2>2. \A p \in (f.from + 1)..(start - 1) : Within(f.parts, p) \/ toks[p] = "comma"
    BY <1>5, <1>6, <2>1 DEF FrameHolds
  <2>3. start - 1 = pos
    BY <1>7, <2>1
  <2> QED
    BY <2>2, <2>3
<1>10. Kept
  BY <1>3, <1>7, PlacedFacts, AppendFacts DEF Kept
<1>15. Power(n)' >= f.bp
  <2>1. Power(n)' = NotPower
    BY <1>4 DEF Power
  <2>2. f.bp \in 0..80
    BY <1>8, NotBinds
  <2> QED
    BY <2>1, <2>2, NotBinds
<1>11. PICK parts \in Seq(Nat) : parts = f.parts
  BY <1>8
<1>12. /\ \A p : Within(parts, p)' <=> Within(parts, p)
       /\ Ordered(parts)' <=> Ordered(parts)
  BY <1>8, <1>10, <1>11, PlacedFacts, PartsStay
<1>13. Tiled(n)'
  <2>1. n.to - 1 = pos
    BY <1>4, <1>7
  <2>2. /\ Ordered(n.parts)'
        /\ \A p \in (n.from + 1)..(n.to - 1) : Within(n.parts, p)' \/ toks'[p] = "comma"
    BY <1>3, <1>4, <1>8, <1>9, <1>11, <1>12, <2>1
  <2>3. toks'[n.from] = "lpar" /\ toks'[n.to] = "rpar"
    BY <1>3, <1>4, <1>7, <1>8
  <2>4. /\ n.kind \notin {"leaf", "path", "not", "binary"}
        /\ n.kind = (IF Len(n.parts) = 1 THEN "paren" ELSE "vector")
    BY <1>4
  <2> QED
    BY <2>2, <2>3, <2>4 DEF Tiled
<1>14. NodeHolds(n, m)'
  <2>1. n.from \in 1..n.to /\ n.to \in 1..pos' /\ n.op \in n.from..n.to
    BY <1>3, <1>4, <1>7, <1>8
  <2>2. m - 1 = Len(nodes)
    BY <1>2, <1>7
  <2> QED
    BY <1>4, <1>8, <1>13, <2>1, <2>2 DEF NodeHolds
<1>16. Len(nodes) + 1 + Len(frames') <= pos'
  BY <1>3, <1>6, <1>7, CountFacts
<1>17. n.kind # "binary"
  BY <1>4
<1> QED
  BY <1>1, <1>2, <1>3, <1>4, <1>5, <1>7, <1>14, <1>15, <1>16, <1>17, Boxed

-----------------------------------------------------------------------------
\* A call.
LEMMA Called ==
  ASSUME ExprInv, pos < Len(toks), NEW f, NEW at \in {"prefix", "group"}, NEW bp \in 0..NotPower,
         Call(f, at, bp), f.from = Here, f.bp = ctl.bp,
         NEW start, start = pos + 2, FrameHolds(f, start, bp)',
         ctl.at \in {"prefix", "ops"}, at = "group" => f.fn = "group" /\ bp = 0
  PROVE  ExprInv'
<1>1. /\ pos' = pos + 1 /\ toks' = toks /\ nodes' = nodes /\ frames' = Append(frames, f)
      /\ ctl' = [at |-> at, bp |-> bp, val |-> 0]
      /\ ctl'.at = at /\ ctl'.bp = bp /\ ctl'.val = 0
  BY DEF Call, Consume, Go, input
<1>2. pos' \in Nat /\ pos' \in 0..Len(toks') /\ Len(nodes') \in Nat /\ Kept
      /\ toks' \in Seq(Kinds) /\ Len(toks') <= MaxTokens
  BY <1>1, ToksFacts, PlacedFacts DEF Kept
<1>3. \A id \in DOMAIN nodes' : NodeHolds(nodes[id], id)'
  BY <1>1, <1>2, SameNodes
<1>4. Here' = start
  <2>1. Here' = pos' + 1
    BY <1>1 DEF Here
  <2> QED
    BY <1>1, <2>1, PlacedFacts
<1>5. FrameHolds(f, Here, ctl.bp)'
  BY <1>1, <1>4
<1>6. /\ StackHolds' /\ IsSeq(frames') /\ Len(frames') = Len(frames) + 1
      /\ frames'[Len(frames) + 1] = f
  BY <1>1, <1>2, <1>5, OneMoreFrame
<1>7. HandHolds'
  BY <1>1 DEF HandHolds
<1>8. ShapeHolds'
  <2>1. Len(nodes') + Len(frames')
          + (IF ctl'.at \in {"segment", "path"} THEN 1 ELSE 0) <= pos'
    BY <1>1, <1>6, CountFacts, PlacedFacts
  <2>2. at = "group" => Waiting({"group"})' /\ ctl'.bp = 0
    <3>1. frames' # <<>>
      BY <1>6, SeqFacts, PlacedFacts
    <3>2. Top' = f
      BY <1>6 DEF Top
    <3> QED
      BY <1>1, <3>1, <3>2 DEF Waiting
  <2> QED
    BY <1>1, <1>2, <1>6, <2>1, <2>2 DEF ExprInv, ShapeHolds, Modes, Parsing
<1> QED
  BY <1>3, <1>6, <1>7, <1>8 DEF ExprInv

\* A prefix, an opening parenthesis or an operator calls `parse_expr` anew.
LEMMA CallSteps ==
  ASSUME ExprInv, Not \/ Group \/ Operator
  PROVE  ExprInv'
<1>1. Tok # "end" => /\ pos < Len(toks) /\ Tok = toks[pos + 1]
  BY ToksFacts
<1>2. pos \in Nat /\ ctl.bp \in 0..NotPower /\ NotPower \in 0..NotPower /\ 0 \in 0..NotPower
  BY PlacedFacts, NotBinds DEF ExprInv, ShapeHolds
<1>3. PICK start \in Nat : start = pos + 2
  BY <1>2
<1>4. CASE Not \/ Group
  <2>1. PICK fn, f, at, bp :
          /\ bp \in 0..NotPower /\ f = Frame(fn, ctl.bp, pos + 1, pos + 1, <<>>)
          /\ Call(f, at, bp) /\ ctl.at = "prefix" /\ Tok # "end"
          /\ \/ fn = "not" /\ at = "prefix" /\ bp = NotPower /\ Tok = "not"
             \/ fn = "group" /\ at = "group" /\ bp = 0 /\ Tok = "lpar"
    BY <1>2, <1>4 DEF Not, Group, At
  <2>2. /\ f.fn = fn /\ f.bp = ctl.bp /\ f.from = pos + 1 /\ f.op = pos + 1 /\ f.parts = <<>>
        /\ f = Frame(f.fn, f.bp, f.from, f.op, f.parts)
    BY <2>1 DEF Frame
  <2>3. pos' = pos + 1 /\ toks' = toks /\ nodes' = nodes
    BY <2>1 DEF Call, Consume, input
  <2>4. /\ f.op \in 1..pos' /\ f.from \in 1..f.op
        /\ start \in (f.op + 1)..(pos' + 1) /\ start = f.op + 1
    BY <1>2, <1>3, <2>2, <2>3
  <2>5. \A p : p \notin (f.from + 1)..(start - 1)
    BY <1>2, <1>3, <2>2
  <2>6. Ordered(f.parts)'
    BY <2>2 DEF Ordered
  <2>7. toks'[f.from] = Tok
    BY <1>1, <2>1, <2>2, <2>3
  <2>8. FrameHolds(f, start, bp)'
    <3>1. f.parts \in Seq(Nat) /\ \A i : i \notin DOMAIN f.parts
      BY <2>2
    <3>2. f.bp \in 0..NotPower
      BY <1>2, <2>2
    <3>3. CASE fn = "not"
      <4>1. /\ f.fn = "not" /\ f.parts = <<>> /\ f.op = f.from /\ toks'[f.from] = "not"
            /\ bp = NotPower
        BY <2>1, <2>2, <2>7, <3>3
      <4> QED
        BY <2>2, <2>4, <3>1, <3>2, <4>1 DEF FrameHolds
    <3>4. CASE fn = "group"
      <4>1. f.fn = "group" /\ f.op = f.from /\ toks'[f.from] = "lpar"
        BY <2>1, <2>2, <2>7, <3>4
      <4> QED
        BY <2>2, <2>4, <2>5, <2>6, <3>1, <3>2, <4>1 DEF FrameHolds
    <3> QED
      BY <2>1, <3>3, <3>4
  <2>9. f.from = Here
    BY <2>1, <2>2 DEF Here
  <2> QED
    BY <1>1, <1>3, <2>1, <2>2, <2>8, <2>9, Called
<1>5. CASE Operator
  <2>1. PICK f, e, x : /\ e = ctl.val /\ x = nodes[e]
                       /\ f = Frame("binary", ctl.bp, x.from, pos + 1, <<e>>)
    OBVIOUS
  <2>2. /\ ctl.at = "ops" /\ Looked /\ Tok \in BinOps /\ LeftPower(Tok) >= ctl.bp
        /\ Call(f, "prefix", RightPower(Tok))
    BY <1>5, <2>1 DEF Operator, At, Binds
  <2>3. /\ f.fn = "binary" /\ f.bp = ctl.bp /\ f.from = x.from /\ f.op = pos + 1
        /\ f.parts = <<e>> /\ f = Frame(f.fn, f.bp, f.from, f.op, f.parts)
    BY <2>1 DEF Frame
  <2>4. pos' = pos + 1 /\ toks' = toks /\ nodes' = nodes
    BY <2>2 DEF Call, Consume, input
  <2>5. /\ e \in 1..Len(nodes) /\ x.to = pos /\ Here = x.from /\ x.from \in 1..pos
        /\ Power(x) \in 30..80 /\ Len(nodes) \in Nat
        /\ x.kind # "binary" => Power(x) = NotPower
        /\ x.kind = "binary" => LeftPower(Tok) <= Power(x)
    BY <2>1, <2>2, InHand
  <2>6. PICK lp \in 30..70 : lp = LeftPower(Tok)
    BY <2>2, OperatorBinds
  <2>7. RightPower(Tok) = lp + 1 /\ RightPower(Tok) \in 0..NotPower
    BY <2>6, NotBinds DEF RightPower
  <2>8. Power(x) >= lp
    <3>1. CASE x.kind = "binary"
      BY <2>5, <2>6, <3>1
    <3>2. CASE x.kind # "binary"
      <4>1. Power(x) = 80
        BY <2>5, <3>2, NotBinds
      <4> QED
        BY <4>1
    <3> QED
      BY <3>1, <3>2
  <2>9. toks'[f.op] = Tok /\ pos < Len(toks)
    BY <1>1, <2>2, <2>3, <2>4, EndIsNoToken
  <2>10. /\ f.op \in 1..pos' /\ f.from \in 1..f.op
         /\ start \in (f.op + 1)..(pos' + 1) /\ start = f.op + 1
    BY <1>2, <1>3, <2>3, <2>4, <2>5
  <2>11. /\ f.parts \in Seq(Nat) /\ Len(f.parts) = 1 /\ f.parts[1] = e
         /\ \A i \in DOMAIN f.parts : f.parts[i] \in 1..Len(nodes')
    <3>1. e \in Nat
      BY <2>5
    <3> QED
      BY <2>3, <2>4, <2>5, <3>1
  <2>12. /\ nodes'[f.parts[1]] = x /\ Power(nodes[f.parts[1]])' = Power(x)
         /\ x.to + 1 = f.op
    BY <2>1, <2>3, <2>4, <2>5, <2>11 DEF Power
  <2>13. LeftPower(toks[f.op])' = lp /\ RightPower(toks[f.op])' = RightPower(Tok)
    BY <2>6, <2>9
  <2>14. PICK rp : rp = RightPower(Tok)
    OBVIOUS
  <2>15. FrameHolds(f, start, rp)'
    BY <1>2, <2>2, <2>3, <2>6, <2>8, <2>9, <2>10, <2>11, <2>12, <2>13, <2>14 DEF FrameHolds
  <2> QED
    BY <1>3, <2>2, <2>3, <2>5, <2>7, <2>9, <2>14, <2>15, Called
<1> QED
  BY <1>4, <1>5

-----------------------------------------------------------------------------
\* The call on top goes on.
LEMMA TopChanges ==
  ASSUME ExprInv, Kept, pos' \in Nat, Len(nodes') \in Nat, frames # <<>>,
         NEW f, f.from = Top.from, f.bp = Top.bp, IsSeq(frames'), Len(frames') = Len(frames),
         frames'[Len(frames)] = f,
         \A i \in 1..(Len(frames) - 1) : frames'[i] = frames[i],
         FrameHolds(f, Here, ctl.bp)'
  PROVE  StackHolds'
<1>1. PICK k \in Nat : k = Len(frames)
  BY PlacedFacts
<1>2. DOMAIN frames' = 1..k /\ Len(frames') = k /\ frames'[k] = f
  BY <1>1, SeqFacts
<1>3. ASSUME NEW i \in 1..k
      PROVE  IF i = k THEN FrameHolds(frames[i], Here, ctl.bp)'
             ELSE FrameHolds(frames[i], frames[i + 1].from, frames[i + 1].bp)'
  <2>1. CASE i = k
    BY <1>2, <2>1
  <2>2. CASE i < k
    <3>1. PICK g, s, b : g = frames'[i] /\ s = frames'[i + 1].from /\ b = frames'[i + 1].bp
      OBVIOUS
    <3>2. i \in 1..(k - 1) /\ i \in 1..Len(frames)
      BY <1>1, <2>2
    <3>3. g = frames[i]
      BY <1>1, <3>1, <3>2
    <3>4. s = frames[i + 1].from /\ b = frames[i + 1].bp
      <4>1. CASE i + 1 = k
        BY <1>1, <1>2, <3>1, <4>1 DEF Top
      <4>2. CASE i + 1 # k
        <5>1. i + 1 \in 1..(k - 1)
          BY <2>2, <4>2
        <5> QED
          BY <1>1, <3>1, <5>1
      <4> QED
        BY <4>1, <4>2
    <3>5. i # Len(frames) /\ i # k
      BY <1>1, <2>2
    <3>6. FrameHolds(g, s, b)'
      BY <3>2, <3>3, <3>4, <3>5, OldFrame
    <3>7. FrameHolds(frames[i], frames[i + 1].from, frames[i + 1].bp)'
      BY <3>1, <3>6
    <3> QED
      BY <3>5, <3>7
  <2> QED
    BY <1>1, <2>1, <2>2
<1> QED
  BY <1>1, <1>2, <1>3 DEF StackHolds

\* A group in its loop.
LEMMA GroupGoesOn ==
  ASSUME ExprInv, frames # <<>>, Kept, nodes' = nodes, UNCHANGED input,
         pos' = pos \/ (pos' = pos + 1 /\ pos < Len(toks)),
         ctl' = [at |-> "group", bp |-> 0, val |-> 0],
         NEW f, f.fn = "group", f.from = Top.from, f.bp = Top.bp,
         IsSeq(frames'), Len(frames') = Len(frames), frames'[Len(frames)] = f,
         \A i \in 1..(Len(frames) - 1) : frames'[i] = frames[i],
         NEW start, start = pos' + 1, FrameHolds(f, start, 0)'
  PROVE  ExprInv'
<1>1. /\ toks' = toks /\ pos' \in Nat /\ pos' \in 0..Len(toks') /\ pos' >= pos
      /\ Len(nodes') \in Nat
      /\ toks' \in Seq(Kinds) /\ Len(toks') <= MaxTokens
  BY ToksFacts, PlacedFacts DEF input
<1>2. ctl'.at = "group" /\ ctl'.bp = 0 /\ ctl'.val = 0
  OBVIOUS
<1>3. \A id \in DOMAIN nodes' : NodeHolds(nodes[id], id)'
  BY <1>1, SameNodes
<1>4. Here' = start
  BY <1>2 DEF Here
<1>5. FrameHolds(f, Here, ctl.bp)'
  BY <1>2, <1>4
<1>6. StackHolds'
  BY <1>1, <1>5, TopChanges
<1>7. HandHolds'
  BY <1>2 DEF HandHolds
<1>8. ShapeHolds'
  <2>1. Len(nodes') + Len(frames')
          + (IF ctl'.at \in {"segment", "path"} THEN 1 ELSE 0) <= pos'
    BY <1>1, <1>2, CountFacts, PlacedFacts
  <2>2. Waiting({"group"})'
    <3>1. frames' # <<>>
      BY SeqFacts, PlacedFacts
    <3>2. Top' = f
      BY DEF Top
    <3> QED
      BY <3>1, <3>2 DEF Waiting
  <2>3. 0 \in 0..NotPower
    BY NotBinds
  <2> QED
    BY <1>1, <1>2, <2>1, <2>2, <2>3 DEF ExprInv, ShapeHolds, Modes, Parsing
<1> QED
  BY <1>3, <1>6, <1>7, <1>8 DEF ExprInv

\* A comma between the elements of a vector.
LEMMA CommaKeeps ==
  ASSUME ExprInv, Comma
  PROVE  ExprInv'
<1>1. PICK f, start : f = Top /\ start = pos + 1
  OBVIOUS
<1>2. /\ ctl.at = "group" /\ Tok = "comma" /\ pos' = pos + 1
      /\ UNCHANGED <<input, frames, nodes>> /\ toks' = toks
      /\ ctl' = [at |-> "group", bp |-> 0, val |-> 0]
  BY DEF Comma, At, PastComma, Advance, Consume, Go, input
<1>3. pos < Len(toks) /\ toks[pos + 1] = "comma" /\ pos \in Nat
  BY <1>2, ToksFacts
<1>4. frames # <<>> /\ f.fn = "group" /\ ctl.bp = 0 /\ Here = start
  BY <1>1, <1>2 DEF ExprInv, ShapeHolds, Waiting, Here
<1>5. Kept /\ pos' \in Nat /\ Len(nodes') \in Nat
  BY <1>2, <1>3, PlacedFacts DEF Kept
<1>6. FrameHolds(f, start, 0)
  BY <1>1, <1>4, TopFacts
<1>7. FrameHolds(f, start, 0)'
  BY <1>5, <1>6, PlacedFacts, FrameStays
<1>8. PICK next : next = start + 1
  OBVIOUS
<1>9. f.op \in 1..pos /\ f.from \in 1..f.op
  BY <1>6 DEF FrameHolds
<1>10. /\ next \in (f.op + 1)..(pos' + 1) /\ next - 1 = start
       /\ start = pos' /\ next = pos' + 1
  BY <1>1, <1>2, <1>3, <1>8, <1>9
<1>11. \A p \in (f.from + 1)..(next - 1) : Within(f.parts, p)' \/ toks'[p] = "comma"
  <2>1. \A p \in (f.from + 1)..(start - 1) : Within(f.parts, p)' \/ toks'[p] = "comma"
    BY <1>4, <1>7 DEF FrameHolds
  <2>2. toks'[start] = "comma"
    BY <1>1, <1>2, <1>3
  <2>3. \A p \in (f.from + 1)..start : p \in (f.from + 1)..(start - 1) \/ p = start
    <3>1. f.from \in Int /\ start \in Int
      BY <1>1, <1>3, <1>9
    <3> QED
      BY <3>1
  <2> QED
    BY <1>10, <2>1, <2>2, <2>3
<1>12. \A i \in DOMAIN f.parts : f.from < nodes'[f.parts[i]].from /\ nodes'[f.parts[i]].to < next
  <2>1. \A i \in DOMAIN f.parts :
          f.from < nodes'[f.parts[i]].from /\ nodes'[f.parts[i]].to < start
    BY <1>4, <1>7 DEF FrameHolds
  <2>2. \A i \in DOMAIN f.parts : nodes[f.parts[i]].to \in Int
    <3> SUFFICES ASSUME NEW i \in DOMAIN f.parts
                 PROVE  nodes[f.parts[i]].to \in Int
      OBVIOUS
    <3>1. f.parts[i] \in 1..Len(nodes)
      BY <1>6 DEF FrameHolds
    <3>2. nodes[f.parts[i]].to \in 1..pos
      BY <3>1, PlacedFacts DEF Placed
    <3> QED
      BY <3>2
  <2>3. start \in Int /\ next = start + 1
    BY <1>1, <1>3, <1>8
  <2> QED
    BY <1>2, <2>1, <2>2, <2>3
<1>13. FrameHolds(f, next, 0)'
  BY <1>4, <1>7, <1>10, <1>11, <1>12 DEF FrameHolds
<1>14. IsSeq(frames')
  BY <1>2, PlacedFacts
<1> QED
  BY <1>1, <1>2, <1>3, <1>4, <1>5, <1>10, <1>13, <1>14, GroupGoesOn DEF Top

\* An element of a group is complete and noted.
LEMMA EndElementKeeps ==
  ASSUME ExprInv, EndElement
  PROVE  ExprInv'
<1>1. PICK t, e, x : t = Top /\ e = ctl.val /\ x = nodes[e]
  OBVIOUS
<1>2. PICK f, start : f = [t EXCEPT !.parts = Append(@, e)] /\ start = pos + 1
  OBVIOUS
<1>3. /\ ctl.at = "ops" /\ frames # <<>> /\ t.fn = "group"
      /\ frames' = Append(Popped, f) /\ pos' = pos /\ nodes' = nodes
      /\ ctl' = [at |-> "group", bp |-> 0, val |-> 0]
      /\ UNCHANGED input /\ toks' = toks
  BY <1>1, <1>2 DEF EndElement, At, Waiting, Go, input
<1>4. /\ e \in 1..Len(nodes) /\ x.to = pos /\ Here = x.from /\ x.from \in 1..pos
      /\ pos \in Nat /\ Len(nodes) \in Nat
  BY <1>1, <1>3, InHand
<1>5. Kept
  BY <1>3, <1>4, PlacedFacts DEF Kept
<1>6. FrameHolds(t, Here, ctl.bp)
  BY <1>1, <1>3, TopFacts
<1>7. /\ t.op \in 1..pos /\ t.from \in 1..t.op /\ t.bp \in 0..NotPower
      /\ t.op = t.from /\ toks[t.from] = "lpar"
      /\ t.parts \in Seq(Nat) /\ \A i \in DOMAIN t.parts : t.parts[i] \in 1..Len(nodes)
      /\ x.from \in (t.op + 1)..(pos + 1)
      /\ Ordered(t.parts)
      /\ \A i \in DOMAIN t.parts :
           t.from < nodes[t.parts[i]].from /\ nodes[t.parts[i]].to < x.from
      /\ \A p \in (t.from + 1)..(x.from - 1) : Within(t.parts, p) \/ toks[p] = "comma"
  BY <1>3, <1>4, <1>6 DEF FrameHolds
<1>8. /\ f.fn = "group" /\ f.from = t.from /\ f.bp = t.bp /\ f.op = t.op
      /\ f.parts = Append(t.parts, e)
      /\ f = Frame(f.fn, f.bp, f.from, f.op, f.parts)
  <2>1. t = Frame(t.fn, t.bp, t.from, t.op, t.parts)
    BY <1>6 DEF FrameHolds
  <2> QED
    BY <1>2, <1>3, <2>1 DEF Frame
<1>9. /\ f.parts \in Seq(Nat) /\ DOMAIN f.parts = 1..(Len(t.parts) + 1)
      /\ Len(t.parts) \in Nat /\ DOMAIN t.parts = 1..Len(t.parts)
      /\ \A i \in DOMAIN t.parts : f.parts[i] = t.parts[i]
      /\ f.parts[Len(t.parts) + 1] = e
      /\ \A i \in DOMAIN f.parts : i \in DOMAIN t.parts \/ i = Len(t.parts) + 1
  <2>1. e \in Nat
    BY <1>4
  <2> QED
    BY <1>7, <1>8, <2>1, PartsGrow
<1>10. \A i \in DOMAIN f.parts : f.parts[i] \in 1..Len(nodes)
  BY <1>4, <1>7, <1>9
<1>11. \A i \in DOMAIN t.parts : nodes[t.parts[i]].to \in Int /\ nodes[t.parts[i]].to < x.from
  <2> SUFFICES ASSUME NEW i \in DOMAIN t.parts
               PROVE  nodes[t.parts[i]].to \in Int
    BY <1>7
  <2>1. nodes[t.parts[i]].to \in 1..pos
    BY <1>7, PlacedFacts DEF Placed
  <2> QED
    BY <2>1
<1>12. \A i \in DOMAIN f.parts :
         f.from < nodes[f.parts[i]].from /\ nodes[f.parts[i]].to < start
  <2>1. t.from < x.from /\ x.to < start /\ x.from < start
    BY <1>2, <1>4, <1>7
  <2>2. start \in Int /\ x.from \in Int
    BY <1>2, <1>4
  <2>3. \A i \in DOMAIN t.parts : nodes[t.parts[i]].to < start
    BY <1>11, <2>1, <2>2
  <2> QED
    BY <1>1, <1>7, <1>8, <1>9, <2>1, <2>3
<1>13. Ordered(f.parts)
  <2> SUFFICES ASSUME NEW i \in DOMAIN f.parts, NEW j \in DOMAIN f.parts, i < j
               PROVE  nodes[f.parts[i]].to < nodes[f.parts[j]].from
    BY DEF Ordered
  <2>1. i \in DOMAIN t.parts
    BY <1>9
  <2>2. CASE j \in DOMAIN t.parts
    BY <1>7, <1>9, <2>1, <2>2 DEF Ordered
  <2>3. CASE j = Len(t.parts) + 1
    BY <1>1, <1>9, <1>11, <2>1, <2>3
  <2> QED
    BY <1>9, <2>2, <2>3
<1>14. \A p \in (f.from + 1)..(start - 1) : Within(f.parts, p) \/ toks[p] = "comma"
  <2> SUFFICES ASSUME NEW p \in (f.from + 1)..(start - 1)
               PROVE  Within(f.parts, p) \/ toks[p] = "comma"
    OBVIOUS
  <2>1. p \in (t.from + 1)..(x.from - 1) \/ p \in x.from..pos
    <3>1. t.from \in Int /\ x.from \in Int /\ pos \in Int
      BY <1>4, <1>7
    <3> QED
      BY <1>2, <1>8, <3>1
  <2>2. CASE p \in (t.from + 1)..(x.from - 1)
    <3>1. Within(t.parts, p) => Within(f.parts, p)
      <4>1. \A i \in DOMAIN t.parts : i \in DOMAIN f.parts
        BY <1>9
      <4> QED
        BY <1>9, <4>1 DEF Within
    <3> QED
      BY <1>7, <2>2, <3>1
  <2>3. CASE p \in x.from..pos
    <3>1. Len(t.parts) + 1 \in DOMAIN f.parts
      BY <1>9
    <3>2. p \in nodes[f.parts[Len(t.parts) + 1]].from..nodes[f.parts[Len(t.parts) + 1]].to
      BY <1>1, <1>4, <1>9, <2>3
    <3> QED
      BY <3>1, <3>2 DEF Within
  <2> QED
    BY <2>1, <2>2, <2>3
<1>15. start \in (f.op + 1)..(pos + 1) /\ f.op \in 1..pos /\ f.from \in 1..f.op
       /\ f.bp \in 0..NotPower /\ f.op = f.from /\ toks[f.from] = "lpar"
  <2>1. start \in (f.op + 1)..(pos + 1)
    BY <1>2, <1>4, <1>7, <1>8
  <2> QED
    BY <1>7, <1>8, <2>1
<1>16. FrameHolds(f, start, 0)
  BY <1>8, <1>9, <1>10, <1>12, <1>13, <1>14, <1>15 DEF FrameHolds
<1>17. FrameHolds(f, start, 0)'
  BY <1>3, <1>4, <1>5, <1>16, PlacedFacts, FrameStays
<1>18. /\ IsSeq(frames') /\ Len(frames') = Len(frames) /\ frames'[Len(frames)] = f
       /\ \A i \in 1..(Len(frames) - 1) : frames'[i] = frames[i]
  <2>1. PICK k \in Nat \ {0} : k = Len(frames)
    BY <1>3, TopFacts
  <2>2. /\ IsSeq(Popped) /\ Len(Popped) = k - 1
        /\ \A i \in 1..(k - 1) : Popped[i] = frames[i]
    BY <1>3, <2>1, TopFacts
  <2>3. /\ IsSeq(frames') /\ Len(frames') = k - 1 + 1 /\ frames'[k - 1 + 1] = f
        /\ \A i \in 1..(k - 1) : frames'[i] = Popped[i]
    BY <1>3, <2>2, AppendFacts
  <2>4. k - 1 + 1 = k
    BY <2>1
  <2> QED
    BY <2>1, <2>2, <2>3, <2>4
<1> QED
  BY <1>1, <1>2, <1>3, <1>5, <1>8, <1>17, <1>18, GroupGoesOn

\* A group goes on with one more element.
LEMMA ElementKeeps ==
  ASSUME ExprInv, Element
  PROVE  ExprInv'
<1>1. /\ ctl.at = "group" /\ pos' = pos /\ toks' = toks /\ nodes' = nodes /\ frames' = frames
      /\ ctl' = [at |-> "prefix", bp |-> 0, val |-> 0]
      /\ ctl'.at = "prefix" /\ ctl'.bp = 0 /\ ctl'.val = 0
  BY DEF Element, At, Stay, Go, input
<1>2. ctl.bp = 0 /\ Here = pos + 1
  BY <1>1 DEF ExprInv, ShapeHolds, Here
<1>3. Here' = Here
  BY <1>1, <1>2 DEF Here
<1>4. Kept /\ pos' \in Nat /\ Len(nodes') \in Nat
  BY <1>1, PlacedFacts DEF Kept
<1>5. \A id \in DOMAIN nodes' : NodeHolds(nodes[id], id)'
  BY <1>1, <1>4, SameNodes
<1>6. StackHolds'
  BY <1>1, <1>2, <1>3, <1>4, SameStack
<1>7. HandHolds'
  BY <1>1 DEF HandHolds
<1>8. ShapeHolds'
  <2>1. Len(nodes') + Len(frames')
          + (IF ctl'.at \in {"segment", "path"} THEN 1 ELSE 0) <= pos'
    BY <1>1, CountFacts, PlacedFacts
  <2>2. 0 \in 0..NotPower
    BY NotBinds
  <2> QED
    BY <1>1, <2>1, <2>2 DEF ExprInv, ShapeHolds, Modes, Parsing
<1> QED
  BY <1>5, <1>6, <1>7, <1>8 DEF ExprInv

\* Every step of the parser keeps the invariant.
LEMMA ExprInvIsStable ==
  ASSUME ExprInv, [Next]_vars
  PROVE  ExprInv'
<1>1. CASE Lex
  BY <1>1, LexKeeps
<1>2. CASE Step
  BY <1>2, QuietActions, LeafKeeps, CallSteps, PathSteps, EndPathKeeps, EndOperandKeeps,
     EndElementKeeps, CommaKeeps, ElementKeeps, EndGroupKeeps DEF Step
<1>3. CASE UNCHANGED vars
  <2>1. /\ toks' = toks /\ ended' = ended /\ pos' = pos /\ ctl' = ctl
        /\ frames' = frames /\ nodes' = nodes
    BY <1>3 DEF vars
  <2>2. Kept /\ pos' \in Nat /\ Len(nodes') \in Nat
    BY <2>1, PlacedFacts DEF Kept
  <2>3. \A id \in DOMAIN nodes' : NodeHolds(nodes[id], id)'
    BY <2>1, <2>2, SameNodes
  <2>4. Here' = Here /\ Tok' = Tok /\ (Looked' <=> Looked)
    BY <2>1 DEF Here, Tok, Looked
  <2>5. StackHolds'
    BY <2>1, <2>2, <2>4, SameStack
  <2>6. Power(nodes[ctl.val])' = Power(nodes[ctl.val])
    BY <2>1 DEF Power
  <2>7. HandHolds'
    BY <2>1, <2>4, <2>6 DEF ExprInv, HandHolds
  <2>8. ShapeHolds'
    BY <2>1 DEF ExprInv, ShapeHolds, Waiting, Top
  <2> QED
    BY <2>3, <2>5, <2>7, <2>8 DEF ExprInv
<1> QED
  BY <1>1, <1>2, <1>3 DEF Next

\* A new parser has no nodes and no pending calls.
LEMMA ExprInvAtFirst ==
  ASSUME Init
  PROVE  ExprInv
<1>1. /\ toks = <<>> /\ pos = 0 /\ frames = <<>> /\ nodes = <<>>
      /\ ctl = [at |-> "start", bp |-> 0, val |-> 0]
      /\ ctl.at = "start" /\ ctl.bp = 0 /\ ctl.val = 0
  BY DEF Init
<1>2. IsSeq(<<>>) /\ Len(<<>>) = 0 /\ (\A i : i \notin DOMAIN <<>>) /\ <<>> \in Seq(Kinds)
  BY DEF IsSeq
<1>3. ShapeHolds
  <2>1. 0 \in 0..NotPower /\ 0 <= MaxTokens
    BY NotBinds, MaxTokensAssumption
  <2> QED
    BY <1>1, <1>2, <2>1 DEF ShapeHolds, Modes, Parsing
<1>4. HandHolds
  BY <1>1 DEF HandHolds
<1> QED
  BY <1>1, <1>2, <1>3, <1>4 DEF ExprInv, StackHolds

\* The invariant of expressions holds for programs of any length and depth.
LEMMA ExpressionInvariant == Spec => []ExprInv
<1>1. Init => ExprInv
  BY ExprInvAtFirst
<1>2. ExprInv /\ [Next]_vars => ExprInv'
  BY ExprInvIsStable
<1> QED
  BY <1>1, <1>2, PTL DEF Spec

-----------------------------------------------------------------------------
\* The parser keeps its variables in shape: no more is boxed than was consumed, calls
\* only wait while an expression is parsed, and the parts of a node are older.
THEOREM ParserTyped == Spec => []TypeOK
<1>1. ASSUME ExprInv
      PROVE  TypeOK
  <2>1. /\ Len(toks) <= MaxTokens /\ pos \in 0..Len(toks) /\ ctl.at \in Modes
        /\ frames # <<>> => ctl.at \in Parsing
        /\ ctl.at = "group" => Waiting({"group"})
        /\ ctl.at = "ops" => ctl.val \in 1..Len(nodes)
    BY <1>1 DEF ExprInv, ShapeHolds, HandHolds
  <2>2. DOMAIN nodes = 1..Len(nodes)
    BY <1>1, PlacedFacts
  <2>3. Len(nodes) <= pos
    <3>1. Len(nodes) + Len(frames) <= pos
      BY <1>1, CountFacts
    <3>2. Len(nodes) \in Nat /\ Len(frames) \in Nat /\ pos \in Nat
      BY <1>1, PlacedFacts
    <3> QED
      BY <3>1, <3>2
  <2>4. \A id \in DOMAIN nodes : \A i \in DOMAIN nodes[id].parts :
          nodes[id].parts[i] \in 1..(id - 1)
    BY <1>1 DEF ExprInv, NodeHolds
  <2> QED
    BY <2>1, <2>2, <2>3, <2>4 DEF TypeOK, Parsing
<1> QED
  BY <1>1, ExpressionInvariant, PTL

\* parse_expr, parse_group and parse_field_path lose no token of an expression, and
\* read and move none twice, whatever stands in it and however deep.
THEOREM ParserTiles == Spec => []TreeIsTiled
<1>1. ExprInv => TreeIsTiled
  BY DEF ExprInv, NodeHolds, TreeIsTiled
<1> QED
  BY <1>1, ExpressionInvariant, PTL

\* The loop of parse_expr builds the tree that BinOp::binding_power declares.
THEOREM ParserBinds == Spec => []BindsAsDeclared
<1>1. ExprInv => BindsAsDeclared
  BY DEF ExprInv, NodeHolds, BindsAsDeclared
<1> QED
  BY <1>1, ExpressionInvariant, PTL

-----------------------------------------------------------------------------
(***************************************************************************)
(* The errors.  The lexer is asked for an item only when the parser looks  *)
(* at it, so one at most is not consumed; it decides of the error.         *)
(***************************************************************************)
FaultInv ==
  /\ Len(toks) <= pos + 1
  /\ ended => Len(toks) = pos
  /\ \A i \in 1..pos : toks[i] # "lexerr"
  /\ ctl.at # "done" => outcome = Pending
  /\ ctl.at = "done" => Looked
  /\ outcome.res = "err" => outcome.at = pos + 1
  /\ ctl.at = "done" /\ pos < Len(toks) /\ toks[pos + 1] = "lexerr" => outcome.what = "Lex"
  /\ outcome.what = "Lex" => pos < Len(toks) /\ toks[pos + 1] = "lexerr"
  /\ outcome.res = "ok" => ended /\ pos = Len(toks)

\* A step looks at an item and goes on, or it ends the parse.
GoesOn ==
  /\ ctl'.at # "done" /\ outcome' = outcome /\ Tok # "lexerr"
  /\ pos' = pos \/ (pos' = pos + 1 /\ Tok # "end")

Ends ==
  /\ ctl'.at = "done" /\ pos' = pos
  /\ \/ outcome'.res = "ok" /\ Tok = "end"
     \/ outcome'.res = "err" /\ outcome'.at = pos + 1
  /\ Tok = "lexerr" <=> outcome'.what = "Lex"

Looks == ctl.at # "done" /\ Looked /\ UNCHANGED input /\ (GoesOn \/ Ends)

\* A step that consumes a token has looked at that token only.
LEMMA AdvanceGoesOn ==
  ASSUME NEW from, NEW at, NEW bp, NEW val, At(from), from # "done", at # "done", Tok # "end",
         Advance(at, bp, val)
  PROVE  Looks
BY DEF At, Advance, Consume, Go, Looks, GoesOn

\* A step that consumes nothing has looked at one token at most.
LEMMA StayGoesOn ==
  ASSUME NEW from, NEW at, At(from), from # "done", at # "done", Stay(at)
  PROVE  Looks
BY DEF At, Stay, Go, Looks, GoesOn

\* An error is about the token looked at, and is `Lex` exactly if that is an error of
\* lexing.
LEMMA FailEnds ==
  ASSUME NEW what, ctl.at # "done", Looked, Tok = "lexerr" <=> what = "Lex", Fail(what)
  PROVE  Looks
BY DEF Fail, Go, Looks, Ends

\* No step looks further than one token behind those consumed.
LEMMA StepLooks ==
  ASSUME ExprInv, Step
  PROVE  Looks
<1>1. CASE LexFault
  BY <1>1, FailEnds DEF LexFault
<1>2. CASE Reject
  <2>1. PICK what : what = Complaint
    OBVIOUS
  <2>2. what # "Lex"
    BY <2>1 DEF Complaint
  <2> QED
    BY <1>2, <2>1, <2>2, FailEnds DEF Reject, At, Wanted
<1>3. CASE Start
  BY <1>3, AdvanceGoesOn DEF Start
<1>4. CASE Command
  <2>1. At("command") /\ Tok # "end" /\ \E at : at # "done" /\ Advance(at, 0, 0)
    <3> DEFINE kind == IF Tok \in Names THEN "custom" ELSE Tok
    <3>1. /\ At("command") /\ Tok \in Heads
          /\ \/ kind = "count" /\ Advance("pipeline", 0, 0)
             \/ kind = "filter" /\ Advance("prefix", 0, 0)
             \/ kind \notin {"count", "filter"} /\ Advance(kind, 0, 0)
      BY <1>4 DEF Command
    <3>2. kind # "done"
      BY <3>1 DEF Heads
    <3>3. Tok # "end"
      BY <3>1, EndIsNoToken
    <3> HIDE DEF kind
    <3> QED
      BY <3>1, <3>2, <3>3
  <2> QED
    BY <2>1, AdvanceGoesOn
<1>5. CASE Pipeline
  BY <1>5, AdvanceGoesOn, EndIsNoToken DEF Pipeline
<1>6. CASE Finish
  BY <1>6 DEF Finish, At, Go, Looks, Ends
<1>7. CASE EndOfLoop \/ ExpressionNext \/ Flag \/ Element
  BY <1>7, StayGoesOn DEF EndOfLoop, ExpressionNext, Flag, Element
<1>8. CASE Dashes \/ Direction \/ Comma
  BY <1>8, AdvanceGoesOn DEF Dashes, Direction, Comma, PastComma
<1>9. CASE Key \/ Take \/ Segment
  BY <1>9, AdvanceGoesOn, EndIsNoToken DEF Key, Take, Segment
<1>10. CASE Dot
  BY <1>10, AdvanceGoesOn DEF Dot
<1>11. CASE Leaf
  BY <1>11, EndIsNoToken DEF Leaf, At, Consume, Box, Go, Looks, GoesOn
<1>12. CASE Not \/ Group
  BY <1>12 DEF Not, Group, Call, At, Consume, Go, Looks, GoesOn
<1>13. CASE Operator
  BY <1>13, EndIsNoToken DEF Operator, Binds, Call, At, Consume, Go, Looks, GoesOn
<1>14. CASE EndPath \/ EndOperand
  BY <1>14 DEF EndPath, EndOperand, At, Box, Go, Looks, GoesOn
<1>15. CASE EndElement
  BY <1>15 DEF EndElement, At, Go, Looks, GoesOn
<1>16. CASE EndArgument
  <2>1. At("ops") /\ \E at \in {"sort", "custom", "pipeline"} : Stay(at)
    BY <1>16 DEF EndArgument, EndExpression
  <2> QED
    BY <2>1, StayGoesOn
<1>17. CASE EndGroup
  BY <1>17 DEF EndGroup, At, Consume, Box, Go, Looks, GoesOn
<1>18. CASE NoGroup
  BY <1>18, FailEnds DEF NoGroup, At
<1> QED
  BY <1>1, <1>2, <1>3, <1>4, <1>5, <1>6, <1>7, <1>8, <1>9, <1>10, <1>11, <1>12, <1>13,
     <1>14, <1>15, <1>16, <1>17, <1>18 DEF Step

\* Every step keeps what is known of tokens looked at and consumed.
LEMMA FaultInvIsStable ==
  ASSUME ExprInv, FaultInv, [Next]_vars
  PROVE  FaultInv'
<1>1. /\ pos \in Nat /\ Len(toks) \in Nat /\ pos <= Len(toks)
      /\ pos < Len(toks) => Tok = toks[pos + 1] /\ Tok # "end"
      /\ ~ (pos < Len(toks)) => pos = Len(toks) /\ Tok = "end"
  BY ToksFacts
<1>2. CASE Lex
  <2>1. /\ ctl.at # "done" /\ pos' = pos /\ ctl' = ctl /\ outcome' = outcome
        /\ ~ (pos < Len(toks)) /\ ~ ended
        /\ \/ (\E k : toks' = Append(toks, k)) /\ ended' = ended
           \/ toks' = toks /\ ended' = TRUE
    BY <1>2 DEF Lex, Looked
  <2>2. pos = Len(toks)
    BY <1>1, <2>1
  <2>3. /\ Len(toks') <= pos' + 1
        /\ ended' => Len(toks') = pos'
        /\ \A i \in 1..pos : toks'[i] = toks[i]
    <3>1. CASE \E k : toks' = Append(toks, k) /\ ended' = ended
      <4>1. PICK k : toks' = Append(toks, k)
        BY <3>1
      <4>2. IsSeq(toks)
        BY ToksFacts DEF IsSeq
      <4>3. Len(toks') = Len(toks) + 1 /\ \A i \in 1..Len(toks) : toks'[i] = toks[i]
        BY <4>1, <4>2, AppendFacts
      <4> QED
        BY <1>1, <2>1, <2>2, <3>1, <4>3
    <3>2. CASE toks' = toks /\ ended' = TRUE
      BY <1>1, <2>1, <2>2, <3>2
    <3> QED
      BY <2>1, <3>1, <3>2
  <2>4. outcome.res # "err" /\ outcome.res # "ok" /\ outcome.what # "Lex"
    BY <2>1 DEF FaultInv, Pending
  <2> QED
    BY <2>1, <2>3, <2>4 DEF FaultInv
<1>3. CASE Step
  <2>1. Looks
    BY <1>3, StepLooks
  <2>2. toks' = toks /\ ended' = ended /\ ctl.at # "done" /\ Looked /\ outcome = Pending
    BY <2>1 DEF Looks, input, FaultInv
  <2>3. CASE GoesOn
    <3>1. /\ pos' \in Nat /\ Len(toks) <= pos' + 1
          /\ ended => Len(toks) = pos'
          /\ \A i \in 1..pos' : toks[i] # "lexerr"
      <4>1. CASE pos' = pos
        BY <1>1, <4>1 DEF FaultInv
      <4>2. CASE pos' = pos + 1 /\ Tok # "end"
        <5>1. pos < Len(toks) /\ toks[pos + 1] # "lexerr"
          BY <1>1, <2>3, <4>2 DEF GoesOn
        <5>2. ~ ended /\ Len(toks) <= pos + 1
          BY <1>1, <5>1 DEF FaultInv
        <5>3. \A i \in 1..pos' : i \in 1..pos \/ i = pos + 1
          BY <1>1, <4>2
        <5> QED
          BY <1>1, <4>2, <5>1, <5>2, <5>3 DEF FaultInv
      <4> QED
        BY <2>3, <4>1, <4>2 DEF GoesOn
    <3>2. ctl'.at # "done" /\ outcome' = Pending
          /\ outcome'.res # "err" /\ outcome'.res # "ok" /\ outcome'.what # "Lex"
      BY <2>2, <2>3 DEF GoesOn, Pending
    <3>3. /\ Len(toks') <= pos' + 1
          /\ ended' => Len(toks') = pos'
          /\ \A i \in 1..pos' : toks'[i] # "lexerr"
      <4>1. ended' <=> ended
        BY <2>2
      <4>2. toks' = toks
        BY <2>2
      <4> QED
        BY <3>1, <4>1, <4>2
    <3>4. ctl'.at = "done" => Looked'
      BY <3>2
    <3> QED
      BY <3>2, <3>3, <3>4 DEF FaultInv
  <2>4. CASE Ends
    <3>1. pos' = pos /\ ctl'.at = "done" /\ Looked'
      BY <2>2, <2>4 DEF Ends, Looked
    <3>2. /\ outcome'.res = "err" => outcome'.at = pos + 1
          /\ Tok = "lexerr" <=> outcome'.what = "Lex"
          /\ outcome'.res = "ok" => Tok = "end"
      BY <2>4 DEF Ends
    <3>3. pos' < Len(toks') /\ toks'[pos' + 1] = "lexerr" => outcome'.what = "Lex"
      BY <1>1, <2>2, <3>1, <3>2
    <3>4. outcome'.what = "Lex" => pos' < Len(toks') /\ toks'[pos' + 1] = "lexerr"
      BY <1>1, <2>2, <3>1, <3>2
    <3>5. outcome'.res = "ok" => ended' /\ pos' = Len(toks')
      BY <1>1, <2>2, <3>1, <3>2 DEF Looked
    <3> QED
      BY <2>2, <3>1, <3>2, <3>3, <3>4, <3>5 DEF FaultInv
  <2> QED
    BY <2>1, <2>3, <2>4 DEF Looks
<1>4. CASE UNCHANGED vars
  BY <1>4 DEF vars, FaultInv, Looked
<1> QED
  BY <1>2, <1>3, <1>4 DEF Next

\* No program makes the parser look further, or consume an error.
LEMMA FaultInvariant == Spec => []FaultInv
<1>1. Init => FaultInv
  <2>1. ASSUME Init
        PROVE  /\ toks = <<>> /\ ended = FALSE /\ pos = 0 /\ ctl.at = "start"
               /\ outcome = Pending /\ Pending.res = "pending" /\ Pending.what = "none"
               /\ Len(<<>>) = 0
    BY <2>1 DEF Init, Pending
  <2> QED
    BY <2>1 DEF FaultInv
<1>2. ExprInv /\ FaultInv /\ [Next]_vars => FaultInv'
  BY FaultInvIsStable
<1> QED
  BY <1>1, <1>2, ExpressionInvariant, PTL DEF Spec

\* parse reports the first fault of the source: every error is about the last item
\* that was lexed, or about the end, and a LexError is never passed over.
THEOREM ParserFaults == Spec => []FirstFaultWins
<1>1. ASSUME ExprInv, FaultInv
      PROVE  FirstFaultWins
  <2>1. /\ pos \in Nat /\ Len(toks) \in Nat /\ pos <= Len(toks) /\ DOMAIN toks = 1..Len(toks)
        /\ Len(toks) <= pos + 1
    BY <1>1, ToksFacts DEF FaultInv
  <2>2. outcome # Pending => ctl.at = "done"
    BY <1>1 DEF FaultInv
  <2>3. ASSUME outcome.res = "err"
        PROVE  outcome.at = Len(toks) \/ (ended /\ outcome.at = Len(toks) + 1)
    <3>1. outcome # Pending
      BY <2>3 DEF Pending
    <3>2. (pos < Len(toks) \/ ended) /\ outcome.at = pos + 1
      BY <1>1, <2>2, <2>3, <3>1 DEF FaultInv, Looked
    <3>3. CASE pos < Len(toks)
      <4>1. Len(toks) \in Int /\ pos \in Int /\ Len(toks) <= pos + 1 /\ pos < Len(toks)
        BY <2>1, <3>3
      <4>2. Len(toks) = pos + 1
        BY <4>1
      <4> QED
        BY <3>2, <4>2
    <3>4. CASE ended
      <4>1. Len(toks) = pos
        BY <1>1, <3>4 DEF FaultInv
      <4> QED
        BY <3>2, <3>4, <4>1
    <3> QED
      BY <3>2, <3>3, <3>4
  <2>4. ASSUME NEW i \in DOMAIN toks, toks[i] = "lexerr"
        PROVE  i = Len(toks) /\ (outcome # Pending => outcome.what = "Lex")
    <3>1. i \in 1..Len(toks) /\ i \notin 1..pos
      BY <1>1, <2>1, <2>4 DEF FaultInv
    <3>2. i = pos + 1 /\ i = Len(toks) /\ pos < Len(toks)
      BY <2>1, <3>1
    <3> QED
      BY <1>1, <2>2, <2>4, <3>2 DEF FaultInv
  <2> QED
    BY <2>3, <2>4 DEF FirstFaultWins
<1> QED
  BY <1>1, ExpressionInvariant, FaultInvariant, PTL

-----------------------------------------------------------------------------
(***************************************************************************)
(* The pipeline.  What says that its commands tile the text is where the   *)
(* next one begins, and that differs with what the parser is doing.        *)
(***************************************************************************)
IsCommand(c) ==
  c = [op |-> c.op, kind |-> c.kind, from |-> c.from, args |-> c.args, flags |-> c.flags,
       options |-> c.options, dir |-> c.dir, key |-> c.key]

\* A command comes behind those of the pipeline.
ComesNext(c) ==
  IF segs = <<>> THEN c.from = 2 /\ c.op = "pipe"
  ELSE c.from = segs[Len(segs)].to + 2 /\ toks[c.from - 1] = c.op

SegHolds(i) ==
  LET c == segs[i].cmd IN
  /\ c.from \in 2..segs[i].to /\ segs[i].to \in 2..pos
  /\ IF i = 1 THEN c.from = 2 /\ c.op = "pipe"
              ELSE c.from = segs[i - 1].to + 2 /\ toks[c.from - 1] = c.op

\* Where the parser is when no command is begun.
Between == {"start", "command", "pipeline", "done"}

SegsInv ==
  /\ IsSeq(segs)
  /\ \A i \in DOMAIN segs : SegHolds(i)
  /\ IsCommand(cmd)
  /\ ctl.at = "start" => pos = 0 /\ segs = <<>> /\ cmd.op = "pipe"
  /\ ctl.at = "command" =>
       IF segs = <<>> THEN pos = 1 /\ cmd.op = "pipe"
       ELSE pos = segs[Len(segs)].to + 1 /\ toks[pos] = cmd.op
  /\ ctl.at \notin Between => cmd.from \in 2..pos /\ ComesNext(cmd)
  /\ ctl.at = "pipeline" => segs # <<>> /\ segs[Len(segs)].to = pos
  /\ outcome.res = "ok" => ctl.at = "done" /\ segs # <<>> /\ segs[Len(segs)].to = Len(toks)

\* Facts to start from.
LEMMA SegsFacts ==
  ASSUME ExprInv, SegsInv
  PROVE  /\ pos \in Nat /\ DOMAIN segs = 1..Len(segs) /\ Len(segs) \in Nat
         /\ segs = <<>> <=> Len(segs) = 0
         /\ segs # <<>> => /\ Len(segs) \in DOMAIN segs
                           /\ segs[Len(segs)].to \in 2..pos
<1>1. /\ pos \in Nat /\ DOMAIN segs = 1..Len(segs) /\ Len(segs) \in Nat
      /\ segs = <<>> <=> Len(segs) = 0
  BY ToksFacts, SeqFacts DEF SegsInv
<1>2. segs # <<>> => Len(segs) \in DOMAIN segs
  BY <1>1
<1> QED
  BY <1>1, <1>2 DEF SegsInv, SegHolds

\* The commands of the pipeline do not change with what is read behind them.
LEMMA SegsStay ==
  ASSUME ExprInv, SegsInv, pos' \in Nat, pos' >= pos, \A p \in 1..pos : toks'[p] = toks[p],
         segs' = segs
  PROVE  /\ IsSeq(segs') /\ \A i \in DOMAIN segs' : SegHolds(i)'
<1> SUFFICES ASSUME NEW i \in 1..Len(segs)
             PROVE  SegHolds(i)'
  BY SegsFacts DEF SegsInv
<1>1. PICK c, to, last : c = segs[i].cmd /\ to = segs[i].to /\ last = segs[i - 1].to
  OBVIOUS
<1>2. /\ c.from \in 2..to /\ to \in 2..pos /\ pos \in Nat
      /\ IF i = 1 THEN c.from = 2 /\ c.op = "pipe"
                  ELSE c.from = last + 2 /\ toks[c.from - 1] = c.op
  BY <1>1, SegsFacts DEF SegsInv, SegHolds
<1>3. to \in 2..pos' /\ c.from - 1 \in 1..pos
  BY <1>2
<1>4. toks'[c.from - 1] = toks[c.from - 1]
  BY <1>3
<1> QED
  BY <1>1, <1>2, <1>3, <1>4 DEF SegHolds

\* The parser goes on with a command.
LEMMA CommandGoesOn ==
  ASSUME ExprInv, SegsInv, pos' \in Nat, pos' >= pos, \A p \in 1..pos : toks'[p] = toks[p],
         segs' = segs, outcome' = outcome,
         ctl.at \notin Between, ctl'.at \notin Between,
         IsCommand(cmd'), cmd'.from = cmd.from, cmd'.op = cmd.op
  PROVE  SegsInv'
<1>1. PICK c, last : c = cmd /\ last = segs[Len(segs)].to
  OBVIOUS
<1>2. /\ c.from \in 2..pos /\ pos \in Nat /\ outcome.res # "ok"
      /\ IF segs = <<>> THEN c.from = 2 /\ c.op = "pipe"
         ELSE c.from = last + 2 /\ toks[c.from - 1] = c.op
  BY <1>1, SegsFacts DEF SegsInv, ComesNext, Between
<1>3. c.from \in 2..pos' /\ c.from - 1 \in 1..pos
  BY <1>2
<1>4. cmd'.from \in 2..pos'
  BY <1>1, <1>3
<1>5. ComesNext(cmd)'
  <2>1. toks'[c.from - 1] = toks[c.from - 1]
    BY <1>3
  <2> QED
    BY <1>1, <1>2, <2>1 DEF ComesNext
<1>6. IsCommand(cmd)'
  BY DEF IsCommand
<1> QED
  BY <1>2, <1>4, <1>5, <1>6, SegsStay DEF SegsInv, Between

\* A command is over.
LEMMA CommandIsOver ==
  ASSUME ExprInv, SegsInv, pos' \in Nat, pos' >= pos, toks' = toks, outcome' = outcome,
         ctl.at # "done", ctl'.at = "pipeline", IsCommand(cmd'),
         NEW c, NEW to, segs' = Append(segs, [cmd |-> c, to |-> to]), to = pos',
         c.from \in 2..to, ComesNext(c)
  PROVE  SegsInv'
<1>1. PICK k \in Nat : k = Len(segs)
  BY SegsFacts
<1>2. PICK s : s = [cmd |-> c, to |-> to]
  OBVIOUS
<1>3. /\ IsSeq(segs') /\ Len(segs') = k + 1 /\ DOMAIN segs' = 1..(k + 1)
      /\ segs'[k + 1] = s /\ \A i \in 1..k : segs'[i] = segs[i]
  BY <1>1, <1>2, AppendFacts, SeqFacts DEF SegsInv
<1>4. s.cmd = c /\ s.to = to
  BY <1>2
<1>5. ASSUME NEW i \in 1..k
      PROVE  SegHolds(i)'
  <2>1. PICK d, e, last : d = segs[i].cmd /\ e = segs[i].to /\ last = segs[i - 1].to
    OBVIOUS
  <2>2. /\ d.from \in 2..e /\ e \in 2..pos /\ pos \in Nat
        /\ IF i = 1 THEN d.from = 2 /\ d.op = "pipe"
                    ELSE d.from = last + 2 /\ toks[d.from - 1] = d.op
    BY <1>1, <2>1, SegsFacts DEF SegsInv, SegHolds
  <2>3. segs'[i].cmd = d /\ segs'[i].to = e
    BY <1>3, <2>1
  <2>4. i # 1 => segs'[i - 1].to = last
    <3>1. i # 1 => i - 1 \in 1..k
      OBVIOUS
    <3> QED
      BY <1>3, <2>1, <3>1
  <2>5. e \in 2..pos'
    BY <2>2
  <2> QED
    BY <2>2, <2>3, <2>4, <2>5 DEF SegHolds
<1>6. SegHolds(k + 1)'
  <2>1. PICK m, last : m = k + 1 /\ last = segs[k].to
    OBVIOUS
  <2>2. IF m = 1 THEN c.from = 2 /\ c.op = "pipe"
        ELSE c.from = last + 2 /\ toks[c.from - 1] = c.op
    BY <1>1, <2>1, SegsFacts DEF ComesNext
  <2>3. m # 1 => segs'[m - 1].to = last
    <3>1. m # 1 => m - 1 = k /\ k \in 1..k
      BY <2>1
    <3> QED
      BY <1>3, <2>1, <3>1
  <2>4. to \in 2..pos'
    BY SegsFacts
  <2>5. SegHolds(m)'
    BY <1>3, <1>4, <2>1, <2>2, <2>3, <2>4 DEF SegHolds
  <2> QED
    BY <2>1, <2>5
<1>7. segs' # <<>> /\ segs'[Len(segs')].to = pos'
  BY <1>1, <1>3, <1>4, SeqFacts
<1>8. outcome'.res # "ok"
  BY DEF SegsInv
<1>9. IsCommand(cmd)'
  BY DEF IsCommand
<1>10. \A i \in DOMAIN segs' : SegHolds(i)'
  <2>1. \A i \in 1..(k + 1) : i \in 1..k \/ i = k + 1
    OBVIOUS
  <2> QED
    BY <1>3, <1>5, <1>6, <2>1
<1> QED
  BY <1>3, <1>7, <1>8, <1>9, <1>10 DEF SegsInv, Between

\* A step inside a command keeps its beginning and the commands before it.
LEMMA CommandReadsOn ==
  ASSUME ExprInv, SegsInv, UNCHANGED <<input, segs, outcome>>, pos' = pos \/ pos' = pos + 1,
         ctl.at \notin Between, ctl'.at \notin Between,
         IsCommand(cmd'), cmd'.from = cmd.from, cmd'.op = cmd.op
  PROVE  SegsInv'
<1>1. pos' \in Nat /\ pos' >= pos /\ toks' = toks
  BY SegsFacts DEF input
<1> QED
  BY <1>1, CommandGoesOn

\* What is noted in a command changes neither its place nor how it is joined.
Same(c, d) == IsCommand(d) /\ d.from = c.from /\ d.op = c.op

\* Noting a key, a flag, a direction, an argument or an option keeps where the command
\* began.
LEMMA CommandNotes ==
  ASSUME NEW c, IsCommand(c), NEW x, NEW y
  PROVE  /\ Same(c, [c EXCEPT !.key = x])
         /\ Same(c, [c EXCEPT !.flags = x, !.key = y])
         /\ Same(c, [c EXCEPT !.dir = x])
         /\ Same(c, [c EXCEPT !.args = x])
         /\ Same(c, [c EXCEPT !.key = x, !.options = y])
<1>1. Same(c, [c EXCEPT !.key = x])
  <2>1. PICK d : d = [c EXCEPT !.key = x]
    OBVIOUS
  <2>2. IsCommand(d) /\ d.from = c.from /\ d.op = c.op
    BY <2>1 DEF IsCommand
  <2> QED
    BY <2>1, <2>2 DEF Same
<1>2. Same(c, [c EXCEPT !.flags = x, !.key = y])
  <2>1. PICK d : d = [c EXCEPT !.flags = x, !.key = y]
    OBVIOUS
  <2>2. IsCommand(d) /\ d.from = c.from /\ d.op = c.op
    BY <2>1 DEF IsCommand
  <2> QED
    BY <2>1, <2>2 DEF Same
<1>3. Same(c, [c EXCEPT !.dir = x])
  <2>1. PICK d : d = [c EXCEPT !.dir = x]
    OBVIOUS
  <2>2. IsCommand(d) /\ d.from = c.from /\ d.op = c.op
    BY <2>1 DEF IsCommand
  <2> QED
    BY <2>1, <2>2 DEF Same
<1>4. Same(c, [c EXCEPT !.args = x])
  <2>1. PICK d : d = [c EXCEPT !.args = x]
    OBVIOUS
  <2>2. IsCommand(d) /\ d.from = c.from /\ d.op = c.op
    BY <2>1 DEF IsCommand
  <2> QED
    BY <2>1, <2>2 DEF Same
<1>5. Same(c, [c EXCEPT !.key = x, !.options = y])
  <2>1. PICK d : d = [c EXCEPT !.key = x, !.options = y]
    OBVIOUS
  <2>2. IsCommand(d) /\ d.from = c.from /\ d.op = c.op
    BY <2>1 DEF IsCommand
  <2> QED
    BY <2>1, <2>2 DEF Same
<1> QED
  BY <1>1, <1>2, <1>3, <1>4, <1>5

\* Reading an expression, a key, a flag or a direction stays within the command.
LEMMA ReadingKeeps ==
  ASSUME ExprInv, SegsInv,
         \/ ExpressionNext \/ Dashes \/ Key \/ Flag \/ Direction
         \/ Leaf \/ Not \/ Group \/ Dot \/ Segment \/ EndPath
         \/ Operator \/ EndOperand \/ EndElement
         \/ Comma \/ Element \/ EndGroup
  PROVE  SegsInv'
<1>1. IsCommand(cmd)
  BY DEF SegsInv
<1>2. CASE ExpressionNext \/ Dashes \/ Element \/ Comma \/ Dot \/ Segment
  <2>1. /\ ctl.at \notin Between /\ ctl'.at \notin Between /\ cmd' = cmd
        /\ UNCHANGED <<input, segs, outcome>> /\ (pos' = pos \/ pos' = pos + 1)
    BY <1>2 DEF ExpressionNext, Dashes, Element, Comma, PastComma, Dot, Segment,
                Stay, Advance, Consume, Go, At, Between, input
  <2> QED
    BY <1>1, <2>1, CommandReadsOn
<1>3. CASE Leaf \/ EndPath \/ EndOperand \/ EndElement \/ EndGroup
  <2>1. /\ ctl.at \notin Between /\ ctl'.at \notin Between /\ cmd' = cmd
        /\ UNCHANGED <<input, segs, outcome>> /\ (pos' = pos \/ pos' = pos + 1)
    BY <1>3 DEF Leaf, EndPath, EndOperand, EndElement, EndGroup, Box, Consume, Go, At,
                Between, input
  <2> QED
    BY <1>1, <2>1, CommandReadsOn
<1>4. CASE Not \/ Group \/ Operator
  <2>1. /\ ctl.at \notin Between /\ ctl'.at \notin Between /\ cmd' = cmd
        /\ UNCHANGED <<input, segs, outcome>> /\ pos' = pos + 1
    BY <1>4 DEF Not, Group, Operator, Call, Consume, Go, At, Between, input
  <2> QED
    BY <1>1, <2>1, CommandReadsOn
<1>5. CASE Key \/ Flag \/ Direction
  <2>1. /\ ctl.at \notin Between /\ ctl'.at \notin Between
        /\ UNCHANGED <<input, segs, outcome>> /\ (pos' = pos \/ pos' = pos + 1)
    BY <1>5 DEF Key, Flag, Direction, Stay, Advance, Consume, Go, At, Between, input
  <2>2. Same(cmd, cmd')
    <3>1. CASE Key
      BY <1>1, <3>1, CommandNotes DEF Key
    <3>2. CASE Flag
      BY <1>1, <3>2, CommandNotes DEF Flag
    <3>3. CASE Direction
      BY <1>1, <3>3, CommandNotes DEF Direction, Directed
    <3> QED
      BY <1>5, <3>1, <3>2, <3>3
  <2> QED
    BY <2>1, <2>2, CommandReadsOn DEF Same
<1> QED
  BY <1>2, <1>3, <1>4, <1>5

\* Taking an expression, or the end of a command, keeps the commands in order.
LEMMA EndingKeeps ==
  ASSUME ExprInv, SegsInv, EndOfLoop \/ Take \/ EndArgument
  PROVE  SegsInv'
<1>1. PICK c, d : c = cmd /\ d = cmd'
  OBVIOUS
<1>2. ctl.at \notin Between
  BY DEF EndOfLoop, Take, EndArgument, At, Between
<1>3. IsCommand(c) /\ c.from \in 2..pos /\ ComesNext(c) /\ pos \in Nat
  BY <1>1, <1>2, SegsFacts DEF SegsInv
<1>4. c.from \in 2..(pos + 1)
  BY <1>3
<1>5. CASE EndOfLoop
  <2>1. /\ ctl'.at = "pipeline" /\ pos' = pos /\ toks' = toks /\ outcome' = outcome /\ d = c
        /\ segs' = Append(segs, [cmd |-> c, to |-> pos])
    BY <1>1, <1>5 DEF EndOfLoop, Stay, Go, EndCommand, input
  <2> QED
    BY <1>1, <1>2, <1>3, <2>1, CommandIsOver DEF Between
<1>6. CASE Take
  <2>1. /\ ctl'.at = "pipeline" /\ pos' = pos + 1 /\ toks' = toks /\ outcome' = outcome
        /\ d = c /\ segs' = Append(segs, [cmd |-> c, to |-> pos + 1])
    BY <1>1, <1>6 DEF Take, Advance, Consume, Go, EndCommand, input
  <2>2. pos' \in Nat /\ pos' >= pos
    BY <1>3, <2>1
  <2> QED
    BY <1>1, <1>2, <1>3, <1>4, <2>1, <2>2, CommandIsOver DEF Between
<1>7. CASE EndArgument
  <2>1. pos' = pos /\ toks' = toks /\ outcome' = outcome /\ UNCHANGED input
    BY <1>7 DEF EndArgument, EndExpression, Stay, input
  <2>2. /\ \/ d = WithField(c, ctl.val)
           \/ d = WithOption(c, ctl.val)
           \/ d = [c EXCEPT !.args = Append(@, ctl.val)]
        /\ \/ ctl'.at \in {"sort", "custom"} /\ segs' = segs
           \/ ctl'.at = "pipeline" /\ segs' = Append(segs, [cmd |-> d, to |-> pos])
    BY <1>1, <1>7 DEF EndArgument, EndExpression, EndCommand, Stay, Go
  <2>3. IsCommand(d) /\ d.from = c.from /\ d.op = c.op
    <3>1. CASE d = WithField(c, ctl.val)
      BY <1>3, <3>1, CommandNotes DEF WithField, Same
    <3>2. CASE d = WithOption(c, ctl.val)
      <4>1. PICK n, o : d = [c EXCEPT !.key = n, !.options = o]
        BY <3>2 DEF WithOption
      <4>2. Same(c, [c EXCEPT !.key = n, !.options = o])
        BY <1>3, CommandNotes
      <4> QED
        BY <4>1, <4>2 DEF Same
    <3>3. CASE d = [c EXCEPT !.args = Append(@, ctl.val)]
      BY <1>3, <3>3, CommandNotes DEF Same
    <3> QED
      BY <2>2, <3>1, <3>2, <3>3
  <2>4. CASE ctl'.at \in {"sort", "custom"} /\ segs' = segs
    BY <1>1, <1>2, <2>1, <2>3, <2>4, CommandReadsOn DEF Between
  <2>5. CASE ctl'.at = "pipeline" /\ segs' = Append(segs, [cmd |-> d, to |-> pos])
    <3>1. d.from \in 2..pos /\ ComesNext(d)
      BY <1>3, <2>3 DEF ComesNext
    <3> QED
      BY <1>1, <1>2, <1>3, <2>1, <2>3, <2>5, <3>1, CommandIsOver DEF Between
  <2> QED
    BY <2>2, <2>4, <2>5
<1> QED
  BY <1>5, <1>6, <1>7

\* A command that begins takes its place behind the operator in front of it.
LEMMA CommandBegins ==
  ASSUME ExprInv, SegsInv, ctl.at = "command", NEW c, c.from = pos + 1, c.op = cmd.op
  PROVE  c.from \in 2..(pos + 1) /\ ComesNext(c)
<1>1. PICK last : last = segs[Len(segs)].to
  OBVIOUS
<1>2. CASE segs = <<>>
  <2>1. pos = 1 /\ cmd.op = "pipe"
    BY <1>2 DEF SegsInv
  <2> QED
    BY <1>2, <2>1 DEF ComesNext
<1>3. CASE segs # <<>>
  <2>1. pos = last + 1 /\ toks[pos] = cmd.op /\ last \in 2..pos /\ pos \in Nat
    BY <1>1, <1>3, SegsFacts DEF SegsInv
  <2>2. c.from = last + 2 /\ c.from - 1 = pos /\ c.from \in 2..(pos + 1)
    BY <2>1
  <2> QED
    BY <1>1, <1>3, <2>1, <2>2 DEF ComesNext
<1> QED
  BY <1>2, <1>3

\* A command begins at its first token.
LEMMA CommandKeeps ==
  ASSUME ExprInv, SegsInv, Command
  PROVE  SegsInv'
<1>1. PICK kind, c : /\ kind = (IF Tok \in Names THEN "custom" ELSE Tok)
                     /\ c = [cmd EXCEPT !.kind = kind, !.from = pos + 1]
  OBVIOUS
<1>2. /\ ctl.at = "command" /\ Tok \in Heads /\ cmd' = c
      /\ pos' = pos + 1 /\ toks' = toks /\ outcome' = outcome
      /\ \/ /\ kind = "count" /\ ctl'.at = "pipeline"
            /\ segs' = Append(segs, [cmd |-> c, to |-> pos + 1])
         \/ kind = "filter" /\ ctl'.at = "prefix" /\ segs' = segs
         \/ kind \notin {"count", "filter"} /\ ctl'.at = kind /\ segs' = segs
  BY <1>1 DEF Command, At, Advance, Consume, Go, EndCommand, input
<1>3. /\ IsCommand(c) /\ c.from = pos + 1 /\ c.op = cmd.op
  BY <1>1 DEF SegsInv, IsCommand
<1>4. c.from \in 2..(pos + 1) /\ ComesNext(c)
  BY <1>2, <1>3, CommandBegins
<1>5. pos' \in Nat /\ pos' >= pos
  BY <1>2, SegsFacts
<1>6. CASE kind = "count"
  BY <1>2, <1>3, <1>4, <1>5, <1>6, CommandIsOver
<1>7. CASE kind # "count"
  <2>1. kind \in {"filter", "sort", "take", "unique", "custom"}
    BY <1>1, <1>2, <1>7 DEF Heads
  <2>2. ctl'.at \notin Between /\ segs' = segs
    BY <1>2, <2>1 DEF Between
  <2>3. cmd'.from \in 2..pos' /\ ComesNext(cmd)'
    BY <1>2, <1>4, <2>2 DEF ComesNext
  <2>4. IsSeq(segs') /\ \A i \in DOMAIN segs' : SegHolds(i)'
    BY <1>2, <1>5, <2>2, SegsStay
  <2>5. IsCommand(cmd)' /\ outcome'.res # "ok"
    BY <1>2, <1>3 DEF IsCommand, SegsInv
  <2> QED
    BY <2>2, <2>3, <2>4, <2>5 DEF SegsInv, Between
<1> QED
  BY <1>6, <1>7

\* The first command of a program, or the operator in front of the next.
LEMMA StartKeeps ==
  ASSUME ExprInv, SegsInv, Start \/ Pipeline
  PROVE  SegsInv'
<1>1. pos \in Nat /\ pos' = pos + 1 /\ toks' = toks /\ outcome' = outcome /\ segs' = segs
      /\ ctl'.at = "command" /\ ctl.at \in {"start", "pipeline"}
  BY SegsFacts DEF Start, Pipeline, At, Advance, Consume, Go, input
<1>2. pos' \in Nat /\ pos' >= pos
  BY <1>1
<1>3. IsSeq(segs') /\ \A i \in DOMAIN segs' : SegHolds(i)'
  BY <1>1, <1>2, SegsStay
<1>4. outcome'.res # "ok"
  BY <1>1 DEF SegsInv
<1>5. CASE Start
  <2>1. pos = 0 /\ segs = <<>> /\ cmd.op = "pipe" /\ cmd' = cmd /\ IsCommand(cmd)
    BY <1>5 DEF Start, At, SegsInv
  <2>2. IsCommand(cmd)'
    BY <2>1 DEF IsCommand
  <2> QED
    BY <1>1, <1>3, <1>4, <2>1, <2>2 DEF SegsInv, Between
<1>6. CASE Pipeline
  <2>1. segs # <<>> /\ segs[Len(segs)].to = pos /\ cmd' = Blank(Tok) /\ Tok # "end"
    BY <1>6, EndIsNoToken DEF Pipeline, At, SegsInv
  <2>2. Tok = toks[pos + 1]
    BY <2>1, ToksFacts
  <2>3. IsCommand(cmd)' /\ cmd'.op = Tok
    BY <2>1 DEF IsCommand, Blank, Fresh
  <2>4. toks'[pos'] = cmd'.op
    BY <1>1, <2>2, <2>3
  <2> QED
    BY <1>1, <1>3, <1>4, <2>1, <2>3, <2>4 DEF SegsInv, Between
<1> QED
  BY <1>5, <1>6

\* A verdict leaves the commands as they are.
LEMMA StoppingKeeps ==
  ASSUME ExprInv, SegsInv, LexFault \/ Reject \/ NoGroup \/ Finish
  PROVE  SegsInv'
<1>1. /\ pos' = pos /\ toks' = toks /\ cmd' = cmd /\ segs' = segs /\ ctl'.at = "done"
      /\ \/ outcome'.res = "err"
         \/ outcome'.res = "ok" /\ ctl.at = "pipeline" /\ Tok = "end"
  BY DEF LexFault, Reject, NoGroup, Finish, Fail, Go, At, input
<1>2. IsSeq(segs') /\ \A i \in DOMAIN segs' : SegHolds(i)'
  BY <1>1, SegsFacts, SegsStay
<1>3. IsCommand(cmd)'
  BY <1>1 DEF SegsInv, IsCommand
<1>4. outcome'.res = "ok" => segs' # <<>> /\ segs'[Len(segs')].to = Len(toks')
  <2>1. Tok = "end" => pos = Len(toks)
    BY ToksFacts
  <2> QED
    BY <1>1, <2>1 DEF SegsInv
<1> QED
  BY <1>1, <1>2, <1>3, <1>4 DEF SegsInv, Between

\* Every step keeps the commands in order and within the program.
LEMMA SegsInvIsStable ==
  ASSUME ExprInv, SegsInv, [Next]_vars
  PROVE  SegsInv'
<1>1. CASE Lex \/ UNCHANGED vars
  <2>1. /\ pos' = pos /\ ctl' = ctl /\ cmd' = cmd /\ segs' = segs /\ outcome' = outcome
        /\ pos \in Nat
        /\ ctl.at # "done" \/ toks' = toks
        /\ toks' = toks \/ \E k : toks' = Append(toks, k)
    BY <1>1, ToksFacts DEF Lex, vars
  <2>2. \A p \in 1..pos : toks'[p] = toks[p]
    <3>1. CASE \E k : toks' = Append(toks, k)
      <4>1. IsSeq(toks) /\ \A p \in 1..pos : p \in 1..Len(toks)
        <5>1. pos \in Nat /\ Len(toks) \in Nat /\ pos <= Len(toks)
          BY ToksFacts
        <5>2. IsSeq(toks)
          BY ToksFacts DEF IsSeq
        <5> QED
          BY <5>1, <5>2
      <4> QED
        BY <3>1, <4>1, AppendFacts
    <3> QED
      BY <2>1, <3>1
  <2>3. IsSeq(segs') /\ \A i \in DOMAIN segs' : SegHolds(i)'
    BY <2>1, <2>2, SegsStay
  <2>4. ctl.at \notin Between => SegsInv'
    BY <2>1, <2>2, CommandGoesOn DEF SegsInv
  <2>5. ASSUME ctl.at \in Between
        PROVE  SegsInv'
    <3>1. IsCommand(cmd)'
      BY <2>1 DEF SegsInv, IsCommand
    <3>2. ctl.at = "command" =>
            IF segs = <<>> THEN pos = 1 /\ cmd.op = "pipe"
            ELSE pos = segs[Len(segs)].to + 1 /\ toks'[pos] = cmd.op
      <4>1. segs # <<>> => pos \in 1..pos
        BY SegsFacts
      <4> QED
        BY <2>2, <4>1 DEF SegsInv
    <3>3. outcome.res = "ok" => /\ ctl.at = "done" /\ segs # <<>>
                                /\ segs[Len(segs)].to = Len(toks')
      BY <2>1 DEF SegsInv
    <3> QED
      BY <2>1, <2>3, <2>5, <3>1, <3>2, <3>3 DEF SegsInv
  <2> QED
    BY <2>4, <2>5
<1>2. CASE Step
  BY <1>2, ReadingKeeps, EndingKeeps, CommandKeeps, StartKeeps, StoppingKeeps DEF Step
<1> QED
  BY <1>1, <1>2 DEF Next

\* The commands of every program are in order, each behind the operator that joins it.
LEMMA SegsInvariant == Spec => []SegsInv
<1>1. ASSUME Init
      PROVE  SegsInv
  <2>1. /\ segs = <<>> /\ pos = 0 /\ ctl.at = "start" /\ outcome.res = "pending"
        /\ cmd = Fresh("pipe")
    BY <1>1 DEF Init, Pending, Blank
  <2>2. IsCommand(cmd) /\ cmd.op = "pipe"
    BY <2>1 DEF IsCommand, Fresh
  <2>3. IsSeq(segs) /\ \A i : i \notin DOMAIN segs
    BY <2>1 DEF IsSeq
  <2> QED
    BY <2>1, <2>2, <2>3 DEF SegsInv, Between
<1>2. ExprInv /\ SegsInv /\ [Next]_vars => SegsInv'
  BY SegsInvIsStable
<1> QED
  BY <1>1, <1>2, ExpressionInvariant, PTL DEF Spec

\* The commands of the pipeline are the tokens between its operators: parse_pipeline
\* and the parsers of the commands leave none between them, and none behind the last.
THEOREM ParserSegments == Spec => []SegmentsTile
<1>1. SegsInv => SegmentsTile
  <2>1. ASSUME SegsInv, NEW i \in DOMAIN segs
        PROVE  segs[i].cmd.from <= segs[i].to
    <3>1. PICK a, b : a = segs[i].cmd.from /\ b = segs[i].to
      OBVIOUS
    <3>2. a \in 2..b
      BY <2>1, <3>1 DEF SegsInv, SegHolds
    <3> QED
      BY <3>1, <3>2
  <2> QED
    BY <2>1 DEF SegsInv, SegHolds, SegmentsTile
<1> QED
  BY <1>1, SegsInvariant, PTL

-----------------------------------------------------------------------------
(***************************************************************************)
(* What is accepted: from the `;` on, every token is in a command or joins *)
(* two of them.                                                            *)
(***************************************************************************)
InCommand(i, s) == i \in segs[s].cmd.from..segs[s].to

Joining(i, s) == s > 1 /\ i = segs[s].cmd.from - 1 /\ toks[i] = segs[s].cmd.op

Covered(i) == \E s \in DOMAIN segs : InCommand(i, s) \/ Joining(i, s)

CoverInv ==
  /\ pos >= 1 => toks[1] = "semi"
  /\ segs # <<>> => \A i \in 2..segs[Len(segs)].to : Covered(i)

\* A step finishes one command at most.
LEMMA StepSegs ==
  ASSUME Step
  PROVE  segs' = segs \/ \E seg : segs' = Append(segs, seg)
<1>1. CASE \/ LexFault \/ Reject \/ Start \/ Pipeline \/ Finish \/ ExpressionNext \/ Dashes
           \/ Key \/ Flag \/ Direction \/ Leaf \/ Not \/ Group \/ Dot \/ Segment \/ EndPath
           \/ Operator \/ EndOperand \/ EndElement \/ Comma \/ Element \/ EndGroup \/ NoGroup
  BY <1>1 DEF LexFault, Reject, Start, Pipeline, Finish, ExpressionNext, Dashes, Key, Flag,
       Direction, Leaf, Not, Group, Dot, Segment, EndPath, Operator, EndOperand, EndElement,
       Comma, Element, EndGroup, NoGroup, Fail, Call
<1>2. CASE Command \/ EndOfLoop \/ Take
  BY <1>2 DEF Command, EndOfLoop, Take, EndCommand
<1>3. CASE EndArgument
  BY <1>3 DEF EndArgument, EndExpression, EndCommand
<1> QED
  BY <1>1, <1>2, <1>3 DEF Step

\* The first token is the one that `parse` asks for.
LEMMA FirstIsRead ==
  ASSUME Step, ctl.at = "start"
  PROVE  pos' = pos \/ (pos' = pos + 1 /\ Tok = "semi" /\ Looked)
<1>1. CASE LexFault \/ Reject
  BY <1>1 DEF LexFault, Reject, Fail
<1>2. CASE Start
  BY <1>2 DEF Start, At, Advance, Consume
<1>3. CASE \/ Command \/ Pipeline \/ Finish \/ EndOfLoop \/ ExpressionNext \/ Dashes \/ Key
           \/ Flag \/ Direction \/ Take \/ Leaf \/ Not \/ Group \/ Dot \/ Segment \/ EndPath
           \/ Operator \/ EndOperand \/ EndElement \/ EndArgument \/ Comma \/ Element
           \/ EndGroup \/ NoGroup
  BY <1>3 DEF Command, Pipeline, Finish, EndOfLoop, ExpressionNext, Dashes, Key, Flag,
       Direction, Take, Leaf, Not, Group, Dot, Segment, EndPath, Operator, EndOperand,
       EndElement, EndArgument, Comma, Element, EndGroup, NoGroup, At
<1> QED
  BY <1>1, <1>2, <1>3 DEF Step

\* What has been covered stays so when one more command is finished.
LEMMA CoverGrows ==
  ASSUME ExprInv, SegsInv, SegsInv', CoverInv, pos' \in Nat, pos' >= pos,
         \A p \in 1..pos : toks'[p] = toks[p],
         segs' = segs \/ \E seg : segs' = Append(segs, seg)
  PROVE  segs' # <<>> => \A i \in 2..segs'[Len(segs')].to : Covered(i)'
<1> SUFFICES ASSUME segs' # <<>>, NEW i \in 2..segs'[Len(segs')].to
             PROVE  Covered(i)'
  OBVIOUS
<1>1. /\ pos \in Nat /\ DOMAIN segs = 1..Len(segs) /\ Len(segs) \in Nat /\ IsSeq(segs)
      /\ segs # <<>> => Len(segs) \in DOMAIN segs /\ segs[Len(segs)].to \in 2..pos
  BY SegsFacts DEF SegsInv
<1>2. /\ IsSeq(segs') /\ Len(segs') \in Nat /\ DOMAIN segs' = 1..Len(segs')
      /\ Len(segs') >= Len(segs)
      /\ \A s \in 1..Len(segs) : s \in DOMAIN segs' /\ segs'[s] = segs[s]
  <2>1. CASE segs' = segs
    BY <1>1, <2>1
  <2>2. CASE \E seg : segs' = Append(segs, seg)
    <3>1. /\ IsSeq(segs') /\ Len(segs') = Len(segs) + 1
          /\ \A s \in 1..Len(segs) : segs'[s] = segs[s]
      <4>1. PICK seg : segs' = Append(segs, seg)
        BY <2>2
      <4>2. IsSeq(segs)
        BY <1>1
      <4> QED
        BY <4>1, <4>2, AppendFacts
    <3>2. Len(segs') \in Nat /\ DOMAIN segs' = 1..Len(segs')
      BY <3>1, SeqFacts
    <3>3. \A s \in 1..Len(segs) : s \in 1..Len(segs')
      BY <1>1, <3>1
    <3> QED
      BY <1>1, <3>1, <3>2, <3>3
  <2> QED
    BY <2>1, <2>2
<1>3. ASSUME NEW k \in DOMAIN segs, i \in 2..segs[k].to, segs[k].to \in 2..pos, Covered(i)
      PROVE  Covered(i)'
  <2>1. PICK s \in DOMAIN segs : InCommand(i, s) \/ Joining(i, s)
    BY <1>3 DEF Covered
  <2>2. s \in DOMAIN segs' /\ segs'[s] = segs[s]
    BY <1>1, <1>2, <2>1
  <2>3. toks'[i] = toks[i]
    BY <1>1, <1>3
  <2>4. InCommand(i, s)' \/ Joining(i, s)'
    BY <2>1, <2>2, <2>3 DEF InCommand, Joining
  <2> QED
    BY <2>2, <2>4 DEF Covered
<1>4. CASE segs' = segs
  <2>1. Covered(i)
    BY <1>4 DEF CoverInv
  <2> QED
    BY <1>1, <1>3, <1>4, <2>1
<1>5. CASE \E seg : segs' = Append(segs, seg)
  <2>1. Len(segs') = Len(segs) + 1
    BY <1>1, <1>5, AppendFacts
  <2>2. PICK n, from, to : n = Len(segs) + 1 /\ from = segs'[n].cmd.from /\ to = segs'[n].to
    OBVIOUS
  <2>3. n \in DOMAIN segs' /\ n = Len(segs')
    BY <1>1, <1>2, <2>1, <2>2
  <2>4. /\ from \in 2..to /\ to \in 2..pos' /\ i \in 2..to
        /\ IF n = 1 THEN from = 2
           ELSE from = segs'[n - 1].to + 2 /\ toks'[from - 1] = segs'[n].cmd.op
    BY <2>2, <2>3 DEF SegsInv, SegHolds
  <2>5. CASE i \in from..to
    BY <2>2, <2>3, <2>5 DEF Covered, InCommand
  <2>6. CASE n # 1 /\ i = from - 1
    <3>1. n > 1
      BY <1>1, <2>2, <2>6
    <3> QED
      BY <2>2, <2>3, <2>4, <2>6, <3>1 DEF Covered, Joining
  <2>7. CASE n # 1 /\ i < from - 1
    <3>1. PICK k : k = Len(segs)
      OBVIOUS
    <3>2. n \in Nat /\ k \in Nat /\ k = n - 1 /\ k # 0
      BY <1>1, <2>2, <2>7, <3>1
    <3>3. k \in 1..Len(segs)
      BY <3>1, <3>2
    <3>4. k \in DOMAIN segs /\ segs'[k] = segs[k] /\ segs # <<>>
      <4>1. k \in DOMAIN segs
        BY <1>1, <3>3
      <4>2. segs'[k] = segs[k]
        BY <1>2, <3>3
      <4> QED
        BY <4>1, <4>2
    <3>5. segs[k].to \in 2..pos /\ from = segs[k].to + 2
      BY <1>1, <2>4, <2>7, <3>1, <3>2, <3>4
    <3>6. i \in 2..segs[k].to
      BY <1>1, <2>4, <2>7, <3>5
    <3>7. Covered(i)
      BY <3>1, <3>4, <3>6 DEF CoverInv
    <3> QED
      BY <1>3, <3>4, <3>5, <3>6, <3>7
  <2> QED
    <3>1. from \in Int /\ to \in Int /\ i \in Int /\ 2 <= i /\ i <= to
      BY <2>4
    <3> QED
      BY <2>4, <2>5, <2>6, <2>7, <3>1
<1> QED
  BY <1>4, <1>5

\* Every step keeps the tokens consumed covered.
LEMMA CoverInvIsStable ==
  ASSUME ExprInv, SegsInv, SegsInv', CoverInv, [Next]_vars
  PROVE  CoverInv'
<1>1. pos \in Nat /\ Len(toks) \in Nat /\ pos <= Len(toks) /\ IsSeq(toks)
  BY ToksFacts DEF IsSeq
<1>2. CASE Lex \/ UNCHANGED vars
  <2>1. /\ pos' = pos /\ segs' = segs
        /\ toks' = toks \/ \E k : toks' = Append(toks, k)
    BY <1>2 DEF Lex, vars
  <2>2. \A p \in 1..pos : toks'[p] = toks[p]
    <3>1. \A p \in 1..pos : p \in 1..Len(toks)
      BY <1>1
    <3> QED
      BY <1>1, <2>1, <3>1, AppendFacts
  <2>3. pos >= 1 => toks'[1] = "semi"
    BY <1>1, <2>2 DEF CoverInv
  <2> QED
    BY <1>1, <2>1, <2>2, <2>3, CoverGrows DEF CoverInv
<1>3. CASE Step
  <2>1. toks' = toks /\ (pos' = pos \/ pos' = pos + 1) /\ ctl.at # "done"
    BY <1>3, StepLooks DEF Looks, GoesOn, Ends, input
  <2>2. pos' \in Nat /\ pos' >= pos
    BY <1>1, <2>1
  <2>3. pos = 0 => ctl.at = "start"
    <3>1. segs # <<>> => segs[Len(segs)].to \in 2..pos
      BY SegsFacts
    <3> QED
      BY <2>1, <3>1 DEF SegsInv, Between
  <2>4. pos' >= 1 => toks'[1] = "semi"
    <3>1. CASE pos >= 1
      BY <2>1, <3>1 DEF CoverInv
    <3>2. CASE pos = 0
      <4>1. pos' = 0 \/ (pos' = 1 /\ Tok = "semi")
        BY <1>3, <2>3, <3>2, FirstIsRead
      <4>2. Tok = "semi" => toks[1] = "semi"
        BY <3>2 DEF Tok
      <4> QED
        BY <2>1, <4>1, <4>2
    <3> QED
      BY <1>1, <3>1, <3>2
  <2> QED
    BY <1>3, <2>1, <2>2, <2>4, StepSegs, CoverGrows DEF CoverInv
<1> QED
  BY <1>2, <1>3 DEF Next

\* Each token consumed belongs to a command or joins two.
LEMMA CoverInvariant == Spec => []CoverInv
<1>1. Init => CoverInv
  BY DEF Init, CoverInv
<1>2. ExprInv /\ SegsInv /\ SegsInv' /\ CoverInv /\ [Next]_vars => CoverInv'
  BY CoverInvIsStable
<1> QED
  BY <1>1, <1>2, ExpressionInvariant, SegsInvariant, PTL DEF Spec

-----------------------------------------------------------------------------
(***************************************************************************)
(* The expressions of a command.  All that is boxed while one is parsed    *)
(* lies behind what the command has dealt with before it asked for it.     *)
(***************************************************************************)
\* Where the expression begins that the command has asked for.
Asked == IF frames = <<>> THEN Here ELSE frames[1].from

AskedInv ==
  ctl.at \in Parsing =>
    /\ Asked \in (cmd.from + 1)..(pos + 1)
    /\ \A i \in DOMAIN frames : Asked <= frames[i].from

\* What is read later leaves what has been read up to token `to` alone.
Behind(to) ==
  /\ \A p \in 1..to : toks'[p] = toks[p]
  /\ \A id \in 1..Len(nodes) : id \in 1..Len(nodes') /\ nodes'[id] = nodes[id]
  /\ \A id \in 1..Len(nodes') :
       id \in 1..Len(nodes) \/ (nodes'[id].from \in Int /\ nodes'[id].from > to)

\* The first pending call began no later than the others.
LEMMA AskedFacts ==
  ASSUME ExprInv, AskedInv, ctl.at \in Parsing
  PROVE  /\ Asked \in Int /\ Here \in Int /\ Asked <= Here /\ pos \in Nat
         /\ frames # <<>> => Asked <= Top.from /\ Top.from \in Int
<1>1. pos \in Nat /\ Asked \in Int
  BY PlacedFacts DEF AskedInv
<1>2. CASE frames = <<>>
  BY <1>1, <1>2 DEF Asked
<1>3. CASE frames # <<>>
  <2>1. PICK f : f = Top
    OBVIOUS
  <2>2. f.op \in 1..pos /\ f.from \in 1..f.op /\ Here \in (f.op + 1)..(pos + 1)
    BY <1>3, <2>1, TopFacts DEF FrameHolds
  <2>3. Len(frames) \in DOMAIN frames
    BY <1>3, PlacedFacts, SeqFacts
  <2>4. Asked <= f.from
    BY <2>1, <2>3 DEF AskedInv, Top
  <2>5. f.from \in Int /\ Here \in Int /\ f.from <= Here
    BY <1>1, <2>2
  <2> QED
    BY <1>1, <2>1, <2>4, <2>5
<1> QED
  BY <1>2, <1>3

\* The call on top reads on.
LEMMA ReadsOn ==
  ASSUME ExprInv, AskedInv, ctl.at \in Parsing, frames' = frames,
         frames = <<>> => Here' = Here,
         cmd' = cmd, pos' = pos \/ pos' = pos + 1
  PROVE  Asked' = Asked /\ AskedInv'
<1>1. Asked' = Asked
  BY DEF Asked
<1>2. pos \in Nat /\ Asked \in (cmd.from + 1)..(pos + 1)
  BY PlacedFacts DEF AskedInv
<1>3. Asked \in (cmd.from + 1)..(pos' + 1)
  BY <1>2
<1> QED
  BY <1>1, <1>3 DEF AskedInv

\* It calls.
LEMMA CallsOn ==
  ASSUME ExprInv, AskedInv, ctl.at \in Parsing, NEW f, frames' = Append(frames, f),
         f.from = Here, cmd' = cmd, pos' = pos \/ pos' = pos + 1
  PROVE  Asked' = Asked /\ AskedInv'
<1>1. PICK k \in Nat : k = Len(frames)
  BY PlacedFacts
<1>2. /\ IsSeq(frames') /\ Len(frames') = k + 1 /\ DOMAIN frames' = 1..(k + 1)
      /\ frames'[k + 1] = f /\ \A i \in 1..k : frames'[i] = frames[i]
      /\ frames = <<>> <=> k = 0
      /\ frames' # <<>>
  <2>1. IsSeq(frames') /\ Len(frames') = k + 1
    BY <1>1, PlacedFacts, AppendFacts
  <2> QED
    BY <1>1, <2>1, PlacedFacts, AppendFacts, SeqFacts
<1>3. Asked' = Asked
  <2>1. CASE k = 0
    BY <1>2, <2>1 DEF Asked
  <2>2. CASE k # 0
    <3>1. 1 \in 1..k
      BY <2>2
    <3> QED
      BY <1>2, <2>2, <3>1 DEF Asked
  <2> QED
    BY <2>1, <2>2
<1>4. pos \in Nat /\ Asked \in (cmd.from + 1)..(pos + 1) /\ Asked <= Here
  BY AskedFacts DEF AskedInv
<1>5. Asked \in (cmd.from + 1)..(pos' + 1)
  BY <1>4
<1>6. ASSUME NEW i \in 1..(k + 1)
      PROVE  Asked <= frames'[i].from
  <2>1. CASE i \in 1..k
    BY <1>1, <1>2, <2>1, PlacedFacts DEF AskedInv
  <2>2. CASE i = k + 1
    BY <1>2, <1>4, <2>2
  <2> QED
    BY <1>1, <2>1, <2>2
<1> QED
  BY <1>2, <1>3, <1>5, <1>6 DEF AskedInv

\* It returns.
LEMMA ReturnsTo ==
  ASSUME ExprInv, AskedInv, ctl.at \in Parsing, frames # <<>>, frames' = Popped,
         Here' = Top.from, cmd' = cmd, pos' = pos \/ pos' = pos + 1
  PROVE  Asked' = Asked /\ AskedInv'
<1>1. PICK k \in Nat : k = Len(frames) /\ k # 0
  BY PlacedFacts, SeqFacts
<1>2. /\ IsSeq(frames') /\ Len(frames') = k - 1 /\ DOMAIN frames' = 1..(k - 1)
      /\ \A i \in 1..(k - 1) : frames'[i] = frames[i]
      /\ frames' = <<>> <=> k = 1
  <2>1. /\ IsSeq(frames') /\ Len(frames') = k - 1
        /\ \A i \in 1..(k - 1) : frames'[i] = frames[i]
    BY <1>1, TopFacts
  <2>2. DOMAIN frames' = 1..(k - 1) /\ (frames' = <<>> <=> k - 1 = 0)
    BY <2>1, SeqFacts
  <2> QED
    BY <1>1, <2>1, <2>2
<1>3. Asked' = Asked
  <2>1. CASE k = 1
    BY <1>1, <1>2, <2>1 DEF Asked, Top
  <2>2. CASE k # 1
    <3>1. 1 \in 1..(k - 1)
      BY <1>1, <2>2
    <3> QED
      BY <1>2, <2>2, <3>1 DEF Asked
  <2> QED
    BY <2>1, <2>2
<1>4. pos \in Nat /\ Asked \in (cmd.from + 1)..(pos + 1)
  BY AskedFacts DEF AskedInv
<1>5. Asked \in (cmd.from + 1)..(pos' + 1)
  BY <1>4
<1>6. ASSUME NEW i \in 1..(k - 1)
      PROVE  Asked <= frames'[i].from
  <2>1. i \in 1..k
    BY <1>1
  <2> QED
    BY <1>1, <1>2, <2>1, PlacedFacts DEF AskedInv
<1> QED
  BY <1>2, <1>3, <1>5, <1>6 DEF AskedInv

\* It has one part more.
LEMMA TopNotes ==
  ASSUME ExprInv, AskedInv, ctl.at \in Parsing, frames # <<>>,
         NEW f, frames' = Append(Popped, f), f.from = Top.from,
         cmd' = cmd, pos' = pos
  PROVE  Asked' = Asked /\ AskedInv'
<1>1. PICK k \in Nat : k = Len(frames) /\ k # 0
  BY PlacedFacts, SeqFacts
<1>2. /\ IsSeq(Popped) /\ Len(Popped) = k - 1
      /\ \A i \in 1..(k - 1) : Popped[i] = frames[i]
  BY <1>1, TopFacts
<1>3. /\ IsSeq(frames') /\ Len(frames') = (k - 1) + 1
      /\ frames'[(k - 1) + 1] = f /\ \A i \in 1..(k - 1) : frames'[i] = Popped[i]
  BY <1>2, AppendFacts
<1>4. /\ DOMAIN frames' = 1..k /\ frames' # <<>> /\ frames'[k] = f
      /\ \A i \in 1..(k - 1) : frames'[i] = frames[i]
  <2>1. (k - 1) + 1 = k
    BY <1>1
  <2> QED
    BY <1>1, <1>2, <1>3, <2>1, SeqFacts
<1>5. \A i \in 1..k : frames'[i].from = frames[i].from
  <2>1. \A i \in 1..k : i \in 1..(k - 1) \/ i = k
    BY <1>1
  <2> QED
    BY <1>1, <1>4, <2>1 DEF Top
<1>6. 1 \in 1..k /\ DOMAIN frames = 1..k
  BY <1>1, PlacedFacts
<1>7. Asked' = Asked
  BY <1>4, <1>5, <1>6 DEF Asked
<1>8. Asked \in (cmd.from + 1)..(pos' + 1)
  BY DEF AskedInv
<1> QED
  BY <1>4, <1>5, <1>6, <1>7, <1>8 DEF AskedInv

\* A step inside an expression.
Inside == ctl.at \in Parsing /\ ctl'.at \in Parsing

\* Nothing is boxed, or one node that lies in the expression.
Boxes == nodes' = nodes \/ \E n : nodes' = Append(nodes, n) /\ n.from \in Int /\ Asked <= n.from

\* Reading on inside an expression leaves where it was asked for alone.
LEMMA ReadingInside ==
  ASSUME ExprInv, AskedInv, Dot \/ Segment \/ Comma \/ Element
  PROVE  Asked' = Asked /\ AskedInv' /\ Boxes
<1>1. CASE Dot \/ Segment
  <2>1. /\ ctl.at \in {"prefix", "path", "segment"} /\ ctl'.at \in {"segment", "path"}
        /\ ctl'.val = IF ctl.at = "prefix" THEN pos + 1 ELSE ctl.val
        /\ frames' = frames /\ nodes' = nodes /\ cmd' = cmd /\ pos' = pos + 1
    BY <1>1 DEF Dot, Segment, At, Advance, Consume, Go
  <2>2. Here' = Here
    BY <2>1 DEF Here
  <2> QED
    BY <2>1, <2>2, ReadsOn DEF Boxes, Parsing
<1>2. CASE Comma \/ Element
  <2>1. /\ ctl.at = "group" /\ frames' = frames /\ nodes' = nodes /\ cmd' = cmd
        /\ pos' = pos \/ pos' = pos + 1
    BY <1>2 DEF Comma, Element, PastComma, At, Advance, Stay, Consume, Go
  <2>2. frames # <<>>
    BY <2>1 DEF ExprInv, ShapeHolds, Waiting
  <2> QED
    BY <2>1, <2>2, ReadsOn DEF Boxes, Parsing
<1> QED
  BY <1>1, <1>2

\* So does a call from inside an expression.
LEMMA CallingInside ==
  ASSUME ExprInv, AskedInv, Not \/ Group \/ Operator
  PROVE  Asked' = Asked /\ AskedInv' /\ Boxes
<1>1. PICK f : /\ frames' = Append(frames, f)
               /\ f.from = IF Operator THEN nodes[ctl.val].from ELSE pos + 1
  BY DEF Not, Group, Operator, Call, Frame
<1>2. /\ ctl.at = IF Operator THEN "ops" ELSE "prefix"
      /\ nodes' = nodes /\ cmd' = cmd /\ pos' = pos + 1
  BY DEF Not, Group, Operator, Call, At, Consume
<1>3. f.from = Here
  BY <1>1, <1>2 DEF Here
<1> QED
  BY <1>1, <1>2, <1>3, CallsOn DEF Boxes, Parsing

\* A new node is in hand.
LEMMA NewInHand ==
  ASSUME ExprInv, NEW kind, NEW from, NEW op, NEW parts, NEW to, NEW bp,
         Box(kind, from, op, parts, to, bp)
  PROVE  /\ Here' = from /\ ctl'.at = "ops"
         /\ \E n : nodes' = Append(nodes, n) /\ n.from = from
<1>1. PICK n : n = Expr(kind, from, op, parts, to)
  OBVIOUS
<1>2. n.from = from /\ nodes' = Append(nodes, n) /\ ctl'.at = "ops" /\ ctl'.val = Len(nodes) + 1
  BY <1>1 DEF Box, Expr, Go
<1>3. nodes'[Len(nodes) + 1] = n
  BY <1>2, PlacedFacts, AppendFacts
<1> QED
  BY <1>2, <1>3 DEF Here

\* So does boxing a node, which lies behind that place.
LEMMA BoxingInside ==
  ASSUME ExprInv, AskedInv, Leaf \/ EndPath \/ EndOperand \/ EndGroup
  PROVE  Asked' = Asked /\ AskedInv' /\ Boxes
<1>1. CASE Leaf \/ EndPath
  <2>1. /\ ctl.at \in {"prefix", "path"} /\ frames' = frames /\ cmd' = cmd
        /\ pos' = pos \/ pos' = pos + 1
        /\ \E kind, to : IF Leaf THEN Box(kind, pos + 1, pos + 1, <<>>, to, ctl.bp)
                                 ELSE Box(kind, ctl.val, ctl.val, <<>>, to, ctl.bp)
        /\ ctl.at = IF Leaf THEN "prefix" ELSE "path"
    BY <1>1 DEF Leaf, EndPath, At, Consume
  <2>2. PICK from : from = IF Leaf THEN pos + 1 ELSE ctl.val
    OBVIOUS
  <2>3. Here = from
    BY <2>1, <2>2 DEF Here
  <2>4. Here' = from /\ \E n : nodes' = Append(nodes, n) /\ n.from = from
    BY <2>1, <2>2, NewInHand
  <2>5. Asked \in Int /\ from \in Int /\ Asked <= from
    BY <2>1, <2>3, AskedFacts DEF Parsing
  <2> QED
    BY <2>1, <2>3, <2>4, <2>5, ReadsOn DEF Boxes, Parsing
<1>2. CASE EndOperand \/ EndGroup
  <2>1. /\ ctl.at \in {"ops", "group"} /\ frames' = Popped /\ cmd' = cmd
        /\ pos' = pos \/ pos' = pos + 1
        /\ \E kind, op, parts, to, bp : Box(kind, Top.from, op, parts, to, bp)
    BY <1>2 DEF EndOperand, EndGroup, At, Consume
  <2>2. frames # <<>>
    BY <1>2 DEF EndOperand, EndGroup, Waiting, At, ExprInv, ShapeHolds
  <2>3. Here' = Top.from /\ \E n : nodes' = Append(nodes, n) /\ n.from = Top.from
    BY <2>1, NewInHand
  <2>4. Asked <= Top.from /\ Top.from \in Int
    BY <2>1, <2>2, AskedFacts DEF Parsing
  <2> QED
    BY <2>1, <2>2, <2>3, <2>4, ReturnsTo DEF Boxes, Parsing
<1> QED
  BY <1>1, <1>2

\* So does noting an element of a group.
LEMMA NotingInside ==
  ASSUME ExprInv, AskedInv, EndElement
  PROVE  Asked' = Asked /\ AskedInv' /\ Boxes
<1>1. /\ ctl.at = "ops" /\ frames # <<>> /\ cmd' = cmd /\ pos' = pos /\ nodes' = nodes
      /\ frames' = Append(Popped, [Top EXCEPT !.parts = Append(@, ctl.val)])
  BY DEF EndElement, At, Waiting
<1>2. PICK f, g : f = Top /\ g = [f EXCEPT !.parts = Append(f.parts, ctl.val)]
  OBVIOUS
<1>3. FrameHolds(f, Here, ctl.bp)
  BY <1>1, <1>2, TopFacts
<1>4. g.from = f.from
  BY <1>2, <1>3 DEF FrameHolds, Frame
<1>5. frames' = Append(Popped, g)
  BY <1>1, <1>2
<1> QED
  BY <1>1, <1>2, <1>4, <1>5, TopNotes DEF Boxes, Parsing

\* Inside an expression the command at hand stays as it is, and new nodes lie behind
\* its beginning.
LEMMA InsideKeeps ==
  ASSUME ExprInv, AskedInv, Step, Inside
  PROVE  Asked' = Asked /\ AskedInv' /\ Boxes /\ cmd' = cmd /\ segs' = segs
<1>1. CASE Dot \/ Segment \/ Comma \/ Element
  BY <1>1, ReadingInside DEF Dot, Segment, Comma, Element
<1>2. CASE Not \/ Group \/ Operator
  BY <1>2, CallingInside DEF Not, Group, Operator, Call
<1>3. CASE Leaf \/ EndPath \/ EndOperand \/ EndGroup
  BY <1>3, BoxingInside DEF Leaf, EndPath, EndOperand, EndGroup
<1>4. CASE EndElement
  BY <1>4, NotingInside DEF EndElement
<1>5. CASE \/ LexFault \/ Reject \/ NoGroup \/ Start \/ Command \/ Pipeline \/ Finish
           \/ EndOfLoop \/ ExpressionNext \/ Dashes \/ Key \/ Flag \/ Direction \/ Take
  <2>1. ctl.at \notin Parsing \/ ctl'.at = "done"
    BY <1>5 DEF LexFault, Reject, NoGroup, Start, Command, Pipeline, Finish, EndOfLoop,
         ExpressionNext, Dashes, Key, Flag, Direction, Take, At, Fail, Go, Parsing
  <2> QED
    BY <2>1 DEF Inside, Parsing
<1>6. CASE EndArgument
  <2>1. ctl'.at \in {"sort", "custom", "pipeline"}
    BY <1>6 DEF EndArgument, EndExpression, Stay, Go
  <2> QED
    BY <2>1 DEF Inside, Parsing
<1> QED
  BY <1>1, <1>2, <1>3, <1>4, <1>5, <1>6 DEF Step

\* Outside of expressions nothing is boxed.
LEMMA OutsideBoxes ==
  ASSUME Step, ~ Inside
  PROVE  nodes' = nodes
<1>1. CASE \/ Dot \/ Segment \/ Comma \/ Element \/ Not \/ Group \/ Operator \/ Leaf
           \/ EndPath \/ EndOperand \/ EndGroup \/ EndElement
  BY <1>1 DEF Dot, Segment, Comma, Element, Not, Group, Operator, Leaf, EndPath, EndOperand,
       EndGroup, EndElement, At, PastComma, Advance, Stay, Call, Box, Go, Inside, Parsing
<1>2. CASE \/ LexFault \/ Reject \/ NoGroup \/ Start \/ Command \/ Pipeline \/ Finish
           \/ EndOfLoop \/ ExpressionNext \/ Dashes \/ Key \/ Flag \/ Direction \/ Take
  BY <1>2 DEF LexFault, Reject, NoGroup, Start, Command, Pipeline, Finish, EndOfLoop,
         ExpressionNext, Dashes, Key, Flag, Direction, Take, Fail, Advance, Stay
<1>3. CASE EndArgument
  BY <1>3 DEF EndArgument, EndExpression, Stay
<1> QED
  BY <1>1, <1>2, <1>3 DEF Step

\* A command asks for an expression that comes next.
LEMMA AsksKeeps ==
  ASSUME ExprInv, SegsInv, Step, ctl.at \notin Parsing
  PROVE  AskedInv' /\ (ctl'.at \in Parsing => Asked' = pos' + 1 /\ ctl'.at = "prefix")
<1>1. frames = <<>> /\ pos \in Nat
  BY PlacedFacts DEF ExprInv, ShapeHolds
<1>2. CASE ctl'.at \notin Parsing
  BY <1>2 DEF AskedInv
<1>3. ASSUME ctl'.at = "prefix", frames' = <<>>, cmd'.from \in 2..pos'
      PROVE  AskedInv' /\ Asked' = pos' + 1
  <2>1. Asked' = pos' + 1
    BY <1>3 DEF Asked, Here
  <2>2. PICK a, q : a = cmd'.from /\ q = pos'
    OBVIOUS
  <2>3. q + 1 \in (a + 1)..(q + 1)
    <3>1. a \in 2..q
      BY <1>3, <2>2
    <3>2. q \in Int
      BY <1>1, <2>2, StepLooks DEF Looks, GoesOn, Ends
    <3> QED
      BY <3>1, <3>2
  <2>4. Asked' \in (cmd'.from + 1)..(pos' + 1)
    BY <2>1, <2>2, <2>3
  <2> QED
    BY <1>3, <2>1, <2>4 DEF AskedInv
<1>4. CASE ExpressionNext
  <2>1. ctl'.at = "prefix" /\ frames' = <<>> /\ cmd' = cmd /\ pos' = pos
    BY <1>1, <1>4 DEF ExpressionNext, Stay, Go
  <2>2. ctl.at \notin Between
    BY <1>4 DEF ExpressionNext, At, Between
  <2> QED
    BY <1>3, <2>1, <2>2 DEF SegsInv
<1>5. CASE Command /\ ctl'.at \in Parsing
  <2>1. PICK kind, c : /\ kind = (IF Tok \in Names THEN "custom" ELSE Tok)
                       /\ c = [cmd EXCEPT !.kind = kind, !.from = pos + 1]
    OBVIOUS
  <2>2. /\ Tok \in Heads /\ ctl.at = "command" /\ cmd' = c /\ pos' = pos + 1 /\ frames' = frames
        /\ \/ kind = "count" /\ ctl'.at = "pipeline"
           \/ kind = "filter" /\ ctl'.at = "prefix"
           \/ kind \notin {"count", "filter"} /\ ctl'.at = kind
    BY <1>5, <2>1 DEF Command, At, Advance, Consume, Go
  <2>3. kind \in {"filter", "sort", "take", "unique", "count", "custom"}
    BY <2>1, <2>2 DEF Heads
  <2>4. ctl'.at = "prefix"
    BY <1>5, <2>2, <2>3 DEF Parsing
  <2>5. c.from = pos + 1 /\ c.op = cmd.op
    BY <2>1 DEF SegsInv, IsCommand
  <2>6. c.from \in 2..(pos + 1)
    BY <2>2, <2>5, CommandBegins
  <2> QED
    BY <1>1, <1>3, <2>2, <2>4, <2>6
<1>6. CASE \/ Dot \/ Segment \/ Comma \/ Element \/ Not \/ Group \/ Operator \/ Leaf
           \/ EndPath \/ EndOperand \/ EndGroup \/ EndElement \/ EndArgument
  BY <1>6 DEF Dot, Segment, Comma, Element, Not, Group, Operator, Leaf, EndPath, EndOperand,
       EndGroup, EndElement, EndArgument, At, Parsing
<1>7. CASE \/ LexFault \/ Reject \/ NoGroup \/ Start \/ Pipeline \/ Finish
           \/ EndOfLoop \/ Dashes \/ Key \/ Flag \/ Direction \/ Take
  <2>1. ctl'.at \notin Parsing
    BY <1>7 DEF LexFault, Reject, NoGroup, Start, Pipeline, Finish, EndOfLoop, Dashes, Key,
         Flag, Direction, Take, Fail, Advance, Stay, Go, Parsing
  <2> QED
    BY <1>2, <2>1
<1> QED
  BY <1>2, <1>4, <1>5, <1>6, <1>7 DEF Step

\* Every step keeps the pending calls behind the first one.
LEMMA AskedInvIsStable ==
  ASSUME ExprInv, SegsInv, AskedInv, [Next]_vars
  PROVE  AskedInv'
<1>1. CASE Lex \/ UNCHANGED vars
  <2>1. ctl' = ctl /\ pos' = pos /\ frames' = frames /\ nodes' = nodes /\ cmd' = cmd
    BY <1>1 DEF Lex, vars
  <2>2. Asked' = Asked
    BY <2>1 DEF Asked, Here
  <2> QED
    BY <2>1, <2>2 DEF AskedInv
<1>2. CASE Step
  <2>1. CASE ctl.at \notin Parsing
    BY <1>2, <2>1, AsksKeeps
  <2>2. CASE ctl'.at \notin Parsing
    BY <2>2 DEF AskedInv
  <2>3. CASE Inside
    BY <1>2, <2>3, InsideKeeps
  <2> QED
    BY <2>1, <2>2, <2>3 DEF Inside
<1> QED
  BY <1>1, <1>2 DEF Next

\* In every program the pending calls begin at or behind the first one.
LEMMA AskedInvariant == Spec => []AskedInv
<1>1. Init => AskedInv
  BY DEF Init, AskedInv, Parsing
<1>2. ExprInv /\ SegsInv /\ AskedInv /\ [Next]_vars => AskedInv'
  BY AskedInvIsStable
<1> QED
  BY <1>1, <1>2, ExpressionInvariant, SegsInvariant, PTL DEF Spec

\* What was read before is left alone by every step: no expression is boxed that
\* reaches into it.
LEMMA StepBehind ==
  ASSUME ExprInv, AskedInv, [Next]_vars, NEW to \in Int, to <= pos,
         ctl.at \in Parsing => to < Asked
  PROVE  Behind(to)
<1>1. /\ IsSeq(nodes) /\ DOMAIN nodes = 1..Len(nodes) /\ Len(nodes) \in Nat /\ pos \in Nat
      /\ Len(toks) \in Nat /\ pos <= Len(toks) /\ IsSeq(toks)
  BY PlacedFacts, ToksFacts DEF IsSeq
<1>2. \A p \in 1..to : toks'[p] = toks[p]
  <2>1. toks' = toks \/ \E k : toks' = Append(toks, k)
    <3>1. CASE Step
      BY <3>1, StepLooks DEF Looks, GoesOn, Ends, input
    <3>2. CASE Lex \/ UNCHANGED vars
      BY <3>2 DEF Lex, vars
    <3> QED
      BY <3>1, <3>2 DEF Next
  <2>2. \A p \in 1..to : p \in 1..Len(toks)
    BY <1>1
  <2> QED
    BY <1>1, <2>1, <2>2, AppendFacts
<1>3. CASE nodes' = nodes
  BY <1>1, <1>2, <1>3 DEF Behind
<1>4. CASE Inside /\ Step
  <2>1. Boxes
    BY <1>4, InsideKeeps
  <2>2. ASSUME NEW n, nodes' = Append(nodes, n), n.from \in Int, Asked <= n.from
        PROVE  Behind(to)
    <3>1. /\ Len(nodes') = Len(nodes) + 1 /\ nodes'[Len(nodes) + 1] = n
          /\ \A id \in 1..Len(nodes) : nodes'[id] = nodes[id]
      BY <1>1, <2>2, AppendFacts
    <3>2. n.from \in Int /\ n.from > to
      <4>1. to < Asked /\ Asked \in Int
        BY <1>4, AskedFacts DEF Inside
      <4> QED
        BY <2>2, <4>1
    <3>3. \A id \in 1..(Len(nodes) + 1) : id \in 1..Len(nodes) \/ id = Len(nodes) + 1
      BY <1>1
    <3>4. \A id \in 1..Len(nodes) : id \in 1..(Len(nodes) + 1)
      BY <1>1
    <3> QED
      BY <1>2, <3>1, <3>2, <3>3, <3>4 DEF Behind
  <2> QED
    BY <1>3, <2>1, <2>2 DEF Boxes
<1>5. CASE Step /\ ~ Inside
  BY <1>3, <1>5, OutsideBoxes
<1>6. CASE Lex \/ UNCHANGED vars
  BY <1>3, <1>6 DEF Lex, vars
<1> QED
  BY <1>4, <1>5, <1>6 DEF Next

-----------------------------------------------------------------------------
(***************************************************************************)
(* What a command is while it is parsed.                                   *)
(***************************************************************************)
\* It has arguments and options that are boxed.
Refers(c) ==
  /\ c.args \in Seq(Nat)
  /\ \A e \in DOMAIN c.args : c.args[e] \in 1..Len(nodes)
  /\ \A k \in DOMAIN c.options : c.options[k] \in 1..Len(nodes)

\* Where the parser is tells which command it parses.
KindInv ==
  /\ ctl.at \in {"sort", "direction"} => cmd.kind = "sort"
  /\ ctl.at \in {"custom", "key", "keyed"} => cmd.kind = "custom"
  /\ ctl.at \in {"take", "unique"} => cmd.kind = ctl.at
  /\ ctl.at \in Parsing => cmd.kind \in {"filter", "sort", "custom", "unique"}
  /\ Refers(cmd)
  /\ \A s \in DOMAIN segs : Refers(segs[s].cmd)
  /\ ctl.at \notin Between => \A s \in DOMAIN segs : segs[s].to < cmd.from
  /\ ctl.at \in {"start", "command"} => cmd = Blank(cmd.op)

\* How it goes on, if not inside an expression.
Noted(c) ==
  \/ ctl'.at = "prefix" /\ pos' = pos /\ c = cmd
       /\ ctl.at \in {"sort", "custom", "unique", "keyed"} /\ segs' = segs
       /\ (ctl.at = "keyed" => Tok \in Literals) /\ (ctl.at = "custom" => Tok # "subsub")
  \/ ctl.at = "custom" /\ ctl'.at = "key" /\ pos' = pos + 1 /\ c = cmd /\ segs' = segs
       /\ Tok = "subsub"
  \/ ctl.at = "sort" /\ ctl'.at = "direction" /\ pos' = pos + 1 /\ c = cmd /\ segs' = segs
       /\ Tok \in {"sub", "subsub"}
  \/ ctl.at = "key" /\ ctl'.at = "keyed" /\ pos' = pos + 1
       /\ c = [cmd EXCEPT !.key = Tok] /\ segs' = segs /\ Tok \in Names
  \/ ctl.at = "keyed" /\ ctl'.at = "custom" /\ pos' = pos /\ Tok \notin Literals
       /\ c = [cmd EXCEPT !.flags = @ \cup {cmd.key}, !.key = "none"] /\ segs' = segs
  \/ ctl.at = "direction" /\ ctl'.at = "sort" /\ pos' = pos + 1 /\ Tok \in {"asc", "desc"}
       /\ c = [cmd EXCEPT !.dir = Tok] /\ segs' = segs

Taken(c) ==
  /\ ctl.at = "ops" /\ frames = <<>> /\ pos' = pos
  /\ \/ cmd.kind = "sort" /\ ctl'.at = "sort" /\ c = WithField(cmd, ctl.val) /\ segs' = segs
     \/ cmd.kind = "custom" /\ ctl'.at = "custom" /\ segs' = segs
          /\ c = IF cmd.key # "none" THEN WithOption(cmd, ctl.val)
                 ELSE [cmd EXCEPT !.args = Append(@, ctl.val)]
     \/ cmd.kind \notin {"sort", "custom"} /\ ctl'.at = "pipeline"
          /\ c = WithField(cmd, ctl.val) /\ segs' = Append(segs, [cmd |-> c, to |-> pos])

Over(c) ==
  /\ ctl'.at = "pipeline" /\ c = cmd
  /\ \/ ctl.at \in {"sort", "custom"} /\ pos' = pos /\ Tok \in Joints \cup {"end"}
          /\ segs' = Append(segs, [cmd |-> c, to |-> pos])
     \/ ctl.at = "unique" /\ pos' = pos /\ segs' = Append(segs, [cmd |-> c, to |-> pos])
     \/ ctl.at = "take" /\ pos' = pos + 1 /\ segs' = Append(segs, [cmd |-> c, to |-> pos + 1])

Begun(c) ==
  /\ ctl.at = "command" /\ pos' = pos + 1 /\ Tok \in Heads
  /\ \E kind : /\ kind = (IF Tok \in Names THEN "custom" ELSE Tok)
               /\ c = [cmd EXCEPT !.kind = kind, !.from = pos + 1]
               /\ \/ kind = "count" /\ ctl'.at = "pipeline"
                       /\ segs' = Append(segs, [cmd |-> c, to |-> pos + 1])
                  \/ kind = "filter" /\ ctl'.at = "prefix" /\ segs' = segs
                  \/ kind \in {"sort", "take", "unique", "custom"} /\ ctl'.at = kind /\ segs' = segs

Rests(c) ==
  /\ ctl'.at \in Between /\ segs' = segs
  /\ c = cmd \/ (c = Blank(Tok) /\ ctl.at = "pipeline" /\ ctl'.at = "command")
  /\ ctl'.at \in {"start", "command"} =>
       (ctl.at \in {"start", "command"} /\ c = cmd) \/ c = Blank(Tok)
  /\ ctl'.at = "command" => pos' = pos + 1 /\ Tok \in Joints \cup {"semi"}

\* What a step outside of expressions may do to the command at hand.
LEMMA CommandSteps ==
  ASSUME ExprInv, Step, ~ Inside
  PROVE  \/ Noted(cmd') \/ Taken(cmd') \/ Over(cmd') \/ Begun(cmd') \/ Rests(cmd')
<1>1. CASE LexFault \/ Reject \/ NoGroup \/ Finish \/ Start
  BY <1>1 DEF LexFault, Reject, NoGroup, Finish, Start, At, Fail, Advance, Consume, Go, Between, Rests
<1>2. CASE Pipeline
  BY <1>2 DEF Pipeline, Advance, Consume, Go, At, Between, Rests
<1>3. CASE Command
  <2>1. PICK kind, c : /\ kind = (IF Tok \in Names THEN "custom" ELSE Tok)
                       /\ c = [cmd EXCEPT !.kind = kind, !.from = pos + 1]
    OBVIOUS
  <2>2. /\ Tok \in Heads /\ ctl.at = "command" /\ cmd' = c /\ pos' = pos + 1
        /\ \/ kind = "count" /\ ctl'.at = "pipeline"
              /\ segs' = Append(segs, [cmd |-> c, to |-> pos + 1])
           \/ kind = "filter" /\ ctl'.at = "prefix" /\ segs' = segs
           \/ kind \notin {"count", "filter"} /\ ctl'.at = kind /\ segs' = segs
    BY <1>3, <2>1 DEF Command, At, Advance, Consume, Go, EndCommand
  <2>3. kind \in {"filter", "sort", "take", "unique", "count", "custom"}
    BY <2>1, <2>2 DEF Heads
  <2> QED
    BY <2>1, <2>2, <2>3 DEF Begun
<1>4. CASE EndOfLoop
  BY <1>4 DEF EndOfLoop, At, Stay, Go, EndCommand, Over
<1>5. CASE Take
  BY <1>5 DEF Take, At, Advance, Consume, Go, EndCommand, Over
<1>6. CASE ExpressionNext
  BY <1>6 DEF ExpressionNext, At, Stay, Go, ValueNext, Noted
<1>7. CASE Dashes
  BY <1>7 DEF Dashes, At, Advance, Consume, Go, Noted
<1>8. CASE Key
  BY <1>8 DEF Key, At, Advance, Consume, Go, Noted
<1>9. CASE Flag
  BY <1>9 DEF Flag, At, Stay, Go, ValueNext, Noted
<1>10. CASE Direction
  BY <1>10 DEF Direction, Directed, At, Advance, Consume, Go, Noted
<1>11. CASE EndArgument
  <2>1. ctl.at = "ops" /\ frames = <<>> /\ EndExpression(ctl.val)
    BY <1>11 DEF EndArgument, At
  <2>2. CASE cmd.kind = "sort"
    BY <2>1, <2>2 DEF EndExpression, Stay, Go, Taken
  <2>3. CASE cmd.kind = "custom"
    BY <2>1, <2>3 DEF EndExpression, Stay, Go, Taken
  <2>4. CASE cmd.kind \notin {"sort", "custom"}
    <3>1. /\ Stay("pipeline") /\ cmd' = WithField(cmd, ctl.val)
          /\ EndCommand(cmd', pos)
      BY <2>1, <2>4 DEF EndExpression
    <3> QED
      BY <2>1, <2>4, <3>1 DEF EndCommand, Stay, Go, Taken
  <2> QED
    BY <2>2, <2>3, <2>4
<1>12. CASE \/ Dot \/ Segment \/ Comma \/ Element \/ Not \/ Group \/ Operator \/ Leaf
            \/ EndPath \/ EndOperand \/ EndGroup \/ EndElement
  BY <1>12 DEF Dot, Segment, Comma, Element, Not, Group, Operator, Leaf, EndPath, EndOperand,
       EndGroup, EndElement, At, PastComma, Advance, Stay, Call, Box, Go, Inside, Parsing
<1> QED
  BY <1>1, <1>2, <1>3, <1>4, <1>5, <1>6, <1>7, <1>8, <1>9, <1>10, <1>11, <1>12 DEF Step

\* The nodes only grow in number.
LEMMA NodesStay ==
  ASSUME ExprInv, AskedInv, [Next]_vars
  PROVE  /\ Len(nodes) \in Nat /\ Len(nodes') \in Nat /\ Len(nodes) <= Len(nodes')
         /\ \A id \in 1..Len(nodes) : id \in 1..Len(nodes') /\ nodes'[id] = nodes[id]
         /\ DOMAIN nodes = 1..Len(nodes) /\ DOMAIN nodes' = 1..Len(nodes')
<1>1. /\ Len(nodes) \in Nat /\ DOMAIN nodes = 1..Len(nodes) /\ IsSeq(nodes)
  BY PlacedFacts
<1>2. CASE nodes' = nodes
  BY <1>1, <1>2
<1>3. ASSUME NEW n, nodes' = Append(nodes, n)
      PROVE  /\ Len(nodes') \in Nat /\ Len(nodes) <= Len(nodes')
             /\ \A id \in 1..Len(nodes) : id \in 1..Len(nodes') /\ nodes'[id] = nodes[id]
             /\ DOMAIN nodes' = 1..Len(nodes')
  <2>1. /\ IsSeq(nodes') /\ Len(nodes') = Len(nodes) + 1
        /\ \A id \in 1..Len(nodes) : nodes'[id] = nodes[id]
    BY <1>1, <1>3, AppendFacts
  <2>2. DOMAIN nodes' = 1..Len(nodes')
    BY <2>1, SeqFacts
  <2>3. \A id \in 1..Len(nodes) : id \in 1..(Len(nodes) + 1)
    BY <1>1
  <2> QED
    BY <1>1, <2>1, <2>2, <2>3
<1>4. nodes' = nodes \/ \E n : nodes' = Append(nodes, n)
  <2>1. CASE Step /\ Inside
    BY <2>1, InsideKeeps DEF Boxes
  <2>2. CASE Step /\ ~ Inside
    BY <2>2, OutsideBoxes
  <2>3. CASE Lex \/ UNCHANGED vars
    BY <2>3 DEF Lex, vars
  <2> QED
    BY <2>1, <2>2, <2>3 DEF Next
<1> QED
  BY <1>1, <1>2, <1>3, <1>4

\* The nodes a command refers to remain.
LEMMA RefersStay ==
  ASSUME ExprInv, AskedInv, [Next]_vars, NEW c, Refers(c)
  PROVE  Refers(c)'
<1>1. \A id \in 1..Len(nodes) : id \in 1..Len(nodes')
  BY NodesStay
<1> QED
  BY <1>1 DEF Refers

\* What is noted in a command is boxed, and keeps its kind.
LEMMA RefersNotes ==
  ASSUME NEW c, IsCommand(c), Refers(c), NEW x, NEW y
  PROVE  /\ Refers([c EXCEPT !.flags = x, !.key = y]) /\ Refers([c EXCEPT !.key = x])
         /\ Refers([c EXCEPT !.dir = x]) /\ Refers([c EXCEPT !.kind = x, !.from = y])
<1>1. ASSUME NEW d, d.args = c.args, d.options = c.options
      PROVE  Refers(d)
  BY <1>1 DEF Refers
<1>2. /\ [c EXCEPT !.flags = x, !.key = y].args = c.args
      /\ [c EXCEPT !.flags = x, !.key = y].options = c.options
      /\ [c EXCEPT !.key = x].args = c.args /\ [c EXCEPT !.key = x].options = c.options
      /\ [c EXCEPT !.dir = x].args = c.args /\ [c EXCEPT !.dir = x].options = c.options
      /\ [c EXCEPT !.kind = x, !.from = y].args = c.args
      /\ [c EXCEPT !.kind = x, !.from = y].options = c.options
  BY DEF IsCommand
<1> QED
  BY <1>1, <1>2

\* A builtin that takes a field changes nothing else of the command.
LEMMA FieldTaken ==
  ASSUME NEW c, IsCommand(c), NEW e, NEW d, d = WithField(c, e)
  PROVE  /\ d.args = <<e>> /\ d.options = c.options /\ d.kind = c.kind /\ d.from = c.from
         /\ d.dir = c.dir /\ d.flags = c.flags /\ d.key = c.key
BY DEF WithField, IsCommand

\* An option that takes its value changes that entry alone and forgets the key.
LEMMA OptionTaken ==
  ASSUME NEW c, IsCommand(c), NEW e, NEW d, d = WithOption(c, e)
  PROVE  /\ d.args = c.args /\ d.kind = c.kind /\ d.from = c.from /\ d.flags = c.flags
         /\ d.key = "none"
         /\ DOMAIN d.options = DOMAIN c.options \cup {c.key}
         /\ \A k \in DOMAIN d.options : d.options[k] = IF k = c.key THEN e ELSE c.options[k]
<1>1. PICK g : g = [k \in DOMAIN c.options \cup {c.key} |-> IF k = c.key THEN e ELSE c.options[k]]
  OBVIOUS
<1>2. d = [c EXCEPT !.key = "none", !.options = g]
  BY <1>1 DEF WithOption
<1>3. /\ d.args = c.args /\ d.kind = c.kind /\ d.from = c.from /\ d.flags = c.flags
      /\ d.key = "none" /\ d.options = g
  BY <1>2 DEF IsCommand
<1> QED
  BY <1>1, <1>3

\* An argument is put behind the others and nothing else is changed.
LEMMA ArgumentTaken ==
  ASSUME NEW c, IsCommand(c), NEW e, NEW d, d = [c EXCEPT !.args = Append(@, e)]
  PROVE  /\ d.args = Append(c.args, e) /\ d.options = c.options /\ d.kind = c.kind
         /\ d.from = c.from /\ d.flags = c.flags /\ d.key = c.key
<1>1. PICK b : b = Append(c.args, e)
  OBVIOUS
<1>2. d = [c EXCEPT !.args = b]
  BY <1>1
<1> QED
  BY <1>1, <1>2 DEF IsCommand

\* A command may take any node made so far.
LEMMA RefersMore ==
  ASSUME NEW c, IsCommand(c), Refers(c), NEW e \in 1..Len(nodes)
  PROVE  /\ Refers(WithField(c, e)) /\ Refers(WithOption(c, e))
         /\ Refers([c EXCEPT !.args = Append(@, e)])
<1>1. e \in Nat /\ <<e>> \in Seq(Nat) /\ \A i \in DOMAIN <<e>> : <<e>>[i] = e
  OBVIOUS
<1>2. PICK f, o, g : /\ f = WithField(c, e) /\ o = WithOption(c, e)
                     /\ g = [c EXCEPT !.args = Append(@, e)]
  OBVIOUS
<1>3. f.args = <<e>> /\ f.options = c.options
  BY <1>2, FieldTaken
<1>7. /\ o.args = c.args /\ DOMAIN o.options = DOMAIN c.options \cup {c.key}
      /\ \A k \in DOMAIN o.options : o.options[k] = IF k = c.key THEN e ELSE c.options[k]
  BY <1>2, OptionTaken
<1>8. g.args = Append(c.args, e) /\ g.options = c.options
  BY <1>2, ArgumentTaken
<1>4. Refers(f)
  BY <1>1, <1>3 DEF Refers
<1>5. Refers(o)
  <2>1. \A k \in DOMAIN o.options : o.options[k] \in 1..Len(nodes)
    BY <1>7 DEF Refers
  <2> QED
    BY <1>7, <2>1 DEF Refers
<1>6. Refers(g)
  <2>1. PICK a \in Seq(Nat) : a = c.args
    BY DEF Refers
  <2>2. \A i \in DOMAIN a : a[i] \in 1..Len(nodes)
    BY <2>1 DEF Refers
  <2>3. Append(a, e) \in Seq(Nat) /\ \A i \in DOMAIN Append(a, e) : Append(a, e)[i] \in 1..Len(nodes)
    BY <1>1, <2>2, PartsGrow
  <2> QED
    BY <1>8, <2>1, <2>3 DEF Refers
<1> QED
  BY <1>2, <1>4, <1>5, <1>6

\* Commands refer to nodes that exist, after every step.
LEMMA RefersGrows ==
  ASSUME ExprInv, SegsInv, AskedInv, KindInv, [Next]_vars
  PROVE  Refers(cmd') /\ \A s \in DOMAIN segs' : Refers(segs'[s].cmd)
<1>1. IsCommand(cmd) /\ Refers(cmd)
  BY DEF SegsInv, KindInv
<1>2. IsSeq(segs) /\ DOMAIN segs = 1..Len(segs) /\ Len(segs) \in Nat
  BY SegsFacts DEF SegsInv
<1>3. CASE cmd' = cmd /\ segs' = segs
  BY <1>3 DEF KindInv
<1>4. ASSUME Refers(cmd'), NEW to, segs' = Append(segs, [cmd |-> cmd', to |-> to])
      PROVE  \A s \in DOMAIN segs' : Refers(segs'[s].cmd)
  <2>1. PICK x : x = [cmd |-> cmd', to |-> to]
    OBVIOUS
  <2>2. /\ IsSeq(segs') /\ Len(segs') = Len(segs) + 1 /\ segs'[Len(segs) + 1] = x
        /\ \A s \in 1..Len(segs) : segs'[s] = segs[s]
    BY <1>2, <1>4, <2>1, AppendFacts
  <2>3. \A s \in DOMAIN segs' : s \in 1..Len(segs) \/ s = Len(segs) + 1
    BY <1>2, <2>2, SeqFacts
  <2>4. x.cmd = cmd'
    BY <2>1
  <2> QED
    BY <1>2, <1>4, <2>2, <2>3, <2>4 DEF KindInv
<1>5. ASSUME Refers(cmd'), segs' = segs \/ \E to : segs' = Append(segs, [cmd |-> cmd', to |-> to])
      PROVE  Refers(cmd') /\ \A s \in DOMAIN segs' : Refers(segs'[s].cmd)
  BY <1>4, <1>5 DEF KindInv
<1>6. CASE Step /\ ~ Inside
  <2>1. ctl.at = "ops" => ctl.val \in 1..Len(nodes)
    BY DEF ExprInv, HandHolds
  <2>2. CASE Noted(cmd')
    <3>1. Refers(cmd') /\ segs' = segs
      <4>1. PICK x, k : x = cmd.flags \cup {cmd.key} /\ k = Tok
        OBVIOUS
      <4>2. /\ Refers([cmd EXCEPT !.flags = x, !.key = "none"])
            /\ Refers([cmd EXCEPT !.key = k]) /\ Refers([cmd EXCEPT !.dir = k])
        BY <1>1, RefersNotes
      <4>3. \/ cmd' = cmd \/ cmd' = [cmd EXCEPT !.key = k] \/ cmd' = [cmd EXCEPT !.dir = k]
            \/ cmd' = [cmd EXCEPT !.flags = x, !.key = "none"]
        BY <2>2, <4>1 DEF Noted
      <4> QED
        BY <1>1, <2>2, <4>2, <4>3 DEF Noted
    <3> QED
      BY <1>5, <3>1
  <2>3. CASE Taken(cmd')
    BY <1>1, <1>5, <2>1, <2>3, RefersMore DEF Taken
  <2>4. CASE Over(cmd')
    BY <1>1, <1>5, <2>4 DEF Over
  <2>5. CASE Begun(cmd')
    <3>1. PICK kind, p : kind = (IF Tok \in Names THEN "custom" ELSE Tok) /\ p = pos + 1
      OBVIOUS
    <3>2. Refers([cmd EXCEPT !.kind = kind, !.from = p])
      BY <1>1, RefersNotes
    <3>3. /\ cmd' = [cmd EXCEPT !.kind = kind, !.from = p]
          /\ segs' = segs \/ segs' = Append(segs, [cmd |-> cmd', to |-> p])
      BY <2>5, <3>1 DEF Begun
    <3> QED
      BY <1>5, <3>2, <3>3
  <2>6. CASE Rests(cmd')
    <3>1. \A op : Refers(Blank(op))
      <4>1. ASSUME NEW d, d.args = <<>>, d.options = <<>>
            PROVE  Refers(d)
        BY <4>1 DEF Refers
      <4>2. \A op : Blank(op).args = <<>> /\ Blank(op).options = <<>>
        BY DEF Blank, Fresh
      <4> QED
        BY <4>1, <4>2
    <3> QED
      BY <1>1, <1>5, <2>6, <3>1 DEF Rests
  <2> QED
    BY <1>6, <2>2, <2>3, <2>4, <2>5, <2>6, CommandSteps
<1>7. CASE Step /\ Inside
  BY <1>3, <1>7, InsideKeeps
<1>8. CASE Lex \/ UNCHANGED vars
  BY <1>3, <1>8 DEF Lex, vars
<1> QED
  BY <1>6, <1>7, <1>8 DEF Next

\* A command that is begun lies behind those that are over, and stays where it is.
LEMMA CommandStays ==
  ASSUME ExprInv, SegsInv, AskedInv, KindInv, Step, ctl'.at \notin Between
  PROVE  /\ segs' = segs
         /\ \/ cmd'.from = cmd.from /\ ctl.at \notin Between
            \/ cmd'.from = pos + 1 /\ ctl.at = "command"
<1>1. IsCommand(cmd)
  BY DEF SegsInv
<1>2. CASE Inside
  BY <1>2, InsideKeeps DEF Inside, Parsing, Between
<1>3. CASE Noted(cmd')
  <2>1. segs' = segs /\ ctl.at \notin Between
    BY <1>3 DEF Noted, Between
  <2>2. PICK x, k : x = cmd.flags \cup {cmd.key} /\ k = Tok
    OBVIOUS
  <2>3. \/ cmd' = cmd \/ cmd' = [cmd EXCEPT !.key = k] \/ cmd' = [cmd EXCEPT !.dir = k]
        \/ cmd' = [cmd EXCEPT !.flags = x, !.key = "none"]
    BY <1>3, <2>2 DEF Noted
  <2> QED
    BY <1>1, <2>1, <2>3 DEF IsCommand
<1>4. CASE Taken(cmd')
  <2>1. segs' = segs /\ ctl.at \notin Between
    BY <1>4 DEF Taken, Between
  <2>2. PICK e, f, o, a : /\ e = ctl.val /\ f = WithField(cmd, e) /\ o = WithOption(cmd, e)
                          /\ a = [cmd EXCEPT !.args = Append(@, e)]
    OBVIOUS
  <2>3. f.from = cmd.from
    BY <1>1, <2>2, FieldTaken
  <2>4. o.from = cmd.from
    BY <1>1, <2>2, OptionTaken
  <2>5. a.from = cmd.from
    BY <1>1, <2>2, ArgumentTaken
  <2>6. cmd' = f \/ cmd' = o \/ cmd' = a
    BY <1>4, <2>2 DEF Taken
  <2> QED
    BY <2>1, <2>3, <2>4, <2>5, <2>6
<1>5. CASE Begun(cmd')
  <2>1. PICK kind, p : kind = (IF Tok \in Names THEN "custom" ELSE Tok) /\ p = pos + 1
    OBVIOUS
  <2>2. /\ cmd' = [cmd EXCEPT !.kind = kind, !.from = p] /\ segs' = segs /\ ctl.at = "command"
    BY <1>5, <2>1 DEF Begun, Between
  <2> QED
    BY <1>1, <2>1, <2>2 DEF IsCommand
<1> QED
  BY <1>2, <1>3, <1>4, <1>5, CommandSteps DEF Over, Rests, Between

\* Every step gives a command only the lists of its kind.
LEMMA KindInvIsStable ==
  ASSUME ExprInv, SegsInv, AskedInv, KindInv, [Next]_vars
  PROVE  KindInv'
<1>1. Refers(cmd)' /\ \A s \in DOMAIN segs' : Refers(segs[s].cmd)'
  <2>1. PICK c : c = cmd'
    OBVIOUS
  <2>2. Refers(c)'
    BY <2>1, RefersGrows, RefersStay
  <2>3. ASSUME NEW s \in DOMAIN segs'
        PROVE  Refers(segs[s].cmd)'
    <3>1. PICK d : d = segs'[s].cmd
      OBVIOUS
    <3>2. Refers(d)'
      BY <3>1, RefersGrows, RefersStay
    <3> QED
      BY <3>1, <3>2
  <2>4. Refers(cmd)'
    BY <2>1, <2>2
  <2> QED
    BY <2>3, <2>4
<1>2. /\ ctl'.at \in {"sort", "direction"} => cmd'.kind = "sort"
      /\ ctl'.at \in {"custom", "key", "keyed"} => cmd'.kind = "custom"
      /\ ctl'.at \in {"take", "unique"} => cmd'.kind = ctl'.at
      /\ ctl'.at \in Parsing => cmd'.kind \in {"filter", "sort", "custom", "unique"}
  <2>1. IsCommand(cmd)
    BY DEF SegsInv
  <2>2. CASE Step /\ ~ Inside
    <3>1. CASE Noted(cmd')
      <4>1. cmd'.kind = cmd.kind
        BY <2>1, <3>1 DEF Noted, IsCommand
      <4> QED
        BY <3>1, <4>1 DEF Noted, KindInv, Parsing
    <3>2. CASE Taken(cmd')
      <4>1. PICK e, f, o, a : /\ e = ctl.val /\ f = WithField(cmd, e) /\ o = WithOption(cmd, e)
                              /\ a = [cmd EXCEPT !.args = Append(@, e)]
        OBVIOUS
      <4>2. f.kind = cmd.kind /\ o.kind = cmd.kind /\ a.kind = cmd.kind
        <5>1. f.kind = cmd.kind
          BY <2>1, <4>1, FieldTaken
        <5>2. o.kind = cmd.kind
          BY <2>1, <4>1, OptionTaken
        <5>3. a.kind = cmd.kind
          BY <2>1, <4>1, ArgumentTaken
        <5> QED
          BY <5>1, <5>2, <5>3
      <4>3. cmd' = f \/ cmd' = o \/ cmd' = a
        BY <3>2, <4>1 DEF Taken
      <4>4. cmd'.kind = cmd.kind
        BY <4>2, <4>3
      <4> QED
        BY <3>2, <4>4 DEF Taken, Parsing
    <3>3. CASE Over(cmd')
      BY <3>3 DEF Over, Parsing
    <3>4. CASE Begun(cmd')
      <4>1. PICK kind : /\ kind = (IF Tok \in Names THEN "custom" ELSE Tok)
                   /\ cmd' = [cmd EXCEPT !.kind = kind, !.from = pos + 1]
                   /\ \/ kind = "count" /\ ctl'.at = "pipeline"
                      \/ kind = "filter" /\ ctl'.at = "prefix"
                      \/ kind \in {"sort", "take", "unique", "custom"} /\ ctl'.at = kind
        BY <3>4 DEF Begun
      <4>2. cmd'.kind = kind
        BY <2>1, <4>1 DEF IsCommand
      <4> QED
        BY <4>1, <4>2 DEF Parsing
    <3>5. CASE Rests(cmd')
      BY <3>5 DEF Rests, Between, Parsing
    <3> QED
      BY <2>2, <3>1, <3>2, <3>3, <3>4, <3>5, CommandSteps
  <2>3. CASE Step /\ Inside
    BY <2>3, InsideKeeps DEF Inside, KindInv, Parsing
  <2>4. CASE Lex \/ UNCHANGED vars
    BY <2>4 DEF Lex, vars, KindInv
  <2> QED
    BY <2>2, <2>3, <2>4 DEF Next
<1>3. ctl'.at \notin Between => \A s \in DOMAIN segs' : segs'[s].to < cmd'.from
  <2>1. CASE Step
    <3> SUFFICES ASSUME ctl'.at \notin Between, NEW s \in DOMAIN segs
                 PROVE  segs[s].to < cmd'.from
      BY <2>1, CommandStays
    <3>1. CASE cmd'.from = cmd.from /\ ctl.at \notin Between
      BY <3>1 DEF KindInv
    <3>2. CASE cmd'.from = pos + 1
      <4>1. PICK to : to = segs[s].to
        OBVIOUS
      <4>2. to \in 2..pos /\ pos \in Nat
        BY <4>1, ToksFacts DEF SegsInv, SegHolds
      <4>3. to < pos + 1
        BY <4>2
      <4> QED
        BY <3>2, <4>1, <4>3
    <3> QED
      BY <2>1, <3>1, <3>2, CommandStays
  <2>2. CASE Lex \/ UNCHANGED vars
    BY <2>2 DEF Lex, vars, KindInv
  <2> QED
    BY <2>1, <2>2 DEF Next
<1>4. ctl'.at \in {"start", "command"} => cmd' = Blank(cmd'.op)
  <2>1. \A op : Blank(op).op = op
    BY DEF Blank, Fresh
  <2>2. CASE Step /\ ~ Inside
    BY <2>1, <2>2, CommandSteps DEF Noted, Taken, Over, Begun, Rests, KindInv
  <2>3. CASE Step /\ Inside
    BY <2>3 DEF Inside, Parsing
  <2>4. CASE Lex \/ UNCHANGED vars
    BY <2>4 DEF Lex, vars, KindInv
  <2> QED
    BY <2>2, <2>3, <2>4 DEF Next
<1> QED
  BY <1>1, <1>2, <1>3, <1>4 DEF KindInv

\* In every program a command has only the lists of its kind.
LEMMA KindInvariant == Spec => []KindInv
<1>1. ASSUME Init
      PROVE  KindInv
  <2>1. ctl.at = "start" /\ segs = <<>> /\ cmd = Fresh("pipe")
    BY <1>1 DEF Init, Blank
  <2>2. PICK c : c = Fresh("pipe")
    OBVIOUS
  <2>3. c.args = <<>> /\ c.options = <<>> /\ c.op = "pipe"
    BY <2>2 DEF Fresh
  <2>4. Refers(c)
    BY <2>3 DEF Refers
  <2> QED
    BY <2>1, <2>2, <2>3, <2>4 DEF KindInv, Parsing, Between, Blank
<1>2. ExprInv /\ SegsInv /\ AskedInv /\ KindInv /\ [Next]_vars => KindInv'
  BY KindInvIsStable
<1> QED
  BY <1>1, <1>2, ExpressionInvariant, SegsInvariant, AskedInvariant, PTL DEF Spec

\* The commands of the pipeline are read.
LEMMA PastBehind ==
  ASSUME ExprInv, SegsInv, AskedInv, KindInv, [Next]_vars, NEW s \in DOMAIN segs
  PROVE  segs[s].to \in 2..pos /\ Behind(segs[s].to)
<1>1. PICK to : to = segs[s].to
  OBVIOUS
<1>2. to \in 2..pos /\ pos \in Nat
  BY <1>1, ToksFacts DEF SegsInv, SegHolds
<1>3. ASSUME ctl.at \in Parsing
      PROVE  to < Asked
  <2>1. ctl.at \notin Between
    BY <1>3 DEF Parsing, Between
  <2>2. cmd.from \in 2..pos /\ to < cmd.from /\ Asked \in (cmd.from + 1)..(pos + 1)
    BY <1>1, <1>3, <2>1 DEF SegsInv, KindInv, AskedInv
  <2>3. PICK from, a : from = cmd.from /\ a = Asked
    OBVIOUS
  <2>4. to < a
    BY <1>2, <2>2, <2>3
  <2> QED
    BY <2>3, <2>4
<1>4. to \in Int /\ to <= pos
  BY <1>2
<1>5. Behind(to)
  BY <1>3, <1>4, StepBehind
<1> QED
  BY <1>1, <1>2, <1>5

-----------------------------------------------------------------------------
(***************************************************************************)
(* parse_sort.  What it has noted is about the tokens it has dealt with,   *)
(* which are not yet those of a field it has asked for.                    *)
(***************************************************************************)
Free(p) == \A n \in DOMAIN nodes : p \notin nodes[n].from..nodes[n].to

\* The directions among the tokens of command c up to number `to`.
Directions(c, to) ==
  {p \in (c.from + 1)..to :
     toks[p] \in {"asc", "desc"} /\ toks[p - 1] \in {"sub", "subsub"} /\ Free(p)}

SortedTo(c, to) ==
  /\ \A p \in (c.from + 1)..to :
       (\A e \in DOMAIN c.args : p > nodes[c.args[e]].to) =>
          toks[p] \in {"sub", "subsub", "asc", "desc"}
  /\ IF Directions(c, to) = {} THEN c.dir = "desc"
     ELSE \E p \in Directions(c, to) :
            c.dir = toks[p] /\ \A q \in Directions(c, to) : q <= p

SortDone ==
  CASE ctl.at \in Parsing -> Asked - 1
    [] ctl.at = "direction" -> pos - 1
    [] OTHER -> pos

SortInv ==
  /\ \A s \in DOMAIN segs : segs[s].cmd.kind = "sort" => SortedTo(segs[s].cmd, segs[s].to)
  /\ ctl.at \notin Between /\ cmd.kind = "sort" =>
       SortDone \in cmd.from..pos /\ SortedTo(cmd, SortDone)
  /\ ctl.at = "direction" => toks[pos] \in {"sub", "subsub"}

\* Whether a token dealt with is in an expression does not change any more.
LEMMA FreeStays ==
  ASSUME ExprInv, AskedInv, [Next]_vars, NEW to \in Int, Behind(to), NEW p \in 1..to
  PROVE  Free(p)' <=> Free(p)
<1>1. DOMAIN nodes = 1..Len(nodes) /\ DOMAIN nodes' = 1..Len(nodes')
  BY NodesStay
<1>2. ASSUME NEW id \in 1..Len(nodes'), id \notin 1..Len(nodes)
      PROVE  p \notin nodes'[id].from..nodes'[id].to
  <2>1. PICK a, b : a = nodes'[id].from /\ b = nodes'[id].to
    OBVIOUS
  <2>2. a \in Int /\ a > to
    BY <1>2, <2>1 DEF Behind
  <2> QED
    BY <2>1, <2>2
<1>3. \A id \in 1..Len(nodes) : id \in 1..Len(nodes') /\ nodes'[id] = nodes[id]
  BY DEF Behind
<1> QED
  BY <1>1, <1>2, <1>3 DEF Free

\* What is read behind token `to` does not change what was noted of those up to it.
LEMMA SortedStays ==
  ASSUME ExprInv, AskedInv, [Next]_vars, NEW to \in Int, Behind(to),
         NEW c, Refers(c), c.from \in 1..to, SortedTo(c, to)
  PROVE  SortedTo(c, to)'
<1>1. PICK from \in Int : from = c.from /\ from >= 1 /\ from <= to
  OBVIOUS
<1>2. \A p \in (from + 1)..to : /\ toks'[p] = toks[p] /\ toks'[p - 1] = toks[p - 1]
                                /\ Free(p)' <=> Free(p)
  <2>1. ASSUME NEW p \in (from + 1)..to
        PROVE  p \in 1..to /\ p - 1 \in 1..to
    BY <1>1
  <2> QED
    BY <2>1, FreeStays DEF Behind
<1>3. Directions(c, to)' = Directions(c, to)
  BY <1>1, <1>2 DEF Directions
<1>4. \A e \in DOMAIN c.args : nodes'[c.args[e]] = nodes[c.args[e]]
  BY DEF Refers, Behind
<1>5. ASSUME NEW p \in (from + 1)..to, \A e \in DOMAIN c.args : p > nodes'[c.args[e]].to
      PROVE  toks'[p] \in {"sub", "subsub", "asc", "desc"}
  <2>1. \A e \in DOMAIN c.args : p > nodes[c.args[e]].to
    BY <1>4, <1>5
  <2>2. toks[p] \in {"sub", "subsub", "asc", "desc"}
    BY <1>1, <2>1 DEF SortedTo
  <2> QED
    BY <1>2, <2>2
<1>6. \A p \in Directions(c, to) : toks'[p] = toks[p]
  BY <1>1, <1>2 DEF Directions
<1> QED
  BY <1>1, <1>3, <1>5, <1>6 DEF SortedTo

\* What is dealt with since token `to` adds no direction to c: there is none if all
\* of it is in an expression or is not one of their names.
LEMMA SortedOn ==
  ASSUME NEW c, NEW d, NEW from \in Int, NEW to \in Int, NEW upto \in Int,
         c.from = from, d.from = from, from <= to, to <= upto, d.dir = c.dir, SortedTo(c, to),
         \A p \in (to + 1)..upto :
           ~ (toks[p] \in {"asc", "desc"} /\ toks[p - 1] \in {"sub", "subsub"} /\ Free(p)),
         \A p \in (from + 1)..upto :
            (\A e \in DOMAIN d.args : p > nodes[d.args[e]].to) =>
               toks[p] \in {"sub", "subsub", "asc", "desc"}
  PROVE  SortedTo(d, upto)
<1>1. Directions(d, upto) = Directions(c, to)
  <2>1. \A p \in (from + 1)..upto : p \in (from + 1)..to \/ p \in (to + 1)..upto
    OBVIOUS
  <2>2. \A p \in (from + 1)..to : p \in (from + 1)..upto
    OBVIOUS
  <2> QED
    BY <2>1, <2>2 DEF Directions
<1> QED
  BY <1>1 DEF SortedTo

\* A direction more.
LEMMA SortedDirection ==
  ASSUME NEW c, NEW d, NEW from \in Int, NEW to \in Int, NEW p \in Int, p = to + 2,
         c.from = from, d.from = from, from <= to, d.args = c.args, d.dir = toks[p],
         SortedTo(c, to), toks[p] \in {"asc", "desc"}, toks[p - 1] \in {"sub", "subsub"}, Free(p)
  PROVE  SortedTo(d, p)
<1>1. \A q \in (from + 1)..p : q \in (from + 1)..to \/ q = p - 1 \/ q = p
  OBVIOUS
<1>2. p \in Directions(d, p)
  BY DEF Directions
<1>3. \A q \in Directions(d, p) : q <= p
  BY DEF Directions
<1>4. \A q \in (from + 1)..p : (\A e \in DOMAIN d.args : q > nodes[d.args[e]].to) =>
         toks[q] \in {"sub", "subsub", "asc", "desc"}
  BY <1>1 DEF SortedTo
<1> QED
  BY <1>2, <1>3, <1>4 DEF SortedTo

\* No token is in an expression that is not consumed.
LEMMA FreeAhead ==
  ASSUME ExprInv
  PROVE  Free(pos + 1)
<1>1. ASSUME NEW n \in DOMAIN nodes
      PROVE  pos + 1 \notin nodes[n].from..nodes[n].to
  <2>1. PICK a, b : a = nodes[n].from /\ b = nodes[n].to
    OBVIOUS
  <2>2. a \in 1..b /\ b \in 1..pos /\ pos \in Nat
    BY <2>1, PlacedFacts DEF ExprInv, NodeHolds
  <2>3. pos + 1 \notin a..b
    BY <2>2
  <2> QED
    BY <2>1, <2>3
<1> QED
  BY <1>1 DEF Free

\* What is noted of a sort stays true while it reads on.
LEMMA SortKept ==
  ASSUME ExprInv, SegsInv, AskedInv, KindInv, SortInv, [Next]_vars,
         ctl.at \notin Between, NEW c, c = cmd, c.kind = "sort", NEW to, to = SortDone
  PROVE  /\ c.from \in 2..to /\ to \in 2..pos /\ SortedTo(c, to) /\ SortedTo(c, to)'
         /\ ctl.at \in {"sort", "direction"} \cup Parsing
<1>1. PICK from : from = c.from
  OBVIOUS
<1>2. /\ from \in 2..pos /\ to \in from..pos /\ SortedTo(c, to) /\ pos \in Nat
  BY <1>1, ToksFacts DEF SegsInv, SortInv
<1>3. to \in Int /\ to <= pos /\ from \in 2..to /\ from \in 1..to /\ to \in 2..pos
  BY <1>2
<1>4. ASSUME ctl.at \in Parsing
      PROVE  to < Asked
  <2>1. Asked \in Int /\ to = Asked - 1
    BY <1>4, AskedFacts DEF SortDone, Parsing
  <2> QED
    BY <2>1
<1>5. Behind(to)
  BY <1>3, <1>4, StepBehind
<1>6. SortedTo(c, to)'
  BY <1>1, <1>2, <1>3, <1>5, SortedStays DEF KindInv
<1>7. ctl.at \in {"sort", "direction"} \cup Parsing
  <2>1. ctl.at \in Modes
    BY DEF ExprInv, ShapeHolds
  <2> QED
    BY <2>1 DEF KindInv, Modes, Between, Parsing
<1> QED
  BY <1>1, <1>2, <1>3, <1>6, <1>7

\* A sort being read has the last direction among the tokens dealt with.
LEMMA SortGoesOn ==
  ASSUME ExprInv, SegsInv, AskedInv, KindInv, SortInv, Step, ctl'.at \notin Between,
         cmd'.kind = "sort"
  PROVE  SortDone' \in cmd'.from..pos' /\ SortedTo(cmd, SortDone)'
<1>1. pos \in Nat /\ toks' = toks /\ IsCommand(cmd) /\ (pos' = pos \/ (pos' = pos + 1 /\ Tok = toks[pos + 1]))
  <2>1. Tok # "end" => Tok = toks[pos + 1]
    BY ToksFacts
  <2>2. toks' = toks /\ (pos' = pos \/ (pos' = pos + 1 /\ Tok # "end"))
    BY StepLooks DEF Looks, GoesOn, Ends, input
  <2> QED
    BY <2>1, <2>2, ToksFacts DEF SegsInv
<1>2. PICK c, to : c = cmd /\ to = SortDone
  OBVIOUS
<1>3. ASSUME ctl.at \notin Between, c.kind = "sort"
      PROVE  /\ c.from \in 2..to /\ to \in 2..pos /\ SortedTo(c, to) /\ SortedTo(c, to)'
             /\ ctl.at \in {"sort", "direction"} \cup Parsing
  BY <1>2, <1>3, SortKept DEF Next
<1>4. ASSUME NEW d, NEW upto, d = cmd', upto = SortDone', d.from \in 2..upto, upto \in 2..pos',
             SortedTo(d, upto)'
      PROVE  SortDone' \in cmd'.from..pos' /\ SortedTo(cmd, SortDone)'
  <2>1. SortedTo(cmd, SortDone)'
    BY <1>4
  <2>2. PICK from : from = d.from
    OBVIOUS
  <2>3. upto \in from..pos'
    BY <1>4, <2>2
  <2> QED
    BY <1>4, <2>1, <2>2, <2>3
<1>5. CASE Inside
  <2>1. cmd' = cmd /\ Asked' = Asked
    BY <1>5, InsideKeeps
  <2>2. SortDone' = SortDone
    BY <1>5, <2>1 DEF SortDone, Inside, Parsing
  <2>3. ctl.at \notin Between /\ c.kind = "sort"
    BY <1>2, <1>5, <2>1 DEF Inside, Parsing, Between
  <2>4. to \in 2..pos'
    BY <1>1, <1>3, <2>3
  <2> QED
    BY <1>2, <1>3, <1>4, <2>1, <2>2, <2>3, <2>4
<1>6. CASE ~ Inside
  <2>1. nodes' = nodes
    BY <1>6, OutsideBoxes
  <2>2. CASE Noted(cmd')
    <3>1. PICK x, k : x = cmd.flags \cup {cmd.key} /\ k = Tok
      OBVIOUS
    <3>2. \/ cmd' = cmd \/ cmd' = [cmd EXCEPT !.key = k] \/ cmd' = [cmd EXCEPT !.dir = k]
          \/ cmd' = [cmd EXCEPT !.flags = x, !.key = "none"]
      BY <2>2, <3>1 DEF Noted
    <3>3. cmd.kind = "sort"
      BY <1>1, <3>2 DEF IsCommand
    <3>4. ctl.at \in {"sort", "direction"}
      BY <2>2, <3>3 DEF Noted, KindInv
    <3>5. ctl.at \notin Between
      BY <3>4 DEF Between
    <3>6. /\ c.from \in 2..to /\ to \in 2..pos /\ SortedTo(c, to) /\ SortedTo(c, to)'
      BY <1>2, <1>3, <3>3, <3>5
    <3>7. CASE ctl.at = "sort" /\ ctl'.at = "prefix"
      <4>1. pos' = pos /\ cmd' = cmd
        BY <2>2, <3>7 DEF Noted
      <4>2. Asked' = pos' + 1
        BY <3>7, AsksKeeps DEF Parsing
      <4>3. SortDone' = Asked' - 1
        BY <3>7 DEF SortDone, Parsing
      <4>5. SortDone = pos
        BY <3>7 DEF SortDone, Parsing
      <4>4. SortDone' = to
        BY <1>1, <1>2, <4>1, <4>2, <4>3, <4>5
      <4> QED
        BY <1>2, <1>4, <3>6, <4>1, <4>4
    <3>8. CASE ctl.at = "sort" /\ ctl'.at = "direction"
      <4>1. pos' = pos + 1 /\ cmd' = cmd
        BY <2>2, <3>8 DEF Noted
      <4>2. SortDone' = pos' - 1 /\ SortDone = pos
        BY <3>8 DEF SortDone, Parsing
      <4>3. SortDone' = to /\ to \in 2..pos'
        BY <1>1, <1>2, <3>6, <4>1, <4>2
      <4> QED
        BY <1>2, <1>4, <3>6, <4>1, <4>3
    <3>9. CASE ctl.at = "direction" /\ ctl'.at = "sort"
      <4>1. PICK d, p : d = cmd' /\ p = pos'
        OBVIOUS
      <4>2. p = pos + 1 /\ d = [c EXCEPT !.dir = k] /\ k \in {"asc", "desc"} /\ k = toks[p]
        BY <1>1, <1>2, <2>2, <3>1, <3>9, <4>1 DEF Noted
      <4>3. d.from = c.from /\ d.args = c.args /\ d.dir = k
        BY <1>1, <1>2, <4>2 DEF IsCommand
      <4>4. to = pos - 1 /\ SortDone' = p
        BY <1>2, <3>9, <4>1 DEF SortDone, Parsing
      <4>5. p = to + 2 /\ p - 1 = pos /\ p \in Int /\ to \in Int
        BY <1>1, <4>2, <4>4
      <4>6. toks[p - 1] \in {"sub", "subsub"}
        BY <3>9, <4>5 DEF SortInv
      <4>7. PICK from \in Int : from = c.from /\ from <= to
        BY <3>6
      <4>8. SortedTo(d, p)
        BY <3>6, <4>2, <4>3, <4>5, <4>6, <4>7, FreeAhead, SortedDirection
      <4>9. SortedTo(d, p)'
        BY <1>1, <2>1, <4>8 DEF SortedTo, Directions, Free
      <4>10. d.from \in 2..p /\ p \in 2..pos'
        BY <3>6, <4>1, <4>3, <4>5
      <4> QED
        BY <1>4, <4>1, <4>4, <4>9, <4>10
    <3> QED
      BY <2>2, <3>4, <3>7, <3>8, <3>9 DEF Noted
  <2>3. CASE Taken(cmd')
    <3>1. PICK e, d : e = ctl.val /\ d = cmd'
      OBVIOUS
    <3>2. ctl.at = "ops" /\ frames = <<>> /\ pos' = pos /\ e \in 1..Len(nodes)
      BY <2>3, <3>1 DEF Taken, ExprInv, HandHolds
    <3>3. cmd.kind = "sort" /\ d = WithField(c, e) /\ ctl'.at = "sort"
      <4>1. CASE cmd.kind = "custom"
        <5>1. PICK o, a : /\ o = WithOption(cmd, e)
                          /\ a = [cmd EXCEPT !.args = Append(@, e)]
          OBVIOUS
        <5>2. o.kind = "custom"
          BY <1>1, <4>1, <5>1, OptionTaken
        <5>3. a.kind = "custom"
          BY <1>1, <4>1, <5>1, ArgumentTaken
        <5>4. cmd' = o \/ cmd' = a
          BY <2>3, <3>1, <4>1, <5>1 DEF Taken
        <5> QED
          BY <5>2, <5>3, <5>4
      <4> QED
        BY <1>2, <2>3, <3>1, <4>1 DEF Taken, Between
    <3>4. /\ c.from \in 2..to /\ to \in 2..pos /\ SortedTo(c, to)
      BY <1>2, <1>3, <3>2, <3>3 DEF Between
    <3>5. d.args = <<e>> /\ d.from = c.from /\ d.dir = c.dir
      BY <1>1, <1>2, <3>3, FieldTaken
    <3>6. PICK x : x = nodes[e]
      OBVIOUS
    <3>7. x.to = pos /\ x.from = to + 1
      <4>1. x.to = pos /\ Here = x.from /\ x.from \in 1..pos
        BY <3>1, <3>2, <3>6, InHand
      <4>2. to = x.from - 1
        BY <1>2, <3>2, <4>1 DEF SortDone, Asked, Parsing
      <4> QED
        BY <4>1, <4>2
    <3>8. ASSUME NEW p \in (to + 1)..pos
          PROVE  ~ Free(p)
      BY <3>2, <3>6, <3>7, PlacedFacts DEF Free
    <3>9. ASSUME NEW p \in (c.from + 1)..pos, \A i \in DOMAIN d.args : p > nodes[d.args[i]].to
          PROVE  FALSE
      <4>1. p > x.to
        <5>1. 1 \in DOMAIN <<e>> /\ <<e>>[1] = e
          OBVIOUS
        <5> QED
          BY <3>5, <3>6, <3>9, <5>1
      <4> QED
        BY <1>1, <3>4, <3>7, <4>1
    <3>10. PICK from \in Int : from = c.from /\ from >= 2 /\ from <= to /\ to \in Int /\ to <= pos
      BY <3>4
    <3>11. SortedTo(d, pos)
      BY <1>1, <3>4, <3>5, <3>8, <3>9, <3>10, SortedOn
    <3>12. PICK upto \in Int : upto = pos /\ to <= upto
      BY <1>1, <3>10
    <3>13. SortedTo(d, upto)'
      BY <1>1, <2>1, <3>11, <3>12 DEF SortedTo, Directions, Free
    <3>14. SortDone' = upto /\ d.from \in 2..upto /\ upto \in 2..pos'
      <4>1. SortDone' = pos'
        BY <3>3 DEF SortDone, Parsing
      <4>2. from \in 2..upto /\ upto \in 2..upto
        BY <3>10, <3>12
      <4> QED
        BY <3>2, <3>5, <3>10, <3>12, <4>1, <4>2
    <3> QED
      BY <1>4, <3>1, <3>13, <3>14
  <2>4. CASE Begun(cmd')
    <3>1. PICK kind, p, d : kind = (IF Tok \in Names THEN "custom" ELSE Tok) /\ p = pos + 1 /\ d = cmd'
      OBVIOUS
    <3>2. /\ d = [c EXCEPT !.kind = kind, !.from = p] /\ pos' = p /\ ctl.at = "command"
          /\ \/ kind = "count" /\ ctl'.at = "pipeline"
             \/ kind = "filter" /\ ctl'.at = "prefix"
             \/ kind \in {"sort", "take", "unique", "custom"} /\ ctl'.at = kind
      BY <1>2, <2>4, <3>1 DEF Begun
    <3>3. d.kind = kind /\ d.from = p /\ d.dir = c.dir
      BY <1>1, <1>2, <3>2 DEF IsCommand
    <3>4. d.dir = "desc"
      BY <1>2, <3>2, <3>3 DEF KindInv, Blank, Fresh
    <3>5. ctl'.at = "sort"
      BY <3>1, <3>2, <3>3
    <3>6. SortDone' = p
      BY <3>2, <3>5 DEF SortDone, Parsing
    <3>7. p \in Int /\ \A q : q \notin (p + 1)..p
      BY <1>1, <3>1
    <3>8. SortedTo(d, p)'
      <4>1. Directions(d, p)' = {}
        BY <3>3, <3>7 DEF Directions
      <4> QED
        BY <3>3, <3>4, <3>7, <4>1 DEF SortedTo
    <3>9. d.from \in 2..p /\ p \in 2..pos'
      <4>1. cmd'.from \in 2..pos'
        BY SegsInvIsStable DEF SegsInv, Next
      <4> QED
        BY <1>1, <3>1, <3>2, <3>3, <4>1
    <3> QED
      BY <1>4, <3>1, <3>6, <3>8, <3>9
  <2> QED
    BY <1>6, <2>2, <2>3, <2>4, CommandSteps DEF Over, Rests, Between
<1> QED
  BY <1>5, <1>6

\* Every step keeps the directions of the sorts.
LEMMA SortInvIsStable ==
  ASSUME ExprInv, SegsInv, AskedInv, KindInv, SortInv, [Next]_vars
  PROVE  SortInv'
<1>1. IsCommand(cmd) /\ IsSeq(segs) /\ DOMAIN segs = 1..Len(segs) /\ Len(segs) \in Nat /\ pos \in Nat
  BY SegsFacts DEF SegsInv
<1>2. ASSUME NEW s \in DOMAIN segs, NEW c, NEW to, c = segs[s].cmd, to = segs[s].to, c.kind = "sort"
      PROVE  SortedTo(c, to)'
  <2>1. to \in 2..pos /\ Behind(to)
    BY <1>2, PastBehind
  <2>2. c.from \in 2..to
    BY <1>2 DEF SegsInv, SegHolds
  <2>3. to \in Int /\ c.from \in 1..to
    BY <1>1, <2>1, <2>2
  <2> QED
    BY <1>2, <2>1, <2>3, SortedStays DEF SortInv, KindInv
<1>3. ASSUME segs' = segs, NEW s \in DOMAIN segs', segs'[s].cmd.kind = "sort"
      PROVE  SortedTo(segs[s].cmd, segs[s].to)'
  <2>1. PICK c, to : c = segs[s].cmd /\ to = segs[s].to
    OBVIOUS
  <2>2. SortedTo(c, to)'
    BY <1>2, <1>3, <2>1
  <2> QED
    BY <1>3, <2>1, <2>2
<1>4. ASSUME NEW c, NEW to, c = cmd', segs' = Append(segs, [cmd |-> c, to |-> to]),
             c.kind = "sort" => SortedTo(c, to)',
             NEW s \in DOMAIN segs', segs'[s].cmd.kind = "sort"
      PROVE  SortedTo(segs[s].cmd, segs[s].to)'
  <2>1. PICK x : x = [cmd |-> c, to |-> to]
    OBVIOUS
  <2>2. /\ IsSeq(segs') /\ Len(segs') = Len(segs) + 1 /\ segs'[Len(segs) + 1] = x
        /\ \A i \in 1..Len(segs) : segs'[i] = segs[i]
    BY <1>1, <1>4, <2>1, AppendFacts
  <2>3. s \in 1..Len(segs) \/ s = Len(segs) + 1
    BY <1>1, <1>4, <2>2, SeqFacts
  <2>4. CASE s \in 1..Len(segs)
    <3>1. PICK d, upto : d = segs[s].cmd /\ upto = segs[s].to
      OBVIOUS
    <3>2. segs'[s].cmd = d /\ segs'[s].to = upto
      BY <2>2, <2>4, <3>1
    <3>3. SortedTo(d, upto)'
      BY <1>1, <1>2, <1>4, <2>4, <3>1, <3>2
    <3> QED
      BY <3>2, <3>3
  <2>5. CASE s = Len(segs) + 1
    <3>1. segs'[s].cmd = c /\ segs'[s].to = to
      BY <2>1, <2>2, <2>5
    <3> QED
      BY <1>4, <3>1
  <2> QED
    BY <2>3, <2>4, <2>5
<1>5. \A s \in DOMAIN segs' : segs'[s].cmd.kind = "sort" => SortedTo(segs[s].cmd, segs[s].to)'
  <2>1. CASE Step /\ ~ Inside
    <3>1. CASE segs' = segs
      BY <1>3, <3>1
    <3>2. CASE Taken(cmd') /\ segs' # segs
      <4>1. PICK c, to, e : c = cmd' /\ to = pos /\ e = ctl.val
        OBVIOUS
      <4>2. /\ cmd.kind # "sort" /\ c = WithField(cmd, e)
            /\ segs' = Append(segs, [cmd |-> c, to |-> to])
        BY <3>2, <4>1 DEF Taken
      <4>3. c.kind # "sort"
        BY <1>1, <4>2, FieldTaken
      <4> QED
        BY <1>4, <4>1, <4>2, <4>3
    <3>3. CASE Over(cmd')
      <4>1. PICK c, to : c = cmd' /\ to = pos'
        OBVIOUS
      <4>2. c = cmd /\ segs' = Append(segs, [cmd |-> c, to |-> to])
        BY <3>3, <4>1 DEF Over
      <4>3. ASSUME c.kind = "sort"
            PROVE  SortedTo(c, to)'
        <5>1. ctl.at = "sort" /\ pos' = pos
          BY <3>3, <4>2, <4>3 DEF Over, KindInv
        <5>2. ctl.at \notin Between /\ to = SortDone
          BY <4>1, <5>1 DEF SortDone, Parsing, Between
        <5> QED
          BY <4>2, <4>3, <5>2, SortKept
      <4> QED
        BY <1>4, <4>1, <4>2, <4>3
    <3>4. CASE Begun(cmd') /\ segs' # segs
      <4>1. PICK c, p : c = cmd' /\ p = pos + 1
        OBVIOUS
      <4>2. /\ c = [cmd EXCEPT !.kind = "count", !.from = p]
            /\ segs' = Append(segs, [cmd |-> c, to |-> p])
        BY <3>4, <4>1 DEF Begun
      <4>3. c.kind = "count"
        BY <1>1, <4>2 DEF IsCommand
      <4> QED
        BY <1>4, <4>1, <4>2, <4>3
    <3> QED
      BY <2>1, <3>1, <3>2, <3>3, <3>4, CommandSteps DEF Noted, Rests
  <2>2. CASE Step /\ Inside
    BY <1>3, <2>2, InsideKeeps
  <2>3. CASE Lex \/ UNCHANGED vars
    BY <1>3, <2>3 DEF Lex, vars
  <2> QED
    BY <2>1, <2>2, <2>3 DEF Next
<1>6. ctl'.at \notin Between /\ cmd'.kind = "sort" =>
        SortDone' \in cmd'.from..pos' /\ SortedTo(cmd, SortDone)'
  <2>1. CASE Step
    BY <2>1, SortGoesOn
  <2>2. CASE Lex \/ UNCHANGED vars
    <3>1. ctl' = ctl /\ pos' = pos /\ frames' = frames /\ nodes' = nodes /\ cmd' = cmd
      BY <2>2 DEF Lex, vars
    <3>2. SortDone' = SortDone
      BY <3>1 DEF SortDone, Asked, Here
    <3>3. PICK c, to : c = cmd /\ to = SortDone
      OBVIOUS
    <3>4. ctl.at \notin Between /\ c.kind = "sort" => SortedTo(c, to)'
      BY <3>3, SortKept
    <3> QED
      BY <3>1, <3>2, <3>3, <3>4 DEF SortInv
  <2> QED
    BY <2>1, <2>2 DEF Next
<1>7. ctl'.at = "direction" => toks'[pos'] \in {"sub", "subsub"}
  <2>1. CASE Step /\ ~ Inside /\ ctl'.at = "direction"
    <3>1. pos' = pos + 1 /\ Tok \in {"sub", "subsub"}
      BY <2>1, CommandSteps DEF Noted, Taken, Over, Begun, Rests, Between
    <3>2. toks' = toks /\ Tok = toks[pos + 1]
      BY <2>1, <3>1, StepLooks, ToksFacts DEF Looks, input
    <3> QED
      BY <3>1, <3>2
  <2>2. CASE Step /\ Inside
    BY <2>2 DEF Inside, Parsing
  <2>3. CASE (Lex \/ UNCHANGED vars) /\ ctl'.at = "direction"
    <3>1. ctl.at = "direction" /\ pos' = pos /\ (toks' = toks \/ \E k : toks' = Append(toks, k))
      BY <2>3 DEF Lex, vars
    <3>2. pos \in 1..Len(toks) /\ IsSeq(toks)
      <4>1. cmd.from \in 2..pos
        BY <3>1 DEF SegsInv, Between
      <4> QED
        BY <4>1, ToksFacts DEF IsSeq
    <3> QED
      BY <3>1, <3>2, AppendFacts DEF SortInv
  <2> QED
    BY <2>1, <2>2, <2>3 DEF Next
<1> QED
  BY <1>5, <1>6, <1>7 DEF SortInv

\* In every program the sorts have the last direction written behind their expressions.
LEMMA SortInvariant == Spec => []SortInv
<1>1. Init => SortInv
  BY DEF Init, SortInv, Between
<1>2. ExprInv /\ SegsInv /\ AskedInv /\ KindInv /\ SortInv /\ [Next]_vars => SortInv'
  BY SortInvIsStable
<1> QED
  BY <1>1, <1>2, ExpressionInvariant, SegsInvariant, AskedInvariant, KindInvariant, PTL DEF Spec

\* Of the fields and directions that parse_sort reads the last ones count, and what
\* is subtracted from a field is no direction.
THEOREM ParserSorts == Spec => []SortTakesTheLast
<1>1. ASSUME SortInv
      PROVE  SortTakesTheLast
  <2>1. \A n, p : Within(<<n>>, p) <=> p \in nodes[n].from..nodes[n].to
    BY DEF Within
  <2> SUFFICES ASSUME NEW s \in DOMAIN segs, segs[s].cmd.kind = "sort"
               PROVE  LET c      == segs[s].cmd
                          tokens == (c.from + 1)..segs[s].to
                          dirs   == {p \in tokens : /\ toks[p] \in {"asc", "desc"}
                                                    /\ toks[p - 1] \in {"sub", "subsub"}
                                                    /\ \A n \in DOMAIN nodes : ~ Within(<<n>>, p)}
                      IN  /\ \A p \in tokens :
                               (\A e \in DOMAIN c.args : p > nodes[c.args[e]].to) =>
                                  toks[p] \in {"sub", "subsub", "asc", "desc"}
                          /\ IF dirs = {} THEN c.dir = "desc"
                             ELSE \E p \in dirs : c.dir = toks[p] /\ \A q \in dirs : q <= p
    BY DEF SortTakesTheLast
  <2>2. PICK c, to : c = segs[s].cmd /\ to = segs[s].to
    OBVIOUS
  <2>3. SortedTo(c, to)
    BY <1>1, <2>2 DEF SortInv
  <2>4. Directions(c, to) = {p \in (c.from + 1)..to : /\ toks[p] \in {"asc", "desc"}
                                                    /\ toks[p - 1] \in {"sub", "subsub"}
                                                    /\ \A n \in DOMAIN nodes : ~ Within(<<n>>, p)}
    BY <2>1 DEF Directions, Free
  <2> QED
    BY <2>2, <2>3, <2>4 DEF SortedTo
<1> QED
  BY <1>1, SortInvariant, PTL

-----------------------------------------------------------------------------
(***************************************************************************)
(* parse_custom_command.  Two dashes are in no expression, so they tell    *)
(* where the keys are.                                                     *)
(***************************************************************************)
LEMMA DashesAreNoToken ==
  /\ "subsub" \notin Names /\ "subsub" \notin Literals /\ "subsub" \notin Atoms
  /\ "subsub" \notin BinOps /\ "none" \notin Names
<1>1. "subsub" \notin Names /\ "none" \notin Names
  BY KindsAssumption DEF Names
<1>2. "subsub" \notin Literals
  BY <1>1 DEF Literals, Integer, IsInt, IsUint, Float
<1>3. "subsub" \notin Atoms
  BY <1>2 DEF Atoms, IsInt
<1>4. ASSUME NEW i \in 1..5
      PROVE  "subsub" \notin Tiers[i]
  BY <1>4 DEF Tiers
<1>5. "subsub" \notin BinOps
  BY <1>4 DEF BinOps
<1> QED
  BY <1>1, <1>2, <1>3, <1>5

NoDashes(id) == \A p \in nodes[id].from..nodes[id].to : toks[p] # "subsub"

DashInv == \A id \in DOMAIN nodes : NoDashes(id)

\* They are not in a node if they are not in its parts.
PartsDecide ==
  \A id \in DOMAIN nodes :
    (\A i \in DOMAIN nodes[id].parts : NoDashes(nodes[id].parts[i])) => NoDashes(id)

\* Two dashes that are in no part of a node are not in the node.
LEMMA TiledDecides == ExprInv => PartsDecide
<1> SUFFICES ASSUME ExprInv, NEW id \in DOMAIN nodes, NEW n, n = nodes[id],
                    \A i \in DOMAIN n.parts : NoDashes(n.parts[i])
             PROVE  NoDashes(id)
  BY DEF PartsDecide
<1>1. /\ n.from \in 1..n.to /\ n.to \in 1..pos /\ Tiled(n) /\ pos \in Nat
      /\ n.kind = "binary" => Len(n.parts) = 2
      /\ n.kind = "not" => Len(n.parts) = 1
      /\ n.parts \in Seq(Nat)
  BY PlacedFacts DEF ExprInv, NodeHolds
<1>2. PICK from \in Int, to \in Int : from = n.from /\ to = n.to
  BY <1>1
<1>3. ASSUME NEW p \in from..to
      PROVE  toks[p] # "subsub"
  <2>1. CASE n.kind = "leaf"
    <3>1. from = to /\ toks[from] \in Atoms
      BY <1>1, <1>2, <2>1 DEF Tiled
    <3> QED
      BY <3>1, DashesAreNoToken
  <2>2. CASE n.kind = "path"
    <3>1. toks[p] \in {"dot"} \cup Names
      BY <1>1, <1>2, <2>2 DEF Tiled
    <3> QED
      BY <3>1, DashesAreNoToken
  <2>3. CASE n.kind = "not"
    <3>1. PICK x : x = nodes[n.parts[1]]
      OBVIOUS
    <3>2. toks[from] = "not" /\ x.from = from + 1 /\ x.to = to
      BY <1>1, <1>2, <2>3, <3>1 DEF Tiled
    <3>3. 1 \in DOMAIN n.parts
      BY <1>1, <2>3
    <3>4. NoDashes(n.parts[1])
      BY <3>3
    <3>5. p = from \/ p \in (from + 1)..to
      OBVIOUS
    <3> QED
      BY <3>1, <3>2, <3>4, <3>5 DEF NoDashes
  <2>4. CASE n.kind = "binary"
    <3>1. PICK x, y, op : x = nodes[n.parts[1]] /\ y = nodes[n.parts[2]] /\ op = n.op
      OBVIOUS
    <3>2. /\ x.from = from /\ x.to + 1 = op /\ toks[op] \in BinOps
          /\ y.from = op + 1 /\ y.to = to
      BY <1>1, <1>2, <2>4, <3>1 DEF Tiled
    <3>3. 1 \in DOMAIN n.parts /\ 2 \in DOMAIN n.parts
      BY <1>1, <2>4
    <3>4. NoDashes(n.parts[1]) /\ NoDashes(n.parts[2])
      BY <3>3
    <3>5. op \in Int /\ x.to \in Int
      <4>1. n.parts[1] \in 1..(id - 1) /\ n.op \in n.from..n.to
        BY <3>3 DEF ExprInv, NodeHolds
      <4>2. n.parts[1] \in DOMAIN nodes
        <5>1. id \in 1..Len(nodes) /\ Len(nodes) \in Nat
          BY PlacedFacts
        <5>2. n.parts[1] \in 1..Len(nodes)
          BY <4>1, <5>1
        <5> QED
          BY <5>2, PlacedFacts
      <4>3. x.to \in 1..pos
        BY <3>1, <4>2 DEF ExprInv, NodeHolds
      <4> QED
        BY <1>1, <1>2, <3>1, <4>1, <4>3
    <3>6. p \in from..x.to \/ p = op \/ p \in (op + 1)..to
      BY <3>2, <3>5
    <3> QED
      BY <3>1, <3>2, <3>4, <3>6, DashesAreNoToken DEF NoDashes
  <2>5. CASE n.kind \notin {"leaf", "path", "not", "binary"}
    <3>1. /\ toks[from] = "lpar" /\ toks[to] = "rpar"
          /\ \A q \in (from + 1)..(to - 1) : Within(n.parts, q) \/ toks[q] = "comma"
      BY <1>1, <1>2, <2>5 DEF Tiled
    <3>2. p = from \/ p = to \/ p \in (from + 1)..(to - 1)
      OBVIOUS
    <3>3. ASSUME Within(n.parts, p)
          PROVE  toks[p] # "subsub"
      BY <3>3 DEF Within, NoDashes
    <3> QED
      BY <3>1, <3>2, <3>3
  <2> QED
    BY <2>1, <2>2, <2>3, <2>4, <2>5
<1> QED
  BY <1>2, <1>3 DEF NoDashes

\* No step makes a node with two dashes inside.
LEMMA DashInvIsStable ==
  ASSUME ExprInv, ExprInv', PartsDecide', AskedInv, DashInv, [Next]_vars
  PROVE  DashInv'
<1>1. /\ DOMAIN nodes = 1..Len(nodes) /\ DOMAIN nodes' = 1..Len(nodes')
      /\ Len(nodes) \in Nat /\ Len(nodes') \in Nat /\ IsSeq(nodes)
      /\ \A id \in 1..Len(nodes) : id \in 1..Len(nodes') /\ nodes'[id] = nodes[id]
  BY NodesStay, PlacedFacts
<1>2. \A p \in 1..pos : toks'[p] = toks[p]
  <2>1. pos \in Nat /\ Len(toks) \in Nat /\ pos <= Len(toks) /\ IsSeq(toks)
    BY ToksFacts DEF IsSeq
  <2>2. toks' = toks \/ \E k : toks' = Append(toks, k)
    <3>1. CASE Step
      BY <3>1, StepLooks DEF Looks, input
    <3>2. CASE Lex \/ UNCHANGED vars
      BY <3>2 DEF Lex, vars
    <3> QED
      BY <3>1, <3>2 DEF Next
  <2>3. \A p \in 1..pos : p \in 1..Len(toks)
    BY <2>1
  <2> QED
    BY <2>1, <2>2, <2>3, AppendFacts
<1>3. ASSUME NEW id \in 1..Len(nodes)
      PROVE  NoDashes(id)'
  <2>1. PICK a, b : a = nodes[id].from /\ b = nodes[id].to
    OBVIOUS
  <2>2. a \in 1..b /\ b \in 1..pos /\ pos \in Nat
    BY <1>1, <2>1, PlacedFacts DEF ExprInv, NodeHolds
  <2>3. \A p \in a..b : p \in 1..pos
    BY <2>2
  <2>4. \A p \in a..b : toks[p] # "subsub"
    BY <1>1, <2>1 DEF DashInv, NoDashes
  <2> QED
    BY <1>1, <1>2, <2>1, <2>3, <2>4 DEF NoDashes
<1>4. Len(nodes') = Len(nodes) \/ Len(nodes') = Len(nodes) + 1
  <2>1. nodes' = nodes \/ \E n : nodes' = Append(nodes, n)
    <3>1. CASE Step /\ Inside
      BY <3>1, InsideKeeps DEF Boxes
    <3>2. CASE Step /\ ~ Inside
      BY <3>2, OutsideBoxes
    <3>3. CASE Lex \/ UNCHANGED vars
      BY <3>3 DEF Lex, vars
    <3> QED
      BY <3>1, <3>2, <3>3 DEF Next
  <2> QED
    BY <1>1, <2>1, AppendFacts
<1>5. ASSUME NEW id \in 1..Len(nodes'), id \notin 1..Len(nodes)
      PROVE  NoDashes(id)'
  <2>1. id - 1 = Len(nodes)
    <3>1. PICK k, m : k = Len(nodes) /\ m = Len(nodes')
      OBVIOUS
    <3>2. k \in Nat /\ m \in Nat /\ (m = k \/ m = k + 1) /\ id \in 1..m /\ id \notin 1..k
      BY <1>1, <1>4, <1>5, <3>1
    <3>3. id - 1 = k
      BY <3>2
    <3> QED
      BY <3>1, <3>3
  <2>2. \A i \in DOMAIN nodes'[id].parts : nodes'[id].parts[i] \in 1..Len(nodes)
    BY <1>1, <2>1 DEF ExprInv, NodeHolds
  <2>3. \A i \in DOMAIN nodes'[id].parts : NoDashes(nodes[id].parts[i])'
    <3> SUFFICES ASSUME NEW i \in DOMAIN nodes'[id].parts
                 PROVE  NoDashes(nodes[id].parts[i])'
      OBVIOUS
    <3>1. PICK x : x = nodes'[id].parts[i]
      OBVIOUS
    <3>2. NoDashes(x)'
      BY <1>3, <2>2, <3>1
    <3> QED
      BY <3>1, <3>2
  <2> QED
    BY <1>1, <2>3 DEF PartsDecide
<1> QED
  BY <1>1, <1>3, <1>5 DEF DashInv

\* In no program are two dashes inside an expression.
LEMMA DashInvariant == Spec => []DashInv
<1>1. Init => DashInv
  BY DEF Init, DashInv
<1>2. ExprInv /\ ExprInv' /\ PartsDecide' /\ AskedInv /\ DashInv /\ [Next]_vars => DashInv'
  BY DashInvIsStable
<1> QED
  BY <1>1, <1>2, TiledDecides, ExpressionInvariant, AskedInvariant, PTL DEF Spec

\* The keys among the tokens of command c up to number `to`, and those of them that
\* have a value.
Keys(c, to)   == {p \in (c.from + 1)..to : toks[p - 1] = "subsub"}
Valued(c, to) == {p \in Keys(c, to) : p + 1 <= to /\ toks[p + 1] \in Literals}

LastOf(c, to, k, p) ==
  /\ p \in Valued(c, to) /\ toks[p] = k
  /\ \A q \in Valued(c, to) : toks[q] = k => q <= p

\* An option is noted with its last value.
OptionKept(c, to, k) ==
  /\ c.options[k] \in DOMAIN nodes
  /\ \E p \in Valued(c, to) :
       LastOf(c, to, k, p) /\ nodes[c.options[k]].from = p + 1 /\ nodes[c.options[k]].to <= to

\* Token p is in an argument or belongs to an option, also to a value of which
\* the key has a later one.
Used(c, to, p) ==
  \/ p \in Keys(c, to)
  \/ toks[p] = "subsub"
  \/ \E e \in DOMAIN c.args : p \in nodes[c.args[e]].from..nodes[c.args[e]].to
  \/ \E k \in DOMAIN c.options : p \in nodes[c.options[k]].from..nodes[c.options[k]].to
  \/ \E q \in Valued(c, to) : \E id \in DOMAIN nodes :
       ~ LastOf(c, to, toks[q], q) /\ nodes[id].from = q + 1 /\ p \in nodes[id].from..nodes[id].to

GreedyTo(c, to) ==
  /\ toks[c.from - 1] # "subsub"
  /\ c.flags = {toks[p] : p \in Keys(c, to) \ Valued(c, to)}
  /\ DOMAIN c.options = {toks[p] : p \in Valued(c, to)}
  /\ \A k \in DOMAIN c.options : OptionKept(c, to, k)
  /\ Ordered(c.args)
  /\ \A e \in DOMAIN c.args : nodes[c.args[e]].to <= to
  /\ \A p \in (c.from + 1)..to : Used(c, to, p)

\* What parse_custom_command reads behind token `to` leaves that alone.
LEMMA GreedyStays ==
  ASSUME ExprInv, AskedInv, [Next]_vars, NEW to \in Int, Behind(to),
         NEW c, Refers(c), c.from \in 2..to, GreedyTo(c, to)
  PROVE  GreedyTo(c, to)'
<1>1. PICK from \in Int : from = c.from /\ from >= 2 /\ from <= to
  OBVIOUS
<1>2. \A p \in (from - 1)..to : toks'[p] = toks[p]
  <2>1. \A p \in (from - 1)..to : p \in 1..to
    BY <1>1
  <2> QED
    BY <2>1 DEF Behind
<1>3. Keys(c, to)' = Keys(c, to)
  <2>1. \A p \in (from + 1)..to : p - 1 \in (from - 1)..to
    BY <1>1
  <2> QED
    BY <1>1, <1>2, <2>1 DEF Keys
<1>4. \A p \in Keys(c, to) : p \in (from + 1)..to /\ p \in (from - 1)..to
  BY <1>1 DEF Keys
<1>5. Valued(c, to)' = Valued(c, to)
  <2>1. \A p \in Keys(c, to) : p + 1 <= to => p + 1 \in (from - 1)..to
    BY <1>1, <1>4
  <2> QED
    BY <1>2, <1>3, <2>1 DEF Valued
<1>6. \A p \in Keys(c, to) : toks'[p] = toks[p]
  BY <1>2, <1>4
<1>7. Valued(c, to) \subseteq Keys(c, to)
  BY DEF Valued
<1>8. \A k, p : LastOf(c, to, k, p)' <=> LastOf(c, to, k, p)
  BY <1>5, <1>6, <1>7 DEF LastOf
<1>9. /\ \A e \in DOMAIN c.args : nodes'[c.args[e]] = nodes[c.args[e]]
      /\ \A k \in DOMAIN c.options : nodes'[c.options[k]] = nodes[c.options[k]]
      /\ \A k \in DOMAIN c.options : c.options[k] \in DOMAIN nodes'
  BY NodesStay DEF Refers, Behind
<1>10. ASSUME NEW k \in DOMAIN c.options
       PROVE  OptionKept(c, to, k)'
  BY <1>5, <1>8, <1>9 DEF OptionKept, GreedyTo
<1>11. Ordered(c.args)'
  BY <1>9 DEF Ordered, GreedyTo
<1>12. ASSUME NEW p \in (from + 1)..to
       PROVE  Used(c, to, p)'
  <2>1. Used(c, to, p)
    BY <1>1 DEF GreedyTo
  <2>2. toks'[p] = toks[p]
    BY <1>1, <1>2
  <2>3. \A q \in Valued(c, to) : toks'[q] = toks[q]
    BY <1>6, <1>7
  <2>4. \A id \in DOMAIN nodes : id \in DOMAIN nodes' /\ nodes'[id] = nodes[id]
    BY NodesStay
  <2> QED
    BY <1>3, <1>5, <1>8, <1>9, <2>1, <2>2, <2>3, <2>4 DEF Used
<1>13. c.flags = {toks[p] : p \in Keys(c, to) \ Valued(c, to)}'
  BY <1>3, <1>5, <1>6 DEF GreedyTo
<1>14. DOMAIN c.options = {toks[p] : p \in Valued(c, to)}'
  BY <1>5, <1>6, <1>7 DEF GreedyTo
<1>15. toks'[c.from - 1] # "subsub"
  BY <1>1, <1>2 DEF GreedyTo
<1>16. \A e \in DOMAIN c.args : nodes'[c.args[e]].to <= to
  BY <1>9 DEF GreedyTo
<1> QED
  BY <1>1, <1>10, <1>11, <1>12, <1>13, <1>14, <1>15, <1>16 DEF GreedyTo

\* Nodes begin and end at numbers.
LEMMA NodeEnds ==
  ASSUME ExprInv
  PROVE  \A id \in DOMAIN nodes : nodes[id].from \in Int /\ nodes[id].to \in Int
<1>1. ASSUME NEW id \in DOMAIN nodes
      PROVE  nodes[id].from \in Int /\ nodes[id].to \in Int
  <2>1. PICK a, b : a = nodes[id].from /\ b = nodes[id].to
    OBVIOUS
  <2>2. a \in 1..b /\ b \in 1..pos
    BY <2>1 DEF ExprInv, NodeHolds
  <2>3. a \in Int /\ b \in Int
    BY <2>2
  <2> QED
    BY <2>1, <2>3
<1> QED
  BY <1>1

\* No value is read from token `to` on: what is noted of the options stays.
NoValue(c, to, d, upto) ==
  /\ to \in Int /\ upto \in Int /\ to <= upto
  /\ Keys(c, to) \subseteq Keys(d, upto) /\ Valued(d, upto) = Valued(c, to)
  /\ d.from = c.from /\ d.options = c.options
  /\ \A e \in DOMAIN c.args : e \in DOMAIN d.args /\ d.args[e] = c.args[e]

SameOptions(c, to, d, upto) ==
  /\ toks[d.from - 1] # "subsub"
  /\ DOMAIN d.options = {toks[p] : p \in Valued(d, upto)}
  /\ \A k \in DOMAIN d.options : OptionKept(d, upto, k)
  /\ \A p : Used(c, to, p) => Used(d, upto, p)
  /\ \A e \in DOMAIN c.args : nodes[c.args[e]].to <= upto

\* Tokens that are no values leave the options of a command as they are.
LEMMA OptionsStay ==
  ASSUME ExprInv, NEW c, NEW d, Refers(c), NEW to, NEW upto,
         GreedyTo(c, to), NoValue(c, to, d, upto)
  PROVE  SameOptions(c, to, d, upto)
<1> USE DEF NoValue
<1>1. \A k, p : LastOf(d, upto, k, p) <=> LastOf(c, to, k, p)
  BY DEF LastOf
<1>2. \A id \in DOMAIN nodes : nodes[id].to <= to => nodes[id].to <= upto
  BY NodeEnds
<1>3. ASSUME NEW k \in DOMAIN d.options
      PROVE  OptionKept(d, upto, k)
  BY <1>1, <1>2 DEF OptionKept, GreedyTo
<1>4. ASSUME NEW p, Used(c, to, p)
      PROVE  Used(d, upto, p)
  BY <1>1, <1>4 DEF Used
<1>5. \A e \in DOMAIN c.args : nodes[c.args[e]].to <= upto
  BY <1>2, PlacedFacts DEF Refers, GreedyTo
<1> QED
  BY <1>3, <1>4, <1>5 DEF GreedyTo, SameOptions

\* A key without a value.
LEMMA GreedyFlag ==
  ASSUME ExprInv, NEW c, NEW d, Refers(c), NEW from \in Int, NEW to \in Int, NEW p \in Int,
         p = to + 2, c.from = from, d.from = from, from <= to, d.args = c.args,
         d.options = c.options, d.flags = c.flags \cup {toks[p]},
         GreedyTo(c, to), toks[to] # "subsub", toks[to + 1] = "subsub"
  PROVE  GreedyTo(d, p)
<1>1. Keys(d, p) = Keys(c, to) \cup {p}
  <2>1. \A q \in (from + 1)..p : q \in (from + 1)..to \/ q = p \/ (q = p - 1 /\ q - 1 = to)
    OBVIOUS
  <2>2. \A q \in (from + 1)..to : q \in (from + 1)..p
    OBVIOUS
  <2>3. p \in (from + 1)..p /\ p - 1 = to + 1
    OBVIOUS
  <2> QED
    BY <2>1, <2>2, <2>3 DEF Keys
<1>2. \A q \in Keys(c, to) : q \in Int /\ q <= to
  BY DEF Keys
<1>3. Valued(d, p) = Valued(c, to)
  <2>1. ASSUME NEW q \in Keys(c, to)
        PROVE  q + 1 <= p /\ (q + 1 <= to \/ q = to)
    BY <1>2
  <2>2. ~ (p + 1 <= p)
    OBVIOUS
  <2>3. toks[to + 1] \notin Literals
    BY DashesAreNoToken
  <2> QED
    BY <1>1, <2>1, <2>2, <2>3 DEF Valued
<1>4. p \notin Valued(c, to) /\ Valued(c, to) \subseteq Keys(c, to)
  BY <1>2 DEF Valued
<1>5. d.flags = {toks[q] : q \in Keys(d, p) \ Valued(d, p)}
  <2>1. Keys(d, p) \ Valued(d, p) = (Keys(c, to) \ Valued(c, to)) \cup {p}
    BY <1>1, <1>3, <1>4
  <2> QED
    BY <2>1 DEF GreedyTo
<1>6. /\ toks[d.from - 1] # "subsub"
      /\ DOMAIN d.options = {toks[q] : q \in Valued(d, p)}
      /\ \A k \in DOMAIN d.options : OptionKept(d, p, k)
      /\ \A q : Used(c, to, q) => Used(d, p, q)
      /\ \A e \in DOMAIN c.args : nodes[c.args[e]].to <= p
  <2>1. to <= p /\ Keys(c, to) \subseteq Keys(d, p)
    BY <1>1
  <2>2. NoValue(c, to, d, p)
    BY <1>3, <2>1 DEF NoValue
  <2>3. SameOptions(c, to, d, p)
    BY <2>2, OptionsStay
  <2> QED
    BY <2>3 DEF SameOptions
<1>7. ASSUME NEW q \in (from + 1)..p
      PROVE  Used(d, p, q)
  <2>1. q \in (from + 1)..to \/ q = p \/ q = to + 1
    OBVIOUS
  <2>2. CASE q \in (from + 1)..to
    BY <1>6, <2>2 DEF GreedyTo
  <2>3. CASE q = p \/ q = to + 1
    BY <1>1, <2>3 DEF Used
  <2> QED
    BY <2>1, <2>2, <2>3
<1>8. Ordered(d.args) /\ \A e \in DOMAIN d.args : nodes[d.args[e]].to <= p
  BY <1>6 DEF GreedyTo
<1> QED
  BY <1>5, <1>6, <1>7, <1>8 DEF GreedyTo

\* One more argument.
LEMMA GreedyArgument ==
  ASSUME ExprInv, NEW c, NEW d, Refers(c), NEW from \in Int, NEW to \in Int, NEW upto \in Int,
         NEW e \in DOMAIN nodes, c.from = from, d.from = from, from <= to, to < upto,
         d.args = Append(c.args, e), d.options = c.options, d.flags = c.flags,
         nodes[e].from = to + 1, nodes[e].to = upto, NoDashes(e),
         GreedyTo(c, to), toks[to] # "subsub", to \in Keys(c, to) => toks[to + 1] \notin Literals
  PROVE  GreedyTo(d, upto)
<1>1. \A q \in (to + 1)..upto : toks[q] # "subsub"
  BY DEF NoDashes
<1>2. Keys(d, upto) = Keys(c, to)
  <2>1. ASSUME NEW q \in (from + 1)..upto
        PROVE  q \in (from + 1)..to \/ (q - 1 \in (to + 1)..upto \/ q - 1 = to)
    OBVIOUS
  <2>2. \A q \in (from + 1)..to : q \in (from + 1)..upto
    OBVIOUS
  <2> QED
    BY <1>1, <2>1, <2>2 DEF Keys
<1>3. \A q \in Keys(c, to) : q \in Int /\ q <= to
  BY DEF Keys
<1>4. Valued(d, upto) = Valued(c, to)
  <2>1. ASSUME NEW q \in Keys(c, to)
        PROVE  q + 1 <= upto /\ (q + 1 <= to \/ q = to)
    BY <1>3
  <2>2. ~ (to + 1 <= to)
    OBVIOUS
  <2> QED
    BY <1>2, <2>1, <2>2 DEF Valued
<1>5. PICK a \in Seq(Nat) : a = c.args
  BY DEF Refers
<1>6. /\ e \in Nat /\ DOMAIN d.args = 1..(Len(a) + 1) /\ d.args[Len(a) + 1] = e
      /\ \A i \in DOMAIN a : i \in DOMAIN d.args /\ d.args[i] = a[i]
      /\ \A i \in DOMAIN d.args : i \in DOMAIN a \/ i = Len(a) + 1
  <2>1. e \in Nat
    BY PlacedFacts
  <2> QED
    BY <1>5, <2>1, PartsGrow
<1>7. /\ toks[d.from - 1] # "subsub"
      /\ DOMAIN d.options = {toks[q] : q \in Valued(d, upto)}
      /\ \A k \in DOMAIN d.options : OptionKept(d, upto, k)
      /\ \A q : Used(c, to, q) => Used(d, upto, q)
      /\ \A i \in DOMAIN c.args : nodes[c.args[i]].to <= upto
  <2>1. to <= upto /\ Keys(c, to) \subseteq Keys(d, upto)
    BY <1>2
  <2>2. \A i \in DOMAIN c.args : i \in DOMAIN d.args /\ d.args[i] = c.args[i]
    BY <1>5, <1>6
  <2>3. NoValue(c, to, d, upto)
    BY <1>4, <2>1, <2>2 DEF NoValue
  <2>4. SameOptions(c, to, d, upto)
    BY <2>3, OptionsStay
  <2> QED
    BY <2>4 DEF SameOptions
<1>8. ASSUME NEW q \in (from + 1)..upto
      PROVE  Used(d, upto, q)
  <2>1. CASE q \in (from + 1)..to
    BY <1>7, <2>1 DEF GreedyTo
  <2>2. CASE q \in (to + 1)..upto
    <3>1. Len(a) + 1 \in DOMAIN d.args
      BY <1>6
    <3> QED
      BY <1>6, <2>2, <3>1 DEF Used
  <2> QED
    BY <2>1, <2>2
<1>9. \A i \in DOMAIN d.args : nodes[d.args[i]].to <= upto
  BY <1>5, <1>6, <1>7
<1>10. Ordered(d.args)
  <2> SUFFICES ASSUME NEW i \in DOMAIN d.args, NEW j \in DOMAIN d.args, i < j
               PROVE  nodes[d.args[i]].to < nodes[d.args[j]].from
    BY DEF Ordered
  <2>1. i \in DOMAIN a
    BY <1>6
  <2>2. CASE j \in DOMAIN a
    BY <1>5, <1>6, <2>1, <2>2 DEF Ordered, GreedyTo
  <2>3. CASE j = Len(a) + 1
    <3>1. PICK x : x = nodes[a[i]].to
      OBVIOUS
    <3>2. x <= to /\ x \in Int
      BY <1>5, <2>1, <3>1, NodeEnds, PlacedFacts DEF GreedyTo, Refers
    <3>3. x < to + 1
      BY <3>2
    <3> QED
      BY <1>6, <2>1, <2>3, <3>1, <3>3
  <2> QED
    BY <1>6, <2>2, <2>3
<1> QED
  BY <1>2, <1>4, <1>7, <1>8, <1>9, <1>10 DEF GreedyTo

\* A key with a value.
LEMMA GreedyValue ==
  ASSUME ExprInv, NEW c, NEW d, Refers(c), NEW from \in Int, NEW to \in Int, NEW upto \in Int,
         NEW key \in Int, key = to + 2,
         NEW e \in DOMAIN nodes, c.from = from, d.from = from, from <= to, key < upto,
         d.args = c.args, d.flags = c.flags,
         DOMAIN d.options = DOMAIN c.options \cup {toks[key]},
         \A k \in DOMAIN d.options : d.options[k] = IF k = toks[key] THEN e ELSE c.options[k],
         nodes[e].from = key + 1, nodes[e].to = upto, NoDashes(e),
         GreedyTo(c, to), toks[to] # "subsub", toks[to + 1] = "subsub", toks[key] # "subsub",
         toks[key + 1] \in Literals
  PROVE  GreedyTo(d, upto)
<1>1. \A q \in (key + 1)..upto : toks[q] # "subsub"
  BY DEF NoDashes
<1>2. Keys(d, upto) = Keys(c, to) \cup {key}
  <2>1. ASSUME NEW q \in (from + 1)..upto
        PROVE  \/ q \in (from + 1)..to \/ q = key \/ q - 1 = to \/ q - 1 = key
               \/ q - 1 \in (key + 1)..upto
    OBVIOUS
  <2>2. \A q \in (from + 1)..to : q \in (from + 1)..upto
    OBVIOUS
  <2>3. key \in (from + 1)..upto /\ key - 1 = to + 1
    OBVIOUS
  <2> QED
    BY <1>1, <2>1, <2>2, <2>3 DEF Keys
<1>3. \A q \in Keys(c, to) : q \in Int /\ q <= to
  BY DEF Keys
<1>4. Valued(d, upto) = Valued(c, to) \cup {key}
  <2>1. ASSUME NEW q \in Keys(c, to)
        PROVE  q + 1 <= upto /\ (q + 1 <= to \/ q = to)
    BY <1>3
  <2>2. key + 1 <= upto
    OBVIOUS
  <2>3. toks[to + 1] \notin Literals
    BY DashesAreNoToken
  <2>4. ~ (to + 1 <= to)
    OBVIOUS
  <2> QED
    BY <1>2, <2>1, <2>2, <2>3, <2>4 DEF Valued
<1>5. Valued(c, to) \subseteq Keys(c, to) /\ \A q \in Valued(c, to) : q \in Int /\ q < key
  <2>1. \A q \in Keys(c, to) : q \in Int /\ q < key
    BY <1>3
  <2> QED
    BY <2>1 DEF Valued
<1>6. LastOf(d, upto, toks[key], key)
  BY <1>4, <1>5 DEF LastOf
<1>7. \A k, p : k # toks[key] => (LastOf(d, upto, k, p) <=> LastOf(c, to, k, p))
  BY <1>4 DEF LastOf
<1>8. \A q \in Valued(c, to) : ~ LastOf(d, upto, toks[key], q)
  BY <1>4, <1>5 DEF LastOf
<1>9. to <= upto /\ \A id \in DOMAIN nodes : nodes[id].to <= to => nodes[id].to <= upto
  BY NodeEnds
<1>10. ASSUME NEW k \in DOMAIN d.options
       PROVE  OptionKept(d, upto, k)
  <2>1. CASE k = toks[key]
    <3>1. d.options[k] = e /\ nodes[e].to <= upto /\ key \in Valued(d, upto)
      BY <1>4, <2>1
    <3> QED
      BY <1>6, <2>1, <3>1 DEF OptionKept
  <2>2. CASE k # toks[key]
    <3>1. k \in DOMAIN c.options /\ d.options[k] = c.options[k]
      BY <2>2
    <3>2. OptionKept(c, to, k)
      BY <3>1 DEF GreedyTo
    <3> QED
      BY <1>4, <1>7, <1>9, <2>2, <3>1, <3>2 DEF OptionKept
  <2> QED
    BY <2>1, <2>2
<1>11. DOMAIN d.options = {toks[q] : q \in Valued(d, upto)}
  BY <1>4 DEF GreedyTo
<1>12. d.flags = {toks[q] : q \in Keys(d, upto) \ Valued(d, upto)}
  <2>1. key \notin Keys(c, to)
    BY <1>3
  <2>2. Keys(d, upto) \ Valued(d, upto) = Keys(c, to) \ Valued(c, to)
    BY <1>2, <1>4, <2>1
  <2> QED
    BY <2>2 DEF GreedyTo
<1>13. ASSUME NEW q \in (from + 1)..to
       PROVE  Used(d, upto, q)
  <2>1. Used(c, to, q)
    BY DEF GreedyTo
  <2>2. CASE q \in Keys(c, to) \/ toks[q] = "subsub"
    BY <1>2, <2>2 DEF Used
  <2>3. CASE \E i \in DOMAIN c.args : q \in nodes[c.args[i]].from..nodes[c.args[i]].to
    BY <2>3 DEF Used
  <2>4. ASSUME NEW k \in DOMAIN c.options,
               q \in nodes[c.options[k]].from..nodes[c.options[k]].to
        PROVE  Used(d, upto, q)
    <3>1. CASE k # toks[key]
      BY <2>4, <3>1 DEF Used
    <3>2. CASE k = toks[key]
      <4>1. PICK p \in Valued(c, to) : toks[p] = toks[key] /\ nodes[c.options[k]].from = p + 1
        BY <2>4, <3>2 DEF GreedyTo, OptionKept, LastOf
      <4>2. c.options[k] \in DOMAIN nodes
        BY <2>4, PlacedFacts DEF Refers
      <4>3. p \in Valued(d, upto) /\ ~ LastOf(d, upto, toks[p], p)
        BY <1>4, <1>8, <4>1
      <4> QED
        BY <2>4, <4>1, <4>2, <4>3 DEF Used
    <3> QED
      BY <3>1, <3>2
  <2>5. ASSUME NEW p \in Valued(c, to), NEW id \in DOMAIN nodes, nodes[id].from = p + 1,
               q \in nodes[id].from..nodes[id].to, ~ LastOf(c, to, toks[p], p)
        PROVE  Used(d, upto, q)
    <3>1. ~ LastOf(d, upto, toks[p], p)
      BY <1>7, <1>8, <2>5
    <3> QED
      BY <1>4, <2>5, <3>1 DEF Used
  <2> QED
    BY <2>1, <2>2, <2>3, <2>4, <2>5 DEF Used
<1>14. ASSUME NEW q \in (from + 1)..upto
       PROVE  Used(d, upto, q)
  <2>1. q \in (from + 1)..to \/ q = to + 1 \/ q = key \/ q \in (key + 1)..upto
    OBVIOUS
  <2>2. CASE q = to + 1 \/ q = key
    BY <1>2, <2>2 DEF Used
  <2>3. CASE q \in (key + 1)..upto
    BY <2>3 DEF Used
  <2> QED
    BY <1>13, <2>1, <2>2, <2>3
<1>15. /\ toks[d.from - 1] # "subsub" /\ Ordered(d.args)
       /\ \A i \in DOMAIN d.args : nodes[d.args[i]].to <= upto
  BY <1>9, PlacedFacts DEF GreedyTo, Refers
<1> QED
  BY <1>10, <1>11, <1>12, <1>14, <1>15 DEF GreedyTo

\* What parse_custom_command has dealt with: not yet the expression it has asked for,
\* nor a key of which it does not know yet whether it has a value.
OptDone ==
  CASE ctl.at \in Parsing -> IF cmd.key = "none" THEN Asked - 1 ELSE Asked - 3
    [] ctl.at = "key"     -> pos - 1
    [] ctl.at = "keyed"   -> pos - 2
    [] OTHER              -> pos

\* No literal is behind token p, and none will be.
NoLiteral(p) == IF p < Len(toks) THEN toks[p + 1] \notin Literals ELSE ended

Settled(c, to) == toks[to] # "subsub" /\ (to \in Keys(c, to) => NoLiteral(to))

\* Token p is the key of command c.
KeyAt(c, p) == toks[p - 1] = "subsub" /\ toks[p] = c.key /\ c.key \in Names

KeyHolds ==
  /\ ctl.at \in {"custom", "key"} => cmd.key = "none"
  /\ ctl.at = "key" => toks[pos] = "subsub"
  /\ ctl.at = "keyed" => KeyAt(cmd, pos)
  /\ ctl.at \in Parsing /\ cmd.key # "none" =>
       KeyAt(cmd, Asked - 1) /\ Asked <= Len(toks) /\ toks[Asked] \in Literals

OptInv ==
  /\ ctl.at = "command" => pos >= 1 /\ toks[pos] # "subsub"
  /\ \A s \in DOMAIN segs : segs[s].cmd.kind = "custom" => GreedyTo(segs[s].cmd, segs[s].to)
  /\ ctl.at \notin Between /\ cmd.kind = "custom" =>
       OptDone \in cmd.from..pos /\ GreedyTo(cmd, OptDone) /\ Settled(cmd, OptDone) /\ KeyHolds

\* A command with the same options.
LEMMA SameNoted ==
  ASSUME NEW c, NEW d, NEW to, d.from = c.from, d.args = c.args, d.flags = c.flags,
         d.options = c.options
  PROVE  /\ GreedyTo(c, to) => GreedyTo(d, to)
         /\ Settled(c, to) => Settled(d, to)
<1>1. Keys(d, to) = Keys(c, to)
  BY DEF Keys
<1>2. Valued(d, to) = Valued(c, to)
  BY <1>1 DEF Valued
<1>3. \A k, p : LastOf(d, to, k, p) <=> LastOf(c, to, k, p)
  BY <1>2 DEF LastOf
<1>4. \A k : OptionKept(d, to, k) <=> OptionKept(c, to, k)
  BY <1>2, <1>3 DEF OptionKept
<1>5. \A p : Used(d, to, p) <=> Used(c, to, p)
  BY <1>1, <1>2, <1>3 DEF Used
<1> QED
  BY <1>1, <1>2, <1>4, <1>5 DEF GreedyTo, Settled

\* A token that is known to be no literal remains so.
LEMMA NoLiteralStays ==
  ASSUME ExprInv, [Next]_vars, NEW p \in Int, p >= 0, p <= pos, NoLiteral(p)
  PROVE  NoLiteral(p)'
<1>1. Len(toks) \in Nat /\ pos \in Nat /\ pos <= Len(toks) /\ IsSeq(toks)
  BY ToksFacts DEF IsSeq
<1>2. CASE toks' = toks /\ ended' = ended
  BY <1>2 DEF NoLiteral
<1>3. CASE ~ (toks' = toks /\ ended' = ended)
  <2>1. Lex
    <3>1. CASE Step
      BY <1>3, <3>1, StepLooks DEF Looks, input
    <3>2. CASE UNCHANGED vars
      BY <1>3, <3>2 DEF vars
    <3> QED
      BY <3>1, <3>2 DEF Next
  <2>2. ~ (pos < Len(toks)) /\ ~ ended
    BY <2>1 DEF Lex, Looked
  <2>3. p < Len(toks) /\ toks[p + 1] \notin Literals
    BY <2>2 DEF NoLiteral
  <2>4. p + 1 \in 1..Len(toks)
    BY <1>1, <2>3
  <2>5. toks' = toks \/ \E k : toks' = Append(toks, k)
    BY <2>1 DEF Lex
  <2>6. toks'[p + 1] = toks[p + 1] /\ (Len(toks') = Len(toks) \/ Len(toks') = Len(toks) + 1)
    BY <1>1, <2>4, <2>5, AppendFacts
  <2>7. p < Len(toks')
    <3>1. PICK k, m : k = Len(toks) /\ m = Len(toks')
      OBVIOUS
    <3>2. k \in Nat /\ p < k /\ (m = k \/ m = k + 1)
      BY <1>1, <2>3, <2>6, <3>1
    <3> QED
      BY <3>1, <3>2
  <2> QED
    BY <2>3, <2>6, <2>7 DEF NoLiteral
<1> QED
  BY <1>2, <1>3

\* What is noted of a custom command stays true while it reads on.
LEMMA OptKept ==
  ASSUME ExprInv, SegsInv, AskedInv, KindInv, OptInv, [Next]_vars,
         ctl.at \notin Between, NEW c, c = cmd, c.kind = "custom", NEW to, to = OptDone
  PROVE  /\ c.from \in 2..to /\ to \in 2..pos
         /\ GreedyTo(c, to) /\ GreedyTo(c, to)' /\ Settled(c, to) /\ Settled(c, to)' /\ KeyHolds
         /\ ctl.at \in {"custom", "key", "keyed"} \cup Parsing
<1>1. PICK from : from = c.from
  OBVIOUS
<1>2. /\ from \in 2..pos /\ to \in from..pos /\ GreedyTo(c, to) /\ Settled(c, to) /\ pos \in Nat
      /\ KeyHolds
  BY <1>1, ToksFacts DEF SegsInv, OptInv
<1>3. to \in Int /\ to <= pos /\ from \in 2..to /\ to \in 2..pos /\ to \in 1..to
  BY <1>2
<1>4. ASSUME ctl.at \in Parsing
      PROVE  to < Asked
  <2>1. to = IF cmd.key = "none" THEN Asked - 1 ELSE Asked - 3
    BY <1>4 DEF OptDone, Parsing
  <2>2. PICK a \in Int : a = Asked
    BY <1>4, AskedFacts
  <2>3. to = a - 1 \/ to = a - 3
    BY <2>1, <2>2
  <2> QED
    BY <2>2, <2>3
<1>5. Behind(to)
  BY <1>3, <1>4, StepBehind
<1>6. GreedyTo(c, to)'
  BY <1>1, <1>2, <1>3, <1>5, GreedyStays DEF KindInv
<1>7. ctl.at \in {"custom", "key", "keyed"} \cup Parsing
  <2>1. ctl.at \in Modes
    BY DEF ExprInv, ShapeHolds
  <2> QED
    BY <2>1 DEF KindInv, Modes, Between, Parsing
<1>8. Settled(c, to)'
  <2>1. \A p \in 1..to : toks'[p] = toks[p]
    BY <1>5 DEF Behind
  <2>2. toks'[to] # "subsub"
    BY <1>2, <1>3, <2>1 DEF Settled
  <2>3. Keys(c, to)' = Keys(c, to)
    <3>1. \A p \in (from + 1)..to : p - 1 \in 1..to
      BY <1>3
    <3> QED
      BY <1>1, <2>1, <3>1 DEF Keys
  <2>4. NoLiteral(to) => NoLiteral(to)'
    BY <1>3, NoLiteralStays
  <2> QED
    BY <1>2, <2>2, <2>3, <2>4 DEF Settled
<1> QED
  BY <1>1, <1>2, <1>3, <1>6, <1>7, <1>8

\* What holds of a custom command that is being parsed.
Optioned == OptDone \in cmd.from..pos /\ GreedyTo(cmd, OptDone) /\ Settled(cmd, OptDone) /\ KeyHolds

\* It is enough to say it of the new command and position, before the step.
LEMMA OptionedFrom ==
  ASSUME ExprInv, SegsInv, Step, nodes' = nodes, toks' = toks,
         NEW d, NEW upto, d = cmd', upto = OptDone', d.from \in 2..upto, upto \in 2..pos',
         GreedyTo(d, upto),
         toks[upto] # "subsub", upto \in Keys(d, upto) => NoLiteral(upto), KeyHolds'
  PROVE  Optioned'
<1>1. GreedyTo(d, upto)'
  BY DEF GreedyTo, Used, OptionKept, LastOf, Valued, Keys, Ordered
<1>2. ended' = ended
  BY StepLooks DEF Looks, input
<1>3. Settled(d, upto)'
  BY <1>2 DEF Settled, Keys, NoLiteral
<1>4. GreedyTo(cmd, OptDone)' /\ Settled(cmd, OptDone)'
  BY <1>1, <1>3
<1>5. PICK from : from = d.from
  OBVIOUS
<1>6. upto \in from..pos'
  BY <1>5
<1> QED
  BY <1>4, <1>5, <1>6 DEF Optioned

\* Inside of an expression.
LEMMA OptInside ==
  ASSUME ExprInv, SegsInv, AskedInv, KindInv, OptInv, Step, Inside, cmd'.kind = "custom"
  PROVE  Optioned'
<1>1. cmd' = cmd /\ Asked' = Asked
  BY InsideKeeps
<1>2. PICK c, to : c = cmd /\ to = OptDone
  OBVIOUS
<1>3. /\ c.from \in 2..to /\ to \in 2..pos /\ GreedyTo(c, to)' /\ Settled(c, to)' /\ KeyHolds
  BY <1>1, <1>2, OptKept DEF Inside, Parsing, Between, Next
<1>4. OptDone' = to
  BY <1>1, <1>2 DEF OptDone, Inside, Parsing
<1>5. toks' = toks /\ (pos' = pos \/ pos' = pos + 1) /\ pos \in Nat
  BY StepLooks, ToksFacts DEF Looks, GoesOn, Ends, input
<1>6. KeyHolds'
  <2>1. ctl.at \in Parsing /\ ctl'.at \in Parsing
    BY DEF Inside
  <2> QED
    BY <1>1, <1>3, <1>5, <2>1 DEF KeyHolds, KeyAt, Parsing
<1>7. OptDone' \in cmd'.from..pos'
  <2>1. PICK from : from = c.from
    OBVIOUS
  <2>2. to \in from..pos'
    BY <1>3, <1>5, <2>1
  <2> QED
    BY <1>1, <1>2, <1>4, <2>1, <2>2
<1>8. GreedyTo(cmd, OptDone)' /\ Settled(cmd, OptDone)'
  BY <1>1, <1>2, <1>3, <1>4
<1> QED
  BY <1>6, <1>7, <1>8 DEF Optioned

\* Another part of the command is read, or it asks for an expression.
LEMMA OptNotes ==
  ASSUME ExprInv, SegsInv, AskedInv, KindInv, OptInv, Step, ~ Inside, Noted(cmd'),
         cmd'.kind = "custom"
  PROVE  Optioned'
<1>1. /\ toks' = toks /\ nodes' = nodes /\ pos \in Nat /\ IsCommand(cmd) /\ Looked
      /\ Len(toks) \in Nat
      /\ pos < Len(toks) => Tok = toks[pos + 1]
      /\ Tok # "end" => pos + 1 <= Len(toks) /\ Tok = toks[pos + 1]
  <2>1. Tok # "end" => pos + 1 \in 1..Len(toks) /\ Tok = toks[pos + 1]
    BY ToksFacts
  <2>2. Tok # "end" => pos + 1 <= Len(toks) /\ Tok = toks[pos + 1]
    BY <2>1
  <2> QED
    BY <2>2, StepLooks, ToksFacts, OutsideBoxes DEF Looks, input, SegsInv
<1>2. PICK c, to, d, k : c = cmd /\ to = OptDone /\ d = cmd' /\ k = Tok
  OBVIOUS
<1>3. cmd.kind = "custom"
  <2>1. PICK x : x = cmd.flags \cup {cmd.key}
    OBVIOUS
  <2>2. \/ cmd' = cmd \/ cmd' = [cmd EXCEPT !.key = k] \/ cmd' = [cmd EXCEPT !.dir = k]
        \/ cmd' = [cmd EXCEPT !.flags = x, !.key = "none"]
    BY <1>2, <2>1 DEF Noted
  <2> QED
    BY <1>1, <2>2 DEF IsCommand
<1>4. ctl.at \in {"custom", "key", "keyed"}
  BY <1>3 DEF Noted, KindInv
<1>5. /\ c.from \in 2..to /\ to \in 2..pos /\ GreedyTo(c, to) /\ Settled(c, to) /\ KeyHolds
  BY <1>2, <1>3, <1>4, OptKept DEF Between, Next
<1>6. PICK from \in Int : from = c.from /\ 2 <= from /\ from <= to /\ to \in Int /\ to <= pos
  BY <1>5
<1>8. ASSUME d.from = c.from, d.args = c.args, d.flags = c.flags, d.options = c.options,
             OptDone' = to, KeyHolds', pos' = pos \/ pos' = pos + 1
      PROVE  Optioned'
  <2>1. GreedyTo(d, to) /\ Settled(d, to)
    BY <1>5, <1>8, SameNoted
  <2>2. d.from \in 2..to /\ to \in 2..pos'
    BY <1>1, <1>5, <1>8
  <2> QED
    BY <1>1, <1>2, <1>8, <2>1, <2>2, OptionedFrom DEF Settled
<1>9. CASE ctl.at \in {"custom", "keyed"} /\ ctl'.at = "prefix"
  <2>1. pos' = pos /\ cmd' = cmd /\ (ctl.at = "keyed" => Tok \in Literals)
    BY <1>9 DEF Noted
  <2>2. Asked' = pos + 1
    BY <1>9, <2>1, AsksKeeps DEF Parsing
  <2>3. OptDone = IF ctl.at = "keyed" THEN pos - 2 ELSE pos
    BY <1>9 DEF OptDone, Parsing
  <2>4. OptDone' = IF cmd'.key = "none" THEN Asked' - 1 ELSE Asked' - 3
    BY <1>9 DEF OptDone, Parsing
  <2>5. cmd.key = "none" <=> ctl.at = "custom"
    BY <1>5, <1>9, DashesAreNoToken DEF KeyHolds, KeyAt
  <2>6. OptDone' = to
    BY <1>1, <1>2, <1>9, <2>1, <2>2, <2>3, <2>4, <2>5
  <2>7. KeyHolds'
    <3>1. ctl.at = "keyed" => pos + 1 <= Len(toks) /\ toks[pos + 1] \in Literals
      BY <1>1, <2>1, EndIsNoToken
    <3>2. Asked' - 1 = pos
      BY <1>1, <2>2
    <3>3. ctl.at = "keyed" => KeyAt(cmd, Asked - 1)'
      BY <1>1, <1>5, <2>1, <3>2 DEF KeyHolds, KeyAt
    <3>4. cmd'.key # "none" => ctl.at = "keyed"
      BY <1>9, <2>1, <2>5
    <3> QED
      BY <1>1, <1>9, <2>1, <2>2, <3>1, <3>3, <3>4 DEF KeyHolds, Parsing
  <2> QED
    BY <1>2, <1>8, <2>1, <2>6, <2>7
<1>10. CASE ctl.at = "custom" /\ ctl'.at = "key"
  <2>1. pos' = pos + 1 /\ cmd' = cmd /\ Tok = "subsub"
    BY <1>10 DEF Noted
  <2>2. OptDone = pos /\ OptDone' = pos' - 1
    BY <1>10 DEF OptDone, Parsing
  <2>3. OptDone' = to
    BY <1>1, <1>2, <2>1, <2>2
  <2>4. KeyHolds'
    BY <1>1, <1>5, <1>10, <2>1 DEF KeyHolds, Parsing
  <2> QED
    BY <1>2, <1>8, <2>1, <2>3, <2>4
<1>11. CASE ctl.at = "key" /\ ctl'.at = "keyed"
  <2>1. pos' = pos + 1 /\ d = [c EXCEPT !.key = k] /\ k \in Names
    BY <1>2, <1>11 DEF Noted
  <2>2. OptDone = pos - 1 /\ OptDone' = pos' - 2
    BY <1>11 DEF OptDone, Parsing
  <2>3. OptDone' = to
    BY <1>1, <1>2, <2>1, <2>2
  <2>4. /\ d.from = c.from /\ d.args = c.args /\ d.flags = c.flags /\ d.options = c.options
        /\ d.key = k
    BY <1>1, <1>2, <2>1 DEF IsCommand
  <2>5. KeyHolds'
    <3>1. toks[pos] = "subsub" /\ pos' - 1 = pos /\ toks[pos + 1] = k
      BY <1>1, <1>2, <1>5, <1>11, <2>1, EndIsNoToken DEF KeyHolds
    <3>2. KeyAt(cmd, pos)'
      BY <1>1, <1>2, <2>1, <2>4, <3>1 DEF KeyAt
    <3> QED
      BY <1>11, <3>2 DEF KeyHolds, Parsing
  <2> QED
    BY <1>8, <2>1, <2>3, <2>4, <2>5
<1>12. CASE ctl.at = "keyed" /\ ctl'.at = "custom"
  <2>1. PICK x : x = c.flags \cup {c.key}
    OBVIOUS
  <2>2. pos' = pos /\ d = [c EXCEPT !.flags = x, !.key = "none"] /\ Tok \notin Literals
    BY <1>2, <1>12, <2>1 DEF Noted
  <2>3. /\ d.from = c.from /\ d.args = c.args /\ d.flags = x /\ d.options = c.options
        /\ d.key = "none"
    BY <1>1, <1>2, <2>2 DEF IsCommand
  <2>4. PICK p \in Int : p = pos
    BY <1>1
  <2>5. OptDone = pos - 2 /\ OptDone' = p
    BY <1>12, <2>2, <2>4 DEF OptDone, Parsing
  <2>6. p = to + 2 /\ p - 1 = to + 1
    BY <1>2, <1>6, <2>4, <2>5
  <2>7. toks[p] = c.key /\ toks[to + 1] = "subsub" /\ c.key # "subsub"
    BY <1>2, <1>5, <1>12, <2>4, <2>6, DashesAreNoToken DEF KeyHolds, KeyAt
  <2>8. GreedyTo(d, p)
    BY <1>2, <1>5, <1>6, <2>1, <2>3, <2>6, <2>7, GreedyFlag DEF KindInv, Settled
  <2>9. NoLiteral(p)
    BY <1>1, <2>2, <2>4 DEF NoLiteral, Looked
  <2>10. KeyHolds'
    BY <1>2, <1>12, <2>3 DEF KeyHolds, Parsing
  <2>11. d.from \in 2..p /\ p \in 2..pos'
    BY <1>6, <2>2, <2>3, <2>4, <2>6
  <2> QED
    BY <1>1, <1>2, <2>5, <2>7, <2>8, <2>9, <2>10, <2>11, OptionedFrom
<1> QED
  BY <1>4, <1>9, <1>10, <1>11, <1>12 DEF Noted

\* The expression is read that it has asked for.
LEMMA OptTakes ==
  ASSUME ExprInv, SegsInv, AskedInv, KindInv, DashInv, OptInv, Step, ~ Inside, Taken(cmd'),
         cmd'.kind = "custom", ctl'.at # "pipeline"
  PROVE  Optioned'
<1>1. toks' = toks /\ nodes' = nodes /\ pos \in Nat /\ IsCommand(cmd) /\ pos <= Len(toks) /\ Len(toks) \in Nat
  BY StepLooks, ToksFacts, OutsideBoxes DEF Looks, input, SegsInv
<1>2. PICK c, to, d, e, x, upto : /\ c = cmd /\ to = OptDone /\ d = cmd' /\ e = ctl.val /\ x = nodes[e]
                                  /\ upto = pos
  OBVIOUS
<1>3. ctl.at = "ops" /\ frames = <<>> /\ pos' = pos
  BY DEF Taken
<1>4. /\ e \in 1..Len(nodes) /\ e \in DOMAIN nodes /\ x.to = pos /\ Here = x.from /\ x.from \in 1..pos
  BY <1>2, <1>3, InHand, PlacedFacts
<1>5. c.kind = "custom" /\ ctl'.at = "custom"
  <2>1. CASE cmd.kind = "sort"
    <3>1. d = WithField(c, e)
      BY <1>2, <2>1 DEF Taken
    <3>2. d.kind = c.kind
      BY <1>1, <1>2, <3>1, FieldTaken
    <3> QED
      BY <1>2, <2>1, <3>2
  <2> QED
    BY <1>2, <2>1 DEF Taken
<1>6. /\ c.from \in 2..to /\ to \in 2..pos /\ GreedyTo(c, to) /\ Settled(c, to) /\ KeyHolds
      /\ Refers(c)
  BY <1>2, <1>3, <1>5, OptKept DEF Between, Next, KindInv
<1>7. PICK from \in Int : from = c.from /\ 2 <= from /\ from <= to /\ to \in Int /\ upto \in Int /\ to <= upto
  BY <1>1, <1>2, <1>6
<1>8. Asked = x.from /\ OptDone' = upto /\ NoDashes(e)
  BY <1>2, <1>3, <1>4, <1>5 DEF Asked, OptDone, Parsing, DashInv
<1>9. PICK a \in Int : a = x.from /\ a <= upto
  BY <1>1, <1>2, <1>4
<1>10. \A p \in a..upto : toks[p] # "subsub"
  BY <1>2, <1>4, <1>8, <1>9 DEF NoDashes
<1>11. ASSUME GreedyTo(d, upto), d.from = from, d.key = "none", to < upto,
              a = upto => toks[a - 1] # "subsub"
       PROVE  Optioned'
  <2>1. upto \notin Keys(d, upto)
    <3>1. upto = a \/ upto - 1 \in a..upto
      BY <1>7, <1>9
    <3> QED
      BY <1>10, <1>11, <3>1 DEF Keys
  <2>2. toks[upto] # "subsub"
    BY <1>7, <1>9, <1>10
  <2>3. KeyHolds'
    BY <1>2, <1>5, <1>11 DEF KeyHolds, Parsing
  <2>4. d.from \in 2..upto /\ upto \in 2..pos'
    BY <1>2, <1>3, <1>7, <1>11
  <2> QED
    BY <1>1, <1>2, <1>8, <1>11, <2>1, <2>2, <2>3, <2>4, OptionedFrom
<1>12. CASE c.key = "none"
  <2>1. d = [c EXCEPT !.args = Append(@, e)]
    BY <1>2, <1>5, <1>12 DEF Taken
  <2>2. /\ d.args = Append(c.args, e) /\ d.options = c.options /\ d.from = c.from
        /\ d.flags = c.flags /\ d.key = c.key
    BY <1>1, <1>2, <2>1, ArgumentTaken
  <2>3. to = a - 1
    BY <1>2, <1>3, <1>8, <1>9, <1>12 DEF OptDone, Parsing
  <2>4. to < upto /\ a = to + 1
    BY <1>7, <1>9, <2>3
  <2>5. to \in Keys(c, to) => toks[to + 1] \notin Literals
    <3>1. to < Len(toks)
      BY <1>1, <1>2, <1>7, <2>4
    <3> QED
      BY <1>6, <3>1 DEF Settled, NoLiteral
  <2>6. toks[to] # "subsub"
    BY <1>6 DEF Settled
  <2>7. GreedyTo(d, upto)
    BY <1>2, <1>4, <1>6, <1>7, <1>8, <1>9, <2>2, <2>4, <2>5, <2>6, GreedyArgument
  <2> QED
    BY <1>7, <1>11, <1>12, <2>2, <2>3, <2>4, <2>6, <2>7
<1>13. CASE c.key # "none"
  <2>1. d = WithOption(c, e)
    BY <1>2, <1>5, <1>13 DEF Taken
  <2>2. /\ d.args = c.args /\ d.from = c.from /\ d.flags = c.flags /\ d.key = "none"
        /\ DOMAIN d.options = DOMAIN c.options \cup {c.key}
        /\ \A k \in DOMAIN d.options : d.options[k] = IF k = c.key THEN e ELSE c.options[k]
    BY <1>1, <1>2, <2>1, OptionTaken
  <2>3. to = a - 3
    BY <1>2, <1>3, <1>8, <1>9, <1>13 DEF OptDone, Parsing
  <2>4. PICK key \in Int : key = to + 2 /\ key = a - 1 /\ key - 1 = to + 1 /\ key + 1 = a /\ key < upto
                           /\ to < upto
    BY <1>7, <1>9, <2>3
  <2>5. /\ toks[to + 1] = "subsub" /\ toks[key] = c.key /\ c.key # "subsub"
        /\ toks[key + 1] \in Literals
    BY <1>2, <1>3, <1>6, <1>8, <1>9, <1>13, <2>4, DashesAreNoToken DEF KeyHolds, KeyAt, Parsing
  <2>6. toks[to] # "subsub"
    BY <1>6 DEF Settled
  <2>7. GreedyTo(d, upto)
    <3>1. /\ c.from = from /\ d.from = from /\ d.args = c.args /\ d.flags = c.flags
          /\ nodes[e].from = key + 1 /\ nodes[e].to = upto /\ e \in DOMAIN nodes /\ NoDashes(e)
      BY <1>2, <1>4, <1>7, <1>8, <1>9, <2>2, <2>4
    <3>2. /\ DOMAIN d.options = DOMAIN c.options \cup {toks[key]}
          /\ \A k \in DOMAIN d.options : d.options[k] = IF k = toks[key] THEN e ELSE c.options[k]
          /\ toks[key] # "subsub"
      BY <2>2, <2>5
    <3> QED
      BY <1>6, <1>7, <2>4, <2>5, <2>6, <3>1, <3>2, GreedyValue
  <2> QED
    BY <1>7, <1>11, <2>2, <2>4, <2>5, <2>7
<1> QED
  BY <1>12, <1>13

\* A custom command begins, without options.
LEMMA OptBegins ==
  ASSUME ExprInv, SegsInv, AskedInv, KindInv, OptInv, Step, ~ Inside, Begun(cmd'),
         cmd'.kind = "custom"
  PROVE  Optioned'
<1>1. /\ toks' = toks /\ nodes' = nodes /\ pos \in Nat /\ IsCommand(cmd)
      /\ Tok # "end" => Tok = toks[pos + 1]
  <2>1. Tok # "end" => Tok = toks[pos + 1]
    BY ToksFacts
  <2> QED
    BY <2>1, StepLooks, ToksFacts, OutsideBoxes DEF Looks, input, SegsInv
<1>2. PICK c, d, kind, p : /\ c = cmd /\ d = cmd' /\ p = pos + 1
                           /\ kind = (IF Tok \in Names THEN "custom" ELSE Tok)
  OBVIOUS
<1>3. /\ d = [c EXCEPT !.kind = kind, !.from = p] /\ pos' = p /\ ctl.at = "command" /\ Tok \in Heads
      /\ \/ kind = "count" /\ ctl'.at = "pipeline"
         \/ kind = "filter" /\ ctl'.at = "prefix"
         \/ kind \in {"sort", "take", "unique", "custom"} /\ ctl'.at = kind
  BY <1>2 DEF Begun
<1>4. /\ d.kind = kind /\ d.from = p /\ d.args = c.args /\ d.flags = c.flags
      /\ d.options = c.options /\ d.key = c.key
  BY <1>1, <1>2, <1>3 DEF IsCommand
<1>5. ctl'.at = "custom"
  BY <1>2, <1>3, <1>4
<1>6. d.args = <<>> /\ d.flags = {} /\ d.options = <<>> /\ d.key = "none"
  BY <1>2, <1>3, <1>4 DEF KindInv, Blank, Fresh
<1>7. toks[p] # "subsub" /\ p \in Int /\ p - 1 = pos
  <2>1. Tok \in Names \cup {"filter", "sort", "take", "unique", "count"}
    BY <1>3 DEF Heads
  <2>2. Tok # "subsub" /\ Tok # "end"
    BY <1>3, <2>1, DashesAreNoToken, EndIsNoToken
  <2> QED
    BY <1>1, <1>2, <2>2
<1>8. Keys(d, p) = {} /\ Valued(d, p) = {}
  <2>1. \A q : q \notin (p + 1)..p
    BY <1>7
  <2> QED
    BY <1>4, <2>1 DEF Keys, Valued
<1>9. GreedyTo(d, p)
  <2>1. \A i : i \notin DOMAIN d.args /\ i \notin DOMAIN d.options
    BY <1>6
  <2>2. \A q : q \notin (p + 1)..p
    BY <1>7
  <2>3. toks[d.from - 1] # "subsub"
    BY <1>3, <1>4, <1>7 DEF OptInv
  <2> QED
    BY <1>4, <1>6, <1>8, <2>1, <2>2, <2>3 DEF GreedyTo, Ordered
<1>10. d.from \in 2..p /\ p \in 2..pos'
  <2>1. d.from \in 2..pos'
    BY <1>2, <1>5, SegsInvIsStable DEF SegsInv, Next, Between
  <2> QED
    BY <1>3, <1>4, <2>1
<1>11. OptDone' = p
  BY <1>3, <1>5 DEF OptDone, Parsing
<1>12. KeyHolds'
  BY <1>2, <1>5, <1>6 DEF KeyHolds, Parsing
<1> QED
  BY <1>1, <1>2, <1>7, <1>8, <1>9, <1>10, <1>11, <1>12, OptionedFrom

\* Every step keeps the options of commands greedy.
LEMMA OptInvIsStable ==
  ASSUME ExprInv, SegsInv, AskedInv, KindInv, DashInv, OptInv, [Next]_vars
  PROVE  OptInv'
<1>1. IsCommand(cmd) /\ IsSeq(segs) /\ DOMAIN segs = 1..Len(segs) /\ Len(segs) \in Nat /\ pos \in Nat
  BY SegsFacts DEF SegsInv
<1>2. ASSUME NEW s \in DOMAIN segs, NEW c, NEW to, c = segs[s].cmd, to = segs[s].to, c.kind = "custom"
      PROVE  GreedyTo(c, to)'
  <2>1. to \in 2..pos /\ Behind(to)
    BY <1>2, PastBehind
  <2>2. c.from \in 2..to
    BY <1>2 DEF SegsInv, SegHolds
  <2>3. to \in Int
    BY <1>1, <2>1
  <2> QED
    BY <1>2, <2>1, <2>2, <2>3, GreedyStays DEF OptInv, KindInv
<1>3. ASSUME segs' = segs, NEW s \in DOMAIN segs', segs'[s].cmd.kind = "custom"
      PROVE  GreedyTo(segs[s].cmd, segs[s].to)'
  <2>1. PICK c, to : c = segs[s].cmd /\ to = segs[s].to
    OBVIOUS
  <2>2. GreedyTo(c, to)'
    BY <1>2, <1>3, <2>1
  <2> QED
    BY <1>3, <2>1, <2>2
<1>4. ASSUME NEW c, NEW to, c = cmd', segs' = Append(segs, [cmd |-> c, to |-> to]),
             c.kind = "custom" => GreedyTo(c, to)',
             NEW s \in DOMAIN segs', segs'[s].cmd.kind = "custom"
      PROVE  GreedyTo(segs[s].cmd, segs[s].to)'
  <2>1. PICK x : x = [cmd |-> c, to |-> to]
    OBVIOUS
  <2>2. /\ IsSeq(segs') /\ Len(segs') = Len(segs) + 1 /\ segs'[Len(segs) + 1] = x
        /\ \A i \in 1..Len(segs) : segs'[i] = segs[i]
    BY <1>1, <1>4, <2>1, AppendFacts
  <2>3. s \in 1..Len(segs) \/ s = Len(segs) + 1
    BY <1>1, <1>4, <2>2, SeqFacts
  <2>4. CASE s \in 1..Len(segs)
    <3>1. PICK d, upto : d = segs[s].cmd /\ upto = segs[s].to
      OBVIOUS
    <3>2. segs'[s].cmd = d /\ segs'[s].to = upto
      BY <2>2, <2>4, <3>1
    <3>3. GreedyTo(d, upto)'
      BY <1>1, <1>2, <1>4, <2>4, <3>1, <3>2
    <3> QED
      BY <3>2, <3>3
  <2>5. CASE s = Len(segs) + 1
    <3>1. segs'[s].cmd = c /\ segs'[s].to = to
      BY <2>1, <2>2, <2>5
    <3> QED
      BY <1>4, <3>1
  <2> QED
    BY <2>3, <2>4, <2>5
<1>5. \A s \in DOMAIN segs' : segs'[s].cmd.kind = "custom" => GreedyTo(segs[s].cmd, segs[s].to)'
  <2>1. CASE Step /\ ~ Inside
    <3>1. CASE segs' = segs
      BY <1>3, <3>1
    <3>2. CASE Taken(cmd') /\ segs' # segs
      <4>1. PICK c, to, e : c = cmd' /\ to = pos /\ e = ctl.val
        OBVIOUS
      <4>2. /\ cmd.kind # "custom" /\ c = WithField(cmd, e)
            /\ segs' = Append(segs, [cmd |-> c, to |-> to])
        BY <3>2, <4>1 DEF Taken
      <4>3. c.kind # "custom"
        BY <1>1, <4>2, FieldTaken
      <4> QED
        BY <1>4, <4>1, <4>2, <4>3
    <3>3. CASE Over(cmd')
      <4>1. PICK c, to : c = cmd' /\ to = pos'
        OBVIOUS
      <4>2. c = cmd /\ segs' = Append(segs, [cmd |-> c, to |-> to])
        BY <3>3, <4>1 DEF Over
      <4>3. ASSUME c.kind = "custom"
            PROVE  GreedyTo(c, to)'
        <5>1. ctl.at = "custom" /\ pos' = pos
          BY <3>3, <4>2, <4>3 DEF Over, KindInv
        <5>2. ctl.at \notin Between /\ to = OptDone
          BY <4>1, <5>1 DEF OptDone, Parsing, Between
        <5> QED
          BY <4>2, <4>3, <5>2, OptKept
      <4> QED
        BY <1>4, <4>1, <4>2, <4>3
    <3>4. CASE Begun(cmd') /\ segs' # segs
      <4>1. PICK c, p : c = cmd' /\ p = pos + 1
        OBVIOUS
      <4>2. /\ c = [cmd EXCEPT !.kind = "count", !.from = p]
            /\ segs' = Append(segs, [cmd |-> c, to |-> p])
        BY <3>4, <4>1 DEF Begun
      <4>3. c.kind = "count"
        BY <1>1, <4>2 DEF IsCommand
      <4> QED
        BY <1>4, <4>1, <4>2, <4>3
    <3> QED
      BY <2>1, <3>1, <3>2, <3>3, <3>4, CommandSteps DEF Noted, Rests
  <2>2. CASE Step /\ Inside
    BY <1>3, <2>2, InsideKeeps
  <2>3. CASE Lex \/ UNCHANGED vars
    BY <1>3, <2>3 DEF Lex, vars
  <2> QED
    BY <2>1, <2>2, <2>3 DEF Next
<1>6. ctl'.at \notin Between /\ cmd'.kind = "custom" => Optioned'
  <2>1. CASE Step /\ Inside
    BY <2>1, OptInside
  <2>2. CASE Step /\ ~ Inside
    BY <2>2, CommandSteps, OptNotes, OptTakes, OptBegins DEF Over, Rests, Between
  <2>3. CASE (Lex \/ UNCHANGED vars) /\ ctl.at \notin Between /\ cmd.kind = "custom"
    <3>1. /\ ctl' = ctl /\ pos' = pos /\ frames' = frames /\ nodes' = nodes /\ cmd' = cmd
          /\ toks' = toks \/ \E k : toks' = Append(toks, k)
      BY <2>3 DEF Lex, vars
    <3>2. OptDone' = OptDone /\ Asked' = Asked
      BY <3>1 DEF OptDone, Asked, Here
    <3>3. PICK c, to : c = cmd /\ to = OptDone
      OBVIOUS
    <3>4. /\ GreedyTo(c, to)' /\ Settled(c, to)' /\ KeyHolds
          /\ ctl.at \in {"custom", "key", "keyed"} \cup Parsing
      BY <2>3, <3>3, OptKept
    <3>5. /\ Len(toks) \in Nat /\ IsSeq(toks) /\ pos <= Len(toks)
          /\ \A p \in 1..Len(toks) : toks'[p] = toks[p]
          /\ Len(toks') = Len(toks) \/ Len(toks') = Len(toks) + 1
      BY <3>1, ToksFacts, AppendFacts DEF IsSeq
    <3>6. pos \in 2..pos
      <4>1. cmd.from \in 2..pos
        BY <2>3 DEF SegsInv
      <4> QED
        BY <1>1, <4>1
    <3>7. KeyHolds'
      <4>1. CASE ctl.at \in {"custom", "key"}
        <5>1. pos \in 1..Len(toks)
          BY <1>1, <3>5, <3>6
        <5> QED
          BY <3>1, <3>4, <3>5, <4>1, <5>1 DEF KeyHolds, Parsing
      <4>2. CASE ctl.at = "keyed"
        <5>1. pos \in 1..Len(toks) /\ pos - 1 \in 1..Len(toks)
          BY <1>1, <3>5, <3>6
        <5> QED
          BY <3>1, <3>4, <3>5, <4>2, <5>1 DEF KeyHolds, KeyAt, Parsing
      <4>3. CASE ctl.at \in Parsing /\ cmd.key # "none"
        <5>1. PICK a \in Int, from \in Int, n \in Nat : a = Asked /\ from = cmd.from /\ n = Len(toks)
                                         /\ 2 <= from /\ from + 1 <= a /\ a <= n
          <6>1. Asked \in (cmd.from + 1)..(pos + 1) /\ cmd.from \in 2..pos /\ Asked <= Len(toks)
            BY <2>3, <3>4, <4>3 DEF AskedInv, SegsInv, KeyHolds
          <6> QED
            BY <1>1, <3>5, <6>1
        <5>2. a \in 1..n /\ a - 1 \in 1..n /\ a - 1 - 1 \in 1..n
          BY <5>1
        <5>3. toks'[a] = toks[a] /\ toks'[a - 1] = toks[a - 1] /\ toks'[a - 1 - 1] = toks[a - 1 - 1]
          BY <3>5, <5>1, <5>2
        <5>4. a <= Len(toks')
          BY <3>5, <5>1
        <5> QED
          BY <3>1, <3>2, <3>4, <4>3, <5>1, <5>3, <5>4 DEF KeyHolds, KeyAt, Parsing
      <4>4. CASE ctl.at \in Parsing /\ cmd.key = "none"
        BY <3>1, <4>4 DEF KeyHolds, Parsing
      <4> QED
        BY <3>4, <4>1, <4>2, <4>3, <4>4
    <3> QED
      BY <2>3, <3>1, <3>2, <3>3, <3>4, <3>7 DEF OptInv, Optioned
  <2> QED
    BY <2>1, <2>2, <2>3 DEF Next, Lex, vars
<1>7. ctl'.at = "command" => pos' >= 1 /\ toks'[pos'] # "subsub"
  <2>1. CASE Step /\ ~ Inside /\ ctl'.at = "command"
    <3>1. pos' = pos + 1 /\ Tok \in Joints \cup {"semi"}
      BY <2>1, CommandSteps DEF Noted, Taken, Over, Begun, Rests, Joints
    <3>2. toks' = toks /\ Tok = toks[pos + 1]
      BY <2>1, <3>1, StepLooks, ToksFacts DEF Looks, input, Joints
    <3> QED
      BY <1>1, <3>1, <3>2 DEF Joints
  <2>2. CASE Step /\ Inside
    BY <2>2 DEF Inside, Parsing
  <2>3. CASE (Lex \/ UNCHANGED vars) /\ ctl'.at = "command"
    <3>1. ctl.at = "command" /\ pos' = pos /\ (toks' = toks \/ \E k : toks' = Append(toks, k))
      BY <2>3 DEF Lex, vars
    <3>2. pos \in 1..Len(toks) /\ IsSeq(toks)
      <4>1. pos >= 1
        BY <3>1 DEF OptInv
      <4>2. Len(toks) \in Nat /\ pos <= Len(toks) /\ IsSeq(toks)
        BY ToksFacts DEF IsSeq
      <4> QED
        BY <1>1, <4>1, <4>2
    <3> QED
      BY <3>1, <3>2, AppendFacts DEF OptInv
  <2> QED
    BY <2>1, <2>2, <2>3 DEF Next
<1> QED
  BY <1>5, <1>6, <1>7 DEF OptInv, Optioned

\* In every program each option has taken the literal behind it.
LEMMA OptInvariant == Spec => []OptInv
<1>1. Init => OptInv
  BY DEF Init, OptInv, Between
<1>2. ExprInv /\ SegsInv /\ AskedInv /\ KindInv /\ DashInv /\ OptInv /\ [Next]_vars => OptInv'
  BY OptInvIsStable
<1> QED
  BY <1>1, <1>2, ExpressionInvariant, SegsInvariant, AskedInvariant, KindInvariant,
     DashInvariant, PTL DEF Spec

\* parse_custom_command gives an option the literal behind its key, and what goes on
\* with it, keeps the last value of a key, takes any other key for a flag, and takes
\* all that is left for arguments.
THEOREM ParserOptions == Spec => []OptionsAreGreedy
<1>1. ASSUME ExprInv, SegsInv, KindInv, OptInv
      PROVE  OptionsAreGreedy
  <2> SUFFICES ASSUME NEW s \in DOMAIN segs, segs[s].cmd.kind = "custom"
               PROVE  LET c       == segs[s].cmd
                          tokens  == c.from..segs[s].to
                          keys    == {p \in tokens : toks[p - 1] = "subsub"}
                          valued  == {p \in keys : p + 1 \in tokens /\ toks[p + 1] \in Literals}
                          last(k) == CHOOSE p \in valued :
                                       toks[p] = k /\ \A q \in valued : toks[q] = k => q <= p
                      IN  /\ c.flags = {toks[p] : p \in keys \ valued}
                          /\ DOMAIN c.options = {toks[p] : p \in valued}
                          /\ \A k \in DOMAIN c.options : nodes[c.options[k]].from = last(k) + 1
                          /\ Ordered(c.args)
                          /\ \A p \in tokens \ ({c.from} \cup keys) :
                                \/ toks[p] = "subsub"
                                \/ Within(c.args, p)
                                \/ \E k \in DOMAIN c.options : Within(<<c.options[k]>>, p)
                                \/ \E q \in valued : q < p /\ q # last(toks[q])
    BY Zenon DEF OptionsAreGreedy
  <2> DEFINE c       == segs[s].cmd
             to      == segs[s].to
             tokens  == c.from..to
             keys    == {p \in tokens : toks[p - 1] = "subsub"}
             valued  == {p \in keys : p + 1 \in tokens /\ toks[p + 1] \in Literals}
             last(k) == CHOOSE p \in valued :
                          toks[p] = k /\ \A q \in valued : toks[q] = k => q <= p
  <2>1. GreedyTo(c, to) /\ Refers(c)
    BY <1>1 DEF OptInv, KindInv
  <2>2. c.from \in 2..to
    BY <1>1 DEF SegsInv, SegHolds
  <2>3. PICK from \in Int : from = c.from /\ from <= to /\ 2 <= from
    BY <2>2
  <2>4. to \in Int
    BY <1>1, ToksFacts DEF SegsInv, SegHolds
  <2> HIDE DEF c, to
  <2>5. keys = Keys(c, to)
    <3>1. toks[from - 1] # "subsub"
      BY <2>1, <2>3 DEF GreedyTo
    <3>2. \A p \in from..to : p = from \/ p \in (from + 1)..to
      BY <2>3, <2>4
    <3>3. \A p \in (from + 1)..to : p \in from..to
      BY <2>3, <2>4
    <3> QED
      BY <2>3, <3>1, <3>2, <3>3 DEF Keys
  <2>6. valued = Valued(c, to)
    <3>1. ASSUME NEW p \in keys
          PROVE  p + 1 \in tokens <=> p + 1 <= to
      BY <2>3, <2>4
    <3> QED
      BY <2>5, <3>1 DEF Valued
  <2>7. \A p \in valued : p \in Int
    BY <2>3, <2>4
  <2> HIDE DEF keys, valued
  <2>8. ASSUME NEW k, NEW p, LastOf(c, to, k, p)
        PROVE  last(k) = p
    <3>1. p \in valued /\ toks[p] = k /\ \A q \in valued : toks[q] = k => q <= p
      BY <2>6, <2>8 DEF LastOf
    <3>2. \A r \in valued : (toks[r] = k /\ \A q \in valued : toks[q] = k => q <= r) => r = p
      BY <2>7, <3>1
    <3> QED
      BY <3>1, <3>2
  <2> HIDE DEF last
  <2>9. ASSUME NEW k \in DOMAIN c.options
        PROVE  nodes[c.options[k]].from = last(k) + 1
    <3>1. PICK p : LastOf(c, to, k, p) /\ nodes[c.options[k]].from = p + 1
      BY <2>1 DEF GreedyTo, OptionKept
    <3> QED
      BY <2>8, <3>1
  <2>10. ASSUME NEW q \in valued, ~ LastOf(c, to, toks[q], q)
         PROVE  q # last(toks[q])
    <3>1. PICK p : LastOf(c, to, toks[q], p)
      <4>1. toks[q] \in DOMAIN c.options
        BY <2>1, <2>6 DEF GreedyTo
      <4> QED
        BY <2>1, <4>1 DEF GreedyTo, OptionKept
    <3>2. last(toks[q]) = p
      BY <2>8, <3>1
    <3> QED
      BY <2>10, <3>1, <3>2
  <2>11. ASSUME NEW p \in tokens, p # c.from, p \notin keys
         PROVE  \/ toks[p] = "subsub"
                \/ Within(c.args, p)
                \/ \E k \in DOMAIN c.options : Within(<<c.options[k]>>, p)
                \/ \E q \in valued : q < p /\ q # last(toks[q])
    <3>1. \A n : Within(<<n>>, p) <=> p \in nodes[n].from..nodes[n].to
      BY DEF Within
    <3>2. p \in (from + 1)..to
      BY <2>3, <2>4, <2>11
    <3>3. Used(c, to, p)
      BY <2>1, <2>3, <3>2 DEF GreedyTo
    <3>4. CASE \E e \in DOMAIN c.args : p \in nodes[c.args[e]].from..nodes[c.args[e]].to
      BY <3>4 DEF Within
    <3>5. CASE \E k \in DOMAIN c.options : p \in nodes[c.options[k]].from..nodes[c.options[k]].to
      BY <3>1, <3>5
    <3>6. ASSUME NEW q \in Valued(c, to), NEW id \in DOMAIN nodes, nodes[id].from = q + 1,
                 p \in nodes[id].from..nodes[id].to, ~ LastOf(c, to, toks[q], q)
          PROVE  q < p /\ q \in valued /\ q # last(toks[q])
      <4>1. PICK a, b : a = nodes[id].from /\ b = nodes[id].to
        OBVIOUS
      <4>2. a \in Int /\ b \in Int /\ q \in Int /\ a = q + 1 /\ p \in a..b
        BY <1>1, <2>6, <2>7, <3>6, <4>1, NodeEnds
      <4>3. q < p
        BY <4>2
      <4> QED
        BY <2>6, <2>10, <3>6, <4>3
    <3> QED
      BY <2>5, <2>11, <3>3, <3>4, <3>5, <3>6 DEF Used
  <2>12. /\ c.flags = {toks[p] : p \in keys \ valued}
         /\ DOMAIN c.options = {toks[p] : p \in valued}
         /\ \A k \in DOMAIN c.options : nodes[c.options[k]].from = last(k) + 1
         /\ Ordered(c.args)
         /\ \A p \in tokens \ ({c.from} \cup keys) :
               \/ toks[p] = "subsub"
               \/ Within(c.args, p)
               \/ \E k \in DOMAIN c.options : Within(<<c.options[k]>>, p)
               \/ \E q \in valued : q < p /\ q # last(toks[q])
    BY <2>1, <2>5, <2>6, <2>9, <2>11 DEF GreedyTo
  <2> QED
    BY <2>12, Zenon DEF c, to, keys, valued, last
<1> QED
  BY <1>1, ExpressionInvariant, SegsInvariant, KindInvariant, OptInvariant, PTL

-----------------------------------------------------------------------------
(***************************************************************************)
(* A sign behind an integer.  Wherever it is, the integer is over in front *)
(* of it, and what it begins goes on a list.                               *)
(***************************************************************************)
Signed(p) == toks[p] = "neg" /\ toks[p - 1] \in {"int", "neg"}

\* Token p begins one of the expressions of a sequence, or of a vector.
Begins(list, p) == \E k \in DOMAIN list : nodes[list[k]].from = p
InVector(p)     == \E n \in DOMAIN nodes : nodes[n].kind = "vector" /\ Begins(nodes[n].parts, p)

SignsInside(id) == \A p \in (nodes[id].from + 1)..nodes[id].to : Signed(p) => InVector(p)

SignInv == \A id \in DOMAIN nodes : SignsInside(id)

\* An integer is neither a name nor an operator.
LEMMA IntegersAreNoToken ==
  /\ \A t \in {"int", "neg"} : t \notin Names /\ t \notin BinOps
  /\ Names \cap {"int", "neg"} = {}
<1>1. \A t \in {"int", "neg"} : t \notin Names
  BY KindsAssumption DEF Names
<1>2. ASSUME NEW i \in 1..5, NEW t \in {"int", "neg"}
      PROVE  t \notin Tiers[i]
  BY <1>2 DEF Tiers
<1>3. \A t \in {"int", "neg"} : t \notin BinOps
  BY <1>2 DEF BinOps
<1> QED
  BY <1>1, <1>3

\* Tokens consumed stay what they are.
LEMMA TokensStay ==
  ASSUME ExprInv, [Next]_vars
  PROVE  pos \in Nat /\ \A p \in 1..pos : toks'[p] = toks[p]
<1>1. pos \in Nat /\ Len(toks) \in Nat /\ pos <= Len(toks) /\ IsSeq(toks)
  BY ToksFacts DEF IsSeq
<1>2. toks' = toks \/ \E k : toks' = Append(toks, k)
  <2>1. CASE Step
    BY <2>1, StepLooks DEF Looks, input
  <2>2. CASE Lex \/ UNCHANGED vars
    BY <2>2 DEF Lex, vars
  <2> QED
    BY <2>1, <2>2 DEF Next
<1>3. \A p \in 1..pos : p \in 1..Len(toks)
  BY <1>1
<1> QED
  BY <1>1, <1>2, <1>3, AppendFacts

\* In a group it begins an element, and there is one in front of it; nothing else
\* can hold it but where a part does.
SignsDecide ==
  \A id \in DOMAIN nodes :
    (\A i \in DOMAIN nodes[id].parts : SignsInside(nodes[id].parts[i])) => SignsInside(id)

\* A sign inside a node is inside one of its parts, or begins one behind another.
LEMMA TiledSigns == ExprInv => SignsDecide
<1> SUFFICES ASSUME ExprInv, NEW id \in DOMAIN nodes, NEW n, n = nodes[id],
                    \A i \in DOMAIN n.parts : SignsInside(n.parts[i])
             PROVE  SignsInside(id)
  BY DEF SignsDecide
<1>1. /\ n.from \in 1..n.to /\ n.to \in 1..pos /\ Tiled(n) /\ pos \in Nat
      /\ n.kind = "binary" => Len(n.parts) = 2
      /\ n.kind = "not" => Len(n.parts) = 1
      /\ n.parts \in Seq(Nat) /\ n.op \in n.from..n.to
  BY PlacedFacts DEF ExprInv, NodeHolds
<1>2. PICK from \in Int, to \in Int : from = n.from /\ to = n.to
  BY <1>1
<1>3. ASSUME NEW i \in DOMAIN n.parts
      PROVE  n.parts[i] \in DOMAIN nodes
  <2>1. PICK x : x = n.parts[i]
    OBVIOUS
  <2>2. x \in 1..(id - 1) /\ id \in 1..Len(nodes) /\ Len(nodes) \in Nat /\ DOMAIN nodes = 1..Len(nodes)
    BY <2>1, PlacedFacts DEF ExprInv, NodeHolds
  <2>3. x \in 1..Len(nodes)
    BY <2>2
  <2> QED
    BY <2>1, <2>2, <2>3
<1>4. ASSUME NEW p \in (from + 1)..to, Signed(p)
      PROVE  InVector(p)
  <2>1. CASE n.kind = "leaf"
    <3>1. from = to
      BY <1>1, <1>2, <2>1 DEF Tiled
    <3> QED
      BY <3>1
  <2>2. CASE n.kind = "path"
    <3>1. toks[p] \in {"dot"} \cup Names
      <4>1. p \in from..to
        OBVIOUS
      <4> QED
        BY <1>1, <1>2, <2>2, <4>1 DEF Tiled
    <3> QED
      BY <1>4, <3>1, IntegersAreNoToken DEF Signed
  <2>3. CASE n.kind = "not"
    <3>1. PICK x : x = nodes[n.parts[1]]
      OBVIOUS
    <3>2. toks[from] = "not" /\ x.from = from + 1 /\ x.to = to
      BY <1>1, <1>2, <2>3, <3>1 DEF Tiled
    <3>3. 1 \in DOMAIN n.parts
      BY <1>1, <2>3
    <3>4. SignsInside(n.parts[1])
      BY <3>3
    <3>5. p - 1 = from \/ p \in (from + 1 + 1)..to
      OBVIOUS
    <3> QED
      BY <1>4, <3>1, <3>2, <3>4, <3>5 DEF SignsInside, Signed
  <2>4. CASE n.kind = "binary"
    <3>1. PICK x, y, op : x = nodes[n.parts[1]] /\ y = nodes[n.parts[2]] /\ op = n.op
      OBVIOUS
    <3>2. /\ x.from = from /\ x.to + 1 = op /\ toks[op] \in BinOps
          /\ y.from = op + 1 /\ y.to = to
      BY <1>1, <1>2, <2>4, <3>1 DEF Tiled
    <3>3. 1 \in DOMAIN n.parts /\ 2 \in DOMAIN n.parts
      BY <1>1, <2>4
    <3>4. SignsInside(n.parts[1]) /\ SignsInside(n.parts[2])
      BY <3>3
    <3>5. op \in Int /\ x.to \in Int
      BY <1>1, <1>2, <1>3, <3>1, <3>3, NodeEnds
    <3>6. p \in (from + 1)..x.to \/ p = op \/ p - 1 = op \/ p \in (op + 1 + 1)..to
      BY <3>2, <3>5
    <3>7. toks[p] \notin BinOps /\ toks[p - 1] \notin BinOps
      BY <1>4, IntegersAreNoToken DEF Signed
    <3> QED
      BY <1>4, <3>1, <3>2, <3>4, <3>6, <3>7 DEF SignsInside
  <2>5. CASE n.kind \notin {"leaf", "path", "not", "binary"}
    <3>1. /\ toks[from] = "lpar" /\ toks[to] = "rpar"
          /\ n.kind = IF Len(n.parts) = 1 THEN "paren" ELSE "vector"
          /\ \A q \in (from + 1)..(to - 1) : Within(n.parts, q) \/ toks[q] = "comma"
      BY <1>1, <1>2, <2>5 DEF Tiled
    <3>2. p \in (from + 1)..(to - 1) /\ p - 1 # from
      <4>1. p # to /\ p - 1 # from
        BY <1>4, <3>1 DEF Signed
      <4> QED
        BY <4>1
    <3>3. p - 1 \in (from + 1)..(to - 1)
      BY <3>2
    <3>4. PICK i \in DOMAIN n.parts : p \in nodes[n.parts[i]].from..nodes[n.parts[i]].to
      BY <1>4, <3>1, <3>2 DEF Within, Signed
    <3>5. PICK j \in DOMAIN n.parts : p - 1 \in nodes[n.parts[j]].from..nodes[n.parts[j]].to
      BY <1>4, <3>1, <3>3 DEF Within, Signed
    <3>6. PICK a \in Int, b \in Int : a = nodes[n.parts[i]].from /\ b = nodes[n.parts[i]].to
      BY <1>3, NodeEnds
    <3>7. CASE p \in (a + 1)..b
      BY <1>4, <3>6, <3>7 DEF SignsInside
    <3>8. CASE p = a
      <4>1. i # j
        <5>1. p - 1 \notin a..b
          BY <3>8
        <5> QED
          BY <3>5, <3>6, <5>1
      <4>2. n.kind = "vector"
        <5>1. DOMAIN n.parts = 1..Len(n.parts)
          BY <1>1
        <5> QED
          BY <3>1, <4>1, <5>1
      <4> QED
        BY <3>6, <3>8, <4>2 DEF InVector, Begins
    <3> QED
      BY <3>4, <3>6, <3>7, <3>8
  <2> QED
    BY <2>1, <2>2, <2>3, <2>4, <2>5
<1> QED
  BY <1>2, <1>4 DEF SignsInside

\* No step puts an integer and a sign side by side in a node, but as elements of a
\* vector.
LEMMA SignInvIsStable ==
  ASSUME ExprInv, ExprInv', SignsDecide', AskedInv, SignInv, [Next]_vars
  PROVE  SignInv'
<1>1. /\ DOMAIN nodes = 1..Len(nodes) /\ DOMAIN nodes' = 1..Len(nodes')
      /\ Len(nodes) \in Nat /\ Len(nodes') \in Nat /\ IsSeq(nodes)
      /\ \A id \in 1..Len(nodes) : id \in 1..Len(nodes') /\ nodes'[id] = nodes[id]
  BY NodesStay, PlacedFacts
<1>2. \A p \in 1..pos : toks'[p] = toks[p]
  BY TokensStay
<1>3. ASSUME NEW n \in DOMAIN nodes, NEW k \in DOMAIN nodes[n].parts
      PROVE  nodes'[nodes[n].parts[k]] = nodes[nodes[n].parts[k]]
  <2>1. PICK x : x = nodes[n].parts[k]
    OBVIOUS
  <2>2. x \in 1..(n - 1) /\ n \in 1..Len(nodes)
    BY <1>1, <2>1 DEF ExprInv, NodeHolds
  <2>3. x \in 1..Len(nodes)
    BY <1>1, <2>2
  <2> QED
    BY <1>1, <2>1, <2>3
<1>4. \A p : InVector(p) => InVector(p)'
  <2> SUFFICES ASSUME NEW p, NEW n \in DOMAIN nodes, nodes[n].kind = "vector", Begins(nodes[n].parts, p)
               PROVE  InVector(p)'
    BY DEF InVector
  <2>1. n \in DOMAIN nodes' /\ nodes'[n] = nodes[n]
    BY <1>1
  <2>2. \E k \in DOMAIN nodes'[n].parts : nodes'[nodes'[n].parts[k]].from = p
    BY <1>3, <2>1 DEF Begins
  <2> QED
    BY <2>1, <2>2 DEF InVector, Begins
<1>5. ASSUME NEW id \in 1..Len(nodes)
      PROVE  SignsInside(id)'
  <2>1. PICK a, b : a = nodes[id].from /\ b = nodes[id].to
    OBVIOUS
  <2>2. a \in 1..b /\ b \in 1..pos /\ pos \in Nat
    BY <1>1, <2>1, PlacedFacts DEF ExprInv, NodeHolds
  <2>3. \A p \in (a + 1)..b : p \in 1..pos /\ p - 1 \in 1..pos
    BY <2>2
  <2>4. \A p \in (a + 1)..b : Signed(p)' => Signed(p)
    BY <1>2, <2>3 DEF Signed
  <2>5. \A p \in (a + 1)..b : Signed(p) => InVector(p)
    BY <1>1, <2>1 DEF SignInv, SignsInside
  <2>6. nodes'[id] = nodes[id]
    BY <1>1
  <2> QED
    BY <1>4, <2>1, <2>4, <2>5, <2>6 DEF SignsInside
<1>6. Len(nodes') = Len(nodes) \/ Len(nodes') = Len(nodes) + 1
  <2>1. nodes' = nodes \/ \E n : nodes' = Append(nodes, n)
    <3>1. CASE Step /\ Inside
      BY <3>1, InsideKeeps DEF Boxes
    <3>2. CASE Step /\ ~ Inside
      BY <3>2, OutsideBoxes
    <3>3. CASE Lex \/ UNCHANGED vars
      BY <3>3 DEF Lex, vars
    <3> QED
      BY <3>1, <3>2, <3>3 DEF Next
  <2> QED
    BY <1>1, <2>1, AppendFacts
<1>7. ASSUME NEW id \in 1..Len(nodes'), id \notin 1..Len(nodes)
      PROVE  SignsInside(id)'
  <2>1. id - 1 = Len(nodes)
    <3>1. PICK k, m : k = Len(nodes) /\ m = Len(nodes')
      OBVIOUS
    <3>2. k \in Nat /\ m \in Nat /\ (m = k \/ m = k + 1) /\ id \in 1..m /\ id \notin 1..k
      BY <1>1, <1>6, <1>7, <3>1
    <3>3. id - 1 = k
      BY <3>2
    <3> QED
      BY <3>1, <3>3
  <2>2. \A i \in DOMAIN nodes'[id].parts : nodes'[id].parts[i] \in 1..Len(nodes)
    BY <1>1, <2>1 DEF ExprInv, NodeHolds
  <2>3. \A i \in DOMAIN nodes'[id].parts : SignsInside(nodes[id].parts[i])'
    <3> SUFFICES ASSUME NEW i \in DOMAIN nodes'[id].parts
                 PROVE  SignsInside(nodes[id].parts[i])'
      OBVIOUS
    <3>1. PICK x : x = nodes'[id].parts[i]
      OBVIOUS
    <3>2. SignsInside(x)'
      BY <1>5, <2>2, <3>1
    <3> QED
      BY <3>1, <3>2
  <2> QED
    BY <1>1, <2>3 DEF SignsDecide
<1> QED
  BY <1>1, <1>5, <1>7 DEF SignInv

\* In no program are an integer and a sign side by side in a node, but as elements of a
\* vector.
LEMMA SignInvariant == Spec => []SignInv
<1>1. Init => SignInv
  BY DEF Init, SignInv
<1>2. ExprInv /\ ExprInv' /\ SignsDecide' /\ AskedInv /\ SignInv /\ [Next]_vars => SignInv'
  BY SignInvIsStable
<1> QED
  BY <1>1, <1>2, TiledSigns, ExpressionInvariant, AskedInvariant, PTL DEF Spec

-----------------------------------------------------------------------------
(***************************************************************************)
(* A custom command is called by a name, and so are its options.           *)
(***************************************************************************)
Named(c) ==
  c.kind = "custom" =>
    toks[c.from] \in Names /\ c.flags \subseteq Names /\ DOMAIN c.options \subseteq Names

NamedInv ==
  /\ ctl.at \notin Between => Named(cmd)
  /\ \A s \in DOMAIN segs : Named(segs[s].cmd)

\* What is behind two dashes is one.
LEMMA KeyIsName ==
  ASSUME KindInv, OptInv, cmd.kind = "custom",
         ctl.at = "keyed" \/ (ctl.at \in Parsing /\ cmd.key # "none")
  PROVE  cmd.key \in Names
<1>1. ctl.at \notin Between
  BY DEF Between, Parsing
<1>2. KeyHolds
  BY <1>1 DEF OptInv
<1> QED
  BY <1>2 DEF KeyHolds, KeyAt

\* What is done to a command leaves it one.
LEMMA NamedChanges ==
  ASSUME ExprInv, SegsInv, KindInv, OptInv, Step, ~ Inside, ctl.at \notin Between => Named(cmd),
         Noted(cmd') \/ Taken(cmd') \/ Over(cmd') \/ Begun(cmd')
  PROVE  Named(cmd')
<1>1. IsCommand(cmd)
  BY DEF SegsInv
<1>2. CASE Noted(cmd')
  <2>1. PICK c : c = cmd'
    OBVIOUS
  <2>2. ctl.at \notin Between
    BY <1>2 DEF Noted, Between
  <2>3. CASE c = cmd
    BY <2>1, <2>2, <2>3
  <2>4. CASE c = [cmd EXCEPT !.key = Tok] \/ c = [cmd EXCEPT !.dir = Tok]
    <3>1. c.kind = cmd.kind /\ c.from = cmd.from /\ c.flags = cmd.flags /\ c.options = cmd.options
      BY <1>1, <2>4 DEF IsCommand
    <3> QED
      BY <2>1, <2>2, <3>1 DEF Named
  <2>5. CASE ctl.at = "keyed" /\ c = [cmd EXCEPT !.flags = @ \cup {cmd.key}, !.key = "none"]
    <3>1. /\ c.kind = cmd.kind /\ c.from = cmd.from /\ c.options = cmd.options
          /\ c.flags = cmd.flags \cup {cmd.key}
      BY <1>1, <2>5 DEF IsCommand
    <3>2. c.kind = "custom" => cmd.key \in Names
      BY <2>5, <3>1, KeyIsName
    <3> QED
      BY <2>1, <2>2, <3>1, <3>2 DEF Named
  <2> QED
    BY <1>2, <2>1, <2>3, <2>4, <2>5 DEF Noted
<1>3. CASE Taken(cmd')
  <2>1. PICK e, c : e = ctl.val /\ c = cmd'
    OBVIOUS
  <2>2. ctl.at \notin Between /\ ctl.at \in Parsing
    BY <1>3 DEF Taken, Between, Parsing
  <2>3. CASE c = WithField(cmd, e)
    <3>1. c.kind = cmd.kind /\ c.from = cmd.from /\ c.flags = cmd.flags /\ c.options = cmd.options
      BY <1>1, <2>3, FieldTaken
    <3> QED
      BY <2>1, <2>2, <3>1 DEF Named
  <2>4. CASE cmd.kind = "custom" /\ cmd.key # "none" /\ c = WithOption(cmd, e)
    <3>1. /\ c.kind = cmd.kind /\ c.from = cmd.from /\ c.flags = cmd.flags
          /\ DOMAIN c.options = DOMAIN cmd.options \cup {cmd.key}
      BY <1>1, <2>4, OptionTaken
    <3>2. cmd.key \in Names
      BY <2>2, <2>4, KeyIsName
    <3> QED
      BY <2>1, <2>2, <3>1, <3>2 DEF Named
  <2>5. CASE c = [cmd EXCEPT !.args = Append(@, e)]
    <3>1. c.kind = cmd.kind /\ c.from = cmd.from /\ c.flags = cmd.flags /\ c.options = cmd.options
      BY <1>1, <2>5 DEF IsCommand
    <3> QED
      BY <2>1, <2>2, <3>1 DEF Named
  <2> QED
    BY <1>3, <2>1, <2>3, <2>4, <2>5 DEF Taken
<1>4. CASE Over(cmd')
  BY <1>4 DEF Over, Between
<1>5. CASE Begun(cmd')
  <2>1. PICK kind, c, from : /\ kind = (IF Tok \in Names THEN "custom" ELSE Tok)
                       /\ from = pos + 1 /\ c = [cmd EXCEPT !.kind = kind, !.from = from]
                       /\ c = cmd' /\ ctl.at = "command"
    BY <1>5 DEF Begun
  <2>2. PICK op : cmd = Blank(op)
    BY <2>1 DEF KindInv
  <2>3. cmd.flags = {} /\ cmd.options = <<>>
    BY <2>2 DEF Blank, Fresh
  <2>4. c.flags = {} /\ DOMAIN c.options = {} /\ c.kind = kind /\ c.from = from
    BY <1>1, <2>1, <2>3 DEF IsCommand
  <2>5. ASSUME kind = "custom"
        PROVE  toks[from] \in Names
    <3>1. Tok \in Names
      <4>1. "custom" \notin Heads \ Names
        BY DEF Heads
      <4>2. Tok \in Heads
        BY <1>5 DEF Begun
      <4> QED
        BY <2>1, <2>5, <4>1, <4>2
    <3>2. "end" \notin Names
      BY KindsAssumption DEF Names
    <3> QED
      BY <2>1, <3>1, <3>2, ToksFacts
  <2> QED
    BY <2>1, <2>4, <2>5 DEF Named
<1> QED
  BY <1>2, <1>3, <1>4, <1>5

\* Every step keeps commands and options called by names.
LEMMA NamedInvIsStable ==
  ASSUME ExprInv, SegsInv, AskedInv, KindInv, OptInv, NamedInv, [Next]_vars
  PROVE  NamedInv'
<1>1. /\ IsCommand(cmd) /\ IsSeq(segs) /\ DOMAIN segs = 1..Len(segs) /\ Len(segs) \in Nat
      /\ pos \in Nat
  BY SegsFacts DEF SegsInv
<1>2. \A p \in 1..pos : toks'[p] = toks[p]
  BY TokensStay
<1>3. ASSUME NEW c, Named(c), c.from \in 1..pos
      PROVE  Named(c)'
  BY <1>2, <1>3 DEF Named
<1>4. ASSUME NEW c, Named(c), UNCHANGED toks
      PROVE  Named(c)'
  BY <1>4 DEF Named
<1>5. ASSUME NEW s \in DOMAIN segs
      PROVE  Named(segs[s].cmd) /\ segs[s].cmd.from \in 1..pos
  <2>1. PICK c, from, to : c = segs[s].cmd /\ from = c.from /\ to = segs[s].to
    OBVIOUS
  <2>2. from \in 2..to /\ to \in 2..pos
    BY <2>1 DEF SegsInv, SegHolds
  <2>3. from \in 1..pos
    BY <1>1, <2>2
  <2> QED
    BY <2>1, <2>3 DEF NamedInv
<1>6. CASE Step /\ ~ Inside
  <2>1. UNCHANGED toks
    BY <1>6, StepLooks DEF Looks, input
  <2>2. PICK c : c = cmd'
    OBVIOUS
  <2>3. CASE Noted(c) \/ Taken(c) \/ Over(c) \/ Begun(c)
    <3>1. Named(c)
      BY <1>6, <2>2, <2>3, NamedChanges DEF NamedInv
    <3>2. Named(c)'
      BY <1>4, <2>1, <3>1
    <3>3. segs' = segs \/ \E to : segs' = Append(segs, [cmd |-> c, to |-> to])
      BY <2>3 DEF Noted, Taken, Over, Begun
    <3>4. ASSUME NEW s \in DOMAIN segs'
          PROVE  Named(segs[s].cmd)'
      <4>1. CASE segs' = segs
        <5>1. PICK d : d = segs[s].cmd
          OBVIOUS
        <5>2. Named(d)'
          BY <1>3, <1>5, <3>4, <4>1, <5>1
        <5> QED
          BY <4>1, <5>1, <5>2
      <4>2. ASSUME NEW to, segs' = Append(segs, [cmd |-> c, to |-> to])
            PROVE  Named(segs[s].cmd)'
        <5>1. PICK x : x = [cmd |-> c, to |-> to]
          OBVIOUS
        <5>2. /\ IsSeq(segs') /\ Len(segs') = Len(segs) + 1 /\ segs'[Len(segs) + 1] = x
              /\ \A i \in 1..Len(segs) : segs'[i] = segs[i]
          BY <1>1, <4>2, <5>1, AppendFacts
        <5>3. s \in 1..Len(segs) \/ s = Len(segs) + 1
          BY <1>1, <3>4, <5>2, SeqFacts
        <5>4. CASE s \in 1..Len(segs)
          <6>1. PICK d : d = segs[s].cmd
            OBVIOUS
          <6>2. Named(d)' /\ segs'[s].cmd = d
            BY <1>1, <1>3, <1>5, <5>2, <5>4, <6>1
          <6> QED
            BY <6>2
        <5>5. CASE s = Len(segs) + 1
          <6>1. segs'[s].cmd = c
            BY <5>1, <5>2, <5>5
          <6> QED
            BY <3>2, <6>1
        <5> QED
          BY <5>3, <5>4, <5>5
      <4> QED
        BY <3>3, <4>1, <4>2
    <3>5. Named(cmd)'
      BY <2>2, <3>2
    <3> QED
      BY <3>4, <3>5 DEF NamedInv
  <2>4. CASE Rests(c)
    <3>1. ctl'.at \in Between /\ segs' = segs
      BY <2>4 DEF Rests
    <3>2. ASSUME NEW s \in DOMAIN segs'
          PROVE  Named(segs[s].cmd)'
      <4>1. PICK d : d = segs[s].cmd
        OBVIOUS
      <4>2. Named(d)'
        BY <1>3, <1>5, <3>1, <3>2, <4>1
      <4> QED
        BY <3>1, <4>1, <4>2
    <3> QED
      BY <3>1, <3>2 DEF NamedInv
  <2> QED
    BY <1>6, <2>2, <2>3, <2>4, CommandSteps
<1>7. ASSUME cmd' = cmd, segs' = segs, ctl'.at \notin Between => ctl.at \notin Between
      PROVE  NamedInv'
  <2>1. ASSUME NEW s \in DOMAIN segs'
        PROVE  Named(segs[s].cmd)'
    <3>1. PICK d : d = segs[s].cmd
      OBVIOUS
    <3>2. Named(d)'
      BY <1>3, <1>5, <1>7, <2>1, <3>1
    <3> QED
      BY <1>7, <3>1, <3>2
  <2>2. ASSUME ctl'.at \notin Between
        PROVE  Named(cmd)'
    <3>1. PICK c, from : c = cmd /\ from = c.from
      OBVIOUS
    <3>2. Named(c) /\ from \in 2..pos
      BY <1>7, <2>2, <3>1 DEF NamedInv, SegsInv
    <3>3. from \in 1..pos
      BY <1>1, <3>2
    <3>4. Named(c)'
      BY <1>3, <3>1, <3>2, <3>3
    <3> QED
      BY <1>7, <3>1, <3>4
  <2> QED
    BY <2>1, <2>2 DEF NamedInv
<1>8. CASE Step /\ Inside
  <2>1. cmd' = cmd /\ segs' = segs
    BY <1>8, InsideKeeps
  <2>2. ctl.at \notin Between
    BY <1>8 DEF Inside, Parsing, Between
  <2> QED
    BY <1>7, <2>1, <2>2
<1>9. CASE Lex \/ UNCHANGED vars
  BY <1>7, <1>9 DEF Lex, vars
<1> QED
  BY <1>6, <1>8, <1>9 DEF Next

\* In every program custom commands and their options are called by names.
LEMMA NamedInvariant == Spec => []NamedInv
<1>1. Init => NamedInv
  BY DEF Init, NamedInv, Between
<1>2. ExprInv /\ SegsInv /\ AskedInv /\ KindInv /\ OptInv /\ NamedInv /\ [Next]_vars => NamedInv'
  BY NamedInvIsStable
<1> QED
  BY <1>1, <1>2, ExpressionInvariant, SegsInvariant, AskedInvariant, KindInvariant,
     OptInvariant, PTL DEF Spec

\* In a command the integer in front of a sign is an argument, the end of one, or the
\* value of an option, and the sign begins an element of a vector or an argument.
SignsGoOn ==
  \A s \in DOMAIN segs : \A p \in segs[s].cmd.from..segs[s].to :
     LET c == segs[s].cmd IN
     c.kind = "custom" /\ Signed(p) =>
       \/ InVector(p)
       \/ Begins(c.args, p) /\ (Len(c.args) > 1 \/ DOMAIN c.options # {})

\* Of the tokens of a command none is signed but in an expression.
LEMMA SignsAreRead ==
  ASSUME NEW c, NEW to \in Int, GreedyTo(c, to), Named(c), c.kind = "custom", c.from \in 2..to,
         NEW p \in c.from..to, toks[p] \in {"int", "neg"}
  PROVE  \/ \E e \in DOMAIN c.args : p \in nodes[c.args[e]].from..nodes[c.args[e]].to
         \/ \E q \in Valued(c, to) : \E id \in DOMAIN nodes :
              nodes[id].from = q + 1 /\ p \in nodes[id].from..nodes[id].to
<1>1. PICK from \in Int : from = c.from
  OBVIOUS
<1>2. \A q \in Keys(c, to) : toks[q] \in Names
  BY DEF GreedyTo, Named
<1>3. p # from /\ p \notin Keys(c, to) /\ toks[p] # "subsub"
  BY <1>1, <1>2, IntegersAreNoToken DEF Named
<1>4. p \in (from + 1)..to
  BY <1>1, <1>3
<1>5. Used(c, to, p)
  BY <1>1, <1>4 DEF GreedyTo
<1>6. \A k \in DOMAIN c.options : /\ c.options[k] \in DOMAIN nodes
                                  /\ \E q \in Valued(c, to) : nodes[c.options[k]].from = q + 1
  BY DEF GreedyTo, OptionKept
<1> QED
  BY <1>3, <1>5, <1>6 DEF Used

\* In every program a sign behind an integer begins an element of a vector or an
\* argument of the command.
LEMMA ParserSigns == Spec => []SignsGoOn
<1>1. ASSUME ExprInv, SegsInv, KindInv, OptInv, NamedInv, SignInv
      PROVE  SignsGoOn
  <2> SUFFICES ASSUME NEW s \in DOMAIN segs, NEW c, NEW to, c = segs[s].cmd, to = segs[s].to,
                      NEW p \in c.from..to, c.kind = "custom", Signed(p)
               PROVE  \/ InVector(p)
                      \/ Begins(c.args, p) /\ (Len(c.args) > 1 \/ DOMAIN c.options # {})
    BY DEF SignsGoOn
  <2>1. GreedyTo(c, to) /\ Refers(c) /\ Named(c) /\ c.from \in 2..to
    BY <1>1 DEF OptInv, KindInv, NamedInv, SegsInv, SegHolds
  <2>2. to \in Int
    BY <1>1, ToksFacts DEF SegsInv, SegHolds
  <2>3. PICK from \in Int : from = c.from
    BY <2>1
  <2>4. \A q \in Valued(c, to) : toks[q] \in Names /\ toks[q] \in DOMAIN c.options /\ q \in Int
    <3>1. \A q \in Valued(c, to) : q \in Int
      BY <2>2, <2>3 DEF Valued, Keys
    <3> QED
      BY <2>1, <3>1 DEF GreedyTo, Named
  <2>5. /\ toks[p] \in {"int", "neg"} /\ toks[p - 1] \in {"int", "neg"}
        /\ p - 1 \in c.from..to /\ p \in Int
    <3>1. p # from \/ toks[p] \in Names
      BY <2>1, <2>3 DEF Named
    <3>2. p # from
      BY <3>1, IntegersAreNoToken DEF Signed
    <3> QED
      BY <2>2, <2>3, <3>2 DEF Signed
  <2>6. ASSUME NEW id \in DOMAIN nodes, p \in nodes[id].from..nodes[id].to
        PROVE  InVector(p) \/ nodes[id].from = p
    <3>1. PICK a \in Int, b \in Int : a = nodes[id].from /\ b = nodes[id].to
      BY <1>1, NodeEnds
    <3>2. p = a \/ p \in (a + 1)..b
      BY <2>6, <3>1
    <3> QED
      BY <1>1, <3>1, <3>2 DEF SignInv, SignsInside
  <2>7. \A e \in DOMAIN c.args : c.args[e] \in DOMAIN nodes
    BY <1>1, <2>1, PlacedFacts DEF Refers
  <2>8. ASSUME NEW q \in Valued(c, to), NEW id \in DOMAIN nodes, nodes[id].from = q + 1,
               p \in nodes[id].from..nodes[id].to
        PROVE  InVector(p)
    <3>1. nodes[id].from # p
      <4>1. ASSUME p = q + 1
            PROVE  FALSE
        <5>1. p - 1 = q
          BY <2>4, <4>1
        <5> QED
          BY <2>4, <2>5, <5>1, IntegersAreNoToken
      <4> QED
        BY <2>8, <4>1
    <3> QED
      BY <2>6, <2>8, <3>1
  <2>9. ASSUME NEW e \in DOMAIN c.args, p \in nodes[c.args[e]].from..nodes[c.args[e]].to
        PROVE  \/ InVector(p)
               \/ Begins(c.args, p) /\ (Len(c.args) > 1 \/ DOMAIN c.options # {})
    <3> SUFFICES ASSUME nodes[c.args[e]].from = p
                 PROVE  Begins(c.args, p) /\ (Len(c.args) > 1 \/ DOMAIN c.options # {})
      BY <2>6, <2>7, <2>9
    <3>1. Begins(c.args, p)
      BY DEF Begins
    <3>2. CASE \E q \in Valued(c, to) : TRUE
      BY <2>4, <3>1, <3>2
    <3>3. CASE ~ \E q \in Valued(c, to) : TRUE
      <4>1. PICK g \in DOMAIN c.args : p - 1 \in nodes[c.args[g]].from..nodes[c.args[g]].to
        BY <2>1, <2>2, <2>5, <3>3, SignsAreRead
      <4>2. g # e
        <5>1. ASSUME NEW b, p - 1 \in p..b
              PROVE  FALSE
          <6>1. p - 1 >= p
            BY <5>1
          <6> QED
            BY <2>5, <6>1
        <5> QED
          BY <4>1, <5>1
      <4>3. DOMAIN c.args = 1..Len(c.args) /\ Len(c.args) \in Nat
        BY <2>1 DEF Refers
      <4>4. Len(c.args) > 1
        <5>1. PICK k : k = Len(c.args)
          OBVIOUS
        <5>2. k \in Nat /\ e \in 1..k /\ g \in 1..k /\ g # e
          BY <2>9, <4>1, <4>2, <4>3, <5>1
        <5>3. k > 1
          BY <5>2
        <5> QED
          BY <5>1, <5>3
      <4> QED
        BY <3>1, <4>4
    <3> QED
      BY <3>2, <3>3
  <2> QED
    BY <2>1, <2>2, <2>5, <2>8, <2>9, SignsAreRead
<1> QED
  BY <1>1, ExpressionInvariant, SegsInvariant, KindInvariant, OptInvariant, NamedInvariant,
     SignInvariant, PTL
=============================================================================

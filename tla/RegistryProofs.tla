--------------------------- MODULE RegistryProofs ---------------------------
(***************************************************************************)
(* Proofs about the table that `build` fills: it is a matching of names to *)
(* definitions at every step, and the fault reported is the first one,     *)
(* whatever the host program registers.                                    *)
(***************************************************************************)
EXTENDS RegistryBuilder, UntypedSeqs, WellFoundedInduction, FiniteSetTheorems

\* Lists, seen as sequences.
LEMMA ListIsSeq ==
  ASSUME NEW s
  PROVE  IsList(s) <=> IsSeq(s)
<1>1. ASSUME IsList(s) PROVE IsSeq(s)
  <2> DEFINE S == {s[i] : i \in 1..Len(s)}
  <2>1. s \in [1..Len(s) -> S] /\ Len(s) \in Nat
    BY <1>1, <1>1 DEF IsList
  <2>2. s \in Seq(S)
    BY <2>1
  <2> QED
    BY <2>2 DEF IsSeq
<1>2. ASSUME IsSeq(s) PROVE IsList(s)
  BY <1>2 DEF IsSeq, IsList
<1> QED
  BY <1>1, <1>2

\* Two lists after each other.
LEMMA JoinFacts ==
  ASSUME NEW s, NEW t, IsSeq(s), IsSeq(t)
  PROVE  /\ IsSeq(s \o t)
         /\ Len(s \o t) = Len(s) + Len(t)
         /\ \A i \in 1..Len(s) : (s \o t)[i] = s[i]
         /\ \A i \in 1..Len(t) : (s \o t)[Len(s) + i] = t[i]
<1>1. PICK S, T : s \in Seq(S) /\ t \in Seq(T)
  BY DEF IsSeq
<1>2. s \in Seq(S \cup T) /\ t \in Seq(S \cup T)
  BY <1>1
<1> QED
  BY <1>2 DEF IsSeq

\* A list of one, or of none.
LEMMA SingleFacts ==
  ASSUME NEW x
  PROVE  IsSeq(<<x>>) /\ Len(<<x>>) = 1 /\ <<x>>[1] = x /\ IsSeq(<<>>)
<1>1. <<x>> \in Seq({x}) /\ <<>> \in Seq({x})
  OBVIOUS
<1> QED
  BY <1>1 DEF IsSeq

-----------------------------------------------------------------------------
\* The first fault is that of the first check that fails.
LEMMA FirstIs ==
  ASSUME NEW c, DOMAIN c \subseteq Nat, NEW k \in DOMAIN c,
         c[k] # {}, \A i \in DOMAIN c : i < k => c[i] = {}
  PROVE  First(c) = c[k]
<1> DEFINE failed == {i \in DOMAIN c : c[i] # {}}
           least  == CHOOSE i \in failed : \A j \in failed : i <= j
<1>1. k \in failed /\ \A j \in failed : k <= j
  OBVIOUS
<1>2. least \in failed /\ \A j \in failed : least <= j
  BY <1>1
<1>3. least = k
  BY <1>1, <1>2
<1> QED
  BY <1>1, <1>3 DEF First

\* If none fails there is no fault.
LEMMA FirstNone ==
  ASSUME NEW c, \A i \in DOMAIN c : c[i] = {}
  PROVE  First(c) = {}
BY DEF First

\* Of two checks the first that complains counts.
LEMMA FirstOfTwo ==
  ASSUME NEW x, NEW y
  PROVE  /\ x # {} => First(<<x, y>>) = x
         /\ x = {} => First(<<x, y>>) = y
<1> SUFFICES ASSUME NEW c, c = <<x, y>>
             PROVE  (x # {} => First(c) = x) /\ (x = {} => First(c) = y)
  OBVIOUS
<1>1. DOMAIN c = 1..2 /\ c[1] = x /\ c[2] = y /\ DOMAIN c \subseteq Nat
  OBVIOUS
<1>2. ASSUME c[1] # {} PROVE First(c) = c[1]
  <2>1. \A i \in DOMAIN c : i < 1 => c[i] = {}
    BY <1>1, <1>2
  <2> QED
    BY <1>1, <1>2, <2>1, FirstIs
<1>3. ASSUME c[1] = {} /\ c[2] # {} PROVE First(c) = c[2]
  <2>1. \A i \in DOMAIN c : i < 2 => c[i] = {}
    BY <1>1, <1>3
  <2> QED
    BY <1>1, <1>3, <2>1, FirstIs
<1>4. c[1] = {} /\ c[2] = {} => First(c) = {}
  BY <1>1, FirstNone
<1> QED
  BY <1>1, <1>2, <1>3, <1>4

\* Of three checks the first that complains counts.
LEMMA FirstOfThree ==
  ASSUME NEW x, NEW y, NEW z
  PROVE  /\ x # {} => First(<<x, y, z>>) = x
         /\ x = {} /\ y # {} => First(<<x, y, z>>) = y
         /\ x = {} /\ y = {} => First(<<x, y, z>>) = z
<1> SUFFICES ASSUME NEW c, c = <<x, y, z>>
             PROVE  /\ x # {} => First(c) = x
                    /\ x = {} /\ y # {} => First(c) = y
                    /\ x = {} /\ y = {} => First(c) = z
  OBVIOUS
<1>1. /\ DOMAIN c = 1..3 /\ c[1] = x /\ c[2] = y /\ c[3] = z
      /\ DOMAIN c \subseteq Nat
  OBVIOUS
<1>2. ASSUME c[1] # {} PROVE First(c) = c[1]
  <2>1. \A i \in DOMAIN c : i < 1 => c[i] = {}
    BY <1>1, <1>2
  <2> QED
    BY <1>1, <1>2, <2>1, FirstIs
<1>3. ASSUME c[1] = {} /\ c[2] # {} PROVE First(c) = c[2]
  <2>1. \A i \in DOMAIN c : i < 2 => c[i] = {}
    BY <1>1, <1>3
  <2> QED
    BY <1>1, <1>3, <2>1, FirstIs
<1>4. ASSUME c[1] = {} /\ c[2] = {} /\ c[3] # {} PROVE First(c) = c[3]
  <2>1. \A i \in DOMAIN c : i < 3 => c[i] = {}
    BY <1>1, <1>4
  <2> QED
    BY <1>1, <1>4, <2>1, FirstIs
<1>5. c[1] = {} /\ c[2] = {} /\ c[3] = {} => First(c) = {}
  BY <1>1, FirstNone
<1> QED
  BY <1>1, <1>2, <1>3, <1>4, <1>5

\* A set of numbers below a bound has a greatest one.
LEMMA Greatest ==
  ASSUME NEW L \in Nat, NEW T, T \subseteq 1..L, T # {}
  PROVE  \E x \in T : \A y \in T : y <= x
<1> DEFINE U == {L - t : t \in T}
<1>1. U \subseteq Nat /\ U # {}
  <2>1. \A t \in T : L - t \in Nat
    OBVIOUS
  <2>2. PICK t \in T : TRUE
    OBVIOUS
  <2>3. L - t \in U
    BY <2>2
  <2> QED
    BY <2>1, <2>3
<1>2. PICK u \in U : \A v \in U : ~ (<<v, u>> \in OpToRel(<, Nat))
  BY <1>1, NatLessThanWellFounded, WFMin
<1>3. \A v \in U : ~ (v < u)
  BY <1>1, <1>2 DEF OpToRel
<1>4. PICK x \in T : u = L - x
  BY <1>2
<1>5. ASSUME NEW y \in T PROVE y <= x
  BY <1>3, <1>4, <1>5
<1> QED
  BY <1>5

-----------------------------------------------------------------------------
\* The names of a definition.
LEMMA KeyFacts ==
  ASSUME NEW b, BuilderOK(b)
  PROVE  /\ IsSeq(KeysOf(b))
         /\ Len(KeysOf(b)) \in Nat \ {0}
         /\ DOMAIN KeysOf(b) = 1..Len(KeysOf(b))
<1>1. IsSeq(b.aliases) /\ Len(b.aliases) \in Nat
  BY ListIsSeq, SeqFacts DEF BuilderOK
<1>2. IsSeq(<<b.name>>) /\ Len(<<b.name>>) = 1
  BY SingleFacts
<1>3. IsSeq(KeysOf(b)) /\ Len(KeysOf(b)) = 1 + Len(b.aliases)
  BY <1>1, <1>2, JoinFacts DEF KeysOf
<1> QED
  BY <1>1, <1>3, SeqFacts

\* Its types.
LEMMA TypesFacts ==
  ASSUME NEW b, BuilderOK(b)
  PROVE  /\ Len(TypesOf(b)) \in Nat
         /\ DOMAIN TypesOf(b) = 1..Len(TypesOf(b))
<1> DEFINE last == IF b.arg = <<>> THEN <<>> ELSE b.arg[1].accepts
<1>1. IsSeq(b.returns) /\ IsSeq(b.depends_on) /\ IsSeq(b.arg)
  BY ListIsSeq DEF BuilderOK
<1>2. IsSeq(last)
  <2>1. CASE b.arg = <<>>
    BY <2>1, SingleFacts
  <2>2. CASE b.arg # <<>>
    <3>1. 1 \in DOMAIN b.arg
      BY <1>1, <2>2, SeqFacts
    <3> QED
      BY <2>2, <3>1, ListIsSeq DEF BuilderOK
  <2> QED
    BY <2>1, <2>2
<1> HIDE DEF last
<1>3. IsSeq(b.returns \o b.depends_on)
  BY <1>1, JoinFacts
<1>4. IsSeq((b.returns \o b.depends_on) \o last)
  BY <1>2, <1>3, JoinFacts
<1>5. TypesOf(b) = (b.returns \o b.depends_on) \o last
  BY DEF TypesOf, last
<1> QED
  BY <1>4, <1>5, SeqFacts

\* The schema that is entered under a name is of that name; and it is the last
\* of its definition.
LEMMA LastNamingFacts ==
  ASSUME NEW b, BuilderOK(b), NEW t \in Naming(b)
  PROVE  LET n == NameAt(b, t) IN
         /\ LastNaming(b, n) \in Naming(b)
         /\ NameAt(b, LastNaming(b, n)) = n
         /\ (\A u \in Naming(b) : NameAt(b, u) = n => u <= t) => LastNaming(b, n) = t
<1> DEFINE n == NameAt(b, t)
           T == {u \in Naming(b) : NameAt(b, u) = n}
<1>1. Len(TypesOf(b)) \in Nat /\ Naming(b) \subseteq 1..Len(TypesOf(b))
  BY TypesFacts DEF Naming
<1>2. t \in T /\ T \subseteq 1..Len(TypesOf(b))
  BY <1>1
<1> HIDE DEF n
<1>3. \E x \in T : \A y \in T : y <= x
  BY <1>1, <1>2, Greatest
<1>4. /\ LastNaming(b, n) \in Naming(b)
      /\ NameAt(b, LastNaming(b, n)) = n
      /\ \A j \in Naming(b) : NameAt(b, j) = n => j <= LastNaming(b, n)
  BY <1>3 DEF LastNaming
<1>5. ASSUME \A u \in Naming(b) : NameAt(b, u) = n => u <= t
      PROVE  LastNaming(b, n) = t
  <2>1. LastNaming(b, n) <= t
    BY <1>4, <1>5
  <2>2. t <= LastNaming(b, n)
    BY <1>2, <1>4
  <2> QED
    BY <1>1, <1>2, <1>4, <2>1, <2>2
<1> QED
  BY <1>4, <1>5 DEF n

-----------------------------------------------------------------------------
(***************************************************************************)
(* The inductive invariant.                                                *)
(***************************************************************************)

\* The host holds at most one builder, and has made a call for each it registered.
HostInv ==
  /\ IsSeq(draft) /\ Len(draft) \in 0..1
  /\ IsSeq(builder) /\ Len(builder) \in 0..calls
  /\ calls \in 0..MaxCalls
  /\ \A i \in DOMAIN draft : BuilderOK(draft[i])
  /\ \A i \in DOMAIN builder : BuilderOK(builder[i])

\* How far `build` is.
PlaceInv ==
  /\ phase \in {"register", "build", "done"}
  /\ next \in 1..(Len(builder) + 1)
  /\ next <= Len(builder) => key \in 0..Len(KeysOf(builder[next]))
  /\ next > Len(builder) => key = 0
  /\ phase = "register" =>
       next = 1 /\ key = 0 /\ DOMAIN commands = {} /\ DOMAIN schemas = {}

Past(i, a) == i < next \/ (i = next /\ a < key)
Taking(i)  == i < next \/ (i = next /\ key > 0)
Going      == phase # "done" \/ IsOk(outcome)

\* A name in the table is bound to a definition that has it; unless the last
\* insertion replaced one, the names in it are those entered so far.
TableInv ==
  /\ \A n \in DOMAIN commands :
       /\ commands[n] \in DOMAIN builder
       /\ \E a \in DOMAIN KeysOf(builder[commands[n]]) :
            /\ KeysOf(builder[commands[n]])[a] = n
            /\ Going => Past(commands[n], a)
  /\ Going =>
       \A i \in DOMAIN builder : \A a \in DOMAIN KeysOf(builder[i]) :
         Past(i, a) => /\ KeysOf(builder[i])[a] \in DOMAIN commands
                       /\ commands[KeysOf(builder[i])[a]] = i

\* The schemas are those of the definitions taken so far, the last of each name.
SchemaInv ==
  /\ \A n \in DOMAIN schemas :
       /\ schemas[n][2] = n
       /\ \E i \in DOMAIN builder : Taking(i) /\ \E t \in Naming(builder[i]) :
            NameAt(builder[i], t) = n
  /\ \A i \in DOMAIN builder : \A t \in Naming(builder[i]) :
       Taking(i) =>
         /\ NameAt(builder[i], t) \in DOMAIN schemas
         /\ (\A j \in i..Len(builder) : \A u \in Naming(builder[j]) :
               Taking(j) /\ NameAt(builder[j], u) = NameAt(builder[i], t) => j = i /\ u <= t)
            => schemas[NameAt(builder[i], t)] = SchemaAt(builder[i], t)

\* There is no fault in what `build` has been through, and the verdict is that
\* of the definition it is at.
VerdictInv ==
  /\ \A i \in DOMAIN builder : i < next => FirstFaultOf(i) = {}
  /\ \A i \in DOMAIN builder : i = next /\ key > 0 =>
       /\ BuildFault(builder[i]) = {} /\ SchemaFault(builder[i]) = {}
       /\ \A a \in DOMAIN KeysOf(builder[i]) : a < key => Clashes(i)[a] = {}
  /\ phase # "done" => outcome = Unbuilt
  /\ phase = "done" =>
       \/ IsOk(outcome) /\ next = Len(builder) + 1
       \/ next \in DOMAIN builder /\ \E f \in FirstFaultOf(next) : outcome = Err(f)

RegistryInvariant == HostInv /\ PlaceInv /\ TableInv /\ SchemaInv /\ VerdictInv

\* A host that has made no builder yet.
LEMMA InitRegistry == Init => RegistryInvariant
<1> SUFFICES ASSUME Init PROVE RegistryInvariant
  OBVIOUS
<1>1. IsSeq(<<>>) /\ Len(<<>>) = 0 /\ DOMAIN <<>> = {}
  <2>1. IsSeq(<<>>)
    BY SingleFacts
  <2>2. Len(<<>>) = 0 /\ DOMAIN <<>> = {}
    OBVIOUS
  <2> QED
    BY <2>1, <2>2
<1>2. /\ draft = <<>> /\ builder = <<>> /\ calls = 0 /\ phase = "register"
      /\ next = 1 /\ key = 0 /\ DOMAIN commands = {} /\ DOMAIN schemas = {}
      /\ outcome = Unbuilt
  BY DEF Init
<1>3. HostInv
  BY <1>1, <1>2, KitsAssumption DEF HostInv
<1>4. PlaceInv
  BY <1>1, <1>2 DEF PlaceInv
<1>5. TableInv /\ SchemaInv /\ VerdictInv
  BY <1>1, <1>2 DEF TableInv, SchemaInv, VerdictInv
<1> QED
  BY <1>3, <1>4, <1>5 DEF RegistryInvariant

-----------------------------------------------------------------------------
\* Every call leaves a builder with its parts.
LEMMA SetterOK ==
  ASSUME NEW b, BuilderOK(b), NEW x
  PROVE  /\ BuilderOK([b EXCEPT !.name = x])
         /\ BuilderOK([b EXCEPT !.aliases = Append(@, x)])
         /\ \A a \in Args : BuilderOK([b EXCEPT !.arg = <<a>>])
         /\ BuilderOK([b EXCEPT !.options = Append(@, x)])
         /\ BuilderOK([b EXCEPT !.depends_on = Append(@, x)])
         /\ BuilderOK([b EXCEPT !.returns = <<x>>])
         /\ BuilderOK([b EXCEPT !.handler = x])
<1>1. /\ b = [name |-> b.name, aliases |-> b.aliases, arg |-> b.arg, handler |-> b.handler,
              options |-> b.options, depends_on |-> b.depends_on, returns |-> b.returns]
      /\ IsList(b.aliases) /\ IsList(b.depends_on) /\ IsList(b.returns) /\ IsList(b.arg)
      /\ IsList(b.options)
      /\ \A i \in DOMAIN b.arg : IsList(b.arg[i].accepts)
  BY DEF BuilderOK
<1>2. \A s : IsList(s) => IsList(Append(s, x))
  BY ListIsSeq, AppendFacts
<1>3. \A y : IsList(<<y>>) /\ DOMAIN <<y>> = {1} /\ <<y>>[1] = y
  <2> TAKE y
  <2>1. IsList(<<y>>)
    BY ListIsSeq, SingleFacts
  <2> QED
    BY <2>1
<1>5. BuilderOK([b EXCEPT !.name = x])
  BY <1>1 DEF BuilderOK
<1>6. BuilderOK([b EXCEPT !.aliases = Append(@, x)])
  <2>1. \A y : IsList(y) => BuilderOK([b EXCEPT !.aliases = y])
    BY <1>1 DEF BuilderOK
  <2> QED
    BY <1>1, <1>2, <2>1
<1>7. ASSUME NEW a \in Args PROVE BuilderOK([b EXCEPT !.arg = <<a>>])
  <2>1. IsList(a.accepts) /\ IsList(<<a>>) /\ DOMAIN <<a>> = {1} /\ <<a>>[1] = a
    BY <1>3, KitsAssumption
  <2> QED
    BY <1>1, <2>1 DEF BuilderOK
<1>8. BuilderOK([b EXCEPT !.options = Append(@, x)])
  <2>1. \A y : IsList(y) => BuilderOK([b EXCEPT !.options = y])
    BY <1>1 DEF BuilderOK
  <2> QED
    BY <1>1, <1>2, <2>1
<1>9. BuilderOK([b EXCEPT !.depends_on = Append(@, x)])
  <2>1. \A y : IsList(y) => BuilderOK([b EXCEPT !.depends_on = y])
    BY <1>1 DEF BuilderOK
  <2> QED
    BY <1>1, <1>2, <2>1
<1>10. BuilderOK([b EXCEPT !.returns = <<x>>])
  BY <1>1, <1>3 DEF BuilderOK
<1>11. BuilderOK([b EXCEPT !.handler = x])
  BY <1>1 DEF BuilderOK
<1> QED
  BY <1>5, <1>6, <1>7, <1>8, <1>9, <1>10, <1>11

\* Before `build` there is nothing in the tables.
LEMMA HostStep ==
  ASSUME RegistryInvariant, Host, HostInv'
  PROVE  RegistryInvariant'
<1>1. /\ UNCHANGED table /\ phase = "register" /\ phase' = "register"
      /\ next = 1 /\ key = 0 /\ DOMAIN commands = {} /\ DOMAIN schemas = {}
      /\ outcome = Unbuilt
  BY DEF Host, RegistryInvariant, PlaceInv, VerdictInv
<1>2. /\ next' = 1 /\ key' = 0 /\ DOMAIN commands' = {} /\ DOMAIN schemas' = {}
      /\ outcome' = Unbuilt
  BY <1>1 DEF table
<1>3. IsSeq(builder') /\ Len(builder') \in Nat /\ DOMAIN builder' = 1..Len(builder')
  BY SeqFacts DEF HostInv
<1>4. PlaceInv'
  <2>1. next' <= Len(builder') => 0 \in 0..Len(KeysOf(builder'[next']))
    BY <1>2, <1>3, KeyFacts DEF HostInv
  <2> QED
    BY <1>1, <1>2, <1>3, <2>1 DEF PlaceInv
<1>5. TableInv'
  <2>1. \A i \in DOMAIN builder' : \A a \in DOMAIN KeysOf(builder'[i]) :
          i \in Nat \ {0} /\ a \in Nat
    BY <1>3, KeyFacts DEF HostInv
  <2>2. \A i \in DOMAIN builder' : \A a \in DOMAIN KeysOf(builder'[i]) : ~ Past(i, a)'
    BY <1>2, <2>1 DEF Past
  <2> QED
    BY <1>2, <2>2 DEF TableInv
<1>6. SchemaInv'
  BY <1>2, <1>3 DEF SchemaInv, Taking
<1>7. VerdictInv'
  BY <1>1, <1>2, <1>3 DEF VerdictInv
<1> QED
  BY <1>4, <1>5, <1>6, <1>7 DEF RegistryInvariant

\* A call that leaves one builder at hand.
LEMMA SetStep ==
  ASSUME RegistryInvariant, Call, NEW b, BuilderOK(b), draft' = <<b>>, UNCHANGED builder
  PROVE  RegistryInvariant'
<1>1. Host /\ calls' = calls + 1 /\ calls < MaxCalls /\ HostInv
  BY DEF Call, RegistryInvariant
<1>2. IsSeq(draft') /\ Len(draft') = 1 /\ DOMAIN draft' = 1..1 /\ draft'[1] = b
  BY SingleFacts, SeqFacts
<1>3. calls' \in 0..MaxCalls /\ Len(builder') \in 0..calls'
  BY <1>1, KitsAssumption DEF HostInv
<1>4. HostInv'
  BY <1>1, <1>2, <1>3 DEF HostInv
<1> QED
  BY <1>1, <1>4, HostStep

\* A setter changes the builder at hand only.
LEMMA SetterStep ==
  ASSUME RegistryInvariant,
         name \/ alias \/ arg \/ option \/ depends_on \/ returns \/ handler
  PROVE  RegistryInvariant'
<1>1. Call /\ UNCHANGED builder
  BY DEF name, alias, arg, option, depends_on, returns, handler, Set, Push
<1>2. 1 \in DOMAIN draft /\ BuilderOK(draft[1])
  <2>1. draft # <<>> /\ IsSeq(draft)
    BY <1>1 DEF Call, RegistryInvariant, HostInv
  <2>2. 1 \in DOMAIN draft
    BY <2>1, SeqFacts
  <2> QED
    BY <2>2 DEF RegistryInvariant, HostInv
<1>3. ASSUME NEW b, BuilderOK(b), draft' = <<b>> PROVE RegistryInvariant'
  BY <1>1, <1>3, SetStep
<1> DEFINE d == draft[1]
<1> HIDE DEF d
<1>4. BuilderOK(d)
  BY <1>2 DEF d
<1>5. CASE name
  <2>1. PICK x : draft' = <<[d EXCEPT !.name = x]>>
    BY <1>5 DEF name, Set, d
  <2>2. BuilderOK([d EXCEPT !.name = x])
    BY <1>4, SetterOK
  <2> QED
    BY <1>3, <2>1, <2>2
<1>6. CASE alias
  <2>1. PICK x : draft' = <<[d EXCEPT !.aliases = Append(@, x)]>>
    BY <1>6 DEF alias, Push, d
  <2>2. BuilderOK([d EXCEPT !.aliases = Append(@, x)])
    BY <1>4, SetterOK
  <2> QED
    BY <1>3, <2>1, <2>2
<1>7. CASE arg
  <2>1. PICK a \in Args : draft' = <<[d EXCEPT !.arg = <<a>>]>>
    BY <1>7 DEF arg, Set, d
  <2>2. BuilderOK([d EXCEPT !.arg = <<a>>])
    BY <1>4, SetterOK
  <2> QED
    BY <1>3, <2>1, <2>2
<1>8. CASE option
  <2>1. PICK x : draft' = <<[d EXCEPT !.options = Append(@, x)]>>
    BY <1>8 DEF option, Push, d
  <2>2. BuilderOK([d EXCEPT !.options = Append(@, x)])
    BY <1>4, SetterOK
  <2> QED
    BY <1>3, <2>1, <2>2
<1>9. CASE depends_on
  <2>1. PICK x : draft' = <<[d EXCEPT !.depends_on = Append(@, x)]>>
    BY <1>9 DEF depends_on, Push, d
  <2>2. BuilderOK([d EXCEPT !.depends_on = Append(@, x)])
    BY <1>4, SetterOK
  <2> QED
    BY <1>3, <2>1, <2>2
<1>10. CASE returns
  <2>1. PICK x : draft' = <<[d EXCEPT !.returns = <<x>>]>>
    BY <1>10 DEF returns, Set, d
  <2>2. BuilderOK([d EXCEPT !.returns = <<x>>])
    BY <1>4, SetterOK
  <2> QED
    BY <1>3, <2>1, <2>2
<1>11. CASE handler
  <2>1. draft' = <<[d EXCEPT !.handler = TRUE]>>
    BY <1>11 DEF handler, Set, d
  <2>2. BuilderOK([d EXCEPT !.handler = TRUE])
    BY <1>4, SetterOK
  <2> QED
    BY <1>3, <2>1, <2>2
<1> QED
  BY <1>5, <1>6, <1>7, <1>8, <1>9, <1>10, <1>11

\* The other steps of the host.
LEMMA BeginStep == RegistryInvariant /\ Begin => RegistryInvariant'
<1> SUFFICES ASSUME RegistryInvariant, Begin PROVE RegistryInvariant'
  OBVIOUS
<1>1. PICK b \in Kits : draft' = <<b>>
  BY DEF Begin
<1>2. IsSeq(draft') /\ Len(draft') = 1 /\ DOMAIN draft' = 1..1 /\ draft'[1] = b
  BY <1>1, SingleFacts, SeqFacts
<1>3. BuilderOK(b)
  BY <1>1, KitsAssumption
<1>4. HostInv'
  BY <1>2, <1>3 DEF HostInv, RegistryInvariant, Begin
<1> QED
  BY <1>4, HostStep DEF Begin

\* A description, a usage or a flag changes nothing that `build` looks at.
LEMMA AnnotateStep == RegistryInvariant /\ annotate => RegistryInvariant'
<1> SUFFICES ASSUME RegistryInvariant, annotate PROVE RegistryInvariant'
  OBVIOUS
<1>1. /\ UNCHANGED <<draft, builder>> /\ Host
      /\ calls' = calls + 1 /\ calls < MaxCalls /\ HostInv
  BY DEF annotate, Call, RegistryInvariant
<1>2. calls' \in 0..MaxCalls /\ Len(builder') \in 0..calls'
  BY <1>1, KitsAssumption DEF HostInv
<1>3. HostInv'
  BY <1>1, <1>2 DEF HostInv
<1> QED
  BY <1>1, <1>3, HostStep

\* `register` puts the builder at hand behind the others.
LEMMA RegisterStep == RegistryInvariant /\ register => RegistryInvariant'
<1> SUFFICES ASSUME RegistryInvariant, register PROVE RegistryInvariant'
  OBVIOUS
<1>1. /\ Host /\ draft # <<>> /\ calls' = calls + 1 /\ calls < MaxCalls /\ HostInv
      /\ builder' = builder \o draft /\ draft' = <<>>
  BY DEF register, Call, RegistryInvariant
<1>2. /\ IsSeq(draft) /\ Len(draft) = 1 /\ DOMAIN draft = 1..1
      /\ IsSeq(builder) /\ Len(builder) \in Nat /\ DOMAIN builder = 1..Len(builder)
  <2>1. IsSeq(draft) /\ IsSeq(builder) /\ Len(draft) \in 0..1
    BY <1>1 DEF HostInv
  <2>2. Len(draft) # 0
    BY <1>1, <2>1, SeqFacts
  <2> QED
    BY <2>1, <2>2, SeqFacts
<1>3. /\ IsSeq(builder') /\ Len(builder') = Len(builder) + 1
      /\ \A i \in 1..Len(builder) : builder'[i] = builder[i]
      /\ builder'[Len(builder) + 1] = draft[1]
  <2>1. IsSeq(builder') /\ Len(builder') = Len(builder) + Len(draft)
    BY <1>1, <1>2, JoinFacts
  <2>2. \A i \in 1..Len(builder) : builder'[i] = builder[i]
    BY <1>1, <1>2, JoinFacts
  <2>3. \A i \in 1..Len(draft) : builder'[Len(builder) + i] = draft[i]
    BY <1>1, <1>2, JoinFacts
  <2>4. 1 \in 1..Len(draft)
    BY <1>2
  <2> QED
    BY <1>2, <2>1, <2>2, <2>3, <2>4
<1>4. DOMAIN builder' = 1..Len(builder')
  BY <1>3, SeqFacts
<1>5. \A i \in DOMAIN builder' : BuilderOK(builder'[i])
  <2> SUFFICES ASSUME NEW i \in DOMAIN builder' PROVE BuilderOK(builder'[i])
    OBVIOUS
  <2>1. i \in 1..Len(builder) \/ i = Len(builder) + 1
    BY <1>2, <1>3, <1>4
  <2> QED
    BY <1>1, <1>2, <1>3, <2>1 DEF HostInv
<1>6. calls' \in 0..MaxCalls /\ Len(builder') \in 0..calls'
  BY <1>1, <1>2, <1>3, KitsAssumption DEF HostInv
<1>7. IsSeq(draft') /\ Len(draft') = 0 /\ DOMAIN draft' = {}
  <2>1. IsSeq(<<>>)
    BY SingleFacts
  <2>2. Len(<<>>) = 0 /\ DOMAIN <<>> = {}
    OBVIOUS
  <2> QED
    BY <1>1, <2>1, <2>2
<1>8. HostInv'
  BY <1>3, <1>5, <1>6, <1>7 DEF HostInv
<1> QED
  BY <1>1, <1>8, HostStep

-----------------------------------------------------------------------------
\* What `build` goes through stays as it was registered.
LEMMA FaultsSame ==
  ASSUME builder' = builder
  PROVE  /\ \A i : Clashes(i)' = Clashes(i)
         /\ \A i : FirstFaultOf(i)' = FirstFaultOf(i)
<1>1. \A i, a : EnteredBefore(i, a)' = EnteredBefore(i, a)
  BY DEF EnteredBefore
<1>2. \A i : Clashes(i)' = Clashes(i)
  BY <1>1 DEF Clashes
<1> QED
  BY <1>2 DEF FirstFaultOf

\* Each registered builder has finitely many names, and at least one.
LEMMA BuilderFacts ==
  ASSUME HostInv
  PROVE  /\ Len(builder) \in Nat /\ DOMAIN builder = 1..Len(builder)
         /\ \A i \in DOMAIN builder :
              /\ Len(KeysOf(builder[i])) \in Nat \ {0}
              /\ DOMAIN KeysOf(builder[i]) = 1..Len(KeysOf(builder[i]))
BY SeqFacts, KeyFacts DEF HostInv

\* `build` begins with empty tables at the first builder.
LEMMA StartStep == RegistryInvariant /\ build => RegistryInvariant'
<1> SUFFICES ASSUME RegistryInvariant, build PROVE RegistryInvariant'
  OBVIOUS
<1>1. /\ UNCHANGED <<draft, calls, builder, next, key, commands, schemas, outcome>>
      /\ phase = "register" /\ phase' = "build"
  BY DEF build, host, table
<1>2. HostInv'
  BY <1>1 DEF RegistryInvariant, HostInv
<1>3. PlaceInv'
  BY <1>1 DEF RegistryInvariant, PlaceInv
<1>4. TableInv'
  BY <1>1 DEF RegistryInvariant, TableInv, Going, Past
<1>5. SchemaInv'
  BY <1>1 DEF RegistryInvariant, SchemaInv, Taking
<1>6. VerdictInv'
  BY <1>1, FaultsSame DEF RegistryInvariant, VerdictInv
<1> QED
  BY <1>2, <1>3, <1>4, <1>5, <1>6 DEF RegistryInvariant

\* A definition with a fault of its own is refused with it.
LEMMA RefuseStep ==
  ASSUME RegistryInvariant, BuildDefinition, phase' = "done"
  PROVE  RegistryInvariant'
<1> DEFINE b == builder[next]
           faults == First(<<BuildFault(b), SchemaFault(b)>>)
<1>1. /\ UNCHANGED <<draft, calls, builder, next, commands>>
      /\ phase = "build" /\ next \in DOMAIN builder /\ key = 0
  BY DEF BuildDefinition, host
<1>2. PICK f \in faults : outcome' = Err(<<f>>) /\ UNCHANGED <<key, schemas>>
  BY <1>1 DEF BuildDefinition, Return
<1>3. ~ IsOk(outcome') /\ ~ Going'
  BY <1>2 DEF IsOk, Err, Going
<1>4. <<f>> \in FirstFaultOf(next)
  <2>1. \/ BuildFault(b) # {} /\ faults = BuildFault(b)
        \/ BuildFault(b) = {} /\ faults = SchemaFault(b)
    BY FirstOfTwo
  <2>2. CASE BuildFault(b) # {} /\ faults = BuildFault(b)
    <3>1. <<f>> \in Alone(BuildFault(b))
      BY <1>2, <2>2 DEF Alone
    <3> QED
      BY <3>1, FirstOfThree DEF FirstFaultOf
  <2>3. CASE BuildFault(b) = {} /\ faults = SchemaFault(b)
    <3>1. <<f>> \in Alone(SchemaFault(b)) /\ Alone(BuildFault(b)) = {}
      BY <1>2, <2>3 DEF Alone
    <3> QED
      BY <3>1, FirstOfThree DEF FirstFaultOf
  <2> QED
    BY <2>1, <2>2, <2>3
<1>5. HostInv'
  BY <1>1 DEF RegistryInvariant, HostInv
<1>6. PlaceInv'
  BY <1>1, <1>2 DEF RegistryInvariant, PlaceInv
<1>7. TableInv'
  BY <1>1, <1>3 DEF RegistryInvariant, TableInv
<1>8. SchemaInv'
  BY <1>1, <1>2 DEF RegistryInvariant, SchemaInv, Taking
<1>9. VerdictInv'
  BY <1>1, <1>2, <1>4, FaultsSame DEF RegistryInvariant, VerdictInv
<1> QED
  BY <1>5, <1>6, <1>7, <1>8, <1>9 DEF RegistryInvariant

\* The schemas of a definition that is accepted.
LEMMA PopulateStep ==
  ASSUME RegistryInvariant, BuildDefinition, phase' = "build"
  PROVE  SchemaInv'
<1> DEFINE b == builder[next]
           names == {NameAt(b, t) : t \in Naming(b)}
<1>1. /\ builder' = builder /\ next' = next /\ key = 0 /\ key' = 1
      /\ next \in DOMAIN builder /\ schemas' = Populated(b)
  BY DEF BuildDefinition, host, Return
<1>2. BuilderOK(b) /\ next \in 1..Len(builder) /\ Len(builder) \in Nat
  BY <1>1, BuilderFacts DEF RegistryInvariant, HostInv
<1>3. \A i \in DOMAIN builder : Taking(i)' <=> Taking(i) \/ i = next
  BY <1>1 DEF Taking
<1>4. /\ DOMAIN schemas' = DOMAIN schemas \cup names
      /\ \A n \in DOMAIN schemas' :
           schemas'[n] = IF n \in names THEN SchemaAt(b, LastNaming(b, n)) ELSE schemas[n]
  BY <1>1 DEF Populated
<1>5. ASSUME NEW n \in DOMAIN schemas'
      PROVE  /\ schemas'[n][2] = n
             /\ \E i \in DOMAIN builder : Taking(i)' /\ \E t \in Naming(builder[i]) :
                  NameAt(builder[i], t) = n
  <2>1. CASE n \in names
    <3>1. PICK t \in Naming(b) : NameAt(b, t) = n
      BY <2>1
    <3>2. NameAt(b, LastNaming(b, n)) = n
      BY <1>2, <3>1, LastNamingFacts
    <3>3. schemas'[n][2] = n
      BY <1>4, <2>1, <3>2 DEF NameAt
    <3> QED
      BY <1>1, <1>3, <3>1, <3>3
  <2>2. CASE n \notin names
    <3>1. n \in DOMAIN schemas /\ schemas'[n] = schemas[n]
      BY <1>4, <2>2
    <3> QED
      BY <1>3, <3>1 DEF RegistryInvariant, SchemaInv
  <2> QED
    BY <2>1, <2>2
<1>6. ASSUME NEW i \in DOMAIN builder, NEW t \in Naming(builder[i]), Taking(i)'
      PROVE  LET n == NameAt(builder[i], t) IN
             /\ n \in DOMAIN schemas'
             /\ (\A j \in i..Len(builder) : \A u \in Naming(builder[j]) :
                   Taking(j)' /\ NameAt(builder[j], u) = n => j = i /\ u <= t)
                => schemas'[n] = SchemaAt(builder[i], t)
  <2> DEFINE n == NameAt(builder[i], t)
             Last == \A j \in i..Len(builder) : \A u \in Naming(builder[j]) :
                       Taking(j)' /\ NameAt(builder[j], u) = n => j = i /\ u <= t
  <2>1. CASE i = next
    <3>1. n \in names
      BY <2>1
    <3>2. ASSUME Last PROVE schemas'[n] = SchemaAt(builder[i], t)
      <4>1. \A u \in Naming(b) : NameAt(b, u) = n => u <= t
        BY <1>2, <1>3, <2>1, <3>2
      <4>2. LastNaming(b, n) = t
        BY <1>2, <2>1, <4>1, LastNamingFacts
      <4> QED
        BY <1>4, <2>1, <3>1, <4>2
    <3> QED
      BY <1>4, <3>1, <3>2
  <2>2. CASE i # next
    <3>1. Taking(i) /\ i < next /\ i \in Nat
      BY <1>1, <1>2, <1>3, <1>6, <2>2, BuilderFacts DEF Taking, RegistryInvariant
    <3>2. n \in DOMAIN schemas
      BY <3>1 DEF RegistryInvariant, SchemaInv
    <3>3. ASSUME Last PROVE schemas'[n] = SchemaAt(builder[i], t)
      <4>1. n \notin names
        <5>1. next \in i..Len(builder)
          BY <1>2, <3>1
        <5> QED
          BY <1>1, <1>3, <2>2, <3>3, <5>1
      <4>2. \A j \in i..Len(builder) : j \in DOMAIN builder
        BY <3>1, BuilderFacts DEF RegistryInvariant
      <4>3. schemas[n] = SchemaAt(builder[i], t)
        BY <1>3, <3>1, <3>3, <4>2 DEF RegistryInvariant, SchemaInv
      <4> QED
        BY <1>4, <3>2, <4>1, <4>3
    <3> QED
      BY <1>4, <3>2, <3>3
  <2> QED
    BY <2>1, <2>2
<1> HIDE DEF b, names
<1> QED
  BY <1>1, <1>5, <1>6 DEF SchemaInv

\* A definition without a fault of its own leaves its schemas behind.
LEMMA AcceptStep ==
  ASSUME RegistryInvariant, BuildDefinition, phase' = "build"
  PROVE  RegistryInvariant'
<1> DEFINE b == builder[next]
<1>1. /\ UNCHANGED <<draft, calls, builder, next, commands, outcome>>
      /\ phase = "build" /\ next \in DOMAIN builder /\ key = 0 /\ key' = 1
      /\ First(<<BuildFault(b), SchemaFault(b)>>) = {}
  BY DEF BuildDefinition, host, Return
<1>2. /\ Len(builder) \in Nat /\ DOMAIN builder = 1..Len(builder)
      /\ \A i \in DOMAIN builder :
              /\ Len(KeysOf(builder[i])) \in Nat \ {0}
              /\ DOMAIN KeysOf(builder[i]) = 1..Len(KeysOf(builder[i]))
  BY BuilderFacts DEF RegistryInvariant
<1>3. \A i \in DOMAIN builder : \A a \in DOMAIN KeysOf(builder[i]) : Past(i, a)' <=> Past(i, a)
  BY <1>1, <1>2 DEF Past
<1>4. HostInv'
  BY <1>1 DEF RegistryInvariant, HostInv
<1>5. PlaceInv'
  BY <1>1, <1>2 DEF RegistryInvariant, PlaceInv
<1>6. TableInv'
  BY <1>1, <1>3 DEF RegistryInvariant, TableInv, Going
<1>7. VerdictInv'
  <2>1. BuildFault(b) = {} /\ SchemaFault(b) = {}
    BY <1>1, FirstOfTwo
  <2>2. \A a \in DOMAIN KeysOf(b) : ~ (a < 1)
    BY <1>1, <1>2
  <2> QED
    BY <1>1, <2>1, <2>2, FaultsSame DEF RegistryInvariant, VerdictInv
<1> QED
  BY <1>4, <1>5, <1>6, <1>7, PopulateStep DEF RegistryInvariant

-----------------------------------------------------------------------------
\* While `build` goes on, the names in the table are those entered so far.
LEMMA InTable ==
  ASSUME RegistryInvariant, Going, NEW i \in DOMAIN builder, i = next,
         NEW a \in DOMAIN KeysOf(builder[i]), a = key, NEW n
  PROVE  n \in DOMAIN commands <=> n \in EnteredBefore(i, a)
<1>1. /\ Len(builder) \in Nat /\ DOMAIN builder = 1..Len(builder)
      /\ \A j \in DOMAIN builder :
              /\ Len(KeysOf(builder[j])) \in Nat \ {0}
              /\ DOMAIN KeysOf(builder[j]) = 1..Len(KeysOf(builder[j]))
  BY BuilderFacts DEF RegistryInvariant
<1>2. n \in EnteredBefore(i, a) <=>
        \E j \in DOMAIN builder : \E c \in DOMAIN KeysOf(builder[j]) :
          Past(j, c) /\ KeysOf(builder[j])[c] = n
  <2>1. ASSUME NEW j \in 1..(i - 1) PROVE j \in DOMAIN builder /\ j < next
    BY <1>1
  <2>2. ASSUME NEW c \in 1..(a - 1) PROVE c \in DOMAIN KeysOf(builder[i]) /\ c < key
    BY <1>1
  <2>3. ASSUME n \in EnteredBefore(i, a)
        PROVE  \E j \in DOMAIN builder : \E c \in DOMAIN KeysOf(builder[j]) :
                 Past(j, c) /\ KeysOf(builder[j])[c] = n
    BY <2>1, <2>2, <2>3 DEF EnteredBefore, Past
  <2>4. ASSUME NEW j \in DOMAIN builder, NEW c \in DOMAIN KeysOf(builder[j]),
               Past(j, c), KeysOf(builder[j])[c] = n
        PROVE  n \in EnteredBefore(i, a)
    <3>1. CASE j < next
      <4>1. j \in 1..(i - 1)
        BY <1>1, <3>1
      <4> QED
        BY <2>4, <4>1 DEF EnteredBefore
    <3>2. CASE j = next /\ c < key
      <4>1. c \in 1..(a - 1)
        BY <1>1, <3>2
      <4> QED
        BY <2>4, <3>2, <4>1 DEF EnteredBefore
    <3> QED
      BY <2>4, <3>1, <3>2 DEF Past
  <2> QED
    BY <2>3, <2>4
<1>3. n \in DOMAIN commands <=>
        \E j \in DOMAIN builder : \E c \in DOMAIN KeysOf(builder[j]) :
          Past(j, c) /\ KeysOf(builder[j])[c] = n
  BY DEF RegistryInvariant, TableInv
<1> QED
  BY <1>2, <1>3

\* An insertion adds one name to the table and changes no other.
LEMMA InsertFacts ==
  ASSUME RegistryInvariant, InsertKey
  PROVE  LET n == KeysOf(builder[next])[key] IN
         /\ UNCHANGED <<draft, calls, builder, schemas>>
         /\ phase = "build" /\ Going
         /\ next \in DOMAIN builder /\ next \in 1..Len(builder)
         /\ key \in DOMAIN KeysOf(builder[next]) /\ key \in 1..Len(KeysOf(builder[next]))
         /\ DOMAIN commands' = DOMAIN commands \cup {n}
         /\ commands'[n] = next
         /\ \A m \in DOMAIN commands : m # n => commands'[m] = commands[m]
<1> DEFINE n == KeysOf(builder[next])[key]
<1>1. /\ UNCHANGED <<draft, calls, builder, schemas>>
      /\ phase = "build" /\ key > 0 /\ commands' = Insert(n, next)
  BY DEF InsertKey, host
<1>2. next \in DOMAIN builder /\ key \in DOMAIN KeysOf(builder[next])
  <2>1. next <= Len(builder) /\ next \in 1..Len(builder)
    BY <1>1, BuilderFacts DEF RegistryInvariant, PlaceInv
  <2> QED
    BY <1>1, <2>1, BuilderFacts DEF RegistryInvariant, PlaceInv
<1>3. next \in 1..Len(builder) /\ key \in 1..Len(KeysOf(builder[next]))
  BY <1>2, BuilderFacts DEF RegistryInvariant
<1> HIDE DEF n
<1>4. /\ DOMAIN commands' = DOMAIN commands \cup {n}
      /\ commands'[n] = next
      /\ \A m \in DOMAIN commands : m # n => commands'[m] = commands[m]
  BY <1>1 DEF Insert
<1> QED
  BY <1>1, <1>2, <1>3, <1>4 DEF n, Going

\* A name that is in the table is refused, whoever has it.
LEMMA DuplicateStep ==
  ASSUME RegistryInvariant, InsertKey, phase' = "done"
  PROVE  RegistryInvariant'
<1> DEFINE n == KeysOf(builder[next])[key]
<1>1. /\ UNCHANGED <<draft, calls, builder, schemas>>
      /\ phase = "build" /\ Going
      /\ next \in DOMAIN builder /\ next \in 1..Len(builder)
      /\ key \in DOMAIN KeysOf(builder[next]) /\ key \in 1..Len(KeysOf(builder[next]))
      /\ DOMAIN commands' = DOMAIN commands \cup {n}
      /\ commands'[n] = next
      /\ \A m \in DOMAIN commands : m # n => commands'[m] = commands[m]
  BY InsertFacts
<1>2. /\ n \in DOMAIN commands
      /\ outcome' = Err(<<"DuplicateCommandName", n>>)
      /\ UNCHANGED <<next, key>>
  BY <1>1 DEF InsertKey, Taken, Return
<1>3. ~ IsOk(outcome') /\ ~ Going'
  BY <1>2 DEF IsOk, Err, Going
<1>4. FirstFaultOf(next) = {<<"DuplicateCommandName", n>>}
  <2>1. /\ Alone(BuildFault(builder[next])) = {} /\ Alone(SchemaFault(builder[next])) = {}
        /\ \A a \in DOMAIN KeysOf(builder[next]) : a < key => Clashes(next)[a] = {}
    BY <1>1 DEF RegistryInvariant, VerdictInv, Alone
  <2>2. n \in EnteredBefore(next, key)
    BY <1>1, <1>2, InTable
  <2>3. DOMAIN Clashes(next) = DOMAIN KeysOf(builder[next])
    BY DEF Clashes
  <2>4. Clashes(next)[key] = {<<"DuplicateCommandName", n>>}
    BY <1>1, <2>2 DEF Clashes, When
  <2>5. DOMAIN Clashes(next) \subseteq Nat
    BY <1>1, <2>3, BuilderFacts DEF RegistryInvariant
  <2>6. First(Clashes(next)) = Clashes(next)[key]
    <3> DEFINE c == Clashes(next)
    <3>1. DOMAIN c \subseteq Nat /\ key \in DOMAIN c /\ c[key] # {}
      BY <1>1, <2>3, <2>4, <2>5
    <3>2. \A i \in DOMAIN c : i < key => c[i] = {}
      BY <2>1, <2>3
    <3> HIDE DEF c
    <3>3. First(c) = c[key]
      BY <3>1, <3>2, FirstIs
    <3> QED
      BY <3>3 DEF c
  <2> QED
    BY <2>1, <2>4, <2>6, FirstOfThree DEF FirstFaultOf
<1>5. HostInv'
  BY <1>1 DEF RegistryInvariant, HostInv
<1>6. PlaceInv'
  BY <1>1, <1>2 DEF RegistryInvariant, PlaceInv
<1>7. TableInv'
  <2>1. ASSUME NEW m \in DOMAIN commands'
        PROVE  /\ commands'[m] \in DOMAIN builder
               /\ \E a \in DOMAIN KeysOf(builder[commands'[m]]) :
                    KeysOf(builder[commands'[m]])[a] = m
    <3>1. CASE m = n
      BY <1>1, <3>1
    <3>2. CASE m # n
      BY <1>1, <3>2 DEF RegistryInvariant, TableInv
    <3> QED
      BY <3>1, <3>2
  <2> HIDE DEF n
  <2> QED
    BY <1>1, <1>3, <2>1 DEF TableInv
<1>8. SchemaInv'
  BY <1>1, <1>2 DEF RegistryInvariant, SchemaInv, Taking
<1>9. VerdictInv'
  BY <1>1, <1>2, <1>4, FaultsSame DEF RegistryInvariant, VerdictInv
<1> QED
  BY <1>5, <1>6, <1>7, <1>8, <1>9 DEF RegistryInvariant

\* A name that is not is entered.
LEMMA EnterStep ==
  ASSUME RegistryInvariant, InsertKey, phase' # "done"
  PROVE  RegistryInvariant'
<1> DEFINE keys == KeysOf(builder[next])
           n == keys[key]
<1>1. /\ UNCHANGED <<draft, calls, builder, schemas>>
      /\ phase = "build" /\ Going
      /\ next \in DOMAIN builder /\ next \in 1..Len(builder)
      /\ key \in DOMAIN keys /\ key \in 1..Len(keys)
      /\ DOMAIN commands' = DOMAIN commands \cup {n}
      /\ commands'[n] = next
      /\ \A m \in DOMAIN commands : m # n => commands'[m] = commands[m]
  BY InsertFacts
<1>2. /\ n \notin DOMAIN commands
      /\ UNCHANGED <<phase, outcome>>
      /\ \/ key = Len(keys) /\ next' = next + 1 /\ key' = 0
         \/ key # Len(keys) /\ next' = next /\ key' = key + 1
  BY <1>1 DEF InsertKey, Taken, Return, IsLastKey
<1>3. /\ Len(builder) \in Nat /\ DOMAIN builder = 1..Len(builder)
      /\ \A i \in DOMAIN builder :
              /\ Len(KeysOf(builder[i])) \in Nat \ {0}
              /\ DOMAIN KeysOf(builder[i]) = 1..Len(KeysOf(builder[i]))
  BY BuilderFacts DEF RegistryInvariant
<1>4. \A i \in DOMAIN builder : \A a \in DOMAIN KeysOf(builder[i]) :
        Past(i, a)' <=> Past(i, a) \/ (i = next /\ a = key)
  <2> SUFFICES ASSUME NEW i \in DOMAIN builder, NEW a \in DOMAIN KeysOf(builder[i])
               PROVE  Past(i, a)' <=> Past(i, a) \/ (i = next /\ a = key)
    OBVIOUS
  <2>1. i \in Nat /\ a \in Nat /\ (i = next => a <= Len(keys)) /\ next \in Nat /\ key \in Nat
    BY <1>1, <1>3
  <2> HIDE DEF keys
  <2> QED
    BY <1>2, <2>1 DEF Past
<1>5. \A i \in DOMAIN builder : Taking(i)' <=> Taking(i)
  BY <1>1, <1>2, <1>3 DEF Taking
<1>6. \A a \in DOMAIN keys : a <= key => Clashes(next)[a] = {}
  <2>1. \A a \in DOMAIN keys : a < key => Clashes(next)[a] = {}
    BY <1>1 DEF RegistryInvariant, VerdictInv
  <2>2. n \notin EnteredBefore(next, key)
    BY <1>1, <1>2, InTable
  <2>3. Clashes(next)[key] = {}
    BY <1>1, <2>2 DEF Clashes, When
  <2> QED
    BY <1>1, <1>3, <2>1, <2>3
<1>7. HostInv'
  BY <1>1 DEF RegistryInvariant, HostInv
<1>8. PlaceInv'
  <2>1. CASE key = Len(keys) /\ next' = next + 1 /\ key' = 0
    <3>1. next' \in 1..(Len(builder) + 1)
      BY <1>1, <1>3, <2>1
    <3>2. next' <= Len(builder) => 0 \in 0..Len(KeysOf(builder[next']))
      BY <1>3, <3>1
    <3> QED
      BY <1>1, <1>2, <2>1, <3>1, <3>2 DEF PlaceInv
  <2>2. CASE key # Len(keys) /\ next' = next /\ key' = key + 1
    <3>1. key' \in 0..Len(keys) /\ next' \in 1..(Len(builder) + 1) /\ ~ (next' > Len(builder))
      BY <1>1, <1>3, <2>2
    <3> QED
      BY <1>1, <1>2, <2>2, <3>1 DEF PlaceInv
  <2> QED
    BY <1>2, <2>1, <2>2
<1>9. TableInv'
  <2>1. Going'
    BY <1>1, <1>2 DEF Going
  <2>2. ASSUME NEW m \in DOMAIN commands'
        PROVE  \E i \in DOMAIN builder : \E a \in DOMAIN KeysOf(builder[i]) :
                 commands'[m] = i /\ KeysOf(builder[i])[a] = m /\ Past(i, a)'
    <3>1. CASE m = n
      BY <1>1, <1>4, <3>1
    <3>2. CASE m # n
      <4>1. m \in DOMAIN commands /\ commands'[m] = commands[m]
        BY <1>1, <3>2
      <4>2. PICK i \in DOMAIN builder : commands[m] = i /\
                   \E a \in DOMAIN KeysOf(builder[i]) : KeysOf(builder[i])[a] = m /\ Past(i, a)
        BY <1>1, <4>1 DEF RegistryInvariant, TableInv
      <4> QED
        BY <1>4, <4>1, <4>2
    <3> QED
      BY <3>1, <3>2
  <2>3. ASSUME NEW i \in DOMAIN builder, NEW a \in DOMAIN KeysOf(builder[i]), Past(i, a)'
        PROVE  /\ KeysOf(builder[i])[a] \in DOMAIN commands'
               /\ commands'[KeysOf(builder[i])[a]] = i
    <3>1. CASE i = next /\ a = key
      BY <1>1, <3>1
    <3>2. CASE Past(i, a)
      <4>1. /\ KeysOf(builder[i])[a] \in DOMAIN commands
            /\ commands[KeysOf(builder[i])[a]] = i
        BY <1>1, <3>2 DEF RegistryInvariant, TableInv
      <4> QED
        BY <1>1, <1>2, <4>1
    <3> QED
      BY <1>4, <2>3, <3>1, <3>2
  <2> HIDE DEF n, keys
  <2> QED
    BY <1>1, <2>1, <2>2, <2>3 DEF TableInv
<1>10. SchemaInv'
  <2>1. \A i \in DOMAIN builder : \A j \in i..Len(builder) : j \in DOMAIN builder
    BY <1>3
  <2> HIDE DEF n, keys
  <2> QED
    BY <1>1, <1>5, <2>1 DEF RegistryInvariant, SchemaInv
<1>11. VerdictInv'
  <2>1. \A i \in DOMAIN builder : i < next' => FirstFaultOf(i) = {}
    <3> SUFFICES ASSUME NEW i \in DOMAIN builder, i < next' PROVE FirstFaultOf(i) = {}
      OBVIOUS
    <3>1. CASE i < next
      BY <3>1 DEF RegistryInvariant, VerdictInv
    <3>2. CASE i = next /\ key = Len(keys)
      <4>1. Alone(BuildFault(builder[i])) = {} /\ Alone(SchemaFault(builder[i])) = {}
        BY <1>1, <3>2 DEF RegistryInvariant, VerdictInv, Alone
      <4>2. \A a \in DOMAIN Clashes(i) : Clashes(i)[a] = {}
        BY <1>3, <1>6, <3>2 DEF Clashes
      <4>3. First(Clashes(i)) = {}
        <5> DEFINE c == Clashes(i)
        <5> HIDE DEF c
        <5>1. First(c) = {}
          BY <4>2, FirstNone DEF c
        <5> QED
          BY <5>1 DEF c
      <4> QED
        BY <4>1, <4>3, FirstOfThree DEF FirstFaultOf
    <3>3. i < next \/ (i = next /\ key = Len(keys))
      BY <1>1, <1>2, <1>3
    <3> QED
      BY <3>1, <3>2, <3>3
  <2>2. \A i \in DOMAIN builder : i = next' /\ key' > 0 =>
          /\ BuildFault(builder[i]) = {} /\ SchemaFault(builder[i]) = {}
          /\ \A a \in DOMAIN KeysOf(builder[i]) : a < key' => Clashes(i)[a] = {}
    <3> SUFFICES ASSUME next' = next, key' = key + 1
                 PROVE  /\ BuildFault(builder[next]) = {} /\ SchemaFault(builder[next]) = {}
                        /\ \A a \in DOMAIN keys : a < key + 1 => Clashes(next)[a] = {}
      BY <1>2
    <3>1. \A a \in DOMAIN keys : a < key + 1 => a <= key
      BY <1>1, <1>3
    <3>2. BuildFault(builder[next]) = {} /\ SchemaFault(builder[next]) = {}
      BY <1>1 DEF RegistryInvariant, VerdictInv
    <3> QED
      BY <1>6, <3>1, <3>2
  <2>3. phase' # "done" /\ outcome' = Unbuilt
    BY <1>1, <1>2 DEF RegistryInvariant, VerdictInv
  <2>4. /\ \A i : Clashes(i)' = Clashes(i)
        /\ \A i : FirstFaultOf(i)' = FirstFaultOf(i)
    BY <1>1, FaultsSame
  <2> HIDE DEF n, keys
  <2> QED
    BY <1>1, <2>1, <2>2, <2>3, <2>4 DEF VerdictInv
<1> QED
  BY <1>7, <1>8, <1>9, <1>10, <1>11 DEF RegistryInvariant

\* The loop of `build` ends behind the last builder, with all names entered.
LEMMA EndStep == RegistryInvariant /\ BuildEnd => RegistryInvariant'
<1> SUFFICES ASSUME RegistryInvariant, BuildEnd PROVE RegistryInvariant'
  OBVIOUS
<1>1. /\ UNCHANGED <<draft, calls, builder, next, key, commands, schemas>>
      /\ phase = "build" /\ phase' = "done" /\ outcome' = Ok(NoneV)
      /\ next = Len(builder) + 1
  BY DEF BuildEnd, host, Return, AllBuilt
<1>2. IsOk(outcome') /\ Going' /\ Going
  BY <1>1 DEF IsOk, Ok, Going
<1>3. HostInv'
  BY <1>1 DEF RegistryInvariant, HostInv
<1>4. PlaceInv'
  BY <1>1 DEF RegistryInvariant, PlaceInv
<1>5. TableInv'
  BY <1>1, <1>2 DEF RegistryInvariant, TableInv, Past
<1>6. SchemaInv'
  BY <1>1 DEF RegistryInvariant, SchemaInv, Taking
<1>7. VerdictInv'
  BY <1>1, <1>2, FaultsSame DEF RegistryInvariant, VerdictInv
<1> QED
  BY <1>3, <1>4, <1>5, <1>6, <1>7 DEF RegistryInvariant

\* Every step of the host and of `build` keeps the invariant.
LEMMA NextRegistry == RegistryInvariant /\ [Next]_vars => RegistryInvariant'
<1> SUFFICES ASSUME RegistryInvariant, [Next]_vars PROVE RegistryInvariant'
  OBVIOUS
<1>1. CASE Begin
  BY <1>1, BeginStep
<1>2. CASE name \/ alias \/ arg \/ option \/ depends_on \/ returns \/ handler
  BY <1>2, SetterStep
<1>3. CASE annotate
  BY <1>3, AnnotateStep
<1>4. CASE register
  BY <1>4, RegisterStep
<1>5. CASE build
  BY <1>5, StartStep
<1>6. CASE BuildDefinition
  <2>1. phase' = "done" \/ phase' = "build"
    BY <1>6 DEF BuildDefinition, Return
  <2> QED
    BY <1>6, <2>1, RefuseStep, AcceptStep
<1>7. CASE InsertKey
  BY <1>7, DuplicateStep, EnterStep
<1>8. CASE BuildEnd
  BY <1>8, EndStep
<1>9. CASE UNCHANGED vars
  <2>1. UNCHANGED <<draft, calls, builder, phase, next, key, commands, schemas, outcome>>
    BY <1>9 DEF vars
  <2> QED
    BY <2>1, FaultsSame DEF RegistryInvariant, HostInv, PlaceInv, TableInv, SchemaInv,
       VerdictInv, Going, Past, Taking
<1> QED
  BY <1>1, <1>2, <1>3, <1>4, <1>5, <1>6, <1>7, <1>8, <1>9 DEF Next

\* The invariant holds for every set of builders.
LEMMA RegistryHolds == Spec => []RegistryInvariant
<1> QED
  BY InitRegistry, NextRegistry, PTL DEF Spec

-----------------------------------------------------------------------------
\* A registry is only returned behind the last definition.
LEMMA ReturnedAtEnd ==
  ASSUME RegistryInvariant, IsOk(outcome)
  PROVE  /\ Going
         /\ \A i \in DOMAIN builder : i < next
         /\ DOMAIN builder = 1..Len(builder) /\ Len(builder) \in Nat
<1>1. phase = "done" /\ next = Len(builder) + 1
  BY DEF RegistryInvariant, VerdictInv, IsOk, Unbuilt, Err
<1> QED
  BY <1>1, BuilderFacts DEF RegistryInvariant, Going

\* The variables of the registry have their types: the table leads to definitions
\* that were registered, and each schema is kept under its own name.
THEOREM RegistryTyped == Spec => []TypeOK
<1>1. RegistryInvariant => TypeOK
  <2> SUFFICES ASSUME RegistryInvariant PROVE TypeOK
    OBVIOUS
  <2>1. HostInv /\ PlaceInv /\ TableInv /\ SchemaInv /\ DOMAIN builder = 1..Len(builder)
    BY BuilderFacts DEF RegistryInvariant
  <2> QED
    BY <2>1 DEF TypeOK, HostInv, PlaceInv, TableInv, SchemaInv
<1> QED
  BY <1>1, RegistryHolds, PTL

\* A registry that is returned answers to every name and alias of every command
\* with that command, and to nothing else.
THEOREM TableIsComplete == Spec => []TableComplete
<1>1. RegistryInvariant => TableComplete
  <2> SUFFICES ASSUME RegistryInvariant, IsOk(outcome)
               PROVE  /\ \A i \in DOMAIN builder : \A a \in DOMAIN KeysOf(builder[i]) :
                           /\ KeysOf(builder[i])[a] \in DOMAIN commands
                           /\ commands[KeysOf(builder[i])[a]] = i
                      /\ \A n \in DOMAIN commands :
                           \E a \in DOMAIN KeysOf(builder[commands[n]]) :
                              KeysOf(builder[commands[n]])[a] = n
    BY DEF TableComplete
  <2>1. Going /\ TableInv /\ \A i \in DOMAIN builder : \A a : Past(i, a)
    BY ReturnedAtEnd DEF RegistryInvariant, Past
  <2> QED
    BY <2>1 DEF TableInv
<1> QED
  BY <1>1, RegistryHolds, PTL

\* The error of `build` is the first fault of the registrations read from the top,
\* and there is none only if they have none.
THEOREM FirstFaultReported == Spec => []VerdictIsFirstFault
<1>1. RegistryInvariant => VerdictIsFirstFault
  <2> SUFFICES ASSUME RegistryInvariant, phase = "done",
                      NEW c, c = [i \in DOMAIN builder |-> FirstFaultOf(i)]
               PROVE  IF First(c) = {} THEN IsOk(outcome)
                                       ELSE outcome \in {Err(f) : f \in First(c)}
    BY DEF VerdictIsFirstFault
  <2>1. DOMAIN c = DOMAIN builder /\ DOMAIN c \subseteq Nat
    BY BuilderFacts DEF RegistryInvariant
  <2>2. \A i \in DOMAIN c : i < next => c[i] = {}
    BY <2>1 DEF RegistryInvariant, VerdictInv
  <2>3. CASE IsOk(outcome)
    <3>1. \A i \in DOMAIN c : c[i] = {}
      BY <2>1, <2>2, <2>3, ReturnedAtEnd
    <3>2. First(c) = {}
      BY <3>1, FirstNone
    <3> QED
      BY <2>3, <3>2
  <2>4. CASE next \in DOMAIN builder /\ \E f \in FirstFaultOf(next) : outcome = Err(f)
    <3>1. PICK f \in FirstFaultOf(next) : outcome = Err(f)
      BY <2>4
    <3>2. next \in DOMAIN c /\ f \in c[next] /\ c[next] # {}
      BY <2>1, <2>4
    <3>3. First(c) = c[next]
      BY <2>1, <2>2, <3>2, FirstIs
    <3> QED
      BY <3>1, <3>2, <3>3
  <2> QED
    BY <2>3, <2>4 DEF RegistryInvariant, VerdictInv
<1> QED
  BY <1>1, RegistryHolds, PTL

\* The schemas of a registry that is returned are those its commands name, for
\* each name the one that was named last.
THEOREM LastSchemaKept == Spec => []SchemasAreTheLast
<1>1. RegistryInvariant => SchemasAreTheLast
  <2> SUFFICES ASSUME RegistryInvariant, IsOk(outcome) PROVE SchemasAreTheLast
    BY DEF SchemasAreTheLast
  <2>1. SchemaInv /\ \A i \in DOMAIN builder : Taking(i)
    BY ReturnedAtEnd DEF RegistryInvariant, Taking
  <2>2. \A i \in DOMAIN builder : \A j \in i..Len(builder) : j \in DOMAIN builder
    BY ReturnedAtEnd
  <2>3. \A n \in DOMAIN schemas : \E i \in DOMAIN builder : \E t \in Naming(builder[i]) :
          NameAt(builder[i], t) = n
    BY <2>1 DEF SchemaInv
  <2>4. ASSUME NEW i \in DOMAIN builder, NEW t \in Naming(builder[i])
        PROVE  /\ NameAt(builder[i], t) \in DOMAIN schemas
               /\ (\A j \in i..Len(builder) : \A u \in Naming(builder[j]) :
                     NameAt(builder[j], u) = NameAt(builder[i], t) => j = i /\ u <= t)
                  => schemas[NameAt(builder[i], t)] = SchemaAt(builder[i], t)
    BY <2>1, <2>2 DEF SchemaInv
  <2> QED
    BY <2>3, <2>4 DEF SchemasAreTheLast
<1> QED
  BY <1>1, RegistryHolds, PTL

\* A name in the table keeps its command, but in the step that fails for it.
THEOREM BindingsKept == Spec => BindingsStick
<1> DEFINE Kept(n) == /\ n \in DOMAIN commands'
                      /\ \/ commands'[n] = commands[n]
                         \/ outcome' = Err(<<"DuplicateCommandName", n>>)
           Keeps == \A n \in DOMAIN commands : Kept(n)
<1>1. RegistryInvariant /\ [Next]_vars => [Keeps]_vars
  <2> SUFFICES ASSUME RegistryInvariant, [Next]_vars, NEW n \in DOMAIN commands PROVE Kept(n)
    OBVIOUS
  <2>1. CASE InsertKey
    <3> DEFINE m == KeysOf(builder[next])[key]
    <3>1. /\ DOMAIN commands' = DOMAIN commands \cup {m}
          /\ n # m => commands'[n] = commands[n]
      BY <2>1, InsertFacts
    <3>2. n = m => outcome' = Err(<<"DuplicateCommandName", m>>)
      BY <2>1 DEF InsertKey, Taken, Return
    <3> QED
      BY <3>1, <3>2
  <2>2. CASE ~ InsertKey
    <3>1. UNCHANGED commands
      BY <2>2 DEF Next, vars, Begin, name, alias, arg, option, depends_on, returns, handler,
                  annotate, register, build, BuildDefinition, BuildEnd, Set, Push, Call,
                  Host, table
    <3> QED
      BY <3>1
  <2> QED
    BY <2>1, <2>2
<1>2. Spec => [][Keeps]_vars
  BY <1>1, RegistryHolds, PTL DEF Spec
<1> QED
  BY <1>2 DEF BindingsStick

-----------------------------------------------------------------------------
\* If a check fails then the first fault is that of one that does.
LEMMA FirstFails ==
  ASSUME NEW c, DOMAIN c \subseteq Nat, NEW i \in DOMAIN c, c[i] # {}
  PROVE  \E k \in DOMAIN c : c[k] # {} /\ First(c) = c[k]
<1> DEFINE failed == {k \in DOMAIN c : c[k] # {}}
<1>1. failed # {}
  OBVIOUS
<1>2. PICK k \in failed : \A j \in failed : ~ (<<j, k>> \in OpToRel(<, Nat))
  BY <1>1, NatLessThanWellFounded, WFMin
<1>3. \A j \in DOMAIN c : j < k => c[j] = {}
  BY <1>2 DEF OpToRel
<1>4. First(c) = c[k]
  BY <1>2, <1>3, FirstIs
<1> QED
  BY <1>2, <1>4

\* If there is no first fault then no check fails.
LEMMA NoneFails ==
  ASSUME NEW c, DOMAIN c \subseteq Nat, First(c) = {}
  PROVE  \A i \in DOMAIN c : c[i] = {}
BY FirstFails

\* The names of a definition of a registry that is returned are all different:
\* the second of two equal ones would have been found in the table.
LEMMA NamesDiffer ==
  ASSUME RegistryInvariant, IsOk(outcome), NEW i \in DOMAIN builder,
         NEW a \in DOMAIN KeysOf(builder[i]), NEW c \in DOMAIN KeysOf(builder[i]), a < c
  PROVE  KeysOf(builder[i])[a] # KeysOf(builder[i])[c]
<1>1. /\ FirstFaultOf(i) = {}
      /\ DOMAIN KeysOf(builder[i]) = 1..Len(KeysOf(builder[i]))
      /\ Len(KeysOf(builder[i])) \in Nat
  BY ReturnedAtEnd, BuilderFacts DEF RegistryInvariant, VerdictInv
<1>2. First(Clashes(i)) = {}
  BY <1>1, FirstOfThree DEF FirstFaultOf
<1>3. DOMAIN Clashes(i) = DOMAIN KeysOf(builder[i])
  BY DEF Clashes
<1>4. Clashes(i)[c] = {}
  BY <1>1, <1>2, <1>3, NoneFails
<1>5. a \in 1..(c - 1)
  BY <1>1
<1>6. KeysOf(builder[i])[a] \in EnteredBefore(i, c)
  BY <1>5 DEF EnteredBefore
<1>7. KeysOf(builder[i])[c] \notin EnteredBefore(i, c)
  BY <1>4 DEF Clashes, When
<1> QED
  BY <1>6, <1>7

\* As many names as places.
LEMMA NamesCounted ==
  ASSUME NEW s, IsSeq(s), \A a, c \in DOMAIN s : a < c => s[a] # s[c]
  PROVE  Cardinality({s[a] : a \in DOMAIN s}) = Len(s)
<1> DEFINE names == {s[a] : a \in DOMAIN s}
<1>1. DOMAIN s = 1..Len(s) /\ Len(s) \in Nat
  BY SeqFacts
<1>2. s \in [1..Len(s) -> names]
  BY <1>1 DEF IsSeq
<1>3. \A a, c \in 1..Len(s) : s[a] = s[c] => a = c
  BY <1>1
<1>4. s \in Bijection(1..Len(s), names)
  BY <1>1, <1>2, <1>3 DEF Bijection, Injection, Surjection, IsInjective
<1>5. ExistsBijection(1..Len(s), names)
  BY <1>4 DEF ExistsBijection
<1>6. IsFiniteSet(1..Len(s)) /\ Cardinality(1..Len(s)) = Len(s)
  BY <1>1, FS_Interval
<1> QED
  BY <1>5, <1>6, FS_Bijection

\* The entries of one definition among those that are listed.
LEMMA ListedOf ==
  ASSUME RegistryInvariant, IsOk(outcome), NEW type, NEW taken, NEW j \in DOMAIN builder
  PROVE  {n \in Listed(type, taken) : commands[n] = j}
           = IF type \in taken[j] THEN {KeysOf(builder[j])[a] : a \in DOMAIN KeysOf(builder[j])}
                                  ELSE {}
<1>1. Going /\ TableInv /\ \A i \in DOMAIN builder : \A a : Past(i, a)
  BY ReturnedAtEnd DEF RegistryInvariant, Past
<1>2. {n \in DOMAIN commands : commands[n] = j}
        = {KeysOf(builder[j])[a] : a \in DOMAIN KeysOf(builder[j])}
  BY <1>1 DEF TableInv
<1> QED
  BY <1>2 DEF Listed

\* The look-ups by type find a command under all its names, and no other.
THEOREM ListedEverywhere == Spec => []ListedUnderEveryName
<1>1. ASSUME RegistryInvariant, IsOk(outcome), NEW i \in DOMAIN builder, NEW j \in DOMAIN builder
      PROVE  LET type   == builder[i].returns[1]
                 keys   == {KeysOf(builder[j])[a] : a \in DOMAIN KeysOf(builder[j])}
                 of(list) == {n \in list : commands[n] = j}
                 input  == \E k \in DOMAIN builder[j].depends_on : builder[j].depends_on[k] = type
                 argument == \E a \in DOMAIN builder[j].arg :
                               \E k \in DOMAIN builder[j].arg[a].accepts :
                                  builder[j].arg[a].accepts[k] = type
             IN  /\ Cardinality(keys) = Len(KeysOf(builder[j]))
                 /\ of(commands_that_accept(i)) = IF input THEN keys ELSE {}
                 /\ of(commands_that_return(i)) = IF argument THEN keys ELSE {}
  <2> DEFINE type   == builder[i].returns[1]
             keys   == {KeysOf(builder[j])[a] : a \in DOMAIN KeysOf(builder[j])}
             input  == \E k \in DOMAIN builder[j].depends_on : builder[j].depends_on[k] = type
             argument == \E a \in DOMAIN builder[j].arg :
                           \E k \in DOMAIN builder[j].arg[a].accepts :
                              builder[j].arg[a].accepts[k] = type
  <2>1. IsSeq(KeysOf(builder[j]))
    BY <1>1, KeyFacts DEF RegistryInvariant, HostInv
  <2>2. Cardinality(keys) = Len(KeysOf(builder[j]))
    BY <1>1, <2>1, NamesDiffer, NamesCounted
  <2>3. type \in Inputs[j] <=> input
    BY DEF Inputs
  <2>4. type \in Accepts[j] <=> argument
    BY DEF Accepts
  <2>5. {n \in commands_that_accept(i) : commands[n] = j}
          = IF type \in Inputs[j] THEN keys ELSE {}
    BY <1>1, ListedOf DEF commands_that_accept
  <2>6. {n \in commands_that_return(i) : commands[n] = j}
          = IF type \in Accepts[j] THEN keys ELSE {}
    BY <1>1, ListedOf DEF commands_that_return
  <2> QED
    BY <2>2, <2>3, <2>4, <2>5, <2>6
<1>2. RegistryInvariant => ListedUnderEveryName
  BY <1>1 DEF ListedUnderEveryName
<1> QED
  BY <1>2, RegistryHolds, PTL

-----------------------------------------------------------------------------
(***************************************************************************)
(* The two checks of a schema.                                             *)
(***************************************************************************)

\* A first fault is the fault of some check.
LEMMA FirstAmong ==
  ASSUME NEW c, DOMAIN c \subseteq Nat, NEW f \in First(c)
  PROVE  \E k \in DOMAIN c : f \in c[k]
<1>1. \E i \in DOMAIN c : c[i] # {}
  BY FirstNone
<1> QED
  BY <1>1, FirstFails

SchemaFaults == {"EmptyObjectSchemaName", "EmptyObjectSchemaFields"}

\* The builder of a command finds no such fault.
LEMMA BuildFaultElsewhere ==
  ASSUME NEW b, BuilderOK(b)
  PROVE  BuildFault(b) \cap SchemaFaults = {}
<1>1. ASSUME NEW s, NEW x, NEW y, x \notin SchemaFaults, y \notin SchemaFaults
      PROVE  require_string(s, x, y) \cap SchemaFaults = {}
  BY <1>1 DEF require_string
<1>2. ASSUME NEW p, NEW x, x \notin SchemaFaults
      PROVE  When(p, x) \cap SchemaFaults = {}
  BY <1>2 DEF When
<1>3. ASSUME NEW c, DOMAIN c \subseteq Nat, \A k \in DOMAIN c : c[k] \cap SchemaFaults = {}
      PROVE  First(c) \cap SchemaFaults = {}
  BY <1>3, FirstAmong
<1>4. ASSUME NEW a
      PROVE  ArgFault(a) \cap SchemaFaults = {}
  <2>1. /\ "MissingArgSchemaName" \notin SchemaFaults /\ "EmptyArgSchemaName" \notin SchemaFaults
        /\ "MissingArgSchemaValueType" \notin SchemaFaults
    BY DEF SchemaFaults
  <2> QED
    BY <1>1, <1>2, <2>1, FirstOfTwo DEF ArgFault
<1>5. ASSUME NEW o
      PROVE  OptionFault(o) \cap SchemaFaults = {}
  <2>1. /\ "MissingOptionSchemaName" \notin SchemaFaults /\ "EmptyOptionSchemaName" \notin SchemaFaults
        /\ "MissingOptionSchemaShort" \notin SchemaFaults
        /\ "EmptyOptionSchemaShort" \notin SchemaFaults
        /\ "MissingOptionSchemaValueType" \notin SchemaFaults
    BY DEF SchemaFaults
  <2> QED
    BY <1>1, <1>2, <2>1, FirstOfThree DEF OptionFault
<1> DEFINE args    == [i \in DOMAIN b.arg |-> ArgFault(b.arg[i])]
           options == [i \in DOMAIN b.options |-> OptionFault(b.options[i])]
<1>6. First(args) \cap SchemaFaults = {} /\ First(options) \cap SchemaFaults = {}
  <2>1. IsSeq(b.arg) /\ IsSeq(b.options)
    BY ListIsSeq DEF BuilderOK
  <2>2. DOMAIN args \subseteq Nat /\ \A k \in DOMAIN args : args[k] \cap SchemaFaults = {}
    BY <1>4, <2>1, SeqFacts
  <2>3. DOMAIN options \subseteq Nat /\ \A k \in DOMAIN options : options[k] \cap SchemaFaults = {}
    BY <1>5, <2>1, SeqFacts
  <2> HIDE DEF args, options
  <2> QED
    BY <1>3, <2>2, <2>3
<1> DEFINE c == <<require_string(b.name, "MissingCommandName", "EmptyCommandName"),
                  First(args),
                  When(~ b.handler, "MissingCommandHandler"),
                  When(b.returns = <<>>, "MissingCommandReturnType"),
                  First(options)>>
<1>7. BuildFault(b) = First(c)
  BY DEF BuildFault
<1> HIDE DEF args, options
<1>8. DOMAIN c \subseteq Nat /\ \A k \in DOMAIN c : c[k] \cap SchemaFaults = {}
  <2>1. /\ "MissingCommandName" \notin SchemaFaults /\ "EmptyCommandName" \notin SchemaFaults
        /\ "MissingCommandHandler" \notin SchemaFaults
        /\ "MissingCommandReturnType" \notin SchemaFaults
    BY DEF SchemaFaults
  <2>2. /\ c[1] \cap SchemaFaults = {} /\ c[2] \cap SchemaFaults = {}
        /\ c[3] \cap SchemaFaults = {} /\ c[4] \cap SchemaFaults = {}
        /\ c[5] \cap SchemaFaults = {}
    BY <1>1, <1>2, <1>6, <2>1
  <2>3. DOMAIN c = 1..5
    OBVIOUS
  <2> HIDE DEF c
  <2> QED
    BY <2>2, <2>3
<1> HIDE DEF c
<1> QED
  BY <1>3, <1>7, <1>8

\* What a schema builder has passed is passed again, alone and in a list.
LEMMA SoundPasses ==
  ASSUME NEW t \in Sound
  PROVE  IsOk(SchemaIn(t))
<1>1. ASSUME NEW u \in Described
      PROVE  IsOk(SchemaIn(u))
  <2>1. PICK s \in SchemaBuilders : u = SchemaOf(s) /\ ObjectFault(s) = {}
    BY DEF Described
  <2>2. s.fields # <<>> /\ s.name # Blank
    <3>1. /\ When(s.fields = <<>>, "EmptyObjectSchemaFields") = {}
          /\ require_string(s.name, "MissingObjectSchemaName", "EmptyObjectSchemaName") = {}
      <4>1. PICK x, y, z : /\ x = When(s.fields = <<>>, "EmptyObjectSchemaFields")
                           /\ y = require_string(s.name, "MissingObjectSchemaName",
                                                 "EmptyObjectSchemaName")
                           /\ First(<<x, y, z>>) = {}
        BY <2>1 DEF ObjectFault
      <4> QED
        BY <4>1, FirstOfThree
    <3> QED
      BY <3>1 DEF When, require_string
  <2>3. PICK fields : /\ fields = [i \in DOMAIN s.fields |->
                                      <<s.fields[i].name, s.fields[i].value_type[1]>>]
                      /\ u = ObjectT(s.name, fields)
    BY <2>1 DEF SchemaOf
  <2>4. fields # <<>>
    <3>1. IsSeq(s.fields)
      BY KitsAssumption, ListIsSeq
    <3>2. DOMAIN s.fields # {}
      <4>1. PICK n \in Nat : n = Len(s.fields) /\ n # 0 /\ DOMAIN s.fields = 1..n
        BY <2>2, <3>1, SeqFacts
      <4>2. 1 \in 1..n
        BY <4>1
      <4> QED
        BY <4>1, <4>2
    <3>3. DOMAIN fields # {}
      BY <2>3, <3>2
    <3> QED
      BY <3>3
  <2>5. Tag(u) = "obj" /\ u[2] = s.name /\ u[3] = fields
    BY <2>3 DEF ObjectT, Tag
  <2>6. u \in HostTypes
    BY DEF HostTypes, Sound
  <2>7. SchemaIn(u) = Ok(<<u>>)
    BY <2>2, <2>4, <2>5, <2>6, SchemaInAssumption
  <2> QED
    BY <2>7 DEF Ok, IsOk
<1>2. ASSUME NEW u \in Described, t = VectorT(u)
      PROVE  IsOk(SchemaIn(t))
  <2>1. Tag(t) = "vec" /\ t[2] = u
    BY <1>2 DEF VectorT, Tag
  <2>2. SchemaIn(t) = SchemaIn(u)
    BY <2>1, SchemaInAssumption DEF HostTypes
  <2> QED
    BY <1>1, <2>2
<1> QED
  BY <1>1, <1>2 DEF Sound

\* `build` refuses no schema that a schema builder has passed.
THEOREM SchemasPassTwice == Spec => []BuiltSchemasPass
<1>1. ASSUME RegistryInvariant, NEW fault \in SchemaFaults, outcome = Err(<<fault>>)
      PROVE  \E i \in DOMAIN builder : \E t \in DOMAIN TypesOf(builder[i]) :
               TypesOf(builder[i])[t] \notin Sound
  <2> DEFINE b == builder[next]
  <2>1. outcome # Unbuilt /\ ~ IsOk(outcome)
    BY <1>1 DEF Unbuilt, Err, IsOk, SchemaFaults
  <2>2. PICK f \in FirstFaultOf(next) : next \in DOMAIN builder /\ outcome = Err(f)
    BY <1>1, <2>1 DEF RegistryInvariant, VerdictInv
  <2>3. f = <<fault>>
    BY <1>1, <2>2 DEF Err
  <2>4. BuilderOK(b)
    BY <1>1, <2>2 DEF RegistryInvariant, HostInv
  <2>5. \/ f \in Alone(BuildFault(b)) \/ f \in Alone(SchemaFault(b))
        \/ f \in First(Clashes(next))
    BY <2>2, FirstOfThree DEF FirstFaultOf
  <2>6. f \notin First(Clashes(next))
    <3>1. DOMAIN Clashes(next) \subseteq Nat
      <4>1. IsSeq(KeysOf(b))
        BY <2>4, KeyFacts
      <4> QED
        BY <4>1, SeqFacts DEF Clashes
    <3>2. \A k \in DOMAIN Clashes(next) : f \notin Clashes(next)[k]
      BY <2>3 DEF Clashes, When
    <3> QED
      BY <3>1, <3>2, FirstAmong
  <2>7. f \notin Alone(BuildFault(b))
    BY <1>1, <2>3, <2>4, BuildFaultElsewhere DEF Alone
  <2>8. fault \in SchemaFault(b)
    BY <2>3, <2>5, <2>6, <2>7 DEF Alone
  <2> DEFINE c == [i \in DOMAIN TypesOf(b) |->
                     When(~ IsOk(SchemaIn(TypesOf(b)[i])), SchemaIn(TypesOf(b)[i]).val)]
  <2>9. PICK t \in DOMAIN TypesOf(b) : fault \in c[t]
    <3>1. SchemaFault(b) = First(c)
      BY DEF SchemaFault
    <3>2. DOMAIN c = DOMAIN TypesOf(b) /\ DOMAIN TypesOf(b) \subseteq Nat
      BY <2>4, TypesFacts
    <3> HIDE DEF c
    <3> QED
      BY <2>8, <3>1, <3>2, FirstAmong
  <2>10. ~ IsOk(SchemaIn(TypesOf(b)[t]))
    BY <2>9 DEF When
  <2>11. TypesOf(b)[t] \notin Sound
    BY <2>10, SoundPasses
  <2> QED
    BY <2>2, <2>9, <2>11
<1>2. RegistryInvariant => BuiltSchemasPass
  BY <1>1 DEF BuiltSchemasPass, SchemaFaults
<1> QED
  BY <1>2, RegistryHolds, PTL
=============================================================================

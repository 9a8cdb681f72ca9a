---------------------------- MODULE BuiltinLoops ----------------------------
(***************************************************************************)
(* The builtin commands as they run: filter, unique and the keying of sort *)
(* go through the items one by one and end at the first error; sort then   *)
(* hands its keys to the library's sort_by, which asks the closure of      *)
(* eval_sort about any pair in any order until the answers settle the      *)
(* stable order, or show that there is none.  Builtins says what all this  *)
(* should come to.                                                         *)
(***************************************************************************)
EXTENDS Builtins

CONSTANTS
  Commands,  \* the builtin commands that may be run
  Inputs,    \* the values they may be given
  Strings    \* the strings in these

\* str's Ord is a total order.
ASSUME StringsAssumption ==
  \A r, s, t \in Strings :
    /\ ~ StrBefore(s, s)
    /\ s = t \/ StrBefore(s, t) \/ StrBefore(t, s)
    /\ StrBefore(r, s) /\ StrBefore(s, t) => StrBefore(r, t)

\* A value is built as its variant says, and no NaN hides in one without parts.
IsValue(v) ==
  /\ Tag(v) \in DOMAIN TypeNames
  /\ Tag(v) = "int" => v = IntV(v[2]) /\ v[2] \in MinInt..MaxInt
  /\ Tag(v) = "float" => v = NaNV \/ (v = DecV(v[3]) /\ v[3] \in Int)
  /\ Tag(v) = "str" => v = StrV(v[2]) /\ v[2] \in Strings
  /\ IsVec(v) => IsList(Payload(v))
  /\ Tag(v) \notin {"vec", "obj"} => (HoldsNaN(v) <=> v = NaNV)

\* The expressions a command evaluates at an item.
ExprsOf(c) ==
  CASE c.op \in {"filter", "sort"} -> {c.expr}
    [] c.op = "unique" /\ c.expr # <<>> -> {c.expr[1]}
    [] OTHER -> {}

ASSUME CommandsAssumption ==
  \A c \in Commands :
    /\ c.op \in {"filter", "unique", "sort", "take", "count"}
    /\ c.op = "sort" => c.dir \in {"Asc", "Desc"}
    /\ c.op = "take" => c.n \in Nat

\* Expressions come to values, errors or panics.
ASSUME InputsAssumption ==
  \A v \in Inputs :
    /\ IsValue(v)
    /\ IsVec(v) =>
         \A i \in DOMAIN Payload(v) :
           /\ IsValue(Payload(v)[i])
           /\ \A c \in Commands : \A e \in ExprsOf(c) :
                LET r == ValueAt(e, Payload(v)[i]) IN
                r.res \in {"ok", "err", "panic"} /\ (IsOk(r) => IsValue(r.val))

VARIABLES
  cmd,         \* the command
  input,       \* what it is given
  phase,       \* "items", "sorting" or "done"
  at,          \* the item the loop is at
  keys,        \* the keys of sort so far; the keys unique has seen
  kept,        \* the items filter and unique have kept
  told,        \* what the closure told sort_by: pair of places -> -1, 0, 1
  lazy_error,  \* the first error of the closure, or <<>>
  outcome      \* what the command returned

vars == <<cmd, input, phase, at, keys, kept, told, lazy_error, outcome>>

Items == Payload(input)

Running == Err(<<"running">>)

Init ==
  /\ cmd \in Commands
  /\ input \in Inputs
  /\ phase = "items"
  /\ at = 1
  /\ keys = <<>>
  /\ kept = <<>>
  /\ told = [p \in {} |-> 0]
  /\ lazy_error = <<>>
  /\ outcome = Running

Return(r) ==
  /\ phase' = "done"
  /\ outcome' = r
  /\ UNCHANGED <<cmd, input, at, keys, kept, told, lazy_error>>

Runs(op) == phase = "items" /\ cmd.op = op /\ IsVec(input)

NotAList ==
  /\ phase = "items"
  /\ ~ IsVec(input)
  /\ Return(expect_vector(input))

-----------------------------------------------------------------------------
\* One item of a loop, whose expression came to r.
Item(op, r) ==
  /\ Runs(op)
  /\ at \in DOMAIN Items
  /\ IsOk(r)
  /\ at' = at + 1
  /\ UNCHANGED <<cmd, input, phase, told, lazy_error, outcome>>

KeyOf(item) ==
  CASE cmd.op = "filter" -> verdict(cmd.expr, item)
    [] cmd.op = "unique" /\ cmd.expr = <<>> -> Ok(item)
    [] cmd.op = "unique" /\ cmd.expr # <<>> -> ValueAt(cmd.expr[1], item)
    [] cmd.op = "sort" -> ValueAt(cmd.expr, item)

\* Mutant: only the key before is looked at.
SeenLast(k) == keys # <<>> /\ ValueEq(keys[Len(keys)], k)
Seen(k)     == vec_contains(keys, k)

FilterItem ==
  /\ Item("filter", KeyOf(Items[at]))
  /\ kept' = IF KeyOf(Items[at]).val = BoolV(TRUE) THEN Append(kept, Items[at])
                                                     ELSE kept
  /\ UNCHANGED keys

UniqueItem ==
  /\ Item("unique", KeyOf(Items[at]))
  /\ LET k == KeyOf(Items[at]).val IN
     IF Seen(k) THEN UNCHANGED <<keys, kept>>
     ELSE keys' = Append(keys, k) /\ kept' = Append(kept, Items[at])

SortItem ==
  /\ Item("sort", KeyOf(Items[at]))
  /\ keys' = Append(keys, KeyOf(Items[at]).val)
  /\ UNCHANGED kept

ItemFails ==
  /\ \E op \in {"filter", "unique", "sort"} : Runs(op)
  /\ at \in DOMAIN Items
  /\ ~ IsOk(KeyOf(Items[at]))
  /\ Return(KeyOf(Items[at]))

PastItems == at > Len(Items)

AllKept ==
  /\ Runs("filter") \/ Runs("unique")
  /\ PastItems
  /\ Return(Ok(VecV(kept)))

AllKeyed ==
  /\ Runs("sort")
  /\ PastItems
  /\ phase' = "sorting"
  /\ UNCHANGED <<cmd, input, at, keys, kept, told, lazy_error, outcome>>

Take  == Runs("take") /\ Return(eval_limit(Items, cmd.n))
Count == Runs("count") /\ Return(Ok(IntV(Len(Items))))

-----------------------------------------------------------------------------
\* The closure of eval_sort.

\* Mutants: an error is not kept; the first answer is kept for one; the
\* direction is not looked at.
NoLazyError(ord)    == lazy_error
LazyAnswer(ord)     == IF lazy_error = <<>> THEN <<ord>> ELSE lazy_error
LazyError(ord) ==
  IF lazy_error = <<>> /\ ~ IsOk(ord) THEN <<ord>> ELSE lazy_error

AnswerAsc(ord) == IF lazy_error # <<>> \/ ~ IsOk(ord) THEN 0 ELSE ord.val
Answer(ord) ==
  IF lazy_error # <<>> \/ ~ IsOk(ord) THEN 0
  ELSE IF cmd.dir = "Asc" THEN ord.val ELSE -ord.val

\* The pairs sort_by may still ask about, in either order.
Unasked ==
  {p \in (DOMAIN keys) \X (DOMAIN keys) :
     p[1] # p[2] /\ {p, <<p[2], p[1]>>} \cap DOMAIN told = {}}

Ask ==
  /\ phase = "sorting"
  /\ \E p \in Unasked :
       LET ord == compare_values(keys[p[1]], keys[p[2]]) IN
       /\ told' = [q \in DOMAIN told \cup {p} |-> IF q = p THEN Answer(ord) ELSE told[q]]
       /\ lazy_error' = LazyError(ord)
  /\ UNCHANGED <<cmd, input, phase, at, keys, kept, outcome>>

\* sort_by knows no more than the answers.  They settle the order if all the
\* rankings of the items that agree with them give the same stable order; if
\* no ranking does, the order is not total, which may be found out or not.
Rankings ==
  {r \in [DOMAIN keys -> DOMAIN keys] :
     \A p \in DOMAIN told : SignOf(r[p[1]] - r[p[2]]) = told[p]}

\* The stable order of the places whose items are ranked r.
Ordered(r) ==
  LET place(i) == Cardinality({j \in DOMAIN r : \/ r[j] < r[i]
                                                \/ r[j] = r[i] /\ j <= i})
  IN  [n \in DOMAIN r |-> CHOOSE i \in DOMAIN r : place(i) = n]

Settled == {Ordered(r) : r \in Rankings}

IsSettled == \A o \in Settled : Settled = {o}

\* Every sort of the library compares what it puts together: no group of items
\* is left of which none was compared with any other.
Linked ==
  ~ \E group \in SUBSET DOMAIN keys :
      /\ group \notin {{}, DOMAIN keys}
      /\ \A p \in DOMAIN told : p[1] \in group <=> p[2] \in group

SortReturns ==
  /\ phase = "sorting"
  /\ Linked
  /\ IsSettled
  /\ \E o \in IF Settled = {} THEN Orderings(DOMAIN keys) ELSE Settled :
       Return(IF lazy_error # <<>> THEN lazy_error[1]
              ELSE Ok(VecV([n \in DOMAIN o |-> Items[o[n]]])))

SortPanics ==
  /\ phase = "sorting"
  /\ Rankings = {}
  /\ Return(Disorder)

-----------------------------------------------------------------------------
Next ==
  \/ NotAList \/ FilterItem \/ UniqueItem \/ SortItem \/ ItemFails
  \/ AllKept \/ AllKeyed \/ Take \/ Count
  \/ Ask \/ SortReturns \/ SortPanics

Spec == Init /\ [][Next]_vars

-----------------------------------------------------------------------------
(***************************************************************************)
(* What holds of every run.                                                *)
(***************************************************************************)

\* The variables have their types.
TypeOK ==
  /\ phase \in {"items", "sorting", "done"}
  /\ IsVec(input) => at \in 1..(Len(Items) + 1) /\ Len(keys) < at /\ Len(kept) < at
  /\ \A p \in DOMAIN told : told[p] \in {-1, 0, 1} /\ p \in (DOMAIN keys) \X (DOMAIN keys)
  /\ lazy_error # <<>> => Len(lazy_error) = 1 /\ ~ IsOk(lazy_error[1])
  /\ outcome.res \in {"ok", "err", "panic"}

\* Whatever pairs sort_by asks about, and wherever a loop ends, the outcome is
\* one that the command as a whole may have: in particular no order of asking
\* gets round a pair of keys that cannot be compared.
LoopsAgree == phase = "done" => outcome \in eval_builtin(cmd, input)

SortedItems == phase = "done" /\ cmd.op = "sort" /\ IsOk(outcome)
Integral(k) == Tag(k) = "int"
InExact(k)  == Integral(k) => AbsOf(Payload(k)) <= Exact

\* sort returns every item once.  All of its keys could be compared; and if
\* they are all integers, or those that are go into a decimal exactly, its
\* list is in order and leaves items with tied keys as they were.
SortIsSound ==
  SortedItems =>
    LET trusted == \/ \A i \in DOMAIN keys : Integral(keys[i])
                   \/ \A i \in DOMAIN keys : InExact(keys[i])
        key(i)  == ValueAt(cmd.expr, Items[i]).val
        rising  == IF cmd.dir = "Asc" THEN -1 ELSE 1
    IN  \E o \in Orderings(DOMAIN Items) :
          /\ Payload(outcome.val) = [n \in DOMAIN Items |-> Items[o[n]]]
          /\ \A m, n \in DOMAIN Items : m < n =>
               LET ord == compare_values(key(o[m]), key(o[n])) IN
               /\ IsOk(ord)
               /\ trusted => ord.val = rising \/ (ord.val = 0 /\ o[m] < o[n])

\* unique returns items in their order, with different keys.  The key of every
\* item of the input is among these, but for those that `==` does not even call
\* equal to themselves: all of these stay.
UniqueCovers ==
  phase = "done" /\ cmd.op = "unique" /\ IsOk(outcome) =>
    LET list   == Payload(outcome.val)
        key(i) == KeyOf(Items[i]).val
    IN  \E o \in [DOMAIN list -> DOMAIN Items] :
          /\ \A n \in DOMAIN list : list[n] = Items[o[n]]
          /\ \A m, n \in DOMAIN list :
               m < n => o[m] < o[n] /\ ~ ValueEq(key(o[m]), key(o[n]))
          /\ \A i \in DOMAIN Items :
               IF HoldsNaN(key(i)) THEN \E n \in DOMAIN list : o[n] = i
               ELSE eval_binary("In", key(i), VecV([n \in DOMAIN list |-> key(o[n])]))
                      = Ok(BoolV(TRUE))

-----------------------------------------------------------------------------
(***************************************************************************)
(* Laws of the operators a filter or a key is made of, between any two of  *)
(* the items at hand.                                                      *)
(***************************************************************************)
Pairs == IF phase # "done" \/ ~ IsVec(input) THEN {}
         ELSE {<<Items[i], Items[j]>> : i, j \in DOMAIN Items}

True(op, p) == eval_binary(op, p[1], p[2]) = Ok(BoolV(TRUE))

\* == against the order: of comparable values exactly one of <, > and (<= and
\* >=) holds, seen from either side; equal values that can be compared tie;
\* and values that tie without being equal are an integer and a decimal.
OrderAgainstEquality ==
  \A p \in Pairs :
    LET back == <<p[2], p[1]>>
        tie  == True("Le", p) /\ True("Ge", p)
    IN  IF IsOk(eval_binary("Lt", p[1], p[2]))
          THEN /\ Cardinality({o \in {"lt", "gt", "tie"} :
                     \/ o = "lt" /\ True("Lt", p) /\ True("Gt", back) /\ ~ True("Ge", p)
                     \/ o = "gt" /\ True("Gt", p) /\ True("Lt", back) /\ ~ True("Le", p)
                     \/ o = "tie" /\ tie}) = 1
               /\ True("Eq", p) => tie
               /\ tie /\ True("Ne", p) => {Tag(p[1]), Tag(p[2])} = {"int", "float"}
          ELSE ~ IsOk(eval_binary("Gt", p[2], p[1]))

\* Integers: // and / agree, quotient and remainder give the dividend back
\* without an overflow, and the remainder is smaller than the divisor and has
\* the sign of the dividend.
DivisionRebuilds ==
  \A p \in Pairs :
    LET op(name) == eval_binary(name, p[1], p[2]) IN
    Tag(p[1]) = "int" /\ Tag(p[2]) = "int" /\ IsOk(op("Div")) =>
      LET q == op("Div").val
          r == op("Mod").val
          product == eval_binary("Mul", q, p[2])
      IN  /\ op("DivDiv") = Ok(q)
          /\ IsOk(product) /\ eval_binary("Add", product.val, r) = Ok(p[1])
          /\ AbsOf(r[2]) < AbsOf(p[2][2])
          /\ SignOf(r[2]) \in {0, SignOf(p[1][2])}
=============================================================================

------------------------------- MODULE Builtins -------------------------------
(***************************************************************************)
(* The builtin commands: filter, unique, sort, take and count, each from a *)
(* value to its result, or for sort to the set of the results it may have. *)
(* A builtin is a record [kind |-> "builtin", op |-> ..., ...].            *)
(***************************************************************************)
EXTENDS Operators, FiniteSets

CONSTANT ValueAt(_, _)  \* eval_expr: the result of an expression at an item

expect_vector(v) ==
  IF IsVec(v) THEN Ok(Payload(v)) ELSE TypeMismatch("list", type_name(v))

\* The value of an expression at every item, as one result.
at_each(e, items) == collect([i \in DOMAIN items |-> ValueAt(e, items[i])])

\* The items at some of the places, in order.
Picked(items, places) ==
  LET rank(i) == Cardinality({j \in places : j <= i}) IN
  [n \in 1..Cardinality(places) |-> items[CHOOSE i \in places : rank(i) = n]]

-----------------------------------------------------------------------------
\* filter: an item stays if the predicate is true of it, goes if it is false
\* or none; anything else is an error, the first one in the list.
verdict(e, item) ==
  LET r == ValueAt(e, item) IN
  IF ~ IsOk(r) THEN r
  ELSE IF Tag(r.val) = "none" THEN Ok(BoolV(FALSE))
  ELSE IF Tag(r.val) = "bool" THEN r
  ELSE TypeMismatch("boolean", type_name(r.val))

eval_filter(items, e) ==
  LET keeps == collect([i \in DOMAIN items |-> verdict(e, items[i])]) IN
  IF ~ IsOk(keeps) THEN keeps
  ELSE Ok(VecV(Picked(items, {i \in DOMAIN items : keeps.val[i] = BoolV(TRUE)})))

\* unique: the first item of every key.
eval_unique(items, keyExpr) ==
  LET keys == IF keyExpr = <<>> THEN Ok(items) ELSE at_each(keyExpr[1], items)
      fresh(i) == \A j \in 1..(i - 1) : ~ ValueEq(keys.val[j], keys.val[i])
  IN  IF ~ IsOk(keys) THEN keys
      ELSE Ok(VecV(Picked(items, {i \in DOMAIN items : fresh(i)})))

-----------------------------------------------------------------------------
\* sort: sort_by is given a comparison that fails on some pairs of keys.

Compare(keys, i, j) == compare_values(keys[i], keys[j])

Clashes(keys) ==
  {p \in (DOMAIN keys) \X (DOMAIN keys) :
      p[1] # p[2] /\ ~ IsOk(Compare(keys, p[1], p[2]))}

\* i comes strictly before j in the direction of the sort.
Before(keys, dir, i, j) ==
  /\ IsOk(Compare(keys, i, j))
  /\ Compare(keys, i, j).val = IF dir = "Asc" THEN -1 ELSE 1

\* What sort_by needs to be a sort: "neither before the other" is transitive.
IsWeakOrder(keys, dir) ==
  LET tied(i, j) == ~ Before(keys, dir, i, j) /\ ~ Before(keys, dir, j, i) IN
  \A i, j, k \in DOMAIN keys : tied(i, j) /\ tied(j, k) => tied(i, k)

\* The stable order: equal keys stay as they were, in both directions.
Place(keys, dir, i) ==
  Cardinality({j \in DOMAIN keys : \/ Before(keys, dir, j, i)
                                   \/ j <= i /\ ~ Before(keys, dir, i, j)})

Sorted(items, keys, dir) ==
  [n \in DOMAIN items |->
     items[CHOOSE i \in DOMAIN items : Place(keys, dir, i) = n]]

\* The ways to put places in an order.
Orderings(places) ==
  {f \in [places -> places] : \A i, j \in places : f[i] = f[j] => i = j}

Shuffles(items) ==
  {[n \in DOMAIN items |-> items[p[n]]] : p \in Orderings(DOMAIN items)}

Disorder == Panic("total order")

\* Two or more keys of which some clash: a sort has to compare some pair that
\* clashes, whichever pairs it looks at, and that error is kept; from then on
\* every pair is Equal.  Without a clash but without a weak order, sort_by
\* promises no order.  Either way the order is not total and it may panic.
eval_sort(items, key, dir) ==
  LET keys == at_each(key, items) IN
  IF ~ IsOk(keys) THEN {keys}
  ELSE LET clashes == Clashes(keys.val) IN
       IF clashes # {}
         THEN {Compare(keys.val, p[1], p[2]) : p \in clashes} \cup {Disorder}
       ELSE IF IsWeakOrder(keys.val, dir)
         THEN {Ok(VecV(Sorted(items, keys.val, dir)))}
       ELSE {Ok(VecV(s)) : s \in Shuffles(items)} \cup {Disorder}

-----------------------------------------------------------------------------
eval_limit(items, n) == Ok(VecV(SubSeq(items, 1, IF n < Len(items) THEN n
                                                                  ELSE Len(items))))

\* Evaluator::eval_builtin; every builtin takes a vector.
eval_builtin(c, input) ==
  LET items == expect_vector(input) IN
  IF ~ IsOk(items) THEN {items}
  ELSE CASE c.op = "filter" -> {eval_filter(items.val, c.expr)}
         [] c.op = "unique" -> {eval_unique(items.val, c.expr)}
         [] c.op = "sort"   -> eval_sort(items.val, c.expr, c.dir)
         [] c.op = "take"   -> {eval_limit(items.val, c.n)}
         [] c.op = "count"  -> {Ok(IntV(Len(items.val)))}
=============================================================================

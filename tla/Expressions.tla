----------------------------- MODULE Expressions -----------------------------
(***************************************************************************)
(* The expression evaluator: `eval_expr` and what it calls.                *)
(*                                                                         *)
(* This module recurses over values and expressions, so it holds no        *)
(* theorems; the modules that do take its operators as parameters.         *)
(***************************************************************************)
EXTENDS Operators, Types, SequencesExt

\* `as f64` rounds to the nearest, ties to even.  Between Exact and twice that a
\* decimal can only be an even integer.
ASSUME ExactAssumption == 2 * Exact >= 2^(Width - 1)

nearest(m) == IF m <= Exact \/ m % 2 = 0 THEN m
              ELSE IF m % 4 = 1 THEN m - 1 ELSE m + 1

RECURSIVE holds_nan(_)
holds_nan(v) ==
  \/ v = NaNV
  \/ IsVec(v) /\ \E i \in DOMAIN Payload(v) : holds_nan(Payload(v)[i])
  \/ Tag(v) = "obj" /\ \E f \in DOMAIN Payload(v) : holds_nan(Payload(v)[f])

\* One step of a field path, from a result.
step_field(r, f) ==
  CASE ~ IsOk(r) -> r
    [] Tag(r.val) # "obj" -> TypeMismatch("object", type_name(r.val))
    [] f \in DOMAIN Payload(r.val) -> Ok(Payload(r.val)[f])
    [] OTHER -> UnknownField(f)

\* Expressions are tuples too: <<"it">>, <<"lit", v>>, <<"vec", es>>,
\* <<"path", names>>, <<"not", e>>, <<"bin", op, l, r>>.
RECURSIVE eval_expr(_, _)
eval_expr(e, context) ==
  CASE e[1] = "it"  -> Ok(context)
    [] e[1] = "lit" -> Ok(e[2])
    [] e[1] = "vec" ->
         LET vals == collect([i \in DOMAIN e[2] |-> eval_expr(e[2][i], context)])
         IN  IF IsOk(vals) THEN Ok(VecV(vals.val)) ELSE vals
    [] e[1] = "path" -> FoldLeft(step_field, Ok(context), e[2])
    [] e[1] = "not" ->
         LET r == eval_expr(e[2], context) IN
         IF ~ IsOk(r) THEN r
         ELSE IF Tag(r.val) = "bool" THEN Ok(BoolV(~ r.val[2]))
         ELSE TypeMismatch("boolean", type_name(r.val))
    [] e[1] = "bin" ->
         LET l == eval_expr(e[3], context)
             r == eval_expr(e[4], context)
         IN  CASE ~ IsOk(l) -> l
               [] IsOk(l) /\ e[2] \in {"And", "Or"} ->
                    IF Tag(l.val) # "bool"
                      THEN TypeMismatch("boolean", type_name(l.val))
                    ELSE IF l.val[2] = (e[2] = "And") THEN r ELSE l
               [] OTHER -> IF IsOk(r) THEN eval_binary(e[2], l.val, r.val) ELSE r
=============================================================================

------------------------------ MODULE Operators ------------------------------
(***************************************************************************)
(* The binary operators of an expression and the order of values.  Every   *)
(* result is Ok, Err or a panic.                                           *)
(*                                                                         *)
(* Numbers keep the shape of the machine's at a smaller size: integers     *)
(* have Width bits and wrap or panic as the build decides; a decimal is a  *)
(* whole number of halves, is infinite at +-Inf halves, and takes an       *)
(* integer exactly only up to Exact, as f64 does only up to 2^53.          *)
(***************************************************************************)
EXTENDS Values

CONSTANTS
  Width,             \* bits of an integer, 64 in the code
  Exact,             \* integers up to here are decimals exactly
  Inf,               \* halves of the infinite decimal
  Nearest(_),        \* the integer a decimal can be that is nearest to one >= 0
  OverflowChecks,    \* TRUE in a debug build: overflow panics
  StrBefore(_, _),   \* the order of strings
  StrContains(_, _), \* str::contains
  HoldsNaN(_)        \* whether a value is NaN or holds one, at any depth

ASSUME NumbersAssumption ==
  /\ {Width, Exact, Inf, 2^(Width - 1)} \subseteq Nat \ {0}
  /\ Inf > 4 * 2^(Width - 1)
  /\ OverflowChecks \in BOOLEAN

\* Rounding keeps the order, and what is exact as it is.
ASSUME NearestAssumption ==
  \A m \in 0..2^(Width - 1) :
    /\ Nearest(m) \in Nat
    /\ m <= Exact => Nearest(m) = m
    /\ \A k \in 0..m : Nearest(k) <= Nearest(m)

-----------------------------------------------------------------------------
\* PartialEq of Value: structural, except that NaN is equal to nothing.
ValueEq(v, w) == v = w /\ ~ HoldsNaN(v)

vec_contains(items, v) == \E i \in DOMAIN items : ValueEq(items[i], v)

-----------------------------------------------------------------------------
\* Integers: two's complement of Width bits.
MinInt == -(2^(Width - 1))
MaxInt == 2^(Width - 1) - 1
Wrap(n) == ((n - MinInt) % 2^Width) + MinInt

AbsOf(n)  == IF n < 0 THEN -n ELSE n
SignOf(n) == IF n < 0 THEN -1 ELSE IF n = 0 THEN 0 ELSE 1

\* Division truncates and the remainder takes the sign of the dividend.
Quot(a, b) == SignOf(a) * SignOf(b) * (AbsOf(a) \div AbsOf(b))
RemEuclid(a, b) == a % AbsOf(b)   \* mutant
Rem(a, b)  == a - b * Quot(a, b)

Fit(n) == IF n \in MinInt..MaxInt THEN Ok(IntV(n))
          ELSE IF OverflowChecks THEN Panic("overflow") ELSE Ok(IntV(Wrap(n)))

\* Division by zero, and MIN by -1, panic in every build.
int_op(op, a, b) ==
  CASE op = "Add" -> Fit(a + b)
    [] op = "Sub" -> Fit(a - b)
    [] op = "Mul" -> Fit(a * b)
    [] op \in {"Div", "DivDiv", "Mod"} ->
         IF b = 0 THEN Panic("zero divisor")
         ELSE IF a = MinInt /\ b = -1 THEN Panic("overflow")
         ELSE Ok(IntV(IF op = "Mod" THEN Rem(a, b) ELSE Quot(a, b)))

-----------------------------------------------------------------------------
\* Decimals, in halves.
Clamp(h)  == IF h > Inf THEN Inf ELSE IF h < -Inf THEN -Inf ELSE h
IsInf(h)  == AbsOf(h) = Inf
DecOf(h)  == Ok(DecV(Clamp(h)))

\* `as f64`, in halves.
AsDec(n) == 2 * SignOf(n) * Nearest(AbsOf(n))

\* `as i64`: towards zero, saturating.
AsInt(h) == IF h \div 2 > MaxInt THEN MaxInt
            ELSE IF h < 2 * MinInt THEN MinInt
            ELSE Quot(h, 2)

float_op(op, a, b) ==
  CASE op = "Add" -> IF IsInf(a) /\ b = -a THEN Ok(NaNV) ELSE DecOf(a + b)
    [] op = "Sub" -> IF IsInf(a) /\ b = a THEN Ok(NaNV) ELSE DecOf(a - b)
    [] op = "Mul" -> IF (IsInf(a) /\ b = 0) \/ (a = 0 /\ IsInf(b)) THEN Ok(NaNV)
                     ELSE IF IsInf(a) \/ IsInf(b)
                       THEN DecOf(SignOf(a) * SignOf(b) * Inf)
                     ELSE DecOf(Quot(a * b, 2))
    [] op = "Div" -> IF (a = 0 /\ b = 0) \/ (IsInf(a) /\ IsInf(b)) THEN Ok(NaNV)
                     ELSE IF b = 0 THEN DecOf(SignOf(a) * Inf)
                     ELSE IF IsInf(a) THEN DecOf(SignOf(a) * SignOf(b) * Inf)
                     ELSE IF IsInf(b) THEN DecOf(0)
                     ELSE DecOf(Quot(2 * a, b))
    [] op = "Mod" -> IF b = 0 \/ IsInf(a) THEN Ok(NaNV)
                     ELSE IF IsInf(b) THEN DecOf(a) ELSE DecOf(Rem(a, b))
    [] op = "DivDiv" ->
         LET m == AsInt(a)
             n == AsInt(b)
         IN  IF n = 0 THEN Panic("zero divisor")
             ELSE IF m = MinInt /\ n = -1 THEN Panic("overflow")
             ELSE DecOf(AsDec(Quot(m, n)))

\* With a NaN on either side: NaN, but `as i64` makes it 0 for `//`.
nan_op(op, l, r) ==
  LET halves(v) == IF v = NaNV THEN 0 ELSE v[3] IN
  IF op = "DivDiv" THEN float_op(op, halves(l), halves(r)) ELSE Ok(NaNV)

IsNum(v) == Tag(v) \in {"int", "float"}
AsFloat(v) == IF Tag(v) = "int" THEN DecV(AsDec(Payload(v))) ELSE v

numeric_op(op, l, r) ==
  IF ~ (IsNum(l) /\ IsNum(r)) THEN NumberTypeMismatch(type_name(l), type_name(r))
  ELSE IF Tag(l) = "int" /\ Tag(r) = "int" THEN int_op(op, l[2], r[2])
  ELSE LET a == AsFloat(l)
           b == AsFloat(r)
       IN  IF NaNV \in {a, b} THEN nan_op(op, a, b) ELSE float_op(op, a[3], b[3])

\* The order of two values, -1, 0 or 1, as an Ok result.
compare_values(l, r) ==
  IF Tag(l) = "str" /\ Tag(r) = "str"
    THEN Ok(IF l = r THEN 0 ELSE IF StrBefore(l[2], r[2]) THEN -1 ELSE 1)
  ELSE IF Tag(l) = "int" /\ Tag(r) = "int" THEN Ok(SignOf(l[2] - r[2]))
  ELSE IF IsNum(l) /\ IsNum(r) /\ NaNV \notin {AsFloat(l), AsFloat(r)}
    THEN Ok(SignOf(AsFloat(l)[3] - AsFloat(r)[3]))
  ELSE NotComparable(type_name(l), type_name(r))

-----------------------------------------------------------------------------
OrdersStrict == [Gt |-> {1}, Lt |-> {-1}, Ge |-> {1}, Le |-> {-1}]   \* mutant
Orders == [Gt |-> {1}, Lt |-> {-1}, Ge |-> {0, 1}, Le |-> {-1, 0}]

ordered(op, l, r) ==
  LET ord == compare_values(l, r) IN
  IF IsOk(ord) THEN Ok(BoolV(ord.val \in Orders[op])) ELSE ord

\* `part in whole` and `whole contains part`; `blamed` is the operand whose
\* type is reported when whole is neither a list nor a string.
membership(whole, part, blamed) ==
  CASE IsVec(whole) -> Ok(BoolV(vec_contains(Payload(whole), part)))
    [] Tag(whole) = "str" ->
         IF Tag(part) = "str" THEN Ok(BoolV(StrContains(whole[2], part[2])))
         ELSE TypeMismatch("string", type_name(part))
    [] OTHER -> TypeMismatch("list or string", type_name(blamed))

eval_binary(op, l, r) ==
  CASE op = "Eq" -> Ok(BoolV(ValueEq(l, r)))
    [] op = "Ne" -> Ok(BoolV(~ ValueEq(l, r)))
    [] op \in DOMAIN Orders -> ordered(op, l, r)
    [] op = "Contains" -> membership(l, r, r)
    [] op = "In" -> membership(r, l, r)
    [] OTHER -> numeric_op(op, l, r)

\* The first result that is not Ok, or Ok of the values of all of them.
collect(results) ==
  LET bad == {i \in DOMAIN results : ~ IsOk(results[i])} IN
  IF bad = {} THEN Ok([i \in DOMAIN results |-> results[i].val])
  ELSE results[CHOOSE i \in bad : \A j \in bad : i <= j]
=============================================================================

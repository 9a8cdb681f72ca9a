------------------------------- MODULE Values -------------------------------
(***************************************************************************)
(* The data of the interpreter: runtime values, declared types, errors and *)
(* the results every evaluation step returns.  No operator here recurses,  *)
(* so the modules with theorems can use it.                                *)
(*                                                                         *)
(* A value is a tuple whose first component is the variant of the enum     *)
(* `Value`.  Decimals count in halves (DecV(3) is 1.5); NaN is a decimal   *)
(* of its own.                                                             *)
(***************************************************************************)
EXTENDS Integers, Sequences

\* --- enum Value -----------------------------------------------------------
NoneV      == <<"none">>
BoolV(b)   == <<"bool", b>>
IntV(n)    == <<"int", n>>
DecV(h)    == <<"float", "num", h>>
NaNV       == <<"float", "nan">>
StrV(s)    == <<"str", s>>
VecV(s)    == <<"vec", s>>
ObjV(f)    == <<"obj", f>>

Tag(v)     == v[1]
Payload(v) == v[2]
IsVec(v)   == Tag(v) = "vec"

\* A list of whatever.
IsList(s)  == Len(s) \in Nat /\ s = [i \in 1..Len(s) |-> s[i]]

\* The Rust names of the variants, as error messages spell them.
TypeNames == [none |-> "null", bool |-> "boolean", int |-> "integer",
              float |-> "decimal", str |-> "string", vec |-> "vec",
              obj |-> "obj"]

type_name(v) == TypeNames[Tag(v)]

\* --- enum ValueType -------------------------------------------------------
\* A primitive type is the one-component tuple of the tag it stands for.  An
\* object type carries its schema: its name and its fields in order, each a pair
\* of a name and a type.
NoneT         == <<"none">>
BoolT         == <<"bool">>
IntT          == <<"int">>
FloatT        == <<"float">>
StrT          == <<"str">>
VectorT(t)    == <<"vec", t>>
ObjectT(n, f) == <<"obj", n, f>>

\* --- Result<Value, EvalError>, and the panic that is neither --------------
Ok(v)      == [res |-> "ok",    val |-> v]
Err(e)     == [res |-> "err",   val |-> e]
Panic(why) == [res |-> "panic", val |-> <<why>>]

IsOk(r)    == r.res = "ok"

TypeMismatch(expected, got) == Err(<<"TypeMismatch", expected, got>>)
NumberTypeMismatch(l, r)    == Err(<<"NumberTypeMismatch", l, r>>)
NotComparable(l, r)         == Err(<<"NotComparable", l, r>>)
UnknownField(f)             == Err(<<"UnknownField", f>>)
UnknownCommand(c)           == Err(<<"UnknownCommand", c>>)
UnexpectedInputType(c, got)    == Err(<<"UnexpectedInputType", c, got>>)
UnexpectedArgumentType(c, got) == Err(<<"UnexpectedArgumentType", c, got>>)
UnexpectedReturnType(c, got)   == Err(<<"UnexpectedReturnType", c, got>>)

-----------------------------------------------------------------------------
\* Evaluator::concat_values: two vectors are joined, a vector takes the other
\* value in at its end or its front, two scalars make a pair.
AsSeq(v) == IF IsVec(v) THEN Payload(v) ELSE <<v>>

concat_values(a, b) == VecV(AsSeq(a) \o AsSeq(b))
=============================================================================

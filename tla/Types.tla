-------------------------------- MODULE Types --------------------------------
(***************************************************************************)
(* The two functions that recurse over a declared type: the test of a      *)
(* value against it, and the search for the object schema inside it.       *)
(***************************************************************************)
EXTENDS Values

\* ValueType::matches.  There is no arm for (None, None).
RECURSIVE matches(_, _)
matches(t, v) ==
  /\ Tag(t) = Tag(v)
  /\ \/ Tag(v) \in {"bool", "int", "float", "str"}
     \/ /\ Tag(v) = "vec"
        /\ \A i \in DOMAIN Payload(v) : matches(t[2], Payload(v)[i])
     \/ /\ Tag(v) = "obj"
        /\ \A i \in DOMAIN t[3] : /\ t[3][i][1] \in DOMAIN Payload(v)
                                  /\ matches(t[3][i][2], Payload(v)[t[3][i][1]])

\* The schema under any number of list types, checked as `register`ed types
\* are: Ok of no schema or of one.
RECURSIVE extract_object_schema(_)
extract_object_schema(t) ==
  CASE Tag(t) = "vec" -> extract_object_schema(t[2])
    [] Tag(t) = "obj" /\ t[2] = "" -> Err("EmptyObjectSchemaName")
    [] Tag(t) = "obj" /\ t[2] # "" /\ t[3] = <<>> ->
         Err("EmptyObjectSchemaFields")
    [] Tag(t) = "obj" /\ t[2] # "" /\ t[3] # <<>> -> Ok(<<t>>)
    [] OTHER -> Ok(<<>>)
=============================================================================

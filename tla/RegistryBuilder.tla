--------------------------- MODULE RegistryBuilder ---------------------------
(***************************************************************************)
(* The registry: the host program makes a command builder call by call,    *)
(* registers it, and after the last one asks for the registry.  `build`    *)
(* goes through the builders in order; it builds each definition, collects *)
(* the object schemas its types name, and enters it in the table of        *)
(* commands under its name and under each alias.  The first fault ends it. *)
(* The registry is then looked up by name and by type.                     *)
(*                                                                         *)
(* A builder is a record whose optional parts are sequences of at most one *)
(* element.  A required string is one of the names, Blank or Missing.      *)
(* Flags, descriptions, usages, defaults and the aliases of fields are     *)
(* left out: nothing reads them.                                           *)
(***************************************************************************)
EXTENDS Values, FiniteSets

CONSTANTS
  Kits,            \* how far a command builder may have come, unseen
  Names, Aliases,  \* strings it may be given from there on
  Args, Options,   \* argument and option builders
  SchemaBuilders,  \* object schema builders
  HandMade,        \* the types the host does not build with one of these
  MaxCalls,        \* a bound on the calls of the host
  SchemaIn(_),     \* extract_object_schema: Ok of no schema or one, or an error
  Blank,           \* a string that is empty once trimmed
  Missing          \* a string that was never set

\* A builder has these parts, and what it lists it lists in order.
BuilderOK(b) ==
  /\ b = [name |-> b.name, aliases |-> b.aliases, arg |-> b.arg, handler |-> b.handler,
          options |-> b.options, depends_on |-> b.depends_on, returns |-> b.returns]
  /\ IsList(b.aliases) /\ IsList(b.depends_on) /\ IsList(b.returns) /\ IsList(b.arg)
  /\ IsList(b.options)
  /\ \A i \in DOMAIN b.arg : IsList(b.arg[i].accepts)

ASSUME KitsAssumption ==
  /\ \A b \in Kits : BuilderOK(b)
  /\ \A a \in Args : IsList(a.accepts)
  /\ \A s \in SchemaBuilders : IsList(s.fields)
  /\ MaxCalls \in Nat

VARIABLES
  draft,     \* the command builder at hand: a sequence of one, or of none
  calls,     \* the calls the host has made
  builder,   \* the command builders registered, in order
  phase,     \* "register", "build" or "done"
  next,      \* the definition the loop of `build` is at
  key,       \* how many of its names it is entered under; 0: not yet built
  commands,  \* the table: name -> index of the definition
  schemas,   \* the schemas: name -> the object type
  outcome    \* what `build` returned

host  == <<draft, calls, builder>>
table == <<next, key, commands, schemas, outcome>>
vars  == <<draft, calls, builder, phase, next, key, commands, schemas, outcome>>

Unbuilt == Err(<<"unbuilt">>)

-----------------------------------------------------------------------------
\* The checks of the builders, as sets: no fault, or the one that is reported.

require_string(s, missing, empty) ==
  IF s = Missing THEN {missing} ELSE IF s = Blank THEN {empty} ELSE {}

\* The first fault of a sequence of checks.
First(checks) ==
  LET failed == {i \in DOMAIN checks : checks[i] # {}} IN
  IF failed = {} THEN {}
  ELSE checks[CHOOSE i \in failed : \A j \in failed : i <= j]

When(condition, fault) == IF condition THEN {fault} ELSE {}

ArgFault(a) ==
  First(<<require_string(a.name, "MissingArgSchemaName", "EmptyArgSchemaName"),
          When(a.accepts = <<>>, "MissingArgSchemaValueType")>>)

OptionFault(o) ==
  First(<<require_string(o.name, "MissingOptionSchemaName", "EmptyOptionSchemaName"),
          require_string(o.short, "MissingOptionSchemaShort", "EmptyOptionSchemaShort"),
          When(o.value_type = <<>>, "MissingOptionSchemaValueType")>>)

FieldFault(f) ==
  First(<<require_string(f.name, "MissingFieldSchemaName", "EmptyFieldSchemaName"),
          When(f.value_type = <<>>, "MissingFieldSchemaValueType")>>)

\* ObjectSchemaBuilder::build, and what it builds.  The mutant takes a schema
\* without fields.
NoFaultWithoutFields(s) ==
  First(<<require_string(s.name, "MissingObjectSchemaName", "EmptyObjectSchemaName"),
          First([i \in DOMAIN s.fields |-> FieldFault(s.fields[i])])>>)
ObjectFault(s) ==
  First(<<When(s.fields = <<>>, "EmptyObjectSchemaFields"),
          require_string(s.name, "MissingObjectSchemaName", "EmptyObjectSchemaName"),
          First([i \in DOMAIN s.fields |-> FieldFault(s.fields[i])])>>)

SchemaOf(s) ==
  ObjectT(s.name, [i \in DOMAIN s.fields |-> <<s.fields[i].name, s.fields[i].value_type[1]>>])

Described == {SchemaOf(s) : s \in {s \in SchemaBuilders : ObjectFault(s) = {}}}

\* The types of the host: those, lists of those, and others.
Sound     == Described \cup {VectorT(t) : t \in Described}
HostTypes == Sound \cup HandMade

\* extract_object_schema, of the types at hand: the schema under any number of
\* list types, checked once more, by its name first.
ASSUME SchemaInAssumption ==
  \A t \in HostTypes :
    SchemaIn(t) =
      CASE Tag(t) = "vec" -> SchemaIn(t[2])
        [] Tag(t) = "obj" /\ t[2] = Blank -> Err("EmptyObjectSchemaName")
        [] Tag(t) = "obj" /\ t[2] # Blank /\ t[3] = <<>> -> Err("EmptyObjectSchemaFields")
        [] Tag(t) = "obj" /\ t[2] # Blank /\ t[3] # <<>> -> Ok(<<t>>)
        [] OTHER -> Ok(<<>>)

\* CommandDefinitionBuilder::build.  Aliases are taken as they are.
BuildFault(b) ==
  First(<<require_string(b.name, "MissingCommandName", "EmptyCommandName"),
          First([i \in DOMAIN b.arg |-> ArgFault(b.arg[i])]),
          When(~ b.handler, "MissingCommandHandler"),
          When(b.returns = <<>>, "MissingCommandReturnType"),
          First([i \in DOMAIN b.options |-> OptionFault(b.options[i])])>>)

\* The types whose schemas are collected, in order.
TypesOf(b) ==
  b.returns \o b.depends_on \o IF b.arg = <<>> THEN <<>> ELSE b.arg[1].accepts

SchemaFault(b) ==
  LET found(i) == SchemaIn(TypesOf(b)[i]) IN
  First([i \in DOMAIN TypesOf(b) |-> When(~ IsOk(found(i)), found(i).val)])

\* The places of TypesOf that name a schema, the schema and its name.
Naming(b)    == {i \in DOMAIN TypesOf(b) : SchemaIn(TypesOf(b)[i]).val # <<>>}
SchemaAt(b, i) == SchemaIn(TypesOf(b)[i]).val[1]
NameAt(b, i)   == SchemaAt(b, i)[2]

\* populate_schemas: a schema replaces any other of its name.
LastNaming(b, n) ==
  CHOOSE i \in Naming(b) :
    NameAt(b, i) = n /\ \A j \in Naming(b) : NameAt(b, j) = n => j <= i

\* Mutant: a schema is only inserted if there is none of its name.
PopulatedOnce(b) ==
  LET names == {NameAt(b, i) : i \in Naming(b)} IN
  [n \in DOMAIN schemas \cup names |->
     IF n \in DOMAIN schemas THEN schemas[n] ELSE SchemaAt(b, LastNaming(b, n))]

Populated(b) ==
  LET names == {NameAt(b, i) : i \in Naming(b)} IN
  [n \in DOMAIN schemas \cup names |->
     IF n \in names THEN SchemaAt(b, LastNaming(b, n)) ELSE schemas[n]]

\* The names a definition is entered under.
KeysOf(b) == <<b.name>> \o b.aliases

-----------------------------------------------------------------------------
Init ==
  /\ draft = <<>>
  /\ calls = 0
  /\ builder = <<>>
  /\ phase = "register"
  /\ next = 1
  /\ key = 0
  /\ commands = [n \in {} |-> 0]
  /\ schemas = [n \in {} |-> NoneT]
  /\ outcome = Unbuilt

Host ==
  /\ phase = "register"
  /\ UNCHANGED <<phase, table>>

\* CommandDefinition::builder
Begin ==
  /\ Host
  /\ draft = <<>> /\ calls < MaxCalls
  /\ \E b \in Kits : draft' = <<b>>
  /\ UNCHANGED <<calls, builder>>

\* A call on the builder at hand, which hands it back or uses it up.
Call ==
  /\ Host
  /\ draft # <<>> /\ calls < MaxCalls
  /\ calls' = calls + 1

Set(field, x)  == Call /\ draft' = <<[draft[1] EXCEPT ![field] = x]>> /\ UNCHANGED builder
Push(field, x) == Call /\ draft' = <<[draft[1] EXCEPT ![field] = Append(@, x)]>> /\ UNCHANGED builder

name       == \E n \in Names : Set("name", n)
alias      == \E n \in Aliases : Push("aliases", n)
arg        == \E a \in Args : Set("arg", <<a>>)
option     == \E o \in Options : Push("options", o)
depends_on == \E t \in HostTypes : Push("depends_on", t)
returns    == \E t \in HostTypes : Set("returns", <<t>>)
handler    == Set("handler", TRUE)
\* flag, description and usage, which nothing reads here.
annotate   == Call /\ UNCHANGED <<draft, builder>>

register ==
  /\ Call
  /\ builder' = builder \o draft
  /\ draft' = <<>>

build ==
  /\ phase = "register"
  /\ draft = <<>>
  /\ phase' = "build"
  /\ UNCHANGED <<host, table>>

Return(r) ==
  /\ phase' = "done"
  /\ outcome' = r

BuildDefinition ==
  /\ phase = "build"
  /\ next \in DOMAIN builder
  /\ key = 0
  /\ LET b == builder[next]
         faults == First(<<BuildFault(b), SchemaFault(b)>>)
     IN  IF faults = {}
           THEN /\ key' = 1
                /\ schemas' = Populated(b)
                /\ UNCHANGED <<phase, outcome>>
           ELSE /\ \E f \in faults : Return(Err(<<f>>))
                /\ UNCHANGED <<key, schemas>>
  /\ UNCHANGED <<host, next, commands>>

\* HashMap::insert, which replaces the entry it finds and then reports it.
\* The mutant binds every name to the command registered last.
InsertLast(n, d) ==
  [k \in DOMAIN commands \cup {n} |-> IF k = n THEN Len(builder) ELSE commands[k]]
Insert(n, d) ==
  [k \in DOMAIN commands \cup {n} |-> IF k = n THEN d ELSE commands[k]]

\* Mutants: only names are looked up; only in the entries of other commands.
AliasNeverTaken(n) == key = 1 /\ n \in DOMAIN commands
TakenByOther(n)    == n \in DOMAIN commands /\ commands[n] # next
Taken(n)           == n \in DOMAIN commands

IsLastKeyOffByOne == key > Len(KeysOf(builder[next]))      \* mutant
IsLastKey         == key = Len(KeysOf(builder[next]))

InsertKey ==
  /\ phase = "build"
  /\ key > 0
  /\ LET n == KeysOf(builder[next])[key] IN
     /\ commands' = Insert(n, next)
     /\ IF Taken(n)
          THEN /\ Return(Err(<<"DuplicateCommandName", n>>))
               /\ UNCHANGED <<next, key>>
          ELSE /\ next' = IF IsLastKey THEN next + 1 ELSE next
               /\ key'  = IF IsLastKey THEN 0 ELSE key + 1
               /\ UNCHANGED <<phase, outcome>>
  /\ UNCHANGED <<host, schemas>>

AllBuilt == next = Len(builder) + 1

BuildEnd ==
  /\ phase = "build"
  /\ AllBuilt
  /\ Return(Ok(NoneV))
  /\ UNCHANGED <<host, next, key, commands, schemas>>

Next ==
  \/ Begin \/ name \/ alias \/ arg \/ option \/ depends_on \/ returns \/ handler \/ annotate
  \/ register \/ build
  \/ BuildDefinition \/ InsertKey \/ BuildEnd

Spec == Init /\ [][Next]_vars

-----------------------------------------------------------------------------
\* The look-ups of a registry.  A list of entries of the table is the set of
\* the names they are under.

\* Mutant: a command is listed under its name only.
ListedByName(t, taken) ==
  {n \in DOMAIN commands : n = builder[commands[n]].name /\ t \in taken[commands[n]]}
Listed(t, taken) == {n \in DOMAIN commands : t \in taken[commands[n]]}

Inputs == [i \in DOMAIN builder |-> {builder[i].depends_on[k] : k \in DOMAIN builder[i].depends_on}]
Accepts ==
  [i \in DOMAIN builder |->
     UNION {{builder[i].arg[a].accepts[k] : k \in DOMAIN builder[i].arg[a].accepts} :
              a \in DOMAIN builder[i].arg}]

commands_that_accept(i) == Listed(builder[i].returns[1], Inputs)
commands_that_return(i) == Listed(builder[i].returns[1], Accepts)

-----------------------------------------------------------------------------
(***************************************************************************)
(* What holds of every run.                                                *)
(***************************************************************************)

\* The variables have their types.
TypeOK ==
  /\ Len(draft) \in 0..1 /\ calls \in 0..MaxCalls
  /\ Len(builder) \in 0..calls
  /\ DOMAIN builder = 1..Len(builder)
  /\ phase \in {"register", "build", "done"}
  /\ next \in 1..(Len(builder) + 1)
  /\ next <= Len(builder) => key \in 0..Len(KeysOf(builder[next]))
  /\ next > Len(builder) => key = 0
  /\ \A n \in DOMAIN commands : commands[n] \in DOMAIN builder
  /\ \A n \in DOMAIN schemas : schemas[n][2] = n

\* The names entered before name a of definition i.
EnteredBefore(i, a) ==
  (UNION {{KeysOf(builder[j])[c] : c \in DOMAIN KeysOf(builder[j])} : j \in 1..(i - 1)})
    \cup {KeysOf(builder[i])[c] : c \in 1..(a - 1)}

\* A registry that is returned answers to every name and alias of every
\* command with that command, so no two commands share one, and to no other name.
TableComplete ==
  IsOk(outcome) =>
    /\ \A i \in DOMAIN builder : \A a \in DOMAIN KeysOf(builder[i]) :
         LET n == KeysOf(builder[i])[a] IN
         n \in DOMAIN commands /\ commands[n] = i
    /\ \A n \in DOMAIN commands :
         \E a \in DOMAIN KeysOf(builder[commands[n]]) :
            KeysOf(builder[commands[n]])[a] = n

\* `build` reports the fault a reader going through the registrations from the
\* top meets first, and reports none only if there is none.
Clashes(i) ==
  LET keys == KeysOf(builder[i]) IN
  [a \in DOMAIN keys |->
     When(keys[a] \in EnteredBefore(i, a), <<"DuplicateCommandName", keys[a]>>)]

Alone(faults) == {<<f>> : f \in faults}

FirstFaultOf(i) ==
  First(<<Alone(BuildFault(builder[i])), Alone(SchemaFault(builder[i])), First(Clashes(i))>>)

VerdictIsFirstFault ==
  phase = "done" =>
    LET faults == First([i \in DOMAIN builder |-> FirstFaultOf(i)]) IN
    IF faults = {} THEN IsOk(outcome) ELSE outcome \in {Err(f) : f \in faults}

\* A schema is looked up by its name, and is the one of that name that was
\* named last; none that a command names is missing, and there is no other:
\* not one that only the fields of a schema mention.
SchemasAreTheLast ==
  IsOk(outcome) =>
    /\ \A n \in DOMAIN schemas : \E i \in DOMAIN builder : \E t \in Naming(builder[i]) :
         NameAt(builder[i], t) = n
    /\ \A i \in DOMAIN builder : \A t \in Naming(builder[i]) :
       LET n == NameAt(builder[i], t) IN
       /\ n \in DOMAIN schemas
       /\ (\A j \in i..Len(builder) : \A u \in Naming(builder[j]) :
             NameAt(builder[j], u) = n => j = i /\ u <= t)
          => schemas[n] = SchemaAt(builder[i], t)

\* `build` finds no fault in a schema that a builder of schemas has passed,
\* alone or in a list, although the two check it separately and in different
\* orders: it only reports one if the host made the type by hand.
BuiltSchemasPass ==
  outcome \in {Err(<<"EmptyObjectSchemaName">>), Err(<<"EmptyObjectSchemaFields">>)} =>
    \E i \in DOMAIN builder : \E t \in DOMAIN TypesOf(builder[i]) :
       TypesOf(builder[i])[t] \notin Sound

\* A look-up by type lists a command that takes what command i returns under
\* every one of its names, once each, and no other command; "takes" is equality
\* of types, in the input for commands_that_accept and in the argument for
\* commands_that_return.
ListedUnderEveryName ==
  IsOk(outcome) =>
    \A i, j \in DOMAIN builder :
      LET type   == builder[i].returns[1]
          keys   == {KeysOf(builder[j])[a] : a \in DOMAIN KeysOf(builder[j])}
          of(list) == {n \in list : commands[n] = j}
          input  == \E k \in DOMAIN builder[j].depends_on : builder[j].depends_on[k] = type
          argument == \E a \in DOMAIN builder[j].arg :
                        \E k \in DOMAIN builder[j].arg[a].accepts :
                           builder[j].arg[a].accepts[k] = type
      IN  /\ Cardinality(keys) = Len(KeysOf(builder[j]))
          /\ of(commands_that_accept(i)) = IF input THEN keys ELSE {}
          /\ of(commands_that_return(i)) = IF argument THEN keys ELSE {}

\* A name that has been entered keeps its command; only the step that ends in
\* DuplicateCommandName, whose table nobody gets, replaces one.
BindingsStick ==
  [][\A n \in DOMAIN commands :
       /\ n \in DOMAIN commands'
       /\ \/ commands'[n] = commands[n]
          \/ outcome' = Err(<<"DuplicateCommandName", n>>)]_vars

\* ConfigError has a variant for two schemas of one name: no schema a command
\* names should be lost.
NoSchemaIsLost ==
  IsOk(outcome) =>
    \A i \in DOMAIN builder : \A t \in Naming(builder[i]) :
       schemas[NameAt(builder[i], t)] = SchemaAt(builder[i], t)
=============================================================================

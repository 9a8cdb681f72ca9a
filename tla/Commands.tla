------------------------------ MODULE Commands ------------------------------
(***************************************************************************)
(* What one command of a pipeline may do, apart from when it is run: the   *)
(* checks `eval_custom` makes before it calls a registered handler, the    *)
(* check it makes on what the handler returned, and the parameters that    *)
(* stand for the parts with modules of their own.                          *)
(*                                                                         *)
(* A program is the sequence of segments the parser reads, a segment being *)
(* a command and the operator in front of it.  The first segment has no    *)
(* operator in the source; it is written "pipe", since a pipeline is fed   *)
(* Value::None.                                                            *)
(***************************************************************************)
EXTENDS Values

CONSTANTS
  Programs,              \* the programs the interpreter may be given
  Registry,              \* name -> [depends_on, arg, returns]: the commands
  Matches(_, _),         \* ValueType::matches
  EvalExpr(_, _),        \* Evaluator::eval_expr: the result in a context
  BuiltinOutcomes(_, _), \* Evaluator::eval_builtin: the set of its results
  HandlerReplies(_, _)   \* what the handler of a name may reply to a call

\* A command is a builtin, a custom command, or source text that does not lex
\* or parse ("bad", with the stage that refuses it).

ProgramOK(p) ==
  /\ Len(p) \in Nat \ {0}
  /\ DOMAIN p = 1..Len(p)
  /\ p[1].op = "pipe"
  /\ \A k \in DOMAIN p : /\ p[k].op \in {"pipe", "concat"}
                         /\ p[k].cmd.kind \in {"builtin", "custom", "bad"}

ASSUME ProgramsAssumption == \A p \in Programs : ProgramOK(p)

ASSUME RegistryAssumption ==
  \A c \in DOMAIN Registry : DOMAIN Registry[c].arg = 1..Len(Registry[c].arg)

-----------------------------------------------------------------------------
\* Before the handler is called.  `arg` is the sequence of the one argument
\* expression of the call, or is empty; so is the `arg` of a definition, with
\* its schema.

Known(c) == c.name \in DOMAIN Registry

WrongInput(def, input) ==
  /\ def.depends_on # {}
  /\ \A t \in def.depends_on : ~ Matches(t, input)

\* The options of a call are a HashMap: any of those that fail may be the one
\* met first.
OptionFailures(c, input) ==
  {r \in {EvalExpr(c.options[k], input) : k \in DOMAIN c.options} : ~ IsOk(r)}

ArgResult(c, input) ==
  IF c.arg = <<>> THEN Ok(NoneV) ELSE EvalExpr(c.arg[1], input)

\* Mutant: only that there is an argument is checked.
WrongArgIfMissing(def, v) ==
  /\ def.arg # <<>>
  /\ def.arg[1].required
  /\ v = NoneV

\* validate_arg
WrongArg(def, v) ==
  /\ def.arg # <<>>
  /\ def.arg[1].required
  /\ def.arg[1].accepts # {}
  /\ \A t \in def.arg[1].accepts : ~ Matches(t, v)

\* The results of a call that never reaches its handler; none if it does.
GateErrors(c, input) ==
  CASE ~ Known(c) ->
         {UnknownCommand(c.name)}
    [] Known(c) /\ WrongInput(Registry[c.name], input) ->
         {UnexpectedInputType(c.name, type_name(input))}
    [] OTHER ->
         IF OptionFailures(c, input) # {} THEN OptionFailures(c, input)
         ELSE LET arg == ArgResult(c, input) IN
              IF ~ IsOk(arg) THEN {arg}
              ELSE IF WrongArg(Registry[c.name], arg.val)
                THEN {UnexpectedArgumentType(c.name, type_name(arg.val))}
                ELSE {}

Admitted(c, input) == GateErrors(c, input) = {}

\* What the handler of an admitted call is handed: its context and the
\* CommandInput.
CallOf(k, c, input) ==
  [at      |-> k,
   input   |-> input,
   arg     |-> ArgResult(c, input).val,
   flags   |-> c.flags,
   options |-> [o \in DOMAIN c.options |-> EvalExpr(c.options[o], input).val]]

\* Mutant: the declared return type is not checked.
ReplyUnchecked(c, reply) == reply

\* After the handler has replied.
ReplyResult(c, reply) ==
  IF IsOk(reply) /\ ~ Matches(Registry[c.name].returns, reply.val)
    THEN UnexpectedReturnType(c.name, type_name(reply.val))
    ELSE reply

-----------------------------------------------------------------------------
\* The verdict of the caller of `execute`: nothing yet, or a result.
Pending == [res |-> "pending", val |-> NoneV]

IsBad(c)      == c.kind = "bad"
WellFormed(p) == \A k \in DOMAIN p : ~ IsBad(p[k].cmd)

\* Parsing stops at the first fault in source order; `execute` sorts lexing
\* errors from parsing errors.
FirstBad(p) ==
  CHOOSE k \in DOMAIN p : /\ IsBad(p[k].cmd)
                          /\ \A j \in DOMAIN p : j < k => ~ IsBad(p[j].cmd)

StageError(c) == Err(<<c.stage>>)
=============================================================================

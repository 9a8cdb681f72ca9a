----------------------------- MODULE PipelineSem -----------------------------
(***************************************************************************)
(* What `execute` promises, without a syntax tree, a stack or a parser: a  *)
(* program either has a fault and is refused before anything runs, or its  *)
(* commands run once each, in source order, around one accumulator.  A     *)
(* command behind `>>` is fed the accumulator and replaces it; a command   *)
(* behind `++` is fed Value::None and its result is joined to it.  The     *)
(* first result that is not Ok is the verdict and nothing runs after it.   *)
(* Evaluator.tla is shown to implement this module.                        *)
(***************************************************************************)
EXTENDS Commands

VARIABLES
  prog,     \* the program
  pc,       \* the segment to run next, 0 once there is a verdict
  acc,      \* the value of the segments that have run
  waiting,  \* a handler has been called and has not replied
  calls,    \* the calls made of handlers, in order
  outcome   \* the verdict

vars == <<prog, pc, acc, waiting, calls, outcome>>

Init ==
  /\ prog \in Programs
  /\ pc = 1
  /\ acc = NoneV
  /\ waiting = FALSE
  /\ calls = <<>>
  /\ outcome = Pending

Cmd  == prog[pc].cmd
Feed == IF prog[pc].op = "concat" THEN NoneV ELSE acc

Verdict(r) ==
  /\ outcome' = r
  /\ pc' = 0
  /\ acc' = NoneV

\* The segment is over with result r.
Conclude(r) ==
  IF IsOk(r)
    THEN /\ acc' = IF prog[pc].op = "concat" THEN concat_values(acc, r.val)
                                             ELSE r.val
         /\ pc' = pc + 1
         /\ UNCHANGED outcome
    ELSE Verdict(r)

\* Some segment may still run.
Running ==
  /\ pc \in DOMAIN prog
  /\ ~ waiting
  /\ WellFormed(prog)

Reject ==
  /\ pc = 1
  /\ ~ waiting
  /\ ~ WellFormed(prog)
  /\ Verdict(StageError(prog[FirstBad(prog)].cmd))
  /\ UNCHANGED <<prog, waiting, calls>>

RunBuiltin ==
  /\ Running
  /\ Cmd.kind = "builtin"
  /\ \E r \in BuiltinOutcomes(Cmd, Feed) : Conclude(r)
  /\ UNCHANGED <<prog, waiting, calls>>

Refuse ==
  /\ Running
  /\ Cmd.kind = "custom"
  /\ \E r \in GateErrors(Cmd, Feed) : Verdict(r)
  /\ UNCHANGED <<prog, waiting, calls>>

Call ==
  /\ Running
  /\ Cmd.kind = "custom"
  /\ Admitted(Cmd, Feed)
  /\ waiting' = TRUE
  /\ calls' = Append(calls, CallOf(pc, Cmd, Feed))
  /\ UNCHANGED <<prog, pc, acc, outcome>>

Reply ==
  /\ waiting
  /\ waiting' = FALSE
  /\ \E reply \in HandlerReplies(Cmd.name, CallOf(pc, Cmd, Feed)) :
        Conclude(ReplyResult(Cmd, reply))
  /\ UNCHANGED <<prog, calls>>

Finish ==
  /\ pc = Len(prog) + 1
  /\ Verdict(Ok(acc))
  /\ UNCHANGED <<prog, waiting, calls>>

Next == Reject \/ RunBuiltin \/ Refuse \/ Call \/ Reply \/ Finish

Spec == Init /\ [][Next]_vars
=============================================================================

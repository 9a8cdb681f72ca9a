# Ussisõnad: a verification project

Ussisõnad is a small pipeline language for a chat bot. A host program registers
commands with a `RegistryBuilder`, gets a `Registry`, and hands source text to
`Evaluator::execute`, which lexes and parses it to a tree of `PipelineNode`s and
walks the tree, calling the asynchronous handlers of the registered commands.
This directory models that program in TLA+, checks the models with TLC and
proves what matters most with TLAPS. Paths below are relative to
`src/ussisonad-core/src/`.

## 1. Inventory

| Component | Source | State | Operations | Talks to |
|---|---|---|---|---|
| Lexer | `lexer/mod.rs`, `lexer/token.rs` | two characters, their offsets, a queue of tokens | `next` | read by the parser, one token ahead |
| Command and expression parser | `parser/expr.rs` | the peeked token | `parse_command` and below, a Pratt loop for expressions | called by the pipeline parser |
| Pipeline parser | `parser/expr.rs:67-110` | the node so far | `parse`, `parse_pipeline` | called by `execute` |
| Evaluator | `eval/evaluator.rs:121-160` | the recursion of `eval_node` | `execute`, `evaluate_ast`, `eval_node` | parser, registry, handlers |
| Command gates | `eval/evaluator.rs:270-342` | none | `eval_custom`, `validate_arg` | registry, expressions, one handler call |
| Expression evaluator | `eval/evaluator.rs:344-517` | none | `eval_expr`, `eval_binary`, `numeric_op`, `compare_values` | pure |
| Builtin commands | `eval/evaluator.rs:162-268` | none | filter, unique, sort, take, count | pure, over expressions |
| Registry and command builders | `runtime/registry.rs` | the builder at hand, those registered, table of commands, table of schemas | a builder's setters, `register`, `build`, look-ups by name and by type | values and types |
| Schema builders | `runtime/value.rs:80-190`, `runtime/registry.rs:330-519` | none | `build` of arguments, options, objects and fields | registry, host |
| Values and types | `runtime/value.rs` | none | `type_name`, `matches` | everywhere |
| Handlers | `runtime/handler.rs` (trait only) | the host's | `execute` | external |
| Display and Error impls, derive macro, facade crate | | none | | wording and compile-time only |

There is no thread, no shared mutable state and nothing persistent: the registry
is immutable behind an `Arc` once built. What is hard in this code is elsewhere:

* **order and effects** - handlers have effects. Which of them have run when an
  error ends a program, and what each was fed, depends on the shape of the tree
  and on values kept across `.await`;
* **what is checked when** - a program is parsed as a whole before any of it
  runs, an input before the call, a return type only after it;
* **first error wins** - in the parser, in the gates of a command, in a list of
  expressions, in `build`. One of these orders is that of a `HashMap`;
* **numbers** - panics on division by zero and overflow, `as f64`, `as i64`,
  NaN, `==` that disagrees with the order, and a comparison that is no total
  order, and forgets what it has failed on, handed to `sort_by`;
* **looking ahead** - the parser peeks one item of a lexer that is two characters
  ahead; errors wait in the `Peekable` and may be taken for an end;
* **tables** - names, aliases and schemas that meet in one `HashMap` whose
  `insert` replaces;
* **greedy parsing** - options of a custom command take whatever may start an
  expression; `-` is an operator, a sign and the prefix of a flag.

What makes each component correct:

* evaluator: handlers are called once each, in source order, none of them before
  the whole program has parsed or behind a failure; `>>` threads, `++` starts
  from nothing and joins in source order; every program gets a verdict;
* gates: a handler is only handed input of a type it depends on and a required
  argument of a type its schema accepts, and its result only travels on if it is
  of the declared type;
* registry: a returned table answers to every name and alias with its own
  command, errors name the first fault, schemas are found by name;
* expressions and builtins: agreement with their mathematical definitions where
  they have one, and exact knowledge of where they do not;
* parsers and lexer: every token is consumed once and in order, spans tile the
  source, binding powers give the documented tree, faults are the first ones.

The hazards that follow from this are listed, at their lines, in `PROJECT.json`.

## 2. Modules

| Module | Models | Extends |
|---|---|---|
| `Values` | values, types, results and errors; `concat_values` | |
| `Types` | `matches`, `extract_object_schema` (recursive) | `Values` |
| `Operators` | `eval_binary` and what it calls: numbers, order, membership | `Values` |
| `Expressions` | `eval_expr` (recursive) | `Operators`, `Types` |
| `Builtins` | the five builtins | `Operators` |
| `Commands` | the gates around a handler call; what a program is | `Values` |
| `PipelineSem` | what `execute` promises: the abstract specification | `Commands` |
| `Evaluator` | `execute`: tree building, walk, suspension at handlers | `Commands` |
| `BuiltinLoops` | filter, unique and sort item by item, and `sort_by` asking the closure of `eval_sort` | `Builtins` |
| `RegistryBuilder` | the host's calls, `register`, `build`, the schema builders, the look-ups | `Values` |
| `Parser` | `Parser::parse` and all below it, over tokens lexed on demand | |
| `Lexer` | the iterator of tokens over characters | |
| `Frontend` | `Lexer` and `Parser` composed: items are lexed on demand | instances of both |
| `MCEvaluator`, `MCBuiltinLoops`, `MCRegistryBuilder`, `MCLexer`, `MCFrontend` | instances for TLC | |
| `UntypedSeqs` | lemmas on sequences of values without a type | `TLAPS` |
| `EvaluatorProofs` | proofs that the walk keeps to the tree, and about the calls handlers receive | `Evaluator`, `UntypedSeqs` |
| `RefinementProofs` | proof that the walk implements `PipelineSem` | `EvaluatorProofs` |
| `BuiltinProofs` | proofs about the loops of the builtins, `sort_by`, the order of values and division | `BuiltinLoops`, `UntypedSeqs` |
| `RegistryProofs` | proofs about the registry | `RegistryBuilder`, `UntypedSeqs` |
| `LexerProofs` | proofs about tokens, errors and their spans | `Lexer`, `UntypedSeqs` |
| `ParserProofs` | proofs about the tree, the commands, their options and directions, and the errors of the parser | `Parser`, `UntypedSeqs` |
| `FrontendProofs` | proof that `Frontend` implements `Parser`, and what follows for source text | `Frontend`, `UntypedSeqs`, instances of the two above |

Recursive operators live in `Types` and `Expressions` only, which no module with a
theorem extends. The others take what they need of them as constant operators:
`Commands` takes `Matches`, `EvalExpr` and `BuiltinOutcomes`, `RegistryBuilder`
takes `SchemaIn`, `Builtins` takes `ValueAt`, and `Operators` takes `HoldsNaN` and
`Nearest`; the cfgs give these their values. The proofs therefore hold for every
matcher, every expression language and every set of builtins, and the runs for
those of the code.

### `Evaluator`

State and code correspond as follows.

* `prog` is what the tokens spell: a sequence of segments, a segment being a
  command and the operator in front of it. A segment may be `bad`: text whose
  lexing or parsing fails, with the stage that refuses it.
* `heap` holds the nodes that the loop of `parse_pipeline` boxes, children before
  parents. `ParseFirst`, `ParseOperator`, `ParseFault`, `ParseEnd` are the command
  before the loop, a turn of the loop, its `?`, and the end of `parse`. The lexer
  is read one token ahead by the parser, so lexing and parsing faults come in
  source order and the first one is the verdict.
* `stack` holds the pending calls of `eval_node`. A frame is `pipe` or `concat`
  while the left child runs, `join` while the right child of a concatenation
  runs; a `concat` frame keeps the clone of the input and a `join` frame the
  left value.
* `ctl` is the point of control: parsing, about to evaluate a node with an input,
  awaiting a handler, returning a value, or done.
* `calls` is the ghost that makes effects visible: every call a handler has
  received, with all it was handed. The code keeps no such list; the host sees it.
* `outcome` is what `execute` returned, or a panic that unwound it.

`Abort` is the `?` operator: whatever is pending is dropped and the error is the
verdict. The sequence `eval_command`, `eval_custom` up to the call, is one action
(`RunBuiltin`, `RefuseCall` or `CallHandler`), as nothing in it suspends;
`HandlerReply` is the rest, from the `.await` on.

Handlers are external. They may reply in any way `HandlerReplies` allows; in the
instance one of them returns what it declared, a value of another type, or an
error. A handler that panics or never replies is not modelled.

### `PipelineSem`

One accumulator, no tree. Its actions are the verdict on a faulty program and the
running of a segment. `Evaluator!Sem` maps the machine to it: the segment being
run is the `at` of the node, and the accumulator is the value in flight, or, with
a `join` on top, that frame's value. The actions of the walk that only move
through the tree are stutters.

### `RegistryBuilder`

The host makes one command builder at a time (`draft`) and calls its setters
(`name`, `alias`, `arg`, ..., one action each); `register` pushes it to `builder`.
`Kits` are the builders the model begins with: an empty one, from which every
call is an action, and some that are as good as complete, so that a few calls go
far. `build` is a loop with one action for the part that may fail inside a
definition (`BuildDefinition`: the builders of the definition, its argument and
its options, then the schemas of its types) and one per name entered in the table
(`InsertKey`). The partially filled tables of a failed `build` are dropped with
it; the model keeps `commands` so that the order of insertion and check can be
seen, and does not keep the schemas collected by a definition that fails. Optional
parts of a builder are sequences of at most one element. Flags, descriptions,
usage and default values are taken as they are by the code and left out.

`ObjectFault`, `FieldFault` and `SchemaOf` are `ObjectSchemaBuilder::build`; the
types of the host are the schemas these make, lists of them, and types made by
hand, which the code allows as `ValueType` is public. The fields of an object type
are a sequence of pairs, as the code's `Vec`, so that two schemas with the same
fields in another order differ. `SchemaIn` is `extract_object_schema`.
`commands_that_accept` and `commands_that_return` are operators over the final
table and change nothing.

### `Parser`

The tokens of the program are not given: `Lex` appends any kind of item when the
parser first looks behind the last one, as the `Peekable` does, so one run covers
every program up to a length, and what has not been lexed when an error is
returned is known never to have been. `Kinds` may hold `"lexerr"`, a `LexError`,
which is passed on by whoever looks at it (`LexFault`).

`ctl.at` is the function the parser is in and where; `frames` are the calls of
`parse_expr` and `parse_group` that wait for an inner one, with the least binding
power each goes on with. There is one action per branch of each function;
`Reject` stands for all the branches that return an error because of the token in
front of them, which `Wanted` and `Complaint` list by place.

`nodes` keeps with every boxed expression the tokens it was read from, and keeps
parentheses around one expression, which the code drops. No guard reads either;
they are what the tree is compared with the source by. Of what a token spells the
model keeps what the parser looks at: whether names coincide (`name`, and `asc`
and `desc`, which `sort` compares with) and whether digits fit an `i64` (`neg`), a
`u64` (`big`), both (`int`) or neither (`huge`).

`Evaluator` has its own view of `parse_pipeline`, one action per command, in which
a command that fails is one `bad` segment.

### `Lexer`

`src` is what has been taken from the iterator of characters and grows on demand
as well. `at`, `cpos` and `ppos` are the index of `current` in it and the two
offsets of the code, with the guess that is made of the second one at the end of
the iterator. The locals of the `lex_` functions are `tok`, and the loop they are
in is `mode`, so that every character taken is a step. An item in `out` has the
span the code reports and, as a ghost, the indices of the characters it was read
from. `pending` never holds more than one token and is left out; so are the
spellings of tokens, except that `Keywords` decides which words are none. The
table of keywords itself (`Token::from_word`) is a constant, of which an instance
has the words its letters spell; that the tokens it leads to are those of
`WordTokens` is an assumption, and a token may have both a word and a symbol, as
`not` and `!`.

### `Frontend`

`Lexer` and `Parser` are instantiated side by side. `Feed` is a step of the lexer,
taken only while the parser is waiting for an item (`Asked`); `Parse` is a step of
the parser. What the parser has been given, its `toks`, is computed from what the
lexer has put `out`: `KindOf` maps a lexed item to a token kind of `Parser`. What
name a word spells and what the digits of an integer fit are the constants
`Spelling` and `Reading`, of which no more is assumed than that a word is a name and
that an integer with a sign fits an `i64` or nothing. In the instance one digit is
an `int`, two fit a `u64` only and three neither, so that `InvalidInt` is among the
refusals. The composition therefore implements `Parser` (`ImplementsParser`), whose environment
is any lexer at all, and everything shown of `Parser` holds for source text.

### `Operators`, `Expressions`, `Builtins`

Integers have `Width` bits and wrap or panic as the build decides. Decimals are
whole numbers of halves with two infinities and NaN; they represent integers
exactly up to `Exact`, as `f64` does up to 2^53, and `as f64` rounds beyond
(`Nearest`), to even in the instance. Negative zero and the rounding of fractions
are not modelled. `sort_by`
with a comparison that clashes reports one of the clashes; with one that is no
weak order it returns some permutation; in both cases it may panic, as the
standard library says.

### `BuiltinLoops`

`Builtins` says at once what a command comes to; `BuiltinLoops` runs it. `at` is
the item the loop is at, `keys` and `kept` are its vectors. After the keys are made
`sort_by` may ask the closure about any pair that is still open, in either
order (`Ask`); `told` is all it knows. It must not return before every ranking that
agrees with the answers gives the same stable order (`IsSettled`), nor while there
is a group of items none of which it has compared with any other (`Linked`), which
no sort of the library leaves, as each puts runs together by comparing across them.
If no ranking agrees, any permutation or a panic is possible. `lazy_error` is the
local of that name: it is kept, and every answer behind it is `Equal`. This covers
every comparison sort the library may use.

## 3. Runs

All runs have `CHECK_DEADLOCK FALSE`: `execute`, `build`, `parse` and a lexer end,
and nothing follows.

| Run | Checks | Shows |
|---|---|---|
| `evaluator` | `TypeOK`, `WalksTheTree`, `NothingRunsUnparsed`, `CallsInSourceOrder`, `ConcatStartsFresh`, `HandlerContract`, `TypedHandoff`, `ImplementsSem`, `Terminates` | all pipelines of up to three of thirteen commands, with every reply of every handler |
| `builtins` | `TypeOK`, `LoopsAgree`, `SortIsSound`, `UniqueCovers`, `OrderAgainstEquality`, `DivisionRebuilds` | ten builtin commands over lists of values that are hard to compare, with `sort_by` asking in every order; laws of `==`, the order and division between the items |
| `registry_builder` | `TypeOK`, `TableComplete`, `VerdictIsFirstFault`, `SchemasAreTheLast`, `BuiltSchemasPass`, `ListedUnderEveryName`, `BindingsStick` | every host program of up to four calls on builders that are empty or complete |
| `frontend` | `NothingIgnored`, `RefusedAtOnce`, `SignsAreNotOperators`, `ImplementsParser`, `Ends` | sources of up to six of eleven kinds of characters through lexer and parser |
| `parser_expr` | `TypeOK`, `TreeIsTiled`, `BindsAsDeclared` | filters of up to six tokens and custom commands of up to seven, with operators of three tiers, `not`, paths, groups |
| `parser_cmd` | `SegmentsTile`, `OptionsAreGreedy`, `SortTakesTheLast`, `FirstFaultWins` | programs of up to seven tokens with all commands, both directions of a sort and a fault of lexing anywhere |
| `lexer` | `TypeOK`, `NothingLost`, `SpansAreExact`, `LongestMatch`, `StringsEnd`, `Ends` | sources of up to five of twelve kinds of characters |
| `zero_divisor` | `ExecuteReturns` is violated | dividing by zero panics |
| `none_return` | `DeclaredNoneAccepted` is violated | a command declared to return none cannot |
| `contains_blame` | `BlamedTypeIsWrong` is violated | `contains` names the wrong operand's type |
| `schema_lost` | `NoSchemaIsLost` is violated | a schema silently replaces another |
| `unterminated` | `UnterminatedToTheEnd` is violated | the end of the source is misplaced behind a character of two bytes |

**Bounds.** Three segments are the smallest program in which a `++` follows a
`>>` and precedes one, which is where the frames of the stack mix; the proof of
the walk covers every length. The words cover each kind of builtin result, a call that
is admitted, each way to be refused (unknown name, input, one of two failing
options, argument), each way to reply, and a fault at each position.

The lists of `builtins` have up to three items, integers of which one is beyond what a decimal
represents, the decimal it ties with, NaN, strings, null, a list and objects with
such fields; three of them make a comparison that is not transitive, a list of four adds
an item to those three that cannot be compared with them, and two
integers of four bits give every quotient with its overflow. Four calls of the host
(`MaxCalls`) are three commands registered and one call more, on any of them,
which is a name, an alias and a duplicate of each, or a schema that is replaced
twice; or one builder with three setters. `schema_lost` needs no more than three.
Six characters (`MaxChars` of `frontend`) are the `;`, a command of one letter and
two numbers with the sign between them, or a pipe and what is missing behind it.

A filter of six tokens holds two operators and three operands with one more
token for `not`, a comma or a parenthesis, which is what associativity and
precedence need; seven tokens of a program hold a command with an option, a flag
and an argument, an option given twice, or a sort with two fields and a
direction, or with one field and two different directions. Five characters are a string with an escape, good or bad, and something
behind it, or two tokens of two characters with one between them.

**Fairness.** `execute` is one future. Once polled it runs until it awaits a
handler, so weak fairness of `Parse \/ Walk` is what the executor gives; that
`HandlerReply` happens is a promise of the host (weak fairness of its own).
`parse` is one call with the lexer inside, and weak fairness of `Frontend`'s `Next`
says no more than that it runs; of a lexer alone it says that it is asked until it
has no more, as every collector does. Nothing is assumed of `Parser` alone, of the
builtins and of the registry, of which only safety is checked.

**Violations.** The five runs that end in a violation are disagreements between
the code and what it says of itself; `PROJECT.json` quotes both sides.

Two more, of comments in the lexer with the code below them, have no run, as a
property of the passing runs says which of the two the code does:

* `lexer/mod.rs:192` says of `--` "emit as two Sub tokens". It is emitted as one,
  `SubSub`, which is what the parser and the tests of the lexer expect, and
  `LongestMatch` says so.
* `lexer/mod.rs:298` says that a string with a bad escape is skipped "to the closing
  quote or EOF [...] so the lexer can continue afterwards". It is skipped to the next
  quote, also to an escaped one (`StringsEnd`): of `"\i\""` that quote ends the string,
  and the one that closes it begins another string. `NothingLost` holds, as each of
  the two has its own characters. The parser stops at the first of these errors, so it
  shows only in what a lexer yields that is asked for more.

## 4. Proofs

All of it holds for every value of the constants that the named assumptions of the
modules allow, and TLC evaluates these on every run:

* evaluator: every set of programs, registry, matcher, expression language, set of
  builtins and reply of a handler, where a program is a nonempty sequence of
  segments, the first of them written with `>>` (`ProgramsAssumption`), and the
  optional argument of a definition is a sequence (`RegistryAssumption`);
* registry: every set of command, argument, option and schema builders, where a
  builder has its parts and the lists among them are finite sequences
  (`KitsAssumption`), and a `SchemaIn` that is one unfolding of
  `extract_object_schema` at every type of the host (`SchemaInAssumption`), which
  only `SchemasPassTwice` uses;
* builtins: every set of commands with their parts (`CommandsAssumption`), lists of
  any length of any values, and every expression language that comes to a value,
  an error or a panic (`InputsAssumption`, where a value is built as its variant
  says, and what counts as holding a NaN is anything that tells NaN from the other
  values without parts); every total order of strings (`StringsAssumption`);
  integers of any width, an `Exact` of any size, so 64 and 2^53 as well, and an
  infinity beyond every integer (`NumbersAssumption`), with any rounding that keeps
  the order and is exact up to `Exact` (`NearestAssumption`). That the rounding of
  the instance is the one to even is `ExactAssumption`, of the instance alone;
* lexer and parser: every alphabet, table of keywords and set of kinds of tokens,
  and sources of any length (`MaxChars` and `MaxTokens` are numbers). The end of
  the source is no character (`CharsAssumption`) and no kind of token
  (`KindsAssumption`), keywords are tokens that `from_word` returns
  (`KeywordsAssumption`), and, for the two together, a name is neither the end nor
  an error (`IdentsAssumption`) and what the lexer can spell is a kind that the
  parser knows (`SpellingAssumption`), as is what an integer is read as, by its sign
  (`ReadingAssumption`). Both `KindsAssumption` and `IdentsAssumption`
  also say that no name is the token of two dashes or of an integer, which no word
  is, nor the marker `"none"` that stands where no option waits for its value.

**The walk** (`EvaluatorProofs`, `Spec => []WalksTheTree`). `WalksTheTree` is
inductive, once it is also said that the variables hold sequences
(`WalkInvariant`):

* while parsing, the heap is the left-leaning tree over the first m segments
  (`HeapIs`), nothing read so far is bad, the stack and the calls are empty;
* while walking, there is a segment k such that the bottom `Len(prog) - k` frames
  of the stack stand for the segments behind k in order (`FramesAre`), and the
  walk goes down at the branch of k, is at its leaf, or comes back from it, with
  one `join` on top exactly if k is being run behind `++`; and whatever is not
  piped into is fed `Value::None`.

There is one lemma per action. Facts on sequences are in `UntypedSeqs`: values
here have no type that could be named as a set, so the library's theorems, which
speak of `Seq(S)`, do not apply as they stand.

**The calls** (`EvaluatorProofs`). `CallsInSourceOrder` is not inductive: it does not
say how far the walk is, and a call could be added twice. `CallsInvariant` adds
that in every mode the calls are exactly those of the custom commands among the
first `Reached` segments (`CalledUpTo(Reached)`), where `Reached` is read off the
node the walk is at; when there is a verdict some such number is left, and it is
the length of the program if the verdict is Ok. `NothingRunsUnparsed`,
`ConcatStartsFresh` and `HandlerContract` say something of each call; they are
kept by every step but `CallHandler`, and there follow from where the walk is and
from the gates that let the call through. `TypeOK` follows from the invariant.

**The handing over** (`EvaluatorProofs`). `TypedHandoff` says something of the calls
made, while the value was checked at another node, one or several steps before.
`Delivery` bridges them: a value that a segment returns, and the value the walk
holds at the leaf of the segment behind it, are of the type the first one declared
(`Handed`), except while a `join` is still to be done, after which the value is a
vector whatever it was.

**The refinement** (`RefinementProofs`, `Spec => Sem!Spec`). `Bars` says, mode by
mode, what the mapped program counter and accumulator are; it follows from
`WalkInvariant`. With it, each action of the walk is an action of `PipelineSem` or
leaves everything it sees alone. `SameData`, `SameGates` and `SameCalls` say that
the operators the instance brings along are those of `Commands`.

**The registry** (`RegistryProofs`). `RegistryInvariant` has five parts: what the
host holds (`HostInv`), where the loop of `build` is (`PlaceInv`), that the table
has exactly the names in front of that place, each bound to its definition, except
after the insertion that fails (`TableInv`), the same of the schemas with the last
one of each name (`SchemaInv`), and that there is no fault in front of that place
and the verdict is the first fault at it (`VerdictInv`). The last one needs the
table: that a name is taken in `commands` is that it was entered before, which is
what `FirstFaultOf` says without a table. All theorems follow from it;
`ListedUnderEveryName` because the names of a definition without a fault differ, so
that there are as many of them as places; `BuiltSchemasPass` because the two faults
it speaks of can only come from `SchemaFault` (`BuildFaultElsewhere`: neither the
builders of a definition nor a clash of names reports them), and `SchemaIn` finds
nothing wrong with what `ObjectFault` has passed (`SoundPasses`).

**The builtins** (`BuiltinProofs`). `LoopsAgree`, `SortIsSound` and `UniqueCovers`
speak of what was returned. `LoopInv` says what is there before:
the items the loop has been through came to values (`ItemsInv`); `kept` and `keys`
are the items and keys at the places that are to stay among those (`KeptInv`, with
`Picked` of `Builtins`; for unique also that each key passed is equal to one
kept or to nothing); `sort_by` works on all the keys or not at all
(`PhaseInv`); and it was told the truth about every pair it asked for unless the
first error is kept, which is that of two keys (`ToldInv`). `ReturnInv` lists the
ways to return and what is known then. TLC checked both on the instance before they
were proved.

What remains is about sorting and picking. `Picked` lists its places in order
(`PickedFacts`), by a lemma on chains of sets whose sizes count their elements
(`Chain`); the same lemma gives that the stable order of any ranking takes in every
place once (`OrderedFacts`). If no error was kept and the answers link all items,
all keys can be compared, because comparability is transitive
(`LinkedKeysCompare`), so no clash was got round. If besides the keys are in a weak
order, the number of keys before each is a ranking that agrees with the answers
(`TrueRanksAgree`); so `sort_by` could not settle on another order than the stable
one (`ReturnedOrder`). `TrustedIsWeakOrder` says that integers, or numbers with
small enough integers, or strings, are in a weak order; numbers in general are not,
and then any permutation is allowed for. The two laws of operators are facts about
two values (`OrderHolds`; `IntsDivide`, from `QuotRem`: truncating division gives
its dividend back) and need only that the items are values.

These proofs corrected the model. `SortReturns` once needed `IsSettled` alone. The
proof of `LoopsAgree` failed where no ranking agrees with the answers: with 4 < 5
and 4 and 5 both tied with 4.0, nothing is left to settle, and the sort could return
without ever having asked about a fourth item that cannot be compared with these.
The library cannot, and lists of three could not show it; hence `Linked`, and the
list of four in the run.

**The lexer** (`LexerProofs`). `LexerInv` has four parts: how much of the source has
been taken when the lexer is at `at` (`WindowInv`), that the offsets of the code are
those of the characters it holds, with the guess that stands for the second one at
the end (`PlaceInv`), what the token at hand is made of so far, mode by mode, which
for a string is whether an even number of backslashes stands in front of `at`
(`TokenInv`), and that what was put out is as the properties want it, in order, and
reaches up to the token at hand with only spaces between (`OutInv`). The last one is
wanted and cannot do without the others: where a token ends is decided by a
character that was read before, and its span is computed from offsets that were
guessed.

**The parser** (`ParserProofs`). `TreeIsTiled` and `BindsAsDeclared` speak of nodes
that are finished; what makes them so is spread over the pending calls. `ExprInv`
says what each of them waits for: by `StackHolds` a frame has parsed its tokens up
to where the call above it begins, and has called that one with the power its
operator asks for; by `HandHolds` the expression in hand ends where the parser is,
and binds at least as tightly as the call asks and as the operator behind it; by
`NodeHolds` the parts of a node, which have lower numbers, tile it and bind as they
should. A step looks at the uppermost frame only, so nothing is assumed of the
depth of nesting. `SegsInv` (the command at hand begins behind the operator that
joins it), `FaultInv` (the parser has looked at no more than one item behind those
it has consumed, and none of these is an error) and `CoverInv` (every token
consumed belongs to a command or stands between two) carry three of the other
theorems.

`SortTakesTheLast` and `OptionsAreGreedy` speak of the tokens of a command that are
in no expression, and so of all the nodes that may yet be made. `AskedInv` settles
that: a node made later lies at or behind the token at which the first pending call
began, and so behind all that the command has dealt with (`Behind`). `SortInv` and
`OptInv` are the properties for the tokens in front of that place (`SortDone`,
`OptDone`), of the command at hand and of those that are finished; for the options
it is also said that the key kept in `cmd` is the name behind the last two dashes
(`KeyHolds`), and that two dashes are in no expression (`DashInv`), so that an
argument is not mistaken for the value of an option nor the other way round.
`KindInv` says which lists a command of each kind has at all.

`ParserSigns` (`Spec => []SignsGoOn`) is for the front end: where a sign stands
behind an integer in a custom command, it begins an element of a vector or an
argument. Inside an expression this is `SignInv`, as no function goes on with an
operand behind an operand but the one that reads the elements of a group; outside,
the integer is the end of an argument or the value of an option, and not the name of
the command or of a key (`NamedInv`), so that what follows is an argument.

**The front end** (`FrontendProofs`, `Spec => ImplementsParser`). `LexInv` is
`LexerInv` with what the parser needs to know of an item, its kind. `Given` follows:
the tokens of `Parser` are the items put out, one for one, and stay what they were.
A step of `Feed` then is the arrival of one item, of the end of the source, or a
stutter, and a step of `Parse` is one of `Parser` as it stands. So the invariants of
`ParserProofs` hold of source text (`ParserRuns`), and the three properties that
relate characters to verdicts follow from those of the two sides: `NothingIgnored`
from `OutInv` of the lexer and `CoverInv`; `RefusedAtOnce` from `FaultInv` and
`PeekInv`, that an item the parser has not consumed is the last thing the lexer has
read; `SignsAreNotOperators` from `LongestMatch`, `TreeIsTiled`, `SignsGoOn` and
`MinusInv`, which says what may be read from a minus at all: an operator of one
character, two dashes, a number, a string or an error.

The run had passed on a stronger `SignsAreNotOperators`, by which the sign in `5-3`
begins the second or a later element of a list. Its proof failed, and TLC shows why
on programs of `Parser` of eight tokens, out of reach of the six characters of the
run: in `;cmd --key 5-3` the option takes the 5, and -3 is the first argument of the
command. The property now says so.

**Model-checked only**: liveness (`Terminates` and both `Ends`), which is out of
the provers' reach; and that the recursive operators (`eval_expr`, `matches`,
`extract_object_schema`, `holds_nan`) are what the constants they stand for are
assumed to be, which TLC evaluates on the instances. Every invariant, every action
property and both refinements that a passing run checks are theorems.

## 5. Not modelled

* `Display` and `Error` impls: wording.
* The derive macro, which writes a conversion field by field at compile time, and
  the facade crate, which re-exports.
* The setters of argument, option, object and field builders: the builders they
  lead to are constants, and what their `build` does with these is modelled.
* Option schemas, default values, flags and the `required` of options: `eval_custom`
  does not consult them.
* A handler that panics or never replies, and the depth of the machine's stack.
* The spelling of keywords and the digits of numbers, of which only what they fit
  counts; negative zero and the rounding of fractions.

## 6. What could follow

1. A spelling for tokens: `Token::from_word` and the digits of numbers are
   constants or classes so far.
2. Decimals with fractions finer than a half, of which `float_op` would be the
   rounded result. `OrderAgainstEquality` and `SortIsSound` do not depend on it.
3. A handler that panics: it unwinds like the panics of expressions, but the host
   may catch it and go on with the same evaluator.

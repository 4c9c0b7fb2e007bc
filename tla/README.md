# A TLA+ model of the Envoy header rewrite filter

This directory holds TLA+ modules for the HTTP filter in `header-rewrite-filter/`:
the parser and the evaluator of conditions, the constructor that turns a
configuration into lists of operations, the two handlers that execute them on
a request and its response, the contract that these implement, and the life of
the objects involved. TLC checks the modules on small instances; TLAPS proves every
invariant and action property of the passing runs for every instance, and that
the stream implements its contract.

All paths below are relative to the repository; `header_processor.cc` and the
other file names without a directory are in `header-rewrite-filter/`.

## Inventory

| Component | State | Operations | Module |
|---|---|---|---|
| Condition parser, `ConditionProcessor::parseOperation` | loop iterator, `operators_`, `operands_` | one loop iteration per term or operator | `Conditions`, `ConditionParser` |
| Condition evaluation, `executeOperationRecursively`, `executeOperationLinearly` | iterators, `left_result`, `result`; reads `operators_`, `operands_`, `bool_processors_` | split at `or`, evaluate an operand, combine | `ConditionEvaluator` |
| Dynamic functions, `DynamicFunctionProcessor` | `function_type_`, `function_argument_` | parse; `hdr`, `urlp`, `metadata`, literal | `DynamicFunctions` (operators) |
| Boolean variables, `SetBoolProcessor` | source, match type, comparison | parse, evaluate at each reference | `BoolVariables` (operators) |
| Filter constructor, `HttpHeaderRewriteFilter` | `error_`, two lists of processors, two maps of variables | parse one line; stop at an error | `FilterConfig` |
| Handlers, `decodeHeaders`, `encodeHeaders`, `onDestroy`, and the four `executeOperation` | the message's headers and path, the stream's dynamic metadata | `set-header`, `append-header`, `set-path`, `set-metadata` | `FilterStream`, `RewriteContract` |
| Factory and configuration object, `header_rewrite_config.cc`, and the pointers between filter, maps and processors | who holds what | load, remove; construct, add to the chain, destroy | `FilterLifecycle` |
| `decodeData`, `encodeData` | none | return `Continue` | not modelled |
| Protobuf message, build files, CI, sample configuration, tests | | | not modelled |

**How they interact.** Envoy constructs a filter object for each stream from a
shared configuration. The constructor splits the text into lines and tokens and
makes a processor per line; `set-bool` lines go into a map of their side, which
every processor of that side shares through a pointer, and the others are
appended to a list. Envoy then calls `decodeHeaders` with the request's headers
and `encodeHeaders` with the response's, on the worker thread that owns the
stream. A handler calls `executeOperation` of its list in order. Each operation
first evaluates its condition, which looks up variables in the map and evaluates
them on the message as it is then, and then evaluates its arguments and changes
headers, path or metadata. Metadata is the one thing that the request's handler
leaves for the response's.

**What is hard.** There are no retries in this code, and the one thing that
threads share is the configuration object, which the main thread lets go of while
streams on the workers use it. What a test hardly reaches is sequence, partial
failure and lifetime: a grammar checked by counting; a
configuration in which the lines of the two sides, definitions and uses are
mixed; lists that are left half built after an error; conditions whose value
changes between two operations of one handler; an operation that fails after
part of its work; exceptions, which some callers catch and others do not;
`encodeHeaders` without `decodeHeaders`; iterator arithmetic on two vectors in
parallel; shared pointers that form cycles. `PROJECT.json` lists each at its line.

**What makes each component correct.** The parser accepts exactly the grammar of
the documentation and records the expression it read; the evaluator gives that
expression its meaning, in order, and reports the first failure. The constructor switches
the filter off exactly for a configuration with a bad line, and what it stores is
in order and refers only to what is there. A handler returns, touches nothing if
the configuration was bad, loses no header and no query string, and fails only
for a reason that its message still shows; seen from outside, it rewrites a
message at once, as a function of the configuration and the message. Nothing is
freed while it is used, and what is never freed is known exactly.

## Modules

| Module | Contents |
|---|---|
| `Conditions` | token classes of `utility.cc`, the grammar (`WellFormed`), the value of an expression (`ConditionHolds`, `ConditionFails`) |
| `ConditionParser` | the parser's loop as a state machine; extends `Conditions` |
| `ConditionEvaluator` | the recursive evaluation as a state machine, after the parse by an instance of `ConditionParser` |
| `DynamicFunctions` | `Parses` and `Evaluate` of one token |
| `BoolVariables` | `set-bool`, the match types, `evaluateCondition`; extends `Conditions` and `DynamicFunctions` |
| `Operations` | one line of the configuration: what `parseOperation` accepts and keeps, and the declarative `LineParses`; extends `BoolVariables` |
| `FilterConfig` | the constructor as a state machine; extends `Operations` |
| `FilterStream` | the whole life of a stream; extends `FilterConfig` and runs its `Construct` as the first phase |
| `RewriteContract` | the abstract specification of a stream: a message is rewritten in one step, by a function that is a parameter |
| `RewriteMeaning` | that function: what a configuration makes of a message; extends `Operations` only |
| `FilterStreamContract` | the refinement mapping from `FilterStream` to `RewriteContract`, and the invariant of its proof |
| `FilterLifecycle` | objects and the pointers between them |
| `ConditionParser_proofs`, `ConditionEvaluator_proofs`, `FilterConfig_proofs`, `FilterStream_proofs`, `FilterStreamContract_proofs`, `FilterLifecycle_proofs` | theorems about the state machines, and their lemmas |
| `DynamicFunctions_proofs` | lemmas about `Evaluate`, texts and conditions |
| `Ranks` | lemmas about the number of positions up to one that have a property |
| `MCConditionParser`, `MCConditionEvaluator`, `MCFilterConfig`, `MCFilterStream`, `MCFilterStreamContract`, `MCFilterLifecycle`, `MCLexicon` | the small instances |

### ConditionParser

`expr` is `condition_expression` from `start` on; `it`, `operators` and
`operands` are the code's. Every `return` of `parseOperation` is an action that
sets `status`, every push an action that moves `it` by one or by two. `RejectEmpty`
stands for the test of `ConditionProcessorSetup`, which comes first. At the end
`CountsAgree` is the comparison of the two sizes. The code subtracts one from an
unsigned size; on an empty vector that would wrap, but the loop ends only after
an operand, so the model's comparison is the code's wherever it is reached.

### ConditionEvaluator

The parser's five variables and the evaluator's: `calls` is the stack of
`executeOperationRecursively`, each with its four iterators (as positions) and
`left_result`; `walk` holds the iterators and `result` of the one
`executeOperationLinearly` that can be active, since it is called in tail position;
`returned` is the tuple of the call that has just ended. `CallLeft`, `CallRight`
and `Combine` are lines 509, 510 and 512 to 524, `EvaluateFirst`, `EvaluateNext`
and `ReachEnd` the parts of the walk. When the evaluation begins, each declared
variable is given an outcome: a value, an error or an exception; it stays the same
during one evaluation because nothing of the message changes meanwhile. A tuple
carries, in place of the text of a status, the operand that caused it. The history
`evaluated` exists for `EvaluatesInOrder` alone.

### DynamicFunctions and BoolVariables

A token is a model string. `Form` gives, for each token that is not a plain word,
what the parser's tests and `substr` calls see of it: its length and delimiters,
the function name, whether the cut-out text ends with a parenthesis, and its
arguments. `Evaluate` returns a status and a text, or `throw` where `std::stoi`
lets an exception out. A text is the sequence of its comma-separated pieces,
because that is the only structure `hdr` looks at. `Numeral`, `LowerCase`,
`PathForm`, `Params`, `GluedValue`, `PrefixOf` and `SubstringOf` are the readings of
pieces and texts that library calls make, as constants. A query string is a sequence
of the strings that `Params` reads.

### FilterConfig

One action per kind of line (`ParseSetHeader`, `ParseSetMetadata`,
`ParseAppendHeader`, `ParseSetPath`, `ParseSetBool`), one for the lines that name no
side or operation (`RejectLine`), one for the exception of `tokens.at(2)`
(`SetBoolThrows`) and one for the end. A line's condition is judged by
`WellFormed`, which is justified by `ParserDecidesGrammar`: the state machine of
`ConditionParser` is proved to decide that predicate. A processor is stored as
the tokens it was made of.

### FilterStream

`phase` says where the stream is, `next` is the handler's iterator. Each
`executeOperation` is one action, with its statuses and early returns, except
`append-header`: its key is evaluated once (`BeginAppend`), then each value in a
step of its own (`AppendValue`), since a value may read the header that the
one before it was appended to. `set-path` has its own treatment of a false
condition, because it evaluates its path first. `Escape` is an exception that no
`try` block of the filter catches; the stream is not followed further.

### RewriteContract, RewriteMeaning and FilterStreamContract

The contract has no lists, maps, iterators or phases inside a handler: `Rewrite`
replaces the message by `Rewritten(config, side, message)` in a single step. It is
parameterised by that function and by the predicates `Throws` and `AllGood` on
configurations; `RewriteMeaning` defines them. `Operate` takes an operation and a
message to how the operation went and the message it leaves; `RewrittenUpTo` applies
it line after line of one side, up to the first operation that does not finish, and
`AppendedUpTo` goes through the values of an `append-header` in the same way. Both are
recursive functions. A bad line anywhere (`LineParses`) makes every message pass
through. The mapping shows
`FilterStream`'s message as the handler found it while a handler executes, and as
it is otherwise; `stage` is `phase`, or `threw`. The ghost field `metadata` of
`arrived` was added to `FilterStream` for the mapping. Every step of the constructor
and of a handler but the last maps to a stutter. The contract states what
`append-header` amounts to (each value is read after the one before it was
appended; a failure leaves those appended), which conditions are judged on which
message, and that an error on one side does not reach the other. It has no
fairness: that handlers return is `HandlersReturn`.

### FilterLifecycle

`live` is the set of allocated objects and `refs` the set of pointers, as pairs of
holder and object. An object without a pointer to it may be released, which drops
the pointers it holds. `createFilterFactoryFromProto` makes the configuration
object and the callback that captures it; `NewFilter` is `new` and the start of the
constructor, `PushOperation` and `InsertSetBool` a line of it, `AddStreamFilter` the
hand-over to the chain, `Throw` the exception of `tokens.at(2)` with the unwinding
it causes, `CloseStream` the chain's release of the filter. `RemoveCallback` is
Envoy's: a listener is updated or removed. Steps for configurations and for streams
interleave freely, as main thread and workers do.

### Named abstractions

- In `FilterLifecycle` a line is one of four kinds by what becomes of it, which
  `FilterConfig` decides. A processor stands for itself and the functions and the
  condition that it alone holds. The constructor's locals (`processor` of a line
  that fails, the copy `bool_processors`) are gone at the end of the iteration and
  are not shown. Envoy does not destroy a callback during its invocation.
- The split into lines and tokens is made before the model starts: a
  configuration is a sequence of sequences of tokens.
- A text has no empty pieces, as in `,a` or `a,,b`, and a key of `metadata` has
  no stray commas.
- A header occurs once in a message, with its values joined by commas, as
  `getAllOfHeaderAsString` joins them. `appendCopy` on a header that occurs
  several times is therefore not told apart from one that occurs once.
- Names such as `:path` used through `hdr` or `set-header` are not connected with
  the request's path, and a request has a path. `QueryStringKept` is therefore about
  `set-path` alone: a `set-header :path` replaces path and query string together.
- Every parameter of a query string has a value. When `set-path` has put a query
  string in front of another, the value of the last parameter of the first is
  some text with a `?` (the constant `GluedValue`), and the first parameter of the
  second is part of it.
- `streamInfo` is never null. The namespace of dynamic metadata is written by
  this filter alone.
- For `beg` with a comparison longer than the source, `find` reads behind the
  source's characters; it differs at the terminating zero, so the result is a
  mismatch, and the model gives that.

## Runs

| Run | Instance | Question |
|---|---|---|
| `condition_parser` | all expressions of at most 5 tokens (`MaxLength`) over `and`, `or`, `not`, two declared names and an undeclared one | does the parser decide the grammar and record what it read |
| `filter_config` | all configurations of at most 3 lines (`MaxLines`) from 23 | is the error flag exact, is what is stored ordered, closed and stable, and does nothing of it come from a bad line or from below one |
| `filter_stream` | all configurations of at most 3 lines from 17, on headers absent, empty, single and double, with and without a query string | what handlers may do, why they fail, that they return |
| `condition_evaluator` | every expression of at most 4 terms (`MaxTerms`), each `b`, `not b` or `c`, joined by `and` and `or`, under every outcome of the two variables (true, false, error, exception), and the malformed expressions of at most three tokens | do ranges match, is the value right, what is evaluated, which failure is reported, does the recursion end |
| `filter_contract` | all configurations of at most 4 lines (`MaxLines`) from 13, on requests with and without the header and a query string | does the stream implement the contract |
| `filter_lifecycle` | two configurations of five texts (with set-bools on neither, one or both sides, a bad line and a throwing one), two streams | is what is used alive, and what is freed |
| six runs that end in a violation | as above with `MaxLines` 2 | the disagreements listed below |

**Why the bounds are enough.** Five tokens hold `a or not b and`-like shapes, two
terms side by side together with a surplus operator, and every pair of adjacent
token classes at the beginning, in the middle and at the end; the parser looks at
three adjacent tokens at most, and for longer expressions there is the proof. The
lines of `filter_config` contain, for each operation, one that parses and one for
each test that can fail; three lines allow a definition, a redefinition and a
use, in every order and on both sides. In `filter_stream` three lines allow a
definition, an operation that changes what it reads and an operation that depends
on it; the lines include, for each operation, one that succeeds, one that fails
and one that throws. `filter_contract` takes four lines, so that there are two
definitions or two changes before the use. Four terms give a recursion of three
levels, groups of one to four operands and every position of the failing one
before, between and after. Two loads and two streams allow an update while a stream
of the old configuration is being made or is open, with a stream of the new one
next to it. There are no counters to cap: the lists bound every
behaviour.

**Properties.** In `ConditionParser`: `AcceptsOnlyWellFormed`,
`RefusesOnlyMalformed`, `RecordsExpression`, `Terminates`. In `FilterConfig`:
`ErrorExactlyForBadLine`, `StoredInOrder`, `ConditionsClosed`,
`ResponseNeverReadsUrl`, `BoolsKeepDefinition`, `NothingStoredPastBadLine`. In
`ConditionEvaluator`: `RangesMatch` (which is also its type invariant),
`GivesMeaning`, `ReportsLeftmost`, `EvaluatesInOrder`, `EvaluationReturns`. In
`FilterLifecycle`: `NothingUsedIsFreed`, `LeaksExactlyTheCycles`, `ConfigFreed`. In
`FilterStreamContract`: `HonoursContract`. In
`FilterStream`: `BadConfigChangesNothing`, `QueryStringKept`,
`OnlyPositionsEscape`, `FailureHasCause`, `MetadataHasValues`,
`HeadersNeverLost`, `RequestSettled`, `HandlersReturn`. Each
is explained where it is defined. Besides them there is a type invariant per
state machine. The inductive invariants of the proofs (`ParserIInv`,
`LifecycleIInv`, `ConfigIInv`) are checked as well; `StreamIInv`, `EvalIInv`, `MeaningIInv`,
`OrderIInv`, `Cycles` and `ContractIInv` are defined next to the properties they are
for.

**Faulty variants.** Next to some definitions there is a second one whose comment
begins with "A fault": a variant with a plausible bug, such as the status of
`ConditionProcessorSetup` not returned. Replacing the definition by the
variant makes the property it is paired with in `PROJECT.json` fail; the specifications
themselves never use them.

**What the contract does not check.** `FilterStream` and the contract evaluate a
token, a condition and a line by the same operators (`Evaluate`, `evaluateCondition`,
`LineParses`), so `HonoursContract` is about what is done with their results: the
order of operations and values, which message each of them reads, and what an error
or an exception leaves undone. The meaning of a condition is the matter of
`GivesMeaning` (in `Conditions` its value is stated, in `ConditionEvaluator` computed
as the code does), the grammar that of `AcceptsOnlyWellFormed` and
`RefusesOnlyMalformed`, and which lines the constructor takes that of
`ErrorExactlyForBadLine`.

**Good lines.** `ErrorExactlyForBadLine` takes a line for good if `LineParses` does,
which follows the code. The documentation has another notion in three places. The repository's `README.md:68` says
that `if` "is a keyword and thus cannot be used as a string literal", but `set-header`
and `set-metadata` take key and value by position, `set-path` its path and `set-bool`
its source and comparison, and none tests for the keyword: `set-header a if`, one of
the lines of `filter_config`, is accepted and sets the header to `if`
(`header_processor.cc:45`). Only `append-header` takes every `if` behind its
key for the keyword. The other two have a run each: both delimiters around a call
(`half_wrapped_call`), and `set-path` on responses (`set_path_on_response`).

**Fairness.** `Terminates` assumes weak fairness of the
loop's steps, `HandlersReturn` of the constructor's and the handlers' steps: these are
synchronous calls on one worker thread, which runs them to the end. `ConfigSpec`, the
constructor alone, has no fairness, for nothing is asked of it there but safety. `EvaluationReturns` assumes the same of the parse and the evaluation, and
`ConfigFreed` of a constructor once begun and of destructors, which run when the
last pointer goes. Nothing is
assumed of the loading or removal of a configuration, or of the arrival of a request, a response or a reset.

**Deadlock** is checked in every run: the states in which a stream has ended
stutter explicitly (`Done`, `Constructed`, `StreamEnded`, `Stopped`, `AllOver`), and a stream that waits
for a message can always be reset.

**What leaks.** `LeaksExactlyTheCycles` describes a defect rather than excluding it:
a set-bool's processor and the map that holds it point at each other
(`header_processor.h:27`), so each stream whose configuration has a `set-bool` leaves
one map per such side, with its processors, allocated for good. No text in the
repository claims otherwise, so there is no violation run for it; the property
bounds the damage, since the filter, the configuration, the operations and the
other side's map are freed.

### Where the code and the documentation disagree

Besides the keyword `if` (see *Good lines* above), each of these has a run.

| Run | What it shows |
|---|---|
| `constructor_throws` | `http-request set-bool` without a name throws out of the constructor (`header_rewrite.cc:90`); every other syntax error is reported through `error_` |
| `half_wrapped_call` | a token with one of the delimiters `%[` and `]` is taken for a call (`header_processor.cc:595`) |
| `set_path_on_response` | the documentation offers `set-path` on responses, the constructor refuses it (`header_rewrite.cc:78`) |
| `false_condition` | `set-path` evaluates its path although its condition is false, and may throw (`header_processor.cc:250`) |
| `missing_value` | `hdr` with a position out of bounds, or on an empty header, is an error and not the empty string (`header_processor.cc:658`) |
| `query_string_doubled` | a new path with a query string gets the old one behind it (`header_processor.cc:274`) |

## Proofs

The theorems hold for every value of the constants, under the assumptions declared
with them: expressions are sequences of strings, configurations are sequences of
sequences of strings, and the lexicon's functions have the types that their
comments give. No bound on lengths is assumed.

**Counting positions** (`Ranks`). The vectors and lists of the code are compared with
positions of the expression or the configuration: entry k belongs to the k-th
position that has a property. The lemmas say how the number of such positions
grows by one step and that every number up to it is taken; they rest on the
library's facts about cardinality.

**The parser** (`ParserInvariant`, `ParserDecidesGrammar`, `ParserRefusesNoExpression`,
`ParserRecordsExpression`, `ParserTypes`). The code
never checks that two terms have an operator between them. The invariant says why
counting is enough: at each position of the loop, all tokens before it have
passed every other check of the grammar (`ConsumedPassedChecks`), and the surplus
of operands over operators is at least its normal value, 0 after an operator and
at the start and 1 otherwise, and equal to it exactly if no two terms stand side
by side (`SurplusCounts`). A term adds one to the surplus, an operator takes one
away and a term must follow it, so an excess never disappears. At the end the
token before the iterator is an operand, and the test for a surplus of one
is the test for juxtaposed terms. `Records(Consumed)` is what was read so far, and
`RecordsExpression` the same at the end.

**The evaluator** (`EvaluatorInvariant`, `EvaluatorRanges`, `EvaluatorMeaning`,
`ConditionsMean`, `LeftmostIsReported`, `EvaluatorOrder`, `OperandsInOrder`), for any
declared names, outcomes of the operands, and expressions that are sequences of
strings. `RangesMatch` is not inductive in itself. That
the first call is in range needs that the parser, which it follows, accepts only
with one operand more than operators (`VectorsFit`). That the right half of a range is in
range when the left one returns needs that the call that waited has an `or` to
split at (`WaitingCallsSplit`): a call below another has been split, and one
without an `or` is walked and returns before anything is on top of it. The halves
fit because the operands are cut as far from the start of the range as the first
`or` is.

What is returned is right by `MeaningIInv`: each call covers the half that the call
below it waits for and starts at the beginning of a group (`Nested`), and every
tuple there is, returned or kept as `left_result`, is the meaning of the operands it
covers (`ResultsMean`, `Gives`). Two halves combine because no group crosses an `or`.
This is the meaning of the two vectors; `ConditionsMean` makes it that of the
expression. The parser's invariant holds during the evaluation as well
(`ParserInside`), so operand k is the k-th operand of the expression, and between
two operands there is an `or` in the vector exactly if there is one in the
expression. For the order, `OrderIInv` says that the operands before a frontier, which can be
read off the state, have had their turn and the others have not.

**The constructor** (`ConfigInvariant` and seven consequences). The invariant says
that the maps hold exactly the names defined by the lines read so far
(`MapsMatchLines`), that all those lines parse in the sense of the declarative
`LineParses` (`LinesAboveParse`), that the constructor stopped at the end or at
a line that does not parse (`StoppedForReason`), and that what it stored parses on its
side (`OperationsParse`, `BoolsParse`). `ErrorIsExact` follows. That no
stored condition has an unknown variable (`ConditionsAreClosed`) needs that maps
only grow and that `WellFormed` is monotone in the declared names;
`ResponseWithoutUrl` needs only the parse of the line; `OperationsInOrder` counts the
lines of a side, and `NothingPastBadLine` puts it together with `LinesAboveParse`: a bad
line is never above the current one; `BoolsAreKept` is an action property from the same invariant.

**The stream** (`StreamInvariant` and eight consequences), for all configurations,
messages and readings of tokens. The constructor's invariant is carried through the
handlers, which change nothing that it speaks of. To it `StreamIInv` adds that no
handler runs before a constructor without an error has returned
(`HandlersAfterConstruction`), that a message nothing has worked on is as it arrived
(`UntouchedAsArrived`), that between the handlers the iterator is back at the start
(`AtRest`), and that inside one it is at an operation of its own side, and half way
through it only for an `append-header` (`AtOperationOfSide`). Why exceptions are
positions: a token that parsed throws only there, conditions are closed, and
evaluation of variables catches. Why failures have causes: `Evaluate` of a token that
parsed, on a side where it parses, fails only for a position out of the bounds of the
header it reads (`OutOfBounds`), and gives the empty text only for an empty literal or
where there may be nothing to find (`MayFindNothing`); the failing operation changes no
header, so the message still shows the reason when the handler has returned, and
nothing changes that message afterwards. The header and request properties are proved
step by step from the same invariant.

**The life cycle** (`LifecycleInvariant`, `LifecycleTypes`, `LifecycleSafety`,
`LifecycleCycles`, `LeaksAreCycles`), for any
number of configurations, texts and streams. That no pointer dangles
(`NoDangling`) is not inductive in itself: `Throw` frees the filter outright, and a
release must not take what a stream still needs. `Custody` says who holds what: a
callback its configuration, an invocation or a chain its filter, but never both, and
a filter its members. What is named there is pointed to, so it is not what
`Release` takes; and a filter that throws is not yet in a chain. For the leaks,
`Cycles` says that in every later state a set-bool that was stored and the map of its
side point at each other, so neither can ever be released; in a settled state of an
ended stream nothing holds its filter, hence nothing holds its operations or a
map without set-bools, and they are gone.

**The contract** (`ContractInvariant`, `StreamHonoursContract`), for all
configurations, messages and readings of tokens. The mapping hides everything a
handler does until it ends, so an invariant has to remember it. `ContractIInv` says
where a handler is in the contract's terms: at its k-th operation it has made of the
message it found what `RewrittenUpTo` makes of it up to any line with k - 1
operations of the side above it, and inside an `append-header` what `AppendedUpTo`
makes of that with the values so far (`HandlerFollows`). A step of a handler then
either is hidden and keeps this, or ends the handler with exactly the message and the
outcome of `Rewritten`; the proof has one lemma per action, and each compares what the
code does with its results, error by error, with what `Operate` says. Which line the
k-th operation of a list comes from is `OperationsInOrder` with the lemmas about
ranks; that a map means what the contract reads in the `set-bool` lines is
`VariablesStored`; that the contract refuses exactly the configurations whose
construction throws, and passes over those with an error, follows from
`LinesAboveParse` and from an error never being a `set-bool` without a name. The two
recursive functions are defined by CHOOSE, so the lemmas `AppendedRecursion` and
`RewrittenRecursion` first show that such a function exists, by induction on its
domain (`SetInduction`, from the library's theorem on well-founded orders).

**Only model-checked:** liveness (`Terminates`, `EvaluationReturns`,
`HandlersReturn`, `ConfigFreed`), which is out of the
prover's reach, as are ENABLED and RECURSIVE operators (the modules have none).

## Not modelled

- `decodeData` and `encodeData` return `Continue` and touch nothing.
- `name()`, `createEmptyConfigProto` and the static registration have no state; the
  Protobuf message is one string, and its validation is the guard of `RefuseEmpty`.
- The enumerations of `utility.h` and the translations from tokens to them appear as
  sets of tokens. Log and status texts are left out.
- Build files, CI scripts, the sample configuration and the tests were read for what
  the authors expect; they have no state of the filter.

## Plan

Done so far, in this order: `Conditions`, `ConditionParser`, `DynamicFunctions`,
`BoolVariables`, `FilterConfig`, `FilterStream`, the proofs about the parser and the
constructor; then `ConditionEvaluator`, `Operations`, `RewriteContract` with its
refinement mapping, `FilterLifecycle`, and the proofs about the life cycle and the
ranges of the evaluation; then what the evaluation returns, the order of what the
constructor stores, the stream and the leaks; then the refinement of `RewriteContract`.

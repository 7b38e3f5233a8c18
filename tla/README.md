# Gauge: TLA+ models, checks and proofs

Gauge (Go) executes specifications written in Markdown: it parses them, starts a
*language runner* process that implements the steps, sends it one request per hook and
per step, tells *plugins* (report generators) what happens, and exits with the verdict.
This directory models the parts of Gauge whose behaviour is more than data translation,
checks them with TLC on small instances, and proves the main results with TLAPS for
every value of the constants.

Contents: [the system](#the-system), [the modules](#the-modules),
[the runs](#the-runs), [fairness](#fairness),
[where code and documentation disagree](#where-code-and-documentation-disagree),
[the proofs](#the-proofs), [what is not modelled](#what-is-not-modelled), [plan](#plan).

Check a run with `tlc -config <cfg> <module>`, a proof with `tlapm <module>.tla`.
`PROJECT.json` lists runs, the mutants every property is tried against, the source lines
each definition stands for, hazards and theorems.

## The system

All paths are below `src/`.

| Component | Keeps | Does | Interacts with | What makes it hard, and correct |
|---|---|---|---|---|
| Sequential execution (`execution.go`, `specExecutor.go`, `specResult.go`) | a cursor (specification, table row, scenario, item), `currentExecutionInfo`, results of step, scenario, specification, suite | hooks around suite, specification, scenario, step; executes the steps; adds the results up | runner (request and answer), plugins (told of every hook), loggers | any exchange may fail, and the runner may die between two. A failure climbs through five records by separate assignments; the verdict must be that of the exchanges, hooks must nest, counts must agree with the results |
| Scenario items, concepts (`specExecutor.go`) | protocol buffer objects that are *shared* between a concept and its steps | recursion over concepts, execution times | part of the above | a failure deep inside has to stop all loops above it; the shared result object is overwritten with the concept's time |
| Parallel execution (`parallelExecution.go`) | one goroutine and one runner per stream, a result channel | deals specifications to streams, merges the results | runners, plugins (shared handler) | streams end in any order, a runner may not start, `os.Exit` from any stream. Nothing may be lost or doubled in the merge, and no runner left |
| Plugins (`plugin.go`) | `pluginsMap` (no lock), plugin processes and connections | start, notify, kill a plugin that fails, wait for all at the end | all streams, the main goroutine | deletion during iteration, by several goroutines; plugins that hang up, stop reading, ignore the end |
| Runner process and connection (`runner.go`, `conn/`) | the process, the connection, goroutines that wait, accept and read | start with timeout, requests with and without timeout, kill | every part that asks the runner | a timed-out request leaves a reader behind that takes later answers; answers are not matched with requests |
| Validation (`validator.go`) | cache of validated steps, errors per specification | one request per step before the execution | runner | late answers; the cache decides which steps are asked about |
| Concept dictionary (`concept.go`) | concepts, and a map of the step objects seen so far | reads concept files, replaces steps by concepts in place, checks for circles | parser, API | any order of definition and use; objects shared and changed in place |
| Parser (`specparser.go`, `specification.go`, `table.go`) | token list, two sets of states | lines to tokens to a specification | concept dictionary, filters | states kept across lines, tables that belong to a step, a specification, or nobody |
| Text of a step (`stepProcessor.go`, `formatter.go`) | a set of state bits, buffers | characters to a step's value and arguments, and back | parser, formatter, refactoring | states that hold together, escapes; what is written must read the same |
| Specification information (`specDetails.go`), API service (`api.go`) | lists of specifications, steps, concepts | file watcher updates them, connections read them | parser, concepts, runner | updates outside the lock, while clients iterate; events that come in between; the list must follow the files |
| Connections (`conn/`) | a buffer per connection | bytes to messages | runner, plugins, API | reads end anywhere; what is taken for a message decides where the next one begins |
| Command line (`gauge.go`), filters (`specsFilter.go`, `specItemFilter.go`, `indexedSpecExe.go`) | flags, the specifications that are left | parses every file by a goroutine of its own, selects by index, tags and group, formats, starts the rest | parser, validation, execution | results in any order; a filter takes from `items` what the executor has elsewhere; index arithmetic; what is asked for must be executed, by one group |
| Tag expressions (`specItemFilter.go`) | the text of the expression | replaces tags and negations in the text and evaluates what is left | filters | replacement of text by text: nested negations, brackets that are not closed |
| Arguments (`resolver.go`, `concept.go`, `specification.go`) | lookups of concepts, shared between their uses | fills, copies and resolves them for every row | dictionary, execution | one lookup for all uses of a nested concept; tables handed on; the next row must find what the first found |
| Refactoring (`refactor.go`) | parsed specifications and concepts in memory | renames them, asks the runner, writes files | runner, parser, API | several files and the runner's own, with no way back; a runner that answers late |
| Concept extraction (`concept_extractor.go`) | the concept being made | writes a concept and then its use | API | arguments matched by text in four places, two files |
| Installation, versions (`install.go`, `manifest.go`, `version/`, `plugin.go`) | plugin directories, the manifest | chooses a version, installs, adds to a project, makes a project | command line | failures on the way that leave directories; versions that hide others |
| Execution loggers; configuration, environment, file search | console, files | text, and reads of files | | no protocol of its own |

The command line (`gauge.go`) puts them together: `executeSpecs` reads concepts and
specifications, starts the API service and with it the runner, asks the runner for its
step names (with a timeout, errors tolerated), validates every step (with a timeout,
errors end the process), starts the plugins, executes, tells the plugins the result,
stops plugins and runner, and exits with the verdict.

## The modules

    MCSpecExecution -> SpecExecution -INSTANCE-> ExecutionScopes
                            ^ SpecExecution_proofs
    MCConcepts -> ScenarioItems, Concepts, Arguments
                     ^ Concepts_proofs
                     ScenarioItems -INSTANCE-> StepSequence
    MCParser -> SpecParser, StepText          ^ SpecParser_proofs
             -> Framing                       ^ RunnerSession_proofs
             -> TagExpression             ^ Specifications_proofs
    MCCommands -> Refactoring, CommandLine, ConceptExtraction, Installation
                            ^ Commands_proofs
    ParallelExecution -INSTANCE-> SuiteRun
                            ^ ParallelExecution_proofs
    PluginHandler           ^ PluginHandler_proofs
    RunnerSession           ^ RunnerSession_proofs
    SpecInfo                ^ Specifications_proofs

Most MC modules hold several components that do not interact; a behaviour is then one of
one component, which its first state chooses, and the others stand still.

`SpecExecution` is the sequential execution. The executor is one goroutine that blocks
for every answer, so an exchange with the runner is one action, named for the function
that makes it: `BeforeSpecHook`, `ExecuteStep`, `AfterScenarioHook`. What Go does
between two exchanges (choosing the next item, adding a result) belongs to the action
before them. `pc` is the exchange the executor is at; `sp`, `row`, `sc`, `it` the cursor
of its loops; `specResult`, `suiteResult`, `info` are the objects of those names, reduced
to flags and counts. A reply is `passed`, `failed`, `error` (an answer of another type)
or `lost` (write or read failed; the connection does not come back). `reported` and `ran`
are history.

`ExecutionScopes` is what runner and plugins are promised: suite, specification,
scenario and step are nested scopes that begin and end with their hooks, nothing begins
below a failed Starting hook or after a failed step, and the verdict of a scope that
closes passes to its parent. `SpecExecution` implements it (`ScopesNest`); the mapping
reads the depth off `pc` and the verdicts off the results.

`ScenarioItems` opens up what `SpecExecution` takes as flat steps: `executeScenario`
with contexts, items, and concepts inside concepts. The Go call stack is a stack of
(concept, position) pairs. Result objects are heap cells, because a failed concept and
the step that failed in it share one, whose time the concept overwrites. `StepSequence`
is the abstract specification: the expanded steps, in order, up to the first failure.

`ParallelExecution` is the streams and the main goroutine. A stream connects to a
runner, runs its share, kills the runner, sends its result; `Receive` takes a result off
the channel and merges it, one round of `aggregateResults`. A specification is one step
with a verdict, the inside being `SpecExecution`. `SuiteRun` is the abstract
specification of any suite execution: each specification meets one fate (passed,
failed, skipped, barred by a failed hook) and the report says what the fates say.

`PluginHandler` is `pluginHandler` and its plugins: start-up, the notifications of the
goroutines that execute, the result and the stop request from the main goroutine, and
`gracefullyKillPlugins`. `notifyPlugins` and `killPlugin` are split where two goroutines
can interleave: choosing a plugin, writing, failing, looking it up again, killing and
removing it. Each notifier has its own `at`, `visited` and `target`. Plugins are the
environment: they hang up, stop reading, exit or die at any time.

`RunnerSession` is one runner from `startRunner` to `testRunner.kill`: the goroutines
that wait for the process and accept its connection, the timed requests (step names,
validations) whose goroutines live on after the timeout, the requests of the execution,
and the stop. An answer arrives in pieces and is given to whichever reader is inside
`conn.Read`; request ids are not compared by the code and so not by the model. The session
is that of the runner which the API service starts (`gauge.go:249`). Gauge has two ends that
leave it running: `RejectTableRows` is the `os.Exit` of a specification in the middle of the
suite whose table `--table-rows` does not fit, and `FinishParallel` the end of an execution in
parallel, whose streams kill runners of their own only.

`Concepts` is `concept.go`: files are read line by line by `conceptParser` (with the one
state of the tokenizer that matters, `inTable`), and then the file's concepts are added to
the dictionary one by one, up to one that is there already, and looked at for circles. Steps
are objects that are changed in place; the field `into` of a step says whose steps it has
been given. All file contents up to the bound are explored, because every line is a
nondeterministic choice.

`SpecParser` is the parsing of a specification, in its two passes. `Underline`,
`PlainLine` and `TableLine` are `generateTokens`: a token for every line, or a change of
the last one, by the parser's `currentState`. Then each converter of
`createSpecification` is an action that takes the next token and puts it into a scenario,
a step, the specification or its data table, by the converters' `state`. A line is
reduced to its kind, the title of a scenario, the parameters of a step or row; where it
went is an entry of `items`, whose field `in` is the line of the scenario, or of the step
that owns a table. `RejectLine` stands for the errors in a line on its own. The process
ends (`crashed`) for a table line `|`, whose table has no first column to look at, and for a
line that is too long for the scanner (`LineTooLong`).

`StepText` is how the text of a step is read and written. A step of the model reads one
more character (`Element`); what has been read is a record whose `state` is the set of
bits of `currentState`, because the code's states are flags that it sets without clearing
the others. `formatStep` puts the arguments into the step's value, one placeholder after
the other. `RoundTrip` is about the texts for which formatting escapes enough: `Writable`
says which.

`SpecInfo` is what API clients are told: `specInfoGatherer`, its lists and its mutex. The
goroutine of the start-up and, once it is done, the one that handles events are one
sequential actor, at `at`. Replacing `availableStepsMap`, filling it step by step, and
releasing the mutex are actions of their own, for the code does the first two without the
mutex except when a specification is removed. Clients hold the mutex while they iterate:
`reading` is such an iteration, with what it has seen and what there was to see. That a
client takes the mutex and then looks at the map is one action: what the gatherer can do in
between needs no mutex, and could as well be done just before the client took it. Files and
their watcher are the environment; two accesses to a map at the same time may set
`crashed`, as the Go runtime may end the process. `missed` is history: the files that
changed between start-up's reading of them and the watch.

`TagExpression` is `--tags`. An expression is a sequence of tags, operators and brackets;
`handleNegation` and what it calls are the replacements of the code, made on that
sequence: first the negated values, then, round by round, the first negated brackets,
until there are none. `evaluateBrackets` is a recursive function, as in the code. What is
left is evaluated by the grammar of Go's constants, without negation. `Meaning` is the
reference, read token by token, with what is known of every bracket that is open: the
same expression as Go would read it.

`Framing` has the bytes of messages, counted: three messages, each preceded by its length,
are written at any time and read in pieces that end anywhere. `Take` is the code's test,
length less than what is in the buffer, header included, and what it takes.

`CommandLine` is `main` up to the execution: every argument's files are parsed by a
goroutine each, whose sends to two channels are actions of their own; then the filters, in
the order of the code, the sort, the API service, the validation step by step with its
cache, or the formatting file by file. A specification is its file and the positions of
the items it still has: the tag filter takes positions, the executor's contexts it cannot
take. `specRandomizer` shuffles and `sort.Sort` is not stable, so the order of execution is by
file, and among several specifications of one file (`b.spec:1 b.spec:0`) any:
`SortSpecsList` is the set of these orders. A behaviour starts the program twice, which is
what `SameEverytime` compares.

`Arguments` is the way of an argument to the runner: concepts are read with one lookup
each, `updateLookup` writes the arguments of nested uses into them in any order, the
specification's steps get copies, and every row of the data table is resolved step by step
with `resolving`, a stack of concepts under way, in place of the Go call stack.

`Refactoring` is `performRephraseRefactoring`: parse, start the runner, ask it for the
step's name, ask it to refactor, write the files one after the other. Requests may time
out and be acted upon later, files may fail to be written. A line is the words of its step's
value and its arguments, and files are compared as they are read again: `formatStep` writes
an inline table at its placeholder, so the words and arguments behind a table end up below
it and belong to the step no more (`ReadBack`; the code has a "Todo" for it at
`refactor.go:221`). Whether a use is known as a concept is part of its line (`concept`),
because `updateStep` tells only the first of the uses above a definition.
`ConceptExtraction` is the other operation of editors that writes: arguments, tables and
cells of the selected steps become a heading, the concept's steps and the line that uses it;
a name or step without a token ends the process (`RejectText`).

`Installation` is every flag that installs, updates, adds or initialises, and a behaviour is
up to four calls on one disk: directories of versions that may be without their description
or other files, the manifest, and for every call the choice of a version
(`InstallPluginWithDescription`), what can fail on the way, and the outcome that is printed.

How they fit together: `SpecExecution` relies on an answer or an error to every request,
which `RunnerSession` provides, and on flat steps, which `ScenarioItems` justifies. A
specification step of `ParallelExecution` is a run of `SpecExecution` between
`SpecInit` and the next. `PluginHandler` takes the streams of `ParallelExecution` as
notifiers with a bounded number of hooks. `SpecParser` yields the specifications whose
contexts, items and table rows `SpecExecution` and `ScenarioItems` execute; `Concepts`
replaces their steps. `StepText` opens up what `SpecParser` takes as the parameters a line
asks for, `Arguments` what becomes of them. `CommandLine` selects and validates the
specifications that the executions take as given, with `TagExpression` behind what it
calls `qualifies`; each of its validations is a timed request of `RunnerSession`, each
message of which is one of `Framing`. `SpecInfo` uses parser and dictionary on single
files: a file gives steps or does not parse.

## The runs

| Run | Shows |
|---|---|
| `execution` | `SuiteVerdict`, `TableRowsRun`, `LostRunnerFails`, `Terminates`, `ScopesNest`: a table-driven specification with a context, and a plain one, with every reply to every exchange; and `--table-rows 2-3` on tables of 3, 3 and 1 rows, the last of which ends the process in the middle of the suite |
| `steps` | `ScenarioTimeIsSum`, `StepsInSequence`: a context, a comment, a concept of a step, a concept and a step, and a step after them, failing anywhere, every time 0 or 1. `ConceptsAsWritten`, `AcceptedIsFinite`, `ReferencesExpand`: all concept files with six lines in total, three concepts and a step, with and without `shouldIgnoreErrors`. `AgreeingUsesResolve`: two concepts that use a third, which uses a fourth, with every mixture of static, dynamic and table arguments, for two rows |
| `parallel_streams` | `NoRunnerLeft`, `Terminates`, `SuiteAccounted`: four specifications on three streams, every interleaving, runners that do not start, failing hooks, a rejected `--table-rows` |
| `plugins_shared` | `NoPluginLeft`, `LivePluginsHearAll`, `OneStreamNeverCrashes`, `Terminates`: two plugins that fail in every way, one or two streams, two hooks each, parallel or not |
| `runner_session` | `ExecutionGetsItsAnswers`, `NoRunnerLeft`, `Terminates`: two validations, three requests of the execution, answers in two pieces, every timeout, and the ends that leave the runner |
| `readers` | `NothingLost`, `ItemsBelongAbove`, `ParametersResolve`: all specifications of up to five lines of twelve kinds, two titles, one parameter. `RoundTrip`: every text of up to six of the eight characters that matter, read, written and read again. `TagsAsWritten`: every expression of up to eight tokens over two tags. `FramesIntact`: up to three messages with headers of one or two bytes, cut anywhere |
| `specinfo_files` | `FollowsFiles`, `AnswersComplete`, `Settles`: two specification files and a concept file that are saved, broken, deleted and renamed before, during and after start-up, and clients asking meanwhile |
| `calls` | `SelectedAsAsked`, `ExecutedStepsAsked`, `OutcomeMeant`: three specifications, selected by file, index, tags and group, started twice. `NoHalfRefactoring`, `RenamedThroughout`, `ProjectStillParses`: nine renamings in a project of two specifications and two concepts, with inline tables. `ExtractionKeepsMeaning`: every selection of one or two steps with up to two arguments, tables handed on or kept. `InstallationsWork`, `ManifestKept`: up to four calls with every flag, for plugins whose versions fit, do not fit or do not parse. `CommandsTerminate`: for all of them |
| `concepts_references`, `step_unterminated`, `groups_same`, `arguments_as_written` | counterexamples, see below |

The type invariants of most modules are not run but proved (`TypeCorrect`), and so are
`StatesHold` (`StatesSound`), `FailedSpecsCounted` and `ResultComesLast` (`ResultLast`).

The runs switch deadlock checking off because the systems do end: the process exits.
That they end nowhere else is what the `Terminates` properties say.

Some properties are conditional, where the code does not keep the unconditional one; the
condition is part of the property and the comment above it says why. `ExecutedStepsAsked`
exempts steps that a concept has too, which are never sent to the runner, and with `--tags`
contexts; `NoHalfRefactoring` what a runner does that did not answer in time;
`RenamedThroughout` files that could not be written, and of a line whose table cuts the new
step what is behind the table (`TableStays`); `ProjectStillParses` such tables in concepts,
new names that are in use and renamed concepts whose arguments change; `SelectedAsAsked` the
order, and with groups which specifications a group gets; `NoRunnerLeft` of `RunnerSession`
the two ends that leave the runner, for which it says that Gauge ends in no other way
without having stopped it; `InstallationsWork` versions whose files could not be copied, and
those put in from a file; `ExtractionKeepsMeaning` selections whose arguments clash with the
name's (`Extractable`); `FramesIntact` headers of several bytes; `TagsAsWritten` nested
negations. These are things the code gets wrong, or does not promise. The former are listed
as hazards, whose notes say where a property leaves the case out: that property would not
notice it. One of the conditions came from a proof that did not go through: a table that is handed on under
the name of an ordinary argument of a selected step (`Extractable`), which the selections of
the run do not have.

Why the bounds are enough to meet the interesting cases:

- `execution`: two rows tell a count per row from a count per scenario; two scenarios
  per row and two specifications exercise every "next" of the loops, an empty scenario
  and an empty specification their shortcuts. The suite and `TableRows` are constants;
  the proofs hold for all of them.
- `steps`, items: two levels of concepts give a shared result that is overwritten twice;
  a step before and after each nested one gives every position of a failure.
- `parallel_streams`: 4 on 3 gives an uneven deal, a stream with two specifications and
  two with one. More streams than specifications is covered by `DistributionSound`.
- `plugins_shared`: two streams are what the lookup in `killPlugin` races with, two
  plugins what an iteration can skip; two hooks let a plugin fail in the first and
  be gone in the second.
- `runner_session`: with two validations an abandoned reader can take the answer of the
  next one and that one's reader the answer of the execution; two pieces per answer let
  two readers tear a message apart; the third request of the execution is the first that is
  made for a specification, before which `--table-rows` can be rejected.
- `steps`, concept files: six lines are enough for a circle through three concepts, for two
  uses before a definition, and for a table below an empty concept after one with steps.
- `steps`, arguments: a concept that is used by two others, and by one of them through the
  specification twice, is what shares a lookup; two rows are what a lookup that is changed
  by the first would spoil.
- `readers`, lines: five lines hold a heading, a scenario, a step, its table and a row, or a
  data table, a step that refers to it, and a second data table; two titles give a
  repeated scenario; the states are sets of five names, all reached. `NothingLost` and
  `ParametersResolve` are proved for any length.
- `readers`, text: six characters hold three parameters, or one with two escapes inside.
- `readers`, tags: eight tokens hold a negated pair of brackets with an operator and a
  negation inside, or two pairs one in the other.
- `readers`, messages: with `VarintBase` 2 in place of 128 the lengths 1, 2, 3, 5 have
  headers of one, two and three bytes; three messages give one that is cut and a whole one
  after it.
- `specinfo_files`: two specification files are what a rename needs; one concept file
  with one concept, because what clients can find half done is one entry of a map; two
  changes are an event that comes while another is handled; two requests are an iteration
  over the steps and one over the concepts at a time.
- `calls`, commands: three specifications and three arguments, one without files, one file
  named twice, groups beyond the specifications; two scenarios in one file for the index;
  a concept in a concept, with steps that others use directly; two runs.
- `calls`, refactoring and extraction: a step used in a specification, in a concept and
  twice in one file, a concept used by a concept, twice above its definition; arguments
  swapped, added and removed; a table that stays the last argument, that is moved to the
  front, left out, or followed by a word.
- `calls`, installation: with four calls a version is put in, hidden by another, asked
  for again, and used by a project.

Every property is also tried against a mutant, a slip in one definition of the model
(its operator stands just above the definition it replaces, under "A slip"), which TLC
must find to violate it.

## Fairness

- `SpecExecution`: `WF(Next)`. The executor waits for the runner without a timeout
  (`conn.GetResponseForGaugeMessage`); that it goes on is the runner's promise to answer
  or to close the connection. When it does neither, Gauge hangs, and no property says
  otherwise.
- `ParallelExecution`: weak fairness of the receiver and of each stream: goroutines are
  scheduled, and start and stop of a runner have timeouts.
- `PluginHandler`: weak fairness of the main goroutine, of each notifier, and of the
  wait with its timer. Nothing is assumed of plugins; `Terminates` is conditional on no
  plugin staying alive without reading, because `sendMessage` has no deadline and such a
  plugin does stop Gauge.
- `RunnerSession`: goroutines, the process wait and the runner's answering of received
  requests. Timeouts may fire or not; the connection and kill timers are fair as part of
  the main goroutine, which is waiting on nothing else then. A request's timer, being
  seconds, is taken not to fire before the request is written and its reader waits.
- `SpecInfo`: weak fairness of the gatherer, and of a client's finishing its iteration: both
  are goroutines that wait for nothing else. The requests of clients are bounded, so
  weak fairness gives the gatherer the mutex in the end; Go's mutex, which hands itself
  over to a waiter that starves, does so without the bound.
- `CommandLine`, `Refactoring`, `ConceptExtraction`, `Installation` (`MCCommands`): weak
  fairness of the whole. Every parser is a goroutine of its own and all are scheduled; the
  other parts are sequential, their requests have timeouts, and downloads and commands
  end one way or the other. The number of calls is bounded.
- `ScenarioItems`, `Concepts`, `Arguments`, `SpecParser`, `StepText`, `TagExpression`,
  `Framing`: safety only. That the evaluation of a tag expression ends is part of
  `TagsAsWritten`.

## Where code and documentation disagree

- `concepts_references`: of several uses of a concept that come before its definition,
  `updateStep` (`concept.go:316`) changes only the first into the concept, against the
  comment at `concept.go:315`.
- `step_unterminated`: `acceptSpecialDynamicParam` (`stepProcessor.go:115`) sets
  `inSpecialParam` for a colon in whatever state it is read. A step with a string that is
  never terminated is then accepted and the string lost, if there is a colon in it,
  against `stepProcessor.go:148` and the test at `stepProcessor_test.go:93`.

- `groups_same`: the groups of `-g` are dealt (`gauge.go:307`) in the order in which the
  parsers finished, and sorted after that; `gauge_test.go:141` and the `doNotRandomize` that
  `main` sets for `-g` (`gauge.go:111`) want the same group at every start. What `-g` leaves
  out is the shuffle, so it is not that which makes them differ.
- `arguments_as_written`: all uses of a concept by other concepts share one lookup
  (`concept.go:334`), so the arguments of the last use, in the order of a map, are given
  everywhere, against `concept_test.go:472`.

Met on the way, without a run of their own because the text they contradict is not a
property of a model's state: `--sort` has no effect but among the specifications of one file,
because `sortSpecsList` is called in any case; `specItemFilter_test.go:137` asserts the wrong value
of a nested negation; `--init` prints "skip" for a manifest that is there and then
overwrites it; errors of writing a formatted file are recorded with another file and do not
change the exit code. The rest is listed under "hazards" in `PROJECT.json`, each with the
properties that would catch it going wrong.

## The proofs

TLAPS checks every proof to the last leaf. Assumptions are the named `ASSUME`s on the
constants, which TLC evaluates for those of the runs. They say what kind of data there is, and

- that the suite is not empty (the command line exits before when it is), and that there is
  at least one specification, stream and plugin;
- that concepts do not go round in a circle (`NestingAssumption`, which `AcceptedFinite` is
  the reason for) and that every item of a scenario is in one place (`PlaceAssumption`:
  `resolveItems` makes an item of its own of every use);
- of arguments, that they are what the parser accepts (`ProjectsAssumption`): a parameter in a
  concept or a column of the data table where one is named, as many arguments as the concept
  has parameters, no concept in itself, and as many cells in every column;
- that messages have content (`LengthsAssumption`; an empty one is never taken, and none is
  sent);
- that `--format` has one argument (`CommandAssumption`);
- that the repository has a version once, that a version that is asked for, or is the only
  one of its plugin, has three numbers, and that a version from a file is the repository's
  (`InstallationAssumption`);
- that no tag is an operator or a bracket (`TagsAssumption`), which is what
  `getOperatorsAndOperands` splits an expression at.

Three theorems assume more, in their statements: `OwnAnswers` that there is a step to
validate; `SuccessRenamesAll` (`ProjectAssumed`) that lines are as they are read from a file, an
inline table the end of its step (`LinesAreRead`), and that of a request neither step has an
argument twice, the new one begins with a word, and a use of the old one has as many arguments
(`RequestsAreRead`); `ParsesAfterwards` besides that the project parses (`ProjectParses`).
`MCProjectAssumption` has TLC evaluate these for the project of the run.

- `SpecExecution_proofs`: `TypeCorrect`, `VerdictSound` (`SuiteVerdict`),
  `FailedSpecsCountSound` (`FailedSpecsCounted`), `LostRunnerSound` (`LostRunnerFails`,
  an action property: a lost exchange is a failed one), `RowsSound` (`SelectedRowsRun`,
  which the run checks on two suites as `TableRowsRun`). `TypeOK` alone is not inductive,
  because the cursor indexes the suite: `CursorInv` says where it may point at each
  `pc`, `FreshInv` that flags are reset when a scope begins, and `VerdictInv` that
  whatever has been reported is in exactly the record of some open scope or in the
  suite's, which is the verdict itself at the end. One lemma per action. For `RowsSound`,
  `RanInv` says that what has run is every scenario for the rows before the cursor's and
  the first scenarios for that one.
  `ScopesRefined`, that `SpecExecution` implements `ExecutionScopes`, shows each action to be
  a `Start`, an `Execute`, an `End`, the `Abort` or a stutter under the mapping, from the
  invariants above.
- `Concepts_proofs`: `StepsExpand` (`ReferencesExpand`), `AcceptedFinite`
  (`AcceptedIsFinite`), `ParsedWritten` (`ConceptsAsWritten`), for any names and any number of
  lines and files. `DictInv` is about the dictionary between two additions: `conceptsMap` has
  every concept, no value twice, `constructionMap` the first place of every value
  (`FirstPlaces`), and a step that has been given steps has those of its own value
  (`IntoOwn`). The code asks for circles by value (`Mentions`) and copies by object
  (`Expands`), so `AcceptedFinite` needs both: a concept that reaches itself has a last one
  before itself, whose step has its value, and that is what the code finds. `ParsedInv` says
  of the lines so far what `ConceptsAsWritten` says of a file, with `IsOf`, the steps below
  one heading, taken line by line: a new heading or step changes only what is after it.
- `Concepts_proofs`, items: `ScenarioTyped`, `StepsRefined` (`StepsInSequence`) and
  `TimeIsReported` (`ScenarioTimeIsSum`), for any items, concepts in concepts to any depth and
  a failure anywhere. `FramesInv` says that every loop under way is through the concept that
  the loop around it is at, `FailureInv` that a failure is noticed at once. `RanInv` says what
  has run: while nothing has failed, what the loops have passed, each continued by what is
  left of its concept (`Positions`), so that the next step is the next of the expansion and
  a return from a concept is no step at all. `TimeInv` is about the result objects: the times at
  the objects of the items that have been passed add up to what the runner reported
  (`Going`), and while a failure travels up there is one failed object, which the item each
  loop is at points to and no item that has been passed (`Failing`); that is why overwriting
  its time, once for every concept around it, neither loses a time nor counts it twice.
- `Concepts_proofs`, arguments: `ArgumentsSound` (`AgreeingUsesResolve`), for any concepts in
  concepts, arguments, tables and rows. What a use of a concept comes to is `Expansions`, which
  is defined because no concept is in itself (`Recursion`). `ReadInv` says that once a concept
  has been read, the shared lookup of every concept that it uses has the arguments of that use:
  later readings write the same there, as uses agree. `ResolutionInv` says that the concepts
  under way have values for their parameters, those around them giving those inside
  (`Linked`): an argument in a lookup either is the value or names a parameter of the concept
  around it that has the value. Then `getArg`, which climbs from the innermost, finds the value
  (`GetArgIs`) and never panics, and what has been sent, followed by what is left of every
  concept, is all that is written (`ResolvesAll`).
- `ParallelExecution_proofs`: `DistributionSound` (each specification in one share, no
  share empty, for all numbers, from facts on remainders), `TypeCorrect`, `RunnersGone`
  (`NoRunnerLeft`), `SuiteRunRefined` (`SuiteAccounted`). `StageInv` ties a stream's
  stage to its runner and waiting set, `ChannelInv` says who can be in the channel,
  `ResultInv` what a stream's result and the aggregate consist of.
- `PluginHandler_proofs`: `OneStreamSafe`, `PluginsGone`, `ResultLast`, `TypeCorrect`,
  `LivePluginsServed` (`LivePluginsHearAll`).
  `NotifierInv` (who may be inside `notifyPlugins` when), `SoleInv` (alone with the map,
  the plugin that failed is still in it), `ProcessInv` (what runs is in the map, and
  waited for in the end), `HeardInv` (what has been heard tells the phase). `HearInv` says
  that a plugin that has kept its connection has heard as many hooks as there are
  elements in a set of deliveries, each a stream and a number: a sum over the streams
  would need an induction, the cardinality of a set that grows by one element does not.
- `RunnerSession_proofs`: `RunnerGone` (`NoRunnerLeft`), `TypeCorrect`, `OwnAnswers`
  (`ExecutionGetsItsAnswers`), for any number of requests and of pieces. `RunnerGone` is from
  `ProcessInv`: what waits for the process has returned only when that has ended, and an
  execution in parallel comes right after validations that have all passed. The invariant of
  `OwnAnswers` says, while every validation has passed, that no reader of before is left
  (`Alone`) and everything that is on its way is of the request under way, in order
  (`Stream`). The exception is the first validation (`Two`): the request for the names may
  have timed out and its reader may still be there, and then either its answer comes, in
  which case this validation fails (`Spoiled`, `Cut`), or it has been read to the end. That
  is why the assumption `Validations > 0` is needed: without any, a name request that timed
  out leaves its reader to the first hook. TLC finds that counterexample.
  `MessagesInStep` (`FramesIntact`) is about the connection under it, for messages of any
  number and length and reads that end anywhere: `EndsInv` says that messages end one after
  the other, `TakenInv` that what has been taken ends with one, and what is there and was
  looked at does not reach the end of the next.
- `Commands_proofs`, renaming: `FailureChangesNothing` (`NoHalfRefactoring`), from `Untouched`,
  that nothing is written before the runner has answered; `SuccessRenamesAll`
  (`RenamedThroughout`), from `FileInv`, that a file is what it was or that renamed, and
  `Progress`, that a file is to be written, could not be, or is renamed. What a line renamed
  is comes in steps: `ArgsInOrder` is about the arguments before it is written, `ReadBackSound`
  about what is left of a line with a table behind its end, `StaysWhole` that a table which
  stays (`TableStays`) cuts nothing, and `RenameSound` puts them together. `ParsesAfterwards`
  (`ProjectStillParses`), because in a concept file every line is then what it was or that
  renamed and whole (`WholeRenamed`), headings are where they were (the one above a line is
  found by `Smallest`), and `RenamedParams` that a renamed line has no parameter that its
  heading does not have.
- `Commands_proofs`, installation: `ManifestSound` (`ManifestKept`) and `InstallationsSound`
  (`InstallationsWork`), for any repository and calls. Versions of three numbers are in a
  total order (`TotalOrder`), so sorting has a newest that is supported (`Right`). `InstallInv`
  has where the program can be with which flag (`PlaceInv`), that the version under way is
  the right one (`ChosenInv`), that what lies on the disk without its files was cut
  (`DirInv`), and what is said to be installed is (`InstalledInv`).
- `Commands_proofs`, command line: `OutcomeSound` (`OutcomeMeant`), for any files and
  arguments and any order of their parsers. `ChannelsInv` counts: as many results as files,
  none twice, are all of them; `SpecsInv` that what has been read and is at the argument's
  index is kept; `SelectedInv` and `FormatInv` what each phase may conclude from that.
  `ValidationSound` (`ExecutedStepsAsked`) adds `AskedInv`: a step that was marked in the
  cache was asked about or is inside a concept, every other one is still in the queue.
- `Commands_proofs`, selection: `SelectionSound` (`SelectedAsAsked`), for any files, arguments,
  tags and groups. What the parsers have sent of a file does not depend on the order in which
  they sent it (`ParsedInv`), so of every file there are the specifications of the arguments, in
  their order (`CollectedInv`). What is selected is what the filters leave of that, in some
  order by file (`FilteredInv`). Any such order has every specification as often as the list
  has (`CountOrdered`), and that list, sorted stably, is known from the call (`Canonical`): so
  what is selected has everything as often as that (`IsCanonical`), now and when the program
  was started before (`EarlierInv`), and the two are the same bag (`SameBag`). That a group has
  as many specifications as it should is a count of the numbers that are dealt to it.
- `Commands_proofs`, extraction: `ExtractionSound` (`ExtractionKeepsMeaning`), for names, steps
  and tables of any length. `ExtractInv` says that every step so far is the selected one with
  its arguments replaced (`Made`), and that the name has lost the argument of a table as soon
  as one was handed on, and none before (`NameSoFar`). Then `HeadingArgs`, `UsageWithoutParam`
  and `UsageWithParam` say what is at each position of the heading and the use, and
  `MeaningKept` that the value found by the first position of a parameter is what the step
  had.
- `SpecParser_proofs`: `TypeCorrect`, `StatesSound` (`StatesHold`), `ParametersSound`
  (`ParametersResolve`), `EveryLinePlaced` (`NothingLost`), from nothing but a bound on the
  lines that is a natural number. `LinesInv` says that no converter runs while lines are
  read, `LatestInv` that a non-empty list has a last element, which the operators of the
  code take without asking. What makes `StatesHold` inductive is that each converter clears
  the states below its own; the lemmas `PlaceInv` and `PlaceStates` say what any item that
  is placed keeps. `PlacesInv` is for the second part: tokens are in the order of lines,
  every line but an underline has one, and every token below the heading that has been
  converted is an item. `ItemsSound` (`ItemsBelongAbove`) is for where: `BelongInv` says
  that tokens agree with their lines in kind, that an underline comes below a comment,
  that the scenario state is on unless a file of a data table has ended the latest
  scenario, and that below the latest step there are only lines of tables and tags as long
  as the step state is on.
- `SpecParser_proofs`, text of a step: `StepKept` (`RoundTrip`), for texts of any length.
  `ReadInv` says what has been read: the states that can be held together, that a special
  parameter has a colon in it, and that there are at most as many parameters as placeholders
  in the value, which is why a value whose other characters are harmless (`Writable`) has
  exactly those. Reading is `Element` for one character after the other (`AfterEach`), so a
  text that was put together is read piece by piece: plain text as it is (`PlainRead`), a
  parameter that was written with its escapes as itself (`ParameterRead`). `Written` is the
  claim for the first parameters, and goes from each to the next: what has been replaced
  reads as the value up to there, it has no placeholder that could be taken for the next
  (`Closed`), and so the next one is where the value has it.
- `Specifications_proofs`, `SpecInfo`: `TypeCorrect`, `AnswersSound` (`AnswersComplete`), for any files and
  steps and any number of changes and clients' requests. `PlaceInv` says where the gatherer
  can be during which event, and that it has the mutex while it renews the list
  because a specification is gone, `ListInv` that the list is complete whenever it
  waits, `ReadInv` that a client that began in quiet has seen all and is not iterating
  over the map that is being filled: it has its mutex, or the map has been replaced.
  `GathererFollows` (`FollowsFiles`) is from `FollowInv`: the last event of a file that waits
  tells whether it is there (`Told`), and a file that was read, not missed and has no event
  waiting is in the maps as it is on disk, or about to be added (`Reflects`, `Entered`).
  `StageInv` says what cannot be in the maps before start-up has read it.
- `Specifications_proofs`, tags: `TagsSound` (`TagsAsWritten`), for any tags and expressions
  of any length. The inductive invariant is small (`TagsTyped`: an expression closes no
  bracket that is not open); the argument is about texts. What is read token by token is a
  run of a step function (`Run`), so a text that is replaced by one that every run treats
  alike changes no run (`RunReplace`). An expression that negates no negation and has no
  negated brackets within negated brackets is one whose negations are of values or of
  brackets without a negation of their own (`PlainRun`, which `FollowStep` builds up token by
  token). `Kept` is the invariant of `handleNegation`'s loop: the brackets are closed, the
  text is plain and reads as what was asked for. A round keeps it (`RoundKeeps`), because
  `resolveBracketExpression` finds just what is in the first negated brackets (`InnerIs`).
  Each round shortens a text whose brackets are closed, with or without nested negations, and
  so the loop ends (`RoundsEnd`, `EndsWhenClosed`).

Induction over data is done by hand, because the library's theorems for it cannot be applied
by the provers. A set of naturals has a first element (`Smallest`, from the well-foundedness of the
naturals), so there is no smallest counterexample; `SequencesByAppending` turns that into induction over
sequences (a set that has the empty one, and with every sequence its extensions, has all),
`Recursion` into definitions by recursion over concepts in concepts and over brackets in
brackets. A sequence
that is built from others is reasoned about through its parts: `FlattenSeq` is what its parts
are one after the other, the sum over a set what one element adds to the sum over the
rest, a text what its characters make of it. What filters a sequence is `Retain`,
by `FlattenSeq`, because the definition of `SelectSeq` is not one the provers can use, and
what is below a concept is `Below`, the smallest set that is closed, as a recursive operator
would keep the module from being proved about. `processStepText` and `formatStep`, `getArg`
and the written-out arguments, `Replace` and `evaluateBrackets` are recursive functions for
the same reason.

Only model-checked:

- liveness (`Terminates`, `CommandsTerminate`, `Settles`), which needs fairness and ENABLED;
- `TableRowsRun`, which is `SelectedRowsRun`, proved, on two suites.

## What is not modelled

- Loggers, layout of what is formatted other than a step, conversion to protocol buffers,
  generated code, vendored packages, the build script: data translation and text, without
  state that anything reads back.
- Configuration, environment, search of files: I/O. The timeouts that are configured are
  timeouts that may fire.
- What runner and plugins do with what they are told; both are environments.
- Special parameters (files and tables from files) are arguments like others. The text of
  a line other than a step's: how a table cell is read. `SpecParser` has a line's kind and
  names only. In `StepText` there are no blanks, which are characters like any other but are
  trimmed at the ends; in `TagExpression` no tag whose name contains that of another, which
  the code replaces inside it.
- In what `Refactoring` is asked for, an argument that the new step has twice, and a new step
  that begins with an argument. Headings of concepts have no tables.
- What the notes of the hazards say: cases that a property leaves out because the code does
  not keep them, and hazards that no property covers.
- Directories that are added or removed while the API runs, several concepts in a file that
  it watches, API requests that read nothing shared, the start of the daemon.
- Files that somebody else changes while a refactoring or an extraction is under way: they
  are read and written with nothing in between that would notice.
- `Arguments` has the last round of `updateLookup` only (each file's round overwrites the
  one before), and no concepts whose uses name parameters that differ in number.
- `ConceptExtraction` leaves out what panics or is refused in the text of a table, and says
  nothing of a table parameter that is not the last (`Extractable`).
- Downloads, archives and the commands of plugins succeed or fail in `Installation`.

## Plan

Done, in the order of importance: execution and its scopes, items and concepts, parallel
execution and the suite it implements, plugins, the runner session, concept files and
dictionary, the two passes of the parser, the specification information under its watcher
and clients, the text of a step, tags and filters with the command line and the validation,
refactoring, extraction, arguments, framing, installation.

What could be added to the models: several concepts and directories in `SpecInfo`; a
refactoring under an editor that saves meanwhile; the composition of `CommandLine` with
`RunnerSession`, so that the verdict of a validation is an answer of the session.

What could be proved next: types for `CommandLine` as a theorem of its own, now a part of
`CommandInv`.

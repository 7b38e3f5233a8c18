------------------------------ MODULE CommandLine ------------------------------
(***************************************************************************)
(* gauge as a command: main() and what it reaches before the execution     *)
(* starts.  The specification files of every argument are parsed, one      *)
(* goroutine per file; what they hold is filtered by index, tags and       *)
(* group, and sorted; the steps are validated by the runner; then they are *)
(* executed, or with --format written.                                     *)
(*                                                                         *)
(* Files are numbered in alphabetical order.  A specification is its file  *)
(* and the positions of the items it still has.                            *)
(***************************************************************************)
EXTENDS Integers, SequencesExt

CONSTANTS
  Contents,      \* the items of every file
  ConceptSteps,  \* the steps of every concept
  Invocations,   \* how the process may be started
  MaxRuns        \* bound on the number of times it is

File == DOMAIN Contents

\* --format is for the files of one argument.
ASSUME CommandAssumption ==
  /\ Contents \in Seq(Range(Contents))
  /\ \A file \in File :
       /\ Contents[file] \in Seq(Range(Contents[file]))
       /\ \A i \in DOMAIN Contents[file] :
            LET item == Contents[file][i]
            IN  /\ item.kind \in {"step", "scenario", "other"}
                /\ item.kind # "other" => item.steps \in Seq(Range(item.steps))
  /\ \A c \in DOMAIN ConceptSteps : ConceptSteps[c] \in Seq(Range(ConceptSteps[c]))
  /\ \A g \in Invocations :
       /\ g.args \in Seq([files : SUBSET File, index : Int])
       /\ g.format \in BOOLEAN /\ g.tagged \in BOOLEAN /\ g.group \in Int /\ g.streams \in Int
       /\ g.format => Len(g.args) = 1

VARIABLES
  runs,         \* how often the process was started
  flags,        \* the arguments, and what --format, --tags, -g and -n say
  broken,       \* the files that do not parse
  phase,        \* "parse", "format", "start", "validate", "execute", "exit"; "crashed" after a panic
  exitCode,
  arg,          \* position of the argument that is parsed
  specsChan,    \* files whose specification was sent
  resultsChan,  \* results sent: the file, and the file its error is about
  specs,        \* specifications of the arguments so far
  selected,     \* specifications to execute
  toValidate,   \* steps the validator has still to look at
  cache,        \* stepValidationCache
  answers,      \* steps the runner was asked about, with its answers
  errors,       \* there are validation errors
  formatted,    \* files written, and
  unformatted,  \* files that could not be
  earlier       \* what the process selected when it was first started

command == <<runs, flags, broken, earlier>>
parser == <<arg, specsChan, resultsChan, specs>>
validator == <<toValidate, cache, answers, errors>>
files == <<formatted, unformatted>>
commandVars == <<command, phase, exitCode, parser, selected, validator, files>>

CommandInit ==
  /\ runs = 1 /\ flags \in Invocations /\ broken \in SUBSET File /\ earlier = <<>>
  /\ phase = "parse" /\ exitCode = 0
  /\ arg = 1 /\ specsChan = <<>> /\ resultsChan = <<>> /\ specs = <<>> /\ selected = <<>>
  /\ toValidate = <<>> /\ cache = {} /\ answers = {} /\ errors = FALSE
  /\ formatted = {} /\ unformatted = {}

\* The process starts once more, with the same flags.
Again ==
  /\ phase \in {"exit", "crashed"} /\ runs < MaxRuns
  /\ runs' = runs + 1 /\ earlier' = selected
  /\ phase' = "parse" /\ exitCode' = 0
  /\ arg' = 1 /\ specsChan' = <<>> /\ resultsChan' = <<>> /\ specs' = <<>> /\ selected' = <<>>
  /\ toValidate' = <<>> /\ cache' = {} /\ answers' = {} /\ errors' = FALSE
  /\ formatted' = {} /\ unformatted' = {}
  /\ UNCHANGED <<flags, broken>>

Exit(code) == phase' = "exit" /\ exitCode' = code

Goto(p) == phase' = p /\ UNCHANGED exitCode

\* createConceptsDictionary
RejectConcepts ==
  /\ phase = "parse" /\ ~flags.format /\ arg = 1 /\ specsChan = <<>>
  /\ Exit(1)
  /\ UNCHANGED <<command, parser, selected, validator, files>>

-----------------------------------------------------------------------------
(* parseSpecFiles, for one argument after the other.                       *)

Parsing == phase = "parse" /\ arg \in DOMAIN flags.args
FilesOf(a) == flags.args[a].files
Finished == Len(resultsChan) = Cardinality(FilesOf(arg))

\* A slip: nothing is sent for a file that does not parse.
SendSpecParsed(file) ==
  /\ Parsing /\ file \in FilesOf(arg) \ (ToSet(specsChan) \cup broken)
  /\ specsChan' = Append(specsChan, file)
  /\ UNCHANGED <<command, phase, exitCode, arg, resultsChan, specs, selected, validator, files>>

\* parseSpec sends the specification, nil if the file does not parse, and then its
\* result; the goroutines do in any order.
SendSpec(file) ==
  /\ Parsing /\ file \in FilesOf(arg) \ ToSet(specsChan)
  /\ specsChan' = Append(specsChan, file)
  /\ UNCHANGED <<command, phase, exitCode, arg, resultsChan, specs, selected, validator, files>>

Sent == {r.file : r \in ToSet(resultsChan)}

SendResult(file) ==
  /\ Parsing /\ file \in ToSet(specsChan) \ Sent
  /\ resultsChan' = Append(resultsChan, [file |-> file, about |-> file])
  /\ UNCHANGED <<command, phase, exitCode, arg, specsChan, specs, selected, validator, files>>

ScenariosOf(file) == {i \in DOMAIN Contents[file] : Contents[file][i].kind = "scenario"}

\* What SelectSeq is, by an operator whose definition can be reasoned about.
Retain(all, Test(_)) == FlattenSeq([i \in DOMAIN all |-> IF Test(all[i]) THEN <<all[i]>> ELSE <<>>])

Whole(file) == [file |-> file, items |-> DOMAIN Contents[file]]

Arrived ==
  LET parsed == Retain(specsChan, LAMBDA f : f \notin broken)
  IN  [i \in DOMAIN parsed |-> Whole(parsed[i])]

HasScenario(spec) == spec.items \cap ScenariosOf(spec.file) # {}

ScenariosBefore(file, i) == Cardinality({j \in ScenariosOf(file) : j < i})

\* A slip: scenarios are counted from one.
AtIndexFromOne(spec, index) ==
  [spec EXCEPT !.items =
    {i \in @ : i \in ScenariosOf(spec.file) => ScenariosBefore(spec.file, i) + 1 = index}]

\* scenarioIndexFilterToRetain, for an argument "file:index"
AtIndex(spec, index) ==
  [spec EXCEPT !.items =
    {i \in @ : i \in ScenariosOf(spec.file) => ScenariosBefore(spec.file, i) = index}]

\* Every specification, with -1 for no index.
FilterItems(parsed, index) ==
  IF index = -1 THEN parsed
  ELSE Retain([i \in DOMAIN parsed |-> AtIndex(parsed[i], index)], HasScenario)

NextArgument ==
  /\ Parsing /\ Finished /\ ~flags.format /\ Sent \cap broken = {}
  /\ specs' = specs \o FilterItems(Arrived, flags.args[arg].index)
  /\ arg' = arg + 1 /\ specsChan' = <<>> /\ resultsChan' = <<>>
  /\ UNCHANGED <<command, phase, exitCode, selected, validator, files>>

\* handleParseResult
HandleParseResult ==
  /\ Parsing /\ Finished /\ ~flags.format /\ Sent \cap broken # {}
  /\ Exit(1)
  /\ UNCHANGED <<command, parser, selected, validator, files>>

-----------------------------------------------------------------------------
(* formatSpecFilesIn.                                                      *)

FormatSpecs ==
  /\ Parsing /\ Finished /\ flags.format
  /\ specs' = Arrived
  /\ Goto("format")
  /\ UNCHANGED <<command, arg, specsChan, resultsChan, selected, validator, files>>

Position == Cardinality(formatted \cup unformatted) + 1

\* An error goes to the result at the specification's position, whose file it may
\* be or not, and which stays as good or bad as it was.
FormatAndSave ==
  /\ phase = "format" /\ Position \in DOMAIN specs
  /\ LET file == specs[Position].file
     IN  \/ formatted' = formatted \cup {file} /\ UNCHANGED <<unformatted, resultsChan>>
         \/ /\ unformatted' = unformatted \cup {file} /\ UNCHANGED formatted
            /\ resultsChan' = [resultsChan EXCEPT ![Position].about = file]
  /\ UNCHANGED <<command, phase, exitCode, arg, specsChan, specs, selected, validator>>

\* A slip: a result is as good as its specification's.
NotOkAbout(results) == {i \in DOMAIN results : results[i].about \in broken}

\* Results that are not ok
NotOk(results) == {i \in DOMAIN results : results[i].file \in broken}

HandleFormatResults ==
  /\ phase = "format" /\ Position \notin DOMAIN specs
  /\ Exit(IF NotOk(resultsChan) = {} THEN 0 ELSE 1)
  /\ UNCHANGED <<command, parser, selected, validator, files>>

-----------------------------------------------------------------------------
(* getSpecsToExecute.                                                      *)

\* filterSpecsByTags keeps nothing but the scenarios that qualify.
ByTags(all) ==
  IF ~flags.tagged THEN all
  ELSE Retain(
         [i \in DOMAIN all |->
           [all[i] EXCEPT !.items = {j \in @ : /\ j \in ScenariosOf(all[i].file)
                                                /\ Contents[all[i].file][j].qualifies}]],
         HasScenario)

Distributions(n) == IF flags.streams > n THEN n ELSE flags.streams

\* distributeSpecs deals the specifications out; group g gets every one whose turn it is.
Dealt(all, g) ==
  LET every == Distributions(Len(all))
  IN  [k \in 1..((Len(all) - g) \div every + 1) |-> all[g + (k - 1) * every]]

GroupIsValid == flags.group \in 1..flags.streams

ByGroup(all) ==
  IF flags.group = -1 THEN all ELSE IF GroupIsValid THEN Dealt(all, flags.group) ELSE <<>>

InFileOrder(all) == \A m, n \in DOMAIN all : m < n => all[m].file <= all[n].file

\* What sortSpecsList may make of what specRandomizer has shuffled: the sort is by file, and
\* specifications of one file come in any order.  With -g or --sort nothing is shuffled, but
\* sort.Sort is not stable and promises them no order either.
SortSpecsList(all) ==
  {s \in {[n \in DOMAIN all |-> all[p[n]]] : p \in Bijection(DOMAIN all, DOMAIN all)} :
     InFileOrder(s)}

Panics(all) == GroupIsValid /\ flags.group > Distributions(Len(all))

\* The tags may be no expression (validateTagExpression).  The group is dealt before the
\* specifications are sorted.
SelectSpecs ==
  /\ phase = "parse" /\ arg \notin DOMAIN flags.args
  /\ \/ flags.tagged /\ Exit(1) /\ UNCHANGED selected
     \/ Panics(ByTags(specs)) /\ Goto("crashed") /\ UNCHANGED selected
     \/ /\ ~Panics(ByTags(specs))
        /\ \E order \in SortSpecsList(ByGroup(ByTags(specs))) :
             /\ selected' = order
             /\ CASE order = <<>> -> Exit(0)
                  [] order # <<>> /\ flags.streams < 1 -> Exit(1)
                  [] OTHER -> Goto("start")
  /\ UNCHANGED <<command, parser, validator, files>>

-----------------------------------------------------------------------------
(* validateSpecs.                                                          *)

IsConcept(s) == s \in DOMAIN ConceptSteps

Entries(steps, nested) == [i \in DOMAIN steps |-> [step |-> steps[i], nested |-> nested]]

\* traverse: contexts and the steps of scenarios, of the items a specification has.
StepsOf(file, i) ==
  IF Contents[file][i].kind # "other" THEN Contents[file][i].steps ELSE <<>>

\* A slip: contexts are passed over.
TraversedScenarios(spec) ==
  FlattenSeq([i \in DOMAIN Contents[spec.file] |->
    IF i \in spec.items \cap ScenariosOf(spec.file)
    THEN Entries(StepsOf(spec.file, i), FALSE) ELSE <<>>])

Traversed(spec) ==
  FlattenSeq([i \in DOMAIN Contents[spec.file] |->
    IF i \in spec.items THEN Entries(StepsOf(spec.file, i), FALSE) ELSE <<>>])

\* The API service brings the runner, which may fail to start.  When the service has no
\* port there is no handler to take a runner from.
StartAPIService ==
  /\ phase = "start"
  /\ \/ /\ Goto("validate")
        /\ toValidate' = FlattenSeq([i \in DOMAIN selected |-> Traversed(selected[i])])
     \/ (Exit(1) \/ Goto("crashed")) /\ UNCHANGED toValidate
  /\ UNCHANGED <<command, parser, selected, cache, answers, errors, files>>

Looks == phase = "validate" /\ toValidate # <<>>
Entry == Head(toValidate)
Known == Entry.step \in cache

UNCHANGEDbutValidator == UNCHANGED <<command, phase, exitCode, parser, selected, files>>

\* A step of a concept that was met before; a plain step that was.
SkipKnown ==
  /\ Looks /\ Known /\ (Entry.nested \/ ~IsConcept(Entry.step))
  /\ toValidate' = Tail(toValidate)
  /\ UNCHANGED <<cache, answers, errors>> /\ UNCHANGEDbutValidator

EnterConcept ==
  /\ Looks /\ IsConcept(Entry.step) /\ ~(Known /\ Entry.nested)
  /\ toValidate' = Entries(ConceptSteps[Entry.step], TRUE) \o Tail(toValidate)
  /\ cache' = IF Entry.nested THEN cache \cup {Entry.step} ELSE cache
  /\ UNCHANGED <<answers, errors>> /\ UNCHANGEDbutValidator

\* A plain step of a concept is marked before it is looked at, and so never asked about.
MarkNested ==
  /\ Looks /\ ~IsConcept(Entry.step) /\ ~Known /\ Entry.nested
  /\ toValidate' = Tail(toValidate) /\ cache' = cache \cup {Entry.step}
  /\ UNCHANGED <<answers, errors>> /\ UNCHANGEDbutValidator

ErrorsWith(invalid) == errors \/ invalid

\* validateStep; no answer in time counts as an error.
ValidateStep ==
  /\ Looks /\ ~IsConcept(Entry.step) /\ ~Known /\ ~Entry.nested
  /\ toValidate' = Tail(toValidate) /\ cache' = cache \cup {Entry.step}
  /\ \E isValid \in BOOLEAN :
       /\ answers' = answers \cup {[step |-> Entry.step, isValid |-> isValid]}
       /\ errors' = ErrorsWith(~isValid)
  /\ UNCHANGEDbutValidator

EndValidation ==
  /\ phase = "validate" /\ toValidate = <<>>
  /\ IF errors THEN Exit(1) ELSE Goto("execute")
  /\ UNCHANGED <<command, parser, selected, validator, files>>

\* The execution; its verdict is the exit code.
Execute ==
  /\ phase = "execute"
  /\ \E code \in {0, 1} : Exit(code)
  /\ UNCHANGED <<command, parser, selected, validator, files>>

CommandNext ==
  \/ RejectConcepts
  \/ \E file \in File : SendSpec(file) \/ SendResult(file)
  \/ NextArgument \/ HandleParseResult
  \/ FormatSpecs \/ FormatAndSave \/ HandleFormatResults
  \/ SelectSpecs \/ StartAPIService
  \/ SkipKnown \/ EnterConcept \/ MarkNested \/ ValidateStep
  \/ EndValidation \/ Execute
  \/ Again

CommandSpec == CommandInit /\ [][CommandNext]_commandVars /\ WF_commandVars(CommandNext)
-----------------------------------------------------------------------------
(* Properties.                                                             *)

Chosen == phase \in {"start", "validate", "execute"}

Wanted(a, file, i) ==
  /\ file \in FilesOf(a) /\ i \in ScenariosOf(file)
  /\ flags.args[a].index \in {-1, ScenariosBefore(file, i)}
  /\ flags.tagged => Contents[file][i].qualifies

\* What this process executes and what those for the other groups would.
Parts ==
  IF flags.group = -1 THEN <<selected>>
  ELSE [g \in 1..Distributions(Len(ByTags(specs))) |->
         IF g = flags.group THEN selected ELSE Dealt(ByTags(specs), g)]

\* Every scenario that the arguments and the tags ask for is executed once for every
\* argument that names it, and no other is: by this process, or with -g by the process of
\* exactly one group, if all of them deal out the same order.
SelectionExact ==
  Chosen =>
    \A file \in File : \A i \in ScenariosOf(file) :
      Cardinality({a \in DOMAIN flags.args : Wanted(a, file, i)})
        = Cardinality({gn \in (DOMAIN Parts) \X (1..Len(specs)) :
            /\ gn[2] \in DOMAIN Parts[gn[1]]
            /\ Parts[gn[1]][gn[2]].file = file
            /\ i \in Parts[gn[1]][gn[2]].items})

\* Every process that is started in the same way, and gets so far, executes the same
\* specifications, each as often, however the parsers are scheduled and the specifications
\* shuffled (TestToRunSpecificSetOfSpecsGivesSameSpecsEverytime).
SameEverytime == runs > 1 /\ Chosen /\ earlier # <<>> => ToBag(selected) = ToBag(earlier)

\* What is asked for is executed, and without groups it is the same every time.
SelectedAsAsked == SelectionExact /\ (flags.group = -1 => SameEverytime)

ConceptsSteps == UNION {ToSet(ConceptSteps[c]) : c \in DOMAIN ConceptSteps}

\* The steps of a concept, those of concepts among them, and so on.
Below(concept) ==
  {s \in ConceptsSteps :
     \A T \in SUBSET ConceptsSteps :
       (\A c \in {concept} \cup T : IsConcept(c) => ToSet(ConceptSteps[c]) \subseteq T) => s \in T}

StepsAt(spec, positions) == UNION {ToSet(StepsOf(spec.file, i)) : i \in positions}

ValidatedSteps == UNION {StepsAt(spec, spec.items) : spec \in ToSet(selected)}

ContextSteps ==
  UNION {StepsAt(spec, {i \in DOMAIN Contents[spec.file] : Contents[spec.file][i].kind = "step"})
         : spec \in ToSet(selected)}

AllValid == \A answer \in answers : answer.isValid

\* No plain step is executed that the runner has not declared valid, but those that some
\* concept has too, and with --tags contexts, which the filter takes from the items that
\* are validated and not from those that are executed.
ExecutedStepsAsked ==
  phase = "execute" =>
    /\ AllValid
    /\ \A s \in IF flags.tagged THEN ValidatedSteps ELSE ValidatedSteps \cup ContextSteps :
         \/ [step |-> s, isValid |-> TRUE] \in answers \/ IsConcept(s)
         \/ \E c \in ValidatedSteps : IsConcept(c) /\ s \in Below(c)

Named == UNION {FilesOf(a) : a \in DOMAIN flags.args}

\* Success means that every file that was named was read and every step asked about is
\* valid, or that there was nothing to execute; a group leads to a panic only where there
\* are fewer specifications than groups, and otherwise only the API service does; and when
\* formatting fails, then because of a file that does not parse.
OutcomeMeant ==
  /\ phase = "exit" /\ exitCode = 0 =>
       /\ Named \cap broken = {} /\ AllValid
       /\ flags.format => formatted \cup unformatted = Named
       /\ ~flags.format /\ selected = <<>> /\ flags.group \in {-1} \cup 1..flags.streams =>
            \A a \in DOMAIN flags.args, file \in File :
              \A i \in ScenariosOf(file) : ~Wanted(a, file, i)
  /\ phase = "exit" /\ flags.format /\ exitCode = 1 => Named \cap broken # {}
  /\ phase = "crashed" => flags.group > Len(ByTags(specs)) \/ selected # <<>>
=============================================================================

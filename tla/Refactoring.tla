------------------------------ MODULE Refactoring ------------------------------
(***************************************************************************)
(* Renaming a step (performRephraseRefactoring, refactor.go), with         *)
(* --refactor or for an editor: the specifications and concepts of the     *)
(* project are parsed and renamed in memory, the runner renames what       *)
(* implements the step, then the files are written one after the other.    *)
(*                                                                         *)
(* A file is a sequence of lines: the steps of a specification, or the     *)
(* headings and steps of concepts.  A line has a step value, words with    *)
(* "{}" where an argument is, and the arguments, an inline table among     *)
(* them.  It is known as a concept or not (isConcept): the heading of one  *)
(* is; of its uses, those below it and the first above it (updateStep,     *)
(* module Concepts).                                                       *)
(***************************************************************************)
EXTENDS Integers, FiniteSetsExt, SequencesExt

CONSTANTS
  ConceptFile,  \* the files with concepts
  Project,      \* the lines of every file
  Requests      \* what may be asked for: an old and a new step

ProjectFile == DOMAIN Project
SpecFile == ProjectFile \ ConceptFile

VARIABLES
  request,
  stage,    \* "parse", "start", "name", "refactor", "write", "done"; "crashed"
  disk,     \* the lines of every file, as they are read
  result,   \* "none", "success", "failure"
  unanswered, \* the runner did not answer the request to refactor in time
  runner,   \* what it has for the old step: "absent", "aliased", "present", "renamed"
  asked,    \* the runner has a request to refactor that it may still act upon
  todo,     \* files to be written
  unsaved   \* files that could not be

refactoringVars == <<request, stage, disk, result, unanswered, runner, asked, todo, unsaved>>

RefactoringInit ==
  /\ request \in Requests
  /\ stage = "parse" /\ disk = Project /\ result = "none" /\ unanswered = FALSE
  /\ runner \in {"absent", "aliased", "present"} /\ asked = FALSE
  /\ todo = {} /\ unsaved = {}

-----------------------------------------------------------------------------
(* rephraseInSpecsAndConcepts.                                             *)

Headings(lines) == {n \in DOMAIN lines : lines[n].heading}

\* createOrderOfArgs: the old position of a new argument, 0 if it has none.
OrderOfArgs(r) ==
  [i \in DOMAIN r.new.args |->
    LET same == {j \in DOMAIN r.old.args : r.old.args[j] = r.new.args[i]}
    IN  IF same = {} THEN 0 ELSE Min(same)]

NewArg(isConcept, value) == [kind |-> IF isConcept THEN "dynamic" ELSE "static", value |-> value]

\* A slip: arguments stay where they are.
GetArgsInPlace(line, isConcept, r) ==
  [i \in DOMAIN r.new.args |->
    IF i \in DOMAIN line.args THEN line.args[i] ELSE NewArg(isConcept, r.new.args[i].value)]

GetArgsInOrder(line, isConcept, r) ==
  [i \in DOMAIN r.new.args |->
    IF OrderOfArgs(r)[i] = 0 THEN NewArg(isConcept, r.new.args[i].value)
    ELSE line.args[OrderOfArgs(r)[i]]]

\* A slip: an argument that is new is dynamic everywhere.
RenameDynamic(line, r) ==
  IF line.value # r.old.value THEN line
  ELSE [line EXCEPT !.value = r.new.value, !.args = GetArgsInOrder(line, TRUE, r)]

Rename(line, r) ==
  IF line.value # r.old.value THEN line
  ELSE [line EXCEPT !.value = r.new.value, !.args = GetArgsInOrder(line, line.concept, r)]

\* Files with a line that was renamed
Refactored(r) ==
  {f \in ProjectFile : \E n \in DOMAIN Project[f] : Project[f][n].value = r.old.value}

RenamesConcept(r) ==
  \E f \in ConceptFile : \E n \in DOMAIN Project[f] :
    Project[f][n].value = r.old.value /\ Project[f][n].concept

-----------------------------------------------------------------------------
(* Writing (formatStep) and reading again (addInlineTableHeader).          *)

PARAMETER_PLACEHOLDER == "{}"

TablesOf(line) == {i \in DOMAIN line.args : line.args[i].kind = "table"}

\* What a reader makes of a line with its table: the table is the end of the step.
EndsInTable(line) == TablesOf(line) = {Len(line.args)} /\ Last(line.value) = PARAMETER_PLACEHOLDER

\* The placeholder of the i-th argument
Placeholder(value, i) ==
  CHOOSE k \in DOMAIN value :
    value[k] = PARAMETER_PLACEHOLDER /\ Cardinality({m \in 1..k : value[m] = PARAMETER_PLACEHOLDER}) = i

\* A table is written at its placeholder, on lines of its own; what comes after it is below
\* the table then, and no longer of the step.
ReadBack(line) ==
  IF TablesOf(line) = {} \/ EndsInTable(line) THEN line
  ELSE LET table == Min(TablesOf(line))
       IN  [line EXCEPT !.value = SubSeq(@, 1, Placeholder(@, table)), !.args = SubSeq(@, 1, table)]

\* A file whose steps have been renamed, as it is read when it has been written.
Renamed(file, r) == [n \in DOMAIN Project[file] |-> ReadBack(Rename(Project[file][n], r))]

-----------------------------------------------------------------------------
(* performRephraseRefactoring.                                             *)

End(r) == stage' = "done" /\ result' = r

SameStep ==
  /\ stage = "parse" /\ request.old = request.new
  /\ End("success")
  /\ UNCHANGED <<request, disk, unanswered, runner, asked, todo, unsaved>>

\* The steps, a specification or the concepts do not parse.
ParseFailure ==
  /\ stage = "parse" /\ request.old # request.new
  /\ End("failure")
  /\ UNCHANGED <<request, disk, unanswered, runner, asked, todo, unsaved>>

\* A concept is no business of the runner.
RephraseInSpecsAndConcepts ==
  /\ stage = "parse" /\ request.old # request.new
  /\ todo' = Refactored(request)
  /\ stage' = IF RenamesConcept(request) THEN "write" ELSE "start"
  /\ UNCHANGED <<request, disk, result, unanswered, runner, asked, unsaved>>

\* When there is a service but no runner, the process panics.
StartRunner ==
  /\ stage = "start"
  /\ \/ stage' = "name" /\ UNCHANGED result
     \/ stage' = "crashed" /\ UNCHANGED result
     \/ End("failure")
  /\ UNCHANGED <<request, disk, unanswered, runner, asked, todo, unsaved>>

\* getStepNameFromRunner: a step that is not implemented is but a warning, one with aliases
\* an error.  The request to refactor is built from the name, which may fail.
GetStepNameFromRunner ==
  /\ stage = "name"
  /\ \/ /\ runner = "present"
        /\ stage' = "refactor" /\ asked' = TRUE /\ UNCHANGED result
     \/ /\ runner = "absent"
        /\ stage' = "write" /\ UNCHANGED <<asked, result>>
     \/ End("failure") /\ UNCHANGED asked
  /\ UNCHANGED <<request, disk, unanswered, runner, todo, unsaved>>

\* The runner renames the implementation, perhaps after it was given up on.
RunnerRefactors ==
  /\ asked /\ asked' = FALSE
  /\ runner' = "renamed"
  /\ UNCHANGED <<request, stage, disk, result, unanswered, todo, unsaved>>

RunnerRefuses ==
  /\ asked /\ stage = "refactor" /\ asked' = FALSE
  /\ End("failure")
  /\ UNCHANGED <<request, disk, unanswered, runner, todo, unsaved>>

RunnerAnswers ==
  /\ stage = "refactor" /\ runner = "renamed"
  /\ stage' = "write"
  /\ UNCHANGED <<request, disk, result, unanswered, runner, asked, todo, unsaved>>

\* sendRefactorRequest; the connection may also be lost.
Timeout ==
  /\ stage = "refactor"
  /\ unanswered' = TRUE
  /\ End("failure")
  /\ UNCHANGED <<request, disk, runner, asked, todo, unsaved>>

\* A slip: a file that cannot be written is the end.
WriteFileOrFail(file) ==
  /\ stage = "write" /\ file \in todo
  /\ todo \cap SpecFile # {} => file \in SpecFile
  /\ todo' = todo \ {file}
  /\ \/ disk' = [disk EXCEPT ![file] = Renamed(file, request)] /\ UNCHANGED <<unsaved, stage, result>>
     \/ unsaved' = unsaved \cup {file} /\ End("failure") /\ UNCHANGED disk
  /\ UNCHANGED <<request, unanswered, runner, asked>>

\* writeToConceptAndSpecFiles: the specifications, then the concepts.  That a file
\* cannot be written is logged.
WriteFile(file) ==
  /\ stage = "write" /\ file \in todo
  /\ todo \cap SpecFile # {} => file \in SpecFile
  /\ todo' = todo \ {file}
  /\ \/ disk' = [disk EXCEPT ![file] = Renamed(file, request)] /\ UNCHANGED unsaved
     \/ unsaved' = unsaved \cup {file} /\ UNCHANGED disk
  /\ UNCHANGED <<request, stage, result, unanswered, runner, asked>>

Written ==
  /\ stage = "write" /\ todo = {}
  /\ End("success")
  /\ UNCHANGED <<request, disk, unanswered, runner, asked, todo, unsaved>>

RefactoringNext ==
  \/ SameStep \/ ParseFailure \/ RephraseInSpecsAndConcepts
  \/ StartRunner \/ GetStepNameFromRunner
  \/ RunnerRefactors \/ RunnerRefuses \/ RunnerAnswers \/ Timeout
  \/ \E file \in ProjectFile : WriteFile(file)
  \/ Written

RefactoringSpec == RefactoringInit /\ [][RefactoringNext]_refactoringVars
-----------------------------------------------------------------------------
(* Properties.                                                             *)

\* A refactoring that fails, or brings the process down, has changed nothing, in the files
\* or the runner - but for what the runner does with a request that it did not answer in
\* time.
NoHalfRefactoring ==
  result = "failure" \/ stage = "crashed" =>
    disk = Project /\ (runner = "renamed" => unanswered)

\* The new step ends with the inline table that the line has, or does without it.
TableStays(line, r) ==
  \A i \in DOMAIN r.new.args, j \in TablesOf(line) :
    r.new.args[i] = r.old.args[j] => i = Len(r.new.args) /\ Last(r.new.value) = PARAMETER_PLACEHOLDER

\* After a success the old name is in none of the files that could be written, but where a
\* table has cut the new one, and not in the runner either, unless it is a concept's.
NamesAgree ==
  result = "success" /\ request.old.value # request.new.value =>
    /\ \A f \in ProjectFile \ unsaved : \A n \in DOMAIN disk[f] :
         disk[f][n].value = request.old.value => ~TableStays(Project[f][n], request)
    /\ RenamesConcept(request) \/ runner \in {"absent", "renamed"}

\* A renamed line has the new name, unless its table cuts it, and its arguments where the new
\* step has them; one is missing only behind a table.  Other lines are as they were.
ArgumentsKeepTheirPlaces ==
  \A f \in ProjectFile :
    /\ Len(disk[f]) = Len(Project[f])
    /\ disk[f] # Project[f] =>
         \A n \in DOMAIN Project[f] :
           LET before == Project[f][n]
               after == disk[f][n]
           IN  IF before.value # request.old.value THEN after = before
               ELSE /\ TableStays(before, request) => after.value = request.new.value
                    /\ \A i \in DOMAIN after.args, j \in DOMAIN request.old.args :
                         request.new.args[i] = request.old.args[j] => after.args[i] = before.args[j]
                    /\ \A i \in DOMAIN request.new.args \ DOMAIN after.args :
                         \E k \in TablesOf(after) : k < i

\* What a success has renamed, it has renamed in every file that it could write, and every
\* argument of a renamed step is where the new step has it, if no table is in front of it.
RenamedThroughout == NamesAgree /\ ArgumentsKeepTheirPlaces

Params(line) == {line.args[i].value : i \in {k \in DOMAIN line.args : line.args[k].kind = "dynamic"}}

\* The heading a line of a concept file is under.
HeadingAbove(lines, n) == lines[Max({m \in Headings(lines) : m <= n})]

\* What createConceptsDictionary asks for: no concept twice, none that uses itself, every
\* parameter of a step one of the heading's.
Parses(lines) ==
  /\ \A f, g \in ConceptFile : \A m \in Headings(lines[f]), n \in Headings(lines[g]) :
       lines[f][m].value = lines[g][n].value => f = g /\ m = n
  /\ \A f \in ConceptFile : \A n \in DOMAIN lines[f] \ Headings(lines[f]) :
       /\ lines[f][n].value # HeadingAbove(lines[f], n).value
       /\ Params(lines[f][n]) \subseteq Params(HeadingAbove(lines[f], n))

Used(value) == \E f \in ProjectFile : \E n \in DOMAIN Project[f] : Project[f][n].value = value

SameArgs(r) ==
  {r.new.args[i] : i \in DOMAIN r.new.args} = {r.old.args[j] : j \in DOMAIN r.old.args}

\* No table in a concept cuts what the step is renamed to.
TablesStay(r) ==
  \A f \in ConceptFile : \A n \in DOMAIN Project[f] :
    Project[f][n].value = r.old.value => TableStays(Project[f][n], r)

\* A project that parses does so afterwards, if the new name was not in use and a concept
\* keeps its parameters: one that is added is unknown where another concept uses this one,
\* one that is removed may be used below the heading.
ProjectStillParses ==
  /\ stage = "done" /\ unsaved = {}
  /\ ~Used(request.new.value) /\ (RenamesConcept(request) => SameArgs(request))
  /\ TablesStay(request)
  => Parses(disk)
-----------------------------------------------------------------------------
(* What the theorems about a renaming assume of the constants.             *)

\* Lines are read from a file: a table is the end of its step.  Specifications are parsed
\* without the concepts.
LinesAreRead ==
  \A f \in ProjectFile :
    /\ Len(Project[f]) \in Nat /\ DOMAIN Project[f] = 1..Len(Project[f])
    /\ Project[f] = [n \in DOMAIN Project[f] |-> Project[f][n]]
    /\ \A n \in DOMAIN Project[f] :
         LET line == Project[f][n]
         IN  /\ line = [heading |-> line.heading, concept |-> line.concept,
                        value |-> line.value, args |-> line.args]
             /\ TablesOf(line) = {} \/ EndsInTable(line)
             /\ line.heading => line.concept
             /\ f \notin ConceptFile => ~line.heading /\ ~line.concept

\* The arguments of a request are told apart by what they are called, so neither step has one
\* twice.  The new step has a word before its arguments: a table would leave nothing of it.
\* A line has an argument for each of the old step's when it has its value.
RequestsAreRead ==
  \A r \in Requests :
    /\ Len(r.new.args) \in Nat /\ DOMAIN r.new.args = 1..Len(r.new.args)
    /\ r.new.value[1] # PARAMETER_PLACEHOLDER
    /\ DOMAIN r.old.args \subseteq Int /\ 0 \notin DOMAIN r.old.args
    /\ \A i, j \in DOMAIN r.old.args : r.old.args[i] = r.old.args[j] => i = j
    /\ \A i, j \in DOMAIN r.new.args : r.new.args[i] = r.new.args[j] => i = j
    /\ \A f \in ProjectFile : \A n \in DOMAIN Project[f] :
         Project[f][n].value = r.old.value => DOMAIN Project[f][n].args = DOMAIN r.old.args

ProjectAssumed ==
  /\ Project = [f \in ProjectFile |-> Project[f]]
  /\ LinesAreRead /\ RequestsAreRead

\* The project parses (createConceptsDictionary): every line of a concept file is below a
\* heading.
ProjectParses ==
  /\ Parses(Project)
  /\ ConceptFile \subseteq ProjectFile
  /\ \A f \in ConceptFile : \A n \in DOMAIN Project[f] : \E m \in Headings(Project[f]) : m <= n
=============================================================================

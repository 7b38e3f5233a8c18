------------------------------- MODULE Arguments -------------------------------
(***************************************************************************)
(* From the arguments in a specification to the parameters of the steps    *)
(* that are sent to the runner: the lookups of concepts (concept.go,       *)
(* specification.go), filled when the dictionary is made, copied when the  *)
(* specification is parsed, and resolved for every row of the data table   *)
(* when it is executed (specExecutor.go, resolver.go).                     *)
(*                                                                         *)
(* An argument has a type, a value and perhaps a table, of which one cell  *)
(* is kept; a parameter is a value or the value of such a cell.            *)
(***************************************************************************)
EXTENDS Integers, SequencesExt, FiniteSetsExt

CONSTANT Projects  \* concepts, with parameters and steps; the data table; the steps to execute

ArgTypes == {"static", "dynamic", "table"}
Cell == [type : ArgTypes, value : STRING, table : {<<>>}]
Arg == [type : ArgTypes, value : STRING, table : Seq(Cell)]

\* What createStepArg and addInlineTableRow give where there are these parameters or columns.
WrittenArg(arg, names) ==
  /\ arg.type = "dynamic" => arg.value \in names
  /\ arg.type = "table" <=> arg.table # <<>>
  /\ \A i \in DOMAIN arg.table :
       \/ arg.table[i].type = "static"
       \/ arg.table[i].type = "dynamic" /\ arg.table[i].value \in names

\* Steps are what is parsed: arguments are known, uses have the parameters of their concept,
\* no concept is in itself (AcceptedIsFinite), the rows of the data table are complete.
ASSUME ProjectsAssumption ==
  \A p \in Projects :
    LET StepsIn(names, steps) ==
          /\ steps \in Seq([value : STRING, args : Seq(Arg)])
          /\ \A i \in DOMAIN steps :
               /\ \A k \in DOMAIN steps[i].args : WrittenArg(steps[i].args[k], names)
               /\ steps[i].value \in DOMAIN p.concepts =>
                    Len(steps[i].args) = Len(p.concepts[steps[i].value].params)
    IN  /\ StepsIn(DOMAIN p.dataTable, p.steps)
        /\ \A c \in DOMAIN p.concepts :
             /\ p.concepts[c].params \in Seq(STRING)
             /\ StepsIn(ToSet(p.concepts[c].params), p.concepts[c].steps)
        /\ \A S \in SUBSET DOMAIN p.concepts : S # {} =>
             \E c \in S : \A i \in DOMAIN p.concepts[c].steps : p.concepts[c].steps[i].value \notin S
        /\ \A c, d \in DOMAIN p.dataTable :
             /\ p.dataTable[c] \in Seq(STRING) /\ p.dataTable[c] # <<>>
             /\ Len(p.dataTable[c]) = Len(p.dataTable[d])

VARIABLES
  project,      \* (it never changes)
  unread,       \* concepts whose steps have not filled the lookups yet
  lookups,      \* the lookup of every concept, which its uses in concepts share
  stepLookups,  \* the lookup of every concept step of the specification, of its own
  row,          \* currentTableRow
  next,         \* position of the next step to execute
  resolving,       \* the concepts that are resolved, innermost last
  sent,         \* parameters of the steps resolved for this row
  resolution         \* "read", "execute", "done"; "crashed" after a panic

argumentVars == <<project, unread, lookups, stepLookups, row, next, resolving, sent, resolution>>

NoArg == [type |-> "none", value |-> "", table |-> <<>>]

Concepts == project.concepts
IsConcept(step) == step.value \in DOMAIN Concepts
ParamsOf(concept) == ToSet(Concepts[concept].params)
Lookup(concept, args) ==
  [p \in ParamsOf(concept) |->
     args[Max({i \in DOMAIN Concepts[concept].params : Concepts[concept].params[i] = p})]]

ArgumentsInit ==
  /\ project \in Projects
  /\ unread = DOMAIN project.concepts
  /\ lookups = [c \in DOMAIN project.concepts |-> [p \in ParamsOf(c) |-> NoArg]]
  /\ stepLookups = <<>> /\ row = 1 /\ next = 1 /\ resolving = <<>> /\ sent = <<>>
  /\ resolution = "read"

-----------------------------------------------------------------------------
(* The lookups.                                                            *)

\* The type and the value of every argument, over those of the last use.
NestedArgs(all, step) ==
  IF ~IsConcept(step) THEN all
  ELSE [all EXCEPT ![step.value] =
         Lookup(step.value, [i \in DOMAIN step.args |-> [step.args[i] EXCEPT !.table = <<>>]])]

\* updateLookupForNestedConcepts ranges over a map, in any order.  The last file's round
\* writes over those before it.
UpdateLookupForNestedConcepts(concept) ==
  /\ resolution = "read" /\ concept \in unread
  /\ unread' = unread \ {concept}
  /\ lookups' =
       LET steps == Concepts[concept].steps
           after[n \in 0..Len(steps)] == IF n = 0 THEN lookups ELSE NestedArgs(after[n - 1], steps[n])
       IN  after[Len(steps)]
  /\ UNCHANGED <<project, stepLookups, row, next, resolving, sent, resolution>>

\* createConceptStep, populateConceptLookup
PopulateConceptLookup(step) == Lookup(step.value, step.args)

ProcessConceptSteps ==
  /\ resolution = "read" /\ unread = {}
  /\ stepLookups' =
       [i \in DOMAIN project.steps |->
         IF IsConcept(project.steps[i]) THEN PopulateConceptLookup(project.steps[i]) ELSE <<>>]
  /\ resolution' = "execute"
  /\ UNCHANGED <<project, unread, lookups, row, next, resolving, sent>>

-----------------------------------------------------------------------------
(* Resolution.                                                             *)

Column(name) == [type |-> "static", value |-> project.dataTable[name][row], table |-> <<>>]

Panic == [type |-> "panic", value |-> "", table |-> <<>>]

DataTableArg(name) == IF name \in DOMAIN project.dataTable THEN Column(name) ELSE Panic

\* getArg of the innermost of these concepts, then of the one around it; an unknown
\* parameter is a panic.
GetArg(parents, name) ==
  LET arg[n \in 0..Len(parents)] ==
        IF n = 0 THEN [type |-> "dynamic", value |-> name, table |-> <<>>]
        ELSE IF arg[n - 1].type # "dynamic" THEN arg[n - 1]
        ELSE LET lookup == parents[Len(parents) - n + 1].lookup
             IN  IF arg[n - 1].value \in DOMAIN lookup THEN lookup[arg[n - 1].value] ELSE Panic
  IN  arg[Len(parents)]

ArgIn(parents, name) == IF parents = <<>> THEN DataTableArg(name) ELSE GetArg(parents, name)

\* createProtoStepTable: arguments in the cells are those of the data table.
Cells(table) ==
  [i \in DOMAIN table |->
     IF table[i].type = "dynamic" THEN DataTableArg(table[i].value) ELSE table[i]]

\* getResolvedParams
ResolvedArg(parents, arg) == IF arg.type = "dynamic" THEN ArgIn(parents, arg.value) ELSE arg

Panics(resolved) == Panic \in {resolved} \cup ToSet(Cells(resolved.table))

Parameter(resolved) ==
  IF resolved.table # <<>> THEN <<"table", Cells(resolved.table)[1].value>>
  ELSE <<"value", resolved.value>>

Executing ==
  /\ resolution = "execute"
  /\ row <= Max({1} \cup {Len(project.dataTable[c]) : c \in DOMAIN project.dataTable})

Crash ==
  /\ resolution' = "crashed"
  /\ UNCHANGED <<project, unread, lookups, stepLookups, row, next, resolving, sent>>

\* Where the resolution is: in a concept, or in the specification.
StepsThere == IF resolving = <<>> THEN project.steps ELSE Concepts[Last(resolving).concept].steps
Position == IF resolving = <<>> THEN next ELSE Last(resolving).next
Step == StepsThere[Position]
There == Executing /\ Position \in DOMAIN StepsThere

Onward(stack) == IF stack = <<>> THEN stack ELSE [stack EXCEPT ![Len(stack)].next = @ + 1]

\* populateConceptDynamicParams: a step of the specification has its arguments resolved by
\* the data table, in a copy of its lookup.
Populated(lookup) ==
  [p \in DOMAIN lookup |->
     IF lookup[p].type = "dynamic" THEN DataTableArg(lookup[p].value) ELSE lookup[p]]

\* A slip: in the lookup itself.
PopulatedInPlace(lookup) == Populated(lookup)

KeptForNextRow(lookup) == lookup

ResolvedArgs == [i \in DOMAIN Step.args |-> ResolvedArg(resolving, Step.args[i])]

ResolveConcept ==
  /\ There /\ IsConcept(Step)
  /\ IF \E i \in DOMAIN ResolvedArgs : ResolvedArgs[i] = Panic THEN Crash
     ELSE /\ resolving' = Append(Onward(resolving),
               [concept |-> Step.value, next |-> 1,
                lookup |-> IF resolving = <<>> THEN Populated(stepLookups[next]) ELSE lookups[Step.value]])
          /\ stepLookups' =
               IF resolving = <<>> THEN [stepLookups EXCEPT ![next] = KeptForNextRow(@)] ELSE stepLookups
          /\ next' = IF resolving = <<>> THEN next + 1 ELSE next
          /\ UNCHANGED <<project, unread, lookups, row, sent, resolution>>

ResolveStep ==
  /\ There /\ ~IsConcept(Step)
  /\ IF \E i \in DOMAIN ResolvedArgs : Panics(ResolvedArgs[i]) THEN Crash
     ELSE /\ sent' = Append(sent, [step |-> Step.value,
               parameters |-> [i \in DOMAIN ResolvedArgs |-> Parameter(ResolvedArgs[i])]])
          /\ resolving' = Onward(resolving)
          /\ next' = IF resolving = <<>> THEN next + 1 ELSE next
          /\ UNCHANGED <<project, unread, lookups, stepLookups, row, resolution>>

ReturnConcept ==
  /\ Executing /\ resolving # <<>> /\ Position \notin DOMAIN StepsThere
  /\ resolving' = Front(resolving)
  /\ UNCHANGED <<project, unread, lookups, stepLookups, row, next, sent, resolution>>

NextRow ==
  /\ Executing /\ resolving = <<>> /\ Position \notin DOMAIN StepsThere
  /\ row' = row + 1 /\ next' = 1 /\ sent' = <<>>
  /\ UNCHANGED <<project, unread, lookups, stepLookups, resolving, resolution>>

Done ==
  /\ resolution = "execute" /\ ~Executing
  /\ resolution' = "done"
  /\ UNCHANGED <<project, unread, lookups, stepLookups, row, next, resolving, sent>>

ArgumentsNext ==
  \/ \E concept \in DOMAIN Concepts : UpdateLookupForNestedConcepts(concept)
  \/ ProcessConceptSteps
  \/ ResolveConcept \/ ResolveStep \/ ReturnConcept \/ NextRow \/ Done

ArgumentsSpec == ArgumentsInit /\ [][ArgumentsNext]_argumentVars
-----------------------------------------------------------------------------
(* Properties.                                                             *)

\* What a step's arguments are where its parameters are these.
Meant(args, env) ==
  [i \in DOMAIN args |->
    CASE args[i].type = "static" -> <<"value", args[i].value>>
      [] args[i].type = "dynamic" -> env[args[i].value]
      [] args[i].type = "table" ->
           <<"table", IF args[i].table[1].type = "dynamic" THEN env[args[i].table[1].value][2]
                      ELSE args[i].table[1].value>>]

\* A step with its concept written out, of having what each use of a concept comes to.
WrittenOut(step, env, of) ==
  LET args == Meant(step.args, env)
  IN  IF IsConcept(step) THEN of[<<step.value, args>>]
      ELSE <<[step |-> step.value, parameters |-> args]>>

AllWrittenOut(steps, env, of) == FlattenSeq([i \in DOMAIN steps |-> WrittenOut(steps[i], env, of)])

\* Concepts with a value for every parameter, and their steps with those.
Value == {"value", "table"} \X STRING
Uses ==
  {use \in (DOMAIN Concepts) \X Seq(Value) : Len(use[2]) = Len(Concepts[use[1]].params)}
Expansions[use \in Uses] ==
  AllWrittenOut(Concepts[use[1]].steps, Lookup(use[1], use[2]), Expansions)

RowValues == [c \in DOMAIN project.dataTable |-> <<"value", project.dataTable[c][row]>>]

AsWritten ==
  /\ resolution # "crashed"
  /\ Executing =>
       LET all == AllWrittenOut(project.steps, RowValues, Expansions)
       IN  /\ IsPrefix(sent, all)
           /\ resolving = <<>> /\ next > Len(project.steps) => sent = all

StepsInConcepts == UNION {ToSet(Concepts[c].steps) : c \in DOMAIN Concepts}

Tables(step) == {step.args[i].table : i \in DOMAIN step.args}

\* All uses of a concept by concepts say the same, none hands on a table, and no table in a
\* concept has an argument in a cell.
UsesAgree ==
  /\ \A s, t \in StepsInConcepts : IsConcept(s) /\ s.value = t.value => s.args = t.args
  /\ \A s \in StepsInConcepts :
       /\ IsConcept(s) => Tables(s) \subseteq {<<>>}
       /\ \A table \in Tables(s) : \A i \in DOMAIN table : table[i].type = "static"

\* Where the uses of a concept agree, every step is sent with the arguments that the
\* specification has written for it through all concepts in between, for every row of the
\* data table, and nothing panics.
AgreeingUsesResolve == UsesAgree => AsWritten

\* Every step is, whatever uses what: a nested concept looks up its arguments in the
\* concept that uses it (TestNestedConceptLooksUpArgsFromParent).
ArgumentsAsWritten == AsWritten
=============================================================================

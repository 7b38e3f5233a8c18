---------------------------- MODULE SpecExecution ----------------------------
(***************************************************************************)
(* The sequential execution of a suite: simpleExecution.start              *)
(* (execution.go), specExecutor.execute and everything below it            *)
(* (specExecutor.go), and the results they build (specResult.go).          *)
(*                                                                         *)
(* The executor is one goroutine that sends one request to the language    *)
(* runner and blocks for the answer, so an exchange is one action; the     *)
(* answer is chosen by the environment.  Concepts are flattened to the     *)
(* steps they execute: module ScenarioItems shows that executeItems and    *)
(* executeConcept run the flattened steps up to the first failed one.      *)
(***************************************************************************)
EXTENDS Integers, Sequences, FiniteSets

CONSTANTS
  Suite,      \* the specifications, in execution order
  TableRows   \* the numbers of --table-rows, split at "-"; <<>> when not given
              \* (0 stands for a part that is not a number: both are rejected)

\* What matters of a parsed specification: its data table's row count, how
\* many context steps run before each scenario, and each scenario's steps.
SpecShape == [rows : Nat, contexts : Nat, scenarios : Seq(Nat)]

ASSUME SuiteAssumption == Suite \in Seq(SpecShape) /\ Suite # <<>>
ASSUME TableRowsAssumption == TableRows \in Seq(Int)

VARIABLES
  pc,              \* the exchange the executor is at
  link,            \* the connection to the runner
  sp, row, sc, it, \* cursor: specification, table row (from 0), scenario, step
  stepFailed,      \* ExecutionResult.Failed of the step under way
  scenarioFailed,  \* protoScenario.Failed of the scenario under way
  failures,        \* <<index in dataTableScenarioExecutionResult, scenario>> that failed
  specResult,      \* the specResult under way
  suiteResult,     \* the suiteResult
  info,            \* the IsFailed flags of currentExecutionInfo
  reported,        \* history: the runner answered a hook or a step with a failure
  ran              \* history: the <<row, scenario>> begun in this specification

cursor == <<sp, row, sc, it>>
vars == <<pc, link, sp, row, sc, it, stepFailed, scenarioFailed, failures,
          specResult, suiteResult, info, reported, ran>>

-----------------------------------------------------------------------------
(* Pure parts.                                                             *)

\* A slip the runs must notice: the upper bound of the range is not checked.
RowsAcceptedUnbounded(rowCount) ==
  \/ TableRows = <<>>
  \/ /\ Len(TableRows) \in {1, 2}
     /\ TableRows[1] >= 1 /\ TableRows[1] <= TableRows[Len(TableRows)]

\* getDataTableRowsRange and validateTableRowsRange: is the range usable?
RowsAccepted(rowCount) ==
  \/ TableRows = <<>>
  \/ LET first == TableRows[1]
         last  == TableRows[Len(TableRows)]
     IN  Len(TableRows) \in {1, 2} /\ 1 <= first /\ first <= last /\ last <= rowCount

\* getDataTableRows: the first and last row index that are executed.
SelectedRows(rowCount) ==
  IF TableRows = <<>> THEN [start |-> 0, end |-> rowCount - 1]
  ELSE [start |-> TableRows[1] - 1, end |-> TableRows[Len(TableRows)] - 1]

Rows == SelectedRows(Suite[sp].rows)
Scenarios == Suite[sp].scenarios
Items == Suite[sp].contexts + Scenarios[sc]
IsTableDriven == Suite[sp].rows > 0

Reply == {"passed", "failed", "error", "lost"}
GetFailed(reply) == reply # "passed"

NewSpecResult ==
  [isFailed |-> FALSE, scenarioCount |-> 0, scenarioFailedCount |-> 0,
   failedDataTableRows |-> {}]

\* The scenarios with a failing row.
FailedIn(failing) == {s \in 1..Len(Scenarios) : \E f \in failing : f[2] = s}

\* A slip: the table-driven scenarios are counted but the spec stays passed.
AddScenarioResultsUnmarked(res, failing) ==
  [isFailed |-> IF IsTableDriven THEN res.isFailed ELSE res.isFailed \/ failing # {},
   scenarioCount |-> res.scenarioCount + Len(Scenarios),
   scenarioFailedCount |-> res.scenarioFailedCount + Cardinality(FailedIn(failing)),
   failedDataTableRows |-> IF IsTableDriven THEN failing ELSE {}]

\* addScenarioResults and addTableDrivenScenarioResult: a scenario counts once,
\* however many rows it failed in; every failing <<row, scenario>> adds an entry
\* to failedDataTableRows.
AddScenarioResults(res, failing) ==
  [isFailed |-> res.isFailed \/ failing # {},
   scenarioCount |-> res.scenarioCount + Len(Scenarios),
   scenarioFailedCount |-> res.scenarioFailedCount + Cardinality(FailedIn(failing)),
   failedDataTableRows |-> IF IsTableDriven THEN failing ELSE {}]

\* suiteResult.addSpecResult.
AddSpecResult(suite, res) ==
  [isFailed |-> suite.isFailed \/ res.isFailed,
   specsFailedCount |-> suite.specsFailedCount + IF res.isFailed THEN 1 ELSE 0,
   specResults |-> Append(suite.specResults, res)]

-----------------------------------------------------------------------------
Init ==
  /\ pc = "SuiteInit" /\ link = "open"
  /\ sp = 1 /\ row = 0 /\ sc = 1 /\ it = 1
  /\ stepFailed = FALSE /\ scenarioFailed = FALSE /\ failures = {}
  /\ specResult = NewSpecResult
  /\ suiteResult = [isFailed |-> FALSE, specsFailedCount |-> 0, specResults |-> <<>>]
  /\ info = [spec |-> FALSE, scenario |-> FALSE, step |-> FALSE]
  /\ reported = FALSE /\ ran = {}

\* A slip: a dead runner is taken for one that has nothing to complain about.
AskForgiving(reply) ==
  /\ link = "closed" => reply = "passed"
  /\ link' = IF reply = "lost" THEN "closed" ELSE link

\* executeAndGetStatus: one request and its answer.  "failed" is a failed
\* ProtoExecutionResult, "error" an answer without one or of another type,
\* "lost" a failed write or read; the connection never comes back from that.
Ask(reply) ==
  /\ link = "closed" => reply = "lost"
  /\ link' = IF reply = "lost" THEN "closed" ELSE link

\* The exchange is a hook or a step: its failure has to be accounted for.
AskCounted(reply) ==
  /\ Ask(reply)
  /\ reported' = (reported \/ GetFailed(reply))

\* SuiteDataStoreInit: a failure is a warning only.
InitSuiteDataStore(reply) ==
  /\ pc = "SuiteInit" /\ pc' = "SuiteBefore"
  /\ Ask(reply)
  /\ UNCHANGED <<cursor, stepFailed, scenarioFailed, failures, specResult,
                 suiteResult, info, reported, ran>>

\* ExecutionStarting: when it fails no specification is executed.
BeforeSuiteHook(reply) ==
  /\ pc = "SuiteBefore"
  /\ AskCounted(reply)
  /\ suiteResult' = [suiteResult EXCEPT !.isFailed = GetFailed(reply)]
  /\ pc' = IF GetFailed(reply) THEN "SuiteAfter" ELSE "SpecInit"
  /\ UNCHANGED <<cursor, stepFailed, scenarioFailed, failures, specResult, info, ran>>

\* getDataTableRows ends the process when --table-rows does not fit the spec.
RejectTableRows ==
  /\ pc = "SpecInit" /\ ~RowsAccepted(Suite[sp].rows)
  /\ pc' = "Exited"
  /\ UNCHANGED <<link, cursor, stepFailed, scenarioFailed, failures, specResult,
                 suiteResult, info, reported, ran>>

\* The head of the loop over specifications and SpecDataStoreInit.
InitSpecDataStore(reply) ==
  /\ pc = "SpecInit" /\ RowsAccepted(Suite[sp].rows)
  /\ Ask(reply)
  /\ pc' = "SpecBefore"
  /\ specResult' = NewSpecResult
  /\ failures' = {}
  /\ info' = [f \in DOMAIN info |-> FALSE]
  /\ ran' = {}
  /\ UNCHANGED <<cursor, stepFailed, scenarioFailed, suiteResult, reported>>

\* SpecExecutionStarting: when it fails the scenarios are skipped.
BeforeSpecHook(reply) ==
  /\ pc = "SpecBefore"
  /\ AskCounted(reply)
  /\ specResult' = [specResult EXCEPT !.isFailed = GetFailed(reply)]
  /\ info' = [info EXCEPT !.spec = GetFailed(reply)]
  /\ pc' = IF GetFailed(reply) \/ Scenarios = <<>> THEN "SpecAfter" ELSE "ScenarioInit"
  /\ row' = IF IsTableDriven THEN Rows.start ELSE 0
  /\ sc' = 1
  /\ UNCHANGED <<sp, it, stepFailed, scenarioFailed, failures, suiteResult, ran>>

\* The head of executeScenario and ScenarioDataStoreInit.
InitScenarioDataStore(reply) ==
  /\ pc = "ScenarioInit" /\ pc' = "ScenarioBefore"
  /\ Ask(reply)
  /\ scenarioFailed' = FALSE
  /\ it' = 1
  /\ ran' = ran \cup {<<row, sc>>}
  /\ info' = [info EXCEPT !.scenario = FALSE]
  /\ UNCHANGED <<sp, row, sc, stepFailed, failures, specResult, suiteResult, reported>>

\* ScenarioExecutionStarting: when it fails contexts and steps are skipped.
BeforeScenarioHook(reply) ==
  /\ pc = "ScenarioBefore"
  /\ AskCounted(reply)
  /\ scenarioFailed' = GetFailed(reply)
  /\ info' = IF GetFailed(reply) THEN [info EXCEPT !.spec = TRUE, !.scenario = TRUE]
             ELSE info
  /\ pc' = IF GetFailed(reply) \/ Items = 0 THEN "ScenarioAfter" ELSE "StepBefore"
  /\ UNCHANGED <<cursor, stepFailed, failures, specResult, suiteResult, ran>>

SetStepFailure(flags) == [f \in DOMAIN flags |-> TRUE]

\* StepExecutionStarting: when it fails the step is not executed.
BeforeStepHook(reply) ==
  /\ pc = "StepBefore"
  /\ AskCounted(reply)
  /\ stepFailed' = GetFailed(reply)
  /\ info' = IF GetFailed(reply) THEN SetStepFailure(info) ELSE [info EXCEPT !.step = FALSE]
  /\ pc' = IF GetFailed(reply) THEN "StepAfter" ELSE "StepExecute"
  /\ UNCHANGED <<cursor, scenarioFailed, failures, specResult, suiteResult, ran>>

\* ExecuteStep.
ExecuteStep(reply) ==
  /\ pc = "StepExecute" /\ pc' = "StepAfter"
  /\ AskCounted(reply)
  /\ stepFailed' = GetFailed(reply)
  /\ info' = IF GetFailed(reply) THEN SetStepFailure(info) ELSE info
  /\ UNCHANGED <<cursor, scenarioFailed, failures, specResult, suiteResult, ran>>

\* A slip: a failed step does not end the scenario.
StopsAtItemNever(failed) == it >= Items

\* executeItems: does the loop over contexts and items end with this item?
StopsAtItem(failed) == failed \/ it >= Items

\* StepExecutionEnding, then executeItems goes on to the next step or stops.
AfterStepHook(reply) ==
  LET failed == stepFailed \/ GetFailed(reply)
  IN  /\ pc = "StepAfter"
      /\ AskCounted(reply)
      /\ stepFailed' = FALSE
      /\ scenarioFailed' = (scenarioFailed \/ failed)
      /\ info' = IF GetFailed(reply) THEN SetStepFailure(info) ELSE info
      /\ pc' = IF StopsAtItem(failed) THEN "ScenarioAfter" ELSE "StepBefore"
      /\ it' = IF StopsAtItem(failed) THEN it ELSE it + 1
      /\ UNCHANGED <<sp, row, sc, failures, specResult, suiteResult, ran>>

\* A slip: the loop over the rows does not advance.
NextRowStuck == row

NextRow == row + 1

IsLastRow == ~IsTableDriven \/ row >= Rows.end

\* ScenarioExecutionEnding, then the next scenario, the next row, or the end of
\* the specification, where the scenario results are added up.  A failure of
\* this hook fails the scenario but is not written to currentExecutionInfo.
AfterScenarioHook(reply) ==
  LET failed  == scenarioFailed \/ GetFailed(reply)
      rowIndex == IF IsTableDriven THEN row - Rows.start ELSE 0
      lastScenario == sc >= Len(Scenarios)
  IN  /\ pc = "ScenarioAfter"
      /\ AskCounted(reply)
      /\ scenarioFailed' = failed
      /\ failures' = IF failed THEN failures \cup {<<rowIndex, sc>>} ELSE failures
      /\ sc' = IF ~lastScenario THEN sc + 1 ELSE IF ~IsLastRow THEN 1 ELSE sc
      /\ row' = IF lastScenario /\ ~IsLastRow THEN NextRow ELSE row
      /\ IF lastScenario /\ IsLastRow
         THEN pc' = "SpecAfter" /\ specResult' = AddScenarioResults(specResult, failures')
         ELSE pc' = "ScenarioInit" /\ UNCHANGED specResult
      /\ UNCHANGED <<sp, it, stepFailed, suiteResult, info, ran>>

IsLastSpec == sp = Len(Suite)

\* SpecExecutionEnding; the result joins the suite's.
AfterSpecHook(reply) ==
  LET result == [specResult EXCEPT !.isFailed = @ \/ GetFailed(reply)]
  IN  /\ pc = "SpecAfter"
      /\ AskCounted(reply)
      /\ specResult' = result
      /\ suiteResult' = AddSpecResult(suiteResult, result)
      /\ info' = [info EXCEPT !.spec = @ \/ GetFailed(reply)]
      /\ pc' = IF IsLastSpec THEN "SuiteAfter" ELSE "SpecInit"
      /\ sp' = IF IsLastSpec THEN sp ELSE sp + 1
      /\ UNCHANGED <<row, sc, it, stepFailed, scenarioFailed, failures, ran>>

\* ExecutionEnding: sent whatever happened before.
AfterSuiteHook(reply) ==
  /\ pc = "SuiteAfter" /\ pc' = "Done"
  /\ AskCounted(reply)
  /\ suiteResult' = [suiteResult EXCEPT !.isFailed = @ \/ GetFailed(reply)]
  /\ UNCHANGED <<cursor, stepFailed, scenarioFailed, failures, specResult, info, ran>>

Exchange(reply) ==
  \/ InitSuiteDataStore(reply)    \/ BeforeSuiteHook(reply)
  \/ InitSpecDataStore(reply)     \/ BeforeSpecHook(reply)
  \/ InitScenarioDataStore(reply) \/ BeforeScenarioHook(reply)
  \/ BeforeStepHook(reply) \/ ExecuteStep(reply) \/ AfterStepHook(reply)
  \/ AfterScenarioHook(reply) \/ AfterSpecHook(reply) \/ AfterSuiteHook(reply)

Next == RejectTableRows \/ \E reply \in Reply : Exchange(reply)

Spec == Init /\ [][Next]_vars

\* The executor waits for the runner without a timeout: that it goes on at all
\* is a promise of the runner, which answers or closes the connection.
FairSpec == Spec /\ WF_vars(Next)
-----------------------------------------------------------------------------
(* Properties.                                                             *)

Phase == {"SuiteInit", "SuiteBefore", "SpecInit", "SpecBefore", "ScenarioInit",
          "ScenarioBefore", "StepBefore", "StepExecute", "StepAfter",
          "ScenarioAfter", "SpecAfter", "SuiteAfter", "Done", "Exited"}

SpecResults ==
  [isFailed : BOOLEAN, scenarioCount : Nat, scenarioFailedCount : Nat,
   failedDataTableRows : SUBSET (Nat \X Nat)]

InfoFlags == [spec : BOOLEAN, scenario : BOOLEAN, step : BOOLEAN]

SuiteResults ==
  [isFailed : BOOLEAN, specsFailedCount : Nat, specResults : Seq(SpecResults)]

\* The types of the state, and the cursor stays inside the suite.
TypeOK ==
  /\ pc \in Phase
  /\ link \in {"open", "closed"}
  /\ sp \in DOMAIN Suite /\ row \in Nat /\ sc \in Nat \ {0} /\ it \in Nat \ {0}
  /\ stepFailed \in BOOLEAN /\ scenarioFailed \in BOOLEAN /\ reported \in BOOLEAN
  /\ failures \in SUBSET (Nat \X Nat) /\ ran \in SUBSET (Nat \X Nat)
  /\ specResult \in SpecResults
  /\ suiteResult \in SuiteResults
  /\ info \in InfoFlags

\* The verdict the process exits with (printExecutionStatus looks at
\* suiteResult.isFailed only) says "failed" exactly when the runner answered
\* some hook or step with a failure: nothing is lost between the step, the
\* scenario, the table row, the specification and the suite, nothing is made up.
SuiteVerdict == pc = "Done" => (suiteResult.isFailed <=> reported)

FailedOf(results) == {i \in DOMAIN results : results[i].isFailed}

\* The failed specifications the summary prints are those in the result, and a
\* suite with a failed specification is failed (addSpecResult).
FailedSpecsCounted ==
  /\ suiteResult.specsFailedCount = Cardinality(FailedOf(suiteResult.specResults))
  /\ suiteResult.specsFailedCount > 0 => suiteResult.isFailed

\* When the scenarios of a specification are through, each of them has run for
\* each row of its table that --table-rows selects (rows are numbered from 1
\* there), and for no other.
SelectedRowsRun ==
  LET selected == IF ~IsTableDriven THEN {0}
                  ELSE IF TableRows = <<>> THEN 0..(Suite[sp].rows - 1)
                  ELSE {n - 1 : n \in TableRows[1]..TableRows[Len(TableRows)]}
  IN  pc = "SpecAfter" /\ specResult.scenarioCount > 0
        => /\ ran = selected \X (1..Len(Scenarios))
           /\ IsTableDriven => selected \subseteq 0..(Suite[sp].rows - 1)

\* A runner that is gone cannot make anything pass: a specification whose result
\* is recorded afterwards is failed, and so is the suite.
LostRunnerFails ==
  [][link = "closed" =>
       /\ suiteResult'.specResults # suiteResult.specResults
            => suiteResult'.specResults[Len(suiteResult'.specResults)].isFailed
       /\ pc' = "Done" => suiteResult'.isFailed]_vars

\* The executor comes to its end, whatever the runner answers.
Terminates == <>(pc \in {"Done", "Exited"})

-----------------------------------------------------------------------------
(* The nested scopes this execution implements.                            *)

ScopeDepth ==
  CASE pc \in {"SuiteInit", "SuiteBefore", "Done"} -> 0
    [] pc \in {"SpecInit", "SpecBefore", "SuiteAfter", "Exited"} -> 1
    [] pc \in {"ScenarioInit", "ScenarioBefore", "SpecAfter"} -> 2
    [] pc \in {"StepBefore", "ScenarioAfter"} -> 3
    [] pc \in {"StepExecute", "StepAfter"} -> 4

\* A level's verdict is what has reached that level's record; the scenarios of
\* a specification reach it only when all of them are through.
LevelVerdict ==
  <<suiteResult.isFailed, specResult.isFailed \/ failures # {}, scenarioFailed, stepFailed>>

ScopeVerdict == [l \in 1..4 |-> l <= ScopeDepth /\ LevelVerdict[l]]

ScopeOutcome ==
  CASE pc = "Done" -> IF suiteResult.isFailed THEN "failed" ELSE "passed"
    [] pc = "Exited" -> "aborted"
    [] OTHER -> "none"

ScopeGoesOn ==
  pc \notin {"StepAfter", "ScenarioAfter", "SpecAfter", "SuiteAfter", "Done"}

Scopes == INSTANCE ExecutionScopes WITH
  depth   <- ScopeDepth,
  goesOn  <- ScopeGoesOn,
  verdict <- ScopeVerdict,
  outcome <- ScopeOutcome

\* Hooks come in matching pairs, nothing begins below a failed Starting hook or
\* after a failed step, and a failure climbs with every scope that closes.
ScopesNest == Scopes!ScopesSpec
=============================================================================

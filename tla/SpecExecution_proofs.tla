------------------------- MODULE SpecExecution_proofs -------------------------
(***************************************************************************)
(* Theorems about SpecExecution for every suite and every --table-rows:    *)
(* type correctness, the soundness of the verdict and of the count of      *)
(* failed specifications, that nothing passes without a runner, that the   *)
(* selected rows run, and that it implements ExecutionScopes.              *)
(***************************************************************************)
EXTENDS SpecExecution, FiniteSetTheorems, TLAPS

SpecOpen == pc \in {"SpecBefore", "ScenarioInit", "ScenarioBefore", "StepBefore",
                    "StepExecute", "StepAfter", "ScenarioAfter", "SpecAfter"}

ScenarioOpen == pc \in {"ScenarioBefore", "StepBefore", "StepExecute", "StepAfter",
                        "ScenarioAfter"}

RowsOpen == ScenarioOpen \/ pc = "ScenarioInit"

\* The specification under way fits --table-rows, and the current row is not
\* before the first selected one.
CursorInv ==
  /\ SpecOpen => RowsAccepted(Suite[sp].rows)
  /\ RowsOpen /\ IsTableDriven => row >= Rows.start

\* Each record is clean when its scope begins, and the scenario results have
\* been added up when its Ending hook runs.
FreshInv ==
  /\ pc \in {"SuiteInit", "SuiteBefore", "SpecInit"} => (reported <=> suiteResult.isFailed)
  /\ pc \in {"SuiteInit", "SuiteBefore"} => ~suiteResult.isFailed
  /\ pc = "SpecBefore" => ~specResult.isFailed /\ failures = {}
  /\ pc = "ScenarioBefore" => ~scenarioFailed
  /\ pc = "StepExecute" => ~stepFailed
  /\ pc = "SpecAfter" /\ failures # {} => specResult.isFailed

\* Where a reported failure can be found at any time.
VerdictInv ==
  reported <=> \/ suiteResult.isFailed
               \/ SpecOpen /\ (specResult.isFailed \/ failures # {})
               \/ ScenarioOpen /\ scenarioFailed
               \/ pc \in {"StepExecute", "StepAfter"} /\ stepFailed

Inv == /\ TypeOK
       /\ CursorInv
       /\ FreshInv
       /\ VerdictInv

-----------------------------------------------------------------------------
\* What the constants provide for the specification under the cursor.
LEMMA SuiteAt ==
  ASSUME NEW i \in DOMAIN Suite
  PROVE  /\ Suite[i] \in SpecShape
         /\ Suite[i].rows \in Nat
         /\ Suite[i].contexts \in Nat
         /\ Suite[i].scenarios \in Seq(Nat)
         /\ Len(Suite[i].scenarios) \in Nat
<1>1. Suite[i] \in SpecShape
  BY SuiteAssumption
<1> QED BY <1>1 DEF SpecShape

\* A range that getDataTableRowsRange accepts starts at a row of the table.
LEMMA AcceptedRange ==
  ASSUME NEW rowCount \in Nat, RowsAccepted(rowCount)
  PROVE  /\ SelectedRows(rowCount).start \in Nat
         /\ SelectedRows(rowCount).end \in Int
<1>1. CASE TableRows = <<>>
  BY <1>1 DEF SelectedRows
<1>2. CASE TableRows # <<>>
  <2>1. /\ Len(TableRows) \in {1, 2}
        /\ TableRows[1] >= 1
    BY <1>2 DEF RowsAccepted
  <2>2. TableRows[1] \in Int /\ TableRows[Len(TableRows)] \in Int
    BY <2>1, TableRowsAssumption
  <2> QED BY <1>2, <2>1, <2>2 DEF SelectedRows
<1> QED BY <1>1, <1>2

\* Adding up the scenario results keeps the types of a specResult and loses no
\* failed scenario.
LEMMA AddScenarioResultsType ==
  ASSUME NEW res \in SpecResults,
         NEW failing \in SUBSET (Nat \X Nat),
         sp \in DOMAIN Suite
  PROVE  /\ AddScenarioResults(res, failing) \in SpecResults
         /\ AddScenarioResults(res, failing).isFailed = (res.isFailed \/ failing # {})
<1>1. Len(Scenarios) \in Nat
  BY SuiteAt DEF Scenarios
<1>2. IsFiniteSet(1..Len(Scenarios))
  BY <1>1, FS_Interval
<1>3. IsFiniteSet(FailedIn(failing))
  BY <1>2, FS_Subset DEF FailedIn
<1>a. Cardinality(FailedIn(failing)) \in Nat
  BY <1>3, FS_CardinalityType
<1>4. (IF IsTableDriven THEN failing ELSE {}) \in SUBSET (Nat \X Nat)
  OBVIOUS
<1> QED BY <1>1, <1>a, <1>4 DEF AddScenarioResults, SpecResults

\* The flags stay flags.
LEMMA FlagsType ==
  ASSUME NEW flags \in InfoFlags
  PROVE  /\ SetStepFailure(flags) \in InfoFlags
         /\ [f \in DOMAIN flags |-> FALSE] \in InfoFlags
         /\ [flags EXCEPT !.step = FALSE] \in InfoFlags
         /\ [flags EXCEPT !.scenario = FALSE] \in InfoFlags
         /\ [flags EXCEPT !.spec = TRUE, !.scenario = TRUE] \in InfoFlags
         /\ \A b \in BOOLEAN : [flags EXCEPT !.spec = b] \in InfoFlags
BY DEF InfoFlags, SetStepFailure

\* Recording a specification keeps the types of the suite's result.
LEMMA AddSpecResultType ==
  ASSUME NEW suite \in SuiteResults, NEW res \in SpecResults
  PROVE  /\ AddSpecResult(suite, res) \in SuiteResults
         /\ AddSpecResult(suite, res).isFailed = (suite.isFailed \/ res.isFailed)
BY DEF AddSpecResult, SuiteResults, SpecResults

LEMMA InitInv == Init => Inv
<1> SUFFICES ASSUME Init PROVE Inv
  OBVIOUS
<1>1. 1 \in DOMAIN Suite
  BY SuiteAssumption
<1>2. TypeOK
  <2>1. NewSpecResult \in SpecResults
    BY DEF NewSpecResult, SpecResults
  <2>2. suiteResult \in SuiteResults
    BY DEF Init, SuiteResults
  <2>3. info \in InfoFlags
    BY DEF Init, InfoFlags
  <2>4. pc \in Phase /\ link \in {"open", "closed"}
    BY DEF Init, Phase
  <2>5. sp \in DOMAIN Suite /\ row \in Nat /\ sc \in Nat \ {0} /\ it \in Nat \ {0}
    BY <1>1 DEF Init
  <2>6. stepFailed \in BOOLEAN /\ scenarioFailed \in BOOLEAN /\ reported \in BOOLEAN
    BY DEF Init
  <2>7. failures \in SUBSET (Nat \X Nat) /\ ran \in SUBSET (Nat \X Nat)
    BY DEF Init
  <2>8. specResult \in SpecResults
    BY <2>1 DEF Init
  <2> QED BY <2>2, <2>3, <2>4, <2>5, <2>6, <2>7, <2>8 DEF TypeOK
<1>4. CursorInv
  BY DEF Init, CursorInv, SpecOpen, RowsOpen, ScenarioOpen
<1>5. FreshInv
  BY DEF Init, FreshInv
<1>6. VerdictInv
  BY DEF Init, VerdictInv, SpecOpen, ScenarioOpen, NewSpecResult
<1> QED BY <1>2, <1>4, <1>5, <1>6 DEF Inv



LEMMA InitSuiteDataStoreInv ==
  ASSUME Inv, NEW reply \in Reply, InitSuiteDataStore(reply)
  PROVE  Inv'
<1>1. TypeOK'
  BY SuiteAt DEF Inv, TypeOK, InfoFlags, SuiteResults, Phase, InitSuiteDataStore, Ask, AskCounted, cursor, GetFailed
<1>2. CursorInv'
  BY SuiteAt, AcceptedRange DEF Inv, TypeOK, CursorInv, SpecOpen, RowsOpen, ScenarioOpen,
    InitSuiteDataStore, cursor, IsTableDriven, Rows
<1>3. FreshInv'
  BY DEF Inv, TypeOK, SuiteResults, SpecResults, FreshInv, VerdictInv, SpecOpen, ScenarioOpen, InitSuiteDataStore, Ask, AskCounted, cursor, GetFailed
<1>4. VerdictInv'
  BY DEF Inv, TypeOK, SuiteResults, SpecResults, FreshInv, VerdictInv, SpecOpen, ScenarioOpen, InitSuiteDataStore, Ask, AskCounted, cursor, GetFailed
<1> QED BY <1>1, <1>2, <1>3, <1>4 DEF Inv

LEMMA BeforeSuiteHookInv ==
  ASSUME Inv, NEW reply \in Reply, BeforeSuiteHook(reply)
  PROVE  Inv'
<1>1. TypeOK'
  BY SuiteAt DEF Inv, TypeOK, InfoFlags, SuiteResults, Phase, BeforeSuiteHook, Ask, AskCounted, cursor, GetFailed
<1>2. CursorInv'
  BY SuiteAt, AcceptedRange DEF Inv, TypeOK, CursorInv, SpecOpen, RowsOpen, ScenarioOpen,
    BeforeSuiteHook, cursor, IsTableDriven, Rows
<1>3. FreshInv'
  BY DEF Inv, TypeOK, SuiteResults, SpecResults, FreshInv, VerdictInv, SpecOpen, ScenarioOpen, BeforeSuiteHook, Ask, AskCounted, cursor, GetFailed
<1>4. VerdictInv'
  BY DEF Inv, TypeOK, SuiteResults, SpecResults, FreshInv, VerdictInv, SpecOpen, ScenarioOpen, BeforeSuiteHook, Ask, AskCounted, cursor, GetFailed
<1> QED BY <1>1, <1>2, <1>3, <1>4 DEF Inv

LEMMA InitSpecDataStoreInv ==
  ASSUME Inv, NEW reply \in Reply, InitSpecDataStore(reply)
  PROVE  Inv'
<1>1. TypeOK'
  <2>1. info' \in InfoFlags
    BY FlagsType DEF Inv, TypeOK, InitSpecDataStore
  <2>2. specResult' \in SpecResults
    BY DEF NewSpecResult, SpecResults, InitSpecDataStore
  <2> QED BY <2>1, <2>2 DEF Inv, TypeOK, Phase, InitSpecDataStore, Ask, cursor
<1>2. CursorInv'
  BY SuiteAt, AcceptedRange DEF Inv, TypeOK, CursorInv, SpecOpen, RowsOpen, ScenarioOpen,
    InitSpecDataStore, cursor, IsTableDriven, Rows
<1>3. FreshInv'
  BY DEF Inv, TypeOK, FreshInv, InitSpecDataStore, NewSpecResult
<1>4. VerdictInv'
  <2>1. ~specResult'.isFailed /\ failures' = {} /\ pc' = "SpecBefore"
    BY DEF InitSpecDataStore, NewSpecResult
  <2>2. reported' <=> suiteResult'.isFailed
    BY DEF Inv, FreshInv, InitSpecDataStore
  <2> QED BY <2>1, <2>2 DEF VerdictInv, SpecOpen, ScenarioOpen
<1> QED BY <1>1, <1>2, <1>3, <1>4 DEF Inv

LEMMA BeforeSpecHookInv ==
  ASSUME Inv, NEW reply \in Reply, BeforeSpecHook(reply)
  PROVE  Inv'
<1>1. TypeOK'
  <2>1. info' \in InfoFlags
    BY FlagsType DEF Inv, TypeOK, BeforeSpecHook, GetFailed
  <2>2. specResult' \in SpecResults
    BY DEF Inv, TypeOK, BeforeSpecHook, SpecResults, GetFailed
  <2>3. row' \in Nat
    <3>1. Suite[sp].rows \in Nat /\ RowsAccepted(Suite[sp].rows)
      BY SuiteAt DEF Inv, TypeOK, CursorInv, SpecOpen, BeforeSpecHook
    <3> QED BY <3>1, AcceptedRange DEF Inv, TypeOK, BeforeSpecHook, Rows
  <2> QED BY <2>1, <2>2, <2>3 DEF Inv, TypeOK, Phase, BeforeSpecHook, Ask, AskCounted, GetFailed
<1>2. CursorInv'
  BY SuiteAt, AcceptedRange DEF Inv, TypeOK, CursorInv, SpecOpen, RowsOpen, ScenarioOpen,
    BeforeSpecHook, cursor, IsTableDriven, Rows
<1>3. FreshInv'
  BY DEF Inv, TypeOK, SuiteResults, SpecResults, FreshInv, VerdictInv, SpecOpen, ScenarioOpen, BeforeSpecHook, Ask, AskCounted, cursor, GetFailed
<1>4. VerdictInv'
  BY DEF Inv, TypeOK, SuiteResults, SpecResults, FreshInv, VerdictInv, SpecOpen, ScenarioOpen, BeforeSpecHook, Ask, AskCounted, cursor, GetFailed
<1> QED BY <1>1, <1>2, <1>3, <1>4 DEF Inv

LEMMA InitScenarioDataStoreInv ==
  ASSUME Inv, NEW reply \in Reply, InitScenarioDataStore(reply)
  PROVE  Inv'
<1>1. TypeOK'
  <2>1. info' \in InfoFlags
    BY FlagsType DEF Inv, TypeOK, InitScenarioDataStore
  <2>2. ran' \in SUBSET (Nat \X Nat)
    <3>1. <<row, sc>> \in Nat \X Nat
      BY DEF Inv, TypeOK
    <3>2. ran \in SUBSET (Nat \X Nat) /\ ran' = ran \cup {<<row, sc>>}
      BY DEF Inv, TypeOK, InitScenarioDataStore
    <3> QED BY <3>1, <3>2
  <2>3. /\ pc' \in Phase /\ link' \in {"open", "closed"}
        /\ scenarioFailed' \in BOOLEAN
    BY DEF Inv, TypeOK, Phase, InitScenarioDataStore, Ask
  <2>5. it' \in Nat \ {0}
    <3>1. it' = 1
      BY DEF InitScenarioDataStore
    <3> QED BY <3>1
  <2>4. UNCHANGED <<sp, row, sc, stepFailed, failures, specResult, suiteResult, reported>>
    BY DEF InitScenarioDataStore
  <2> QED BY <2>1, <2>2, <2>3, <2>4, <2>5 DEF Inv, TypeOK
<1>2. CursorInv'
  BY SuiteAt, AcceptedRange DEF Inv, TypeOK, CursorInv, SpecOpen, RowsOpen, ScenarioOpen,
    InitScenarioDataStore, cursor, IsTableDriven, Rows
<1>3. FreshInv'
  BY DEF Inv, TypeOK, SuiteResults, SpecResults, FreshInv, VerdictInv, SpecOpen, ScenarioOpen, InitScenarioDataStore, Ask, AskCounted, cursor, GetFailed
<1>4. VerdictInv'
  BY DEF Inv, TypeOK, SuiteResults, SpecResults, FreshInv, VerdictInv, SpecOpen, ScenarioOpen, InitScenarioDataStore, Ask, AskCounted, cursor, GetFailed
<1> QED BY <1>1, <1>2, <1>3, <1>4 DEF Inv

LEMMA BeforeScenarioHookInv ==
  ASSUME Inv, NEW reply \in Reply, BeforeScenarioHook(reply)
  PROVE  Inv'
<1>1. TypeOK'
  BY SuiteAt DEF Inv, TypeOK, InfoFlags, SuiteResults, Phase, BeforeScenarioHook, Ask, AskCounted, cursor, GetFailed
<1>2. CursorInv'
  BY SuiteAt, AcceptedRange DEF Inv, TypeOK, CursorInv, SpecOpen, RowsOpen, ScenarioOpen,
    BeforeScenarioHook, cursor, IsTableDriven, Rows
<1>3. FreshInv'
  BY DEF Inv, TypeOK, SuiteResults, SpecResults, FreshInv, VerdictInv, SpecOpen, ScenarioOpen, BeforeScenarioHook, Ask, AskCounted, cursor, GetFailed
<1>4. VerdictInv'
  BY DEF Inv, TypeOK, SuiteResults, SpecResults, FreshInv, VerdictInv, SpecOpen, ScenarioOpen, BeforeScenarioHook, Ask, AskCounted, cursor, GetFailed
<1> QED BY <1>1, <1>2, <1>3, <1>4 DEF Inv

LEMMA BeforeStepHookInv ==
  ASSUME Inv, NEW reply \in Reply, BeforeStepHook(reply)
  PROVE  Inv'
<1>1. TypeOK'
  <2>1. info' \in InfoFlags
    BY FlagsType DEF Inv, TypeOK, BeforeStepHook
  <2> QED BY <2>1 DEF Inv, TypeOK, Phase, BeforeStepHook, Ask, AskCounted, cursor, GetFailed
<1>2. CursorInv'
  BY SuiteAt, AcceptedRange DEF Inv, TypeOK, CursorInv, SpecOpen, RowsOpen, ScenarioOpen,
    BeforeStepHook, cursor, IsTableDriven, Rows
<1>3. FreshInv'
  BY DEF Inv, TypeOK, SuiteResults, SpecResults, FreshInv, VerdictInv, SpecOpen, ScenarioOpen, BeforeStepHook, Ask, AskCounted, cursor, GetFailed
<1>4. VerdictInv'
  BY DEF Inv, TypeOK, SuiteResults, SpecResults, FreshInv, VerdictInv, SpecOpen, ScenarioOpen, BeforeStepHook, Ask, AskCounted, cursor, GetFailed
<1> QED BY <1>1, <1>2, <1>3, <1>4 DEF Inv

LEMMA ExecuteStepInv ==
  ASSUME Inv, NEW reply \in Reply, ExecuteStep(reply)
  PROVE  Inv'
<1>1. TypeOK'
  <2>1. info' \in InfoFlags
    BY FlagsType DEF Inv, TypeOK, ExecuteStep
  <2> QED BY <2>1 DEF Inv, TypeOK, Phase, ExecuteStep, Ask, AskCounted, cursor, GetFailed
<1>2. CursorInv'
  BY SuiteAt, AcceptedRange DEF Inv, TypeOK, CursorInv, SpecOpen, RowsOpen, ScenarioOpen,
    ExecuteStep, cursor, IsTableDriven, Rows
<1>3. FreshInv'
  BY DEF Inv, TypeOK, SuiteResults, SpecResults, FreshInv, VerdictInv, SpecOpen, ScenarioOpen, ExecuteStep, Ask, AskCounted, cursor, GetFailed
<1>4. VerdictInv'
  BY DEF Inv, TypeOK, SuiteResults, SpecResults, FreshInv, VerdictInv, SpecOpen, ScenarioOpen, ExecuteStep, Ask, AskCounted, cursor, GetFailed
<1> QED BY <1>1, <1>2, <1>3, <1>4 DEF Inv

LEMMA AfterStepHookInv ==
  ASSUME Inv, NEW reply \in Reply, AfterStepHook(reply)
  PROVE  Inv'
<1>1. TypeOK'
  <2>1. info' \in InfoFlags
    BY FlagsType DEF Inv, TypeOK, AfterStepHook
  <2>2. it' \in Nat \ {0}
    BY DEF Inv, TypeOK, AfterStepHook
  <2>3. scenarioFailed' \in BOOLEAN /\ stepFailed' \in BOOLEAN /\ reported' \in BOOLEAN
    BY DEF Inv, TypeOK, AfterStepHook, AskCounted, GetFailed
  <2>4. pc' \in Phase
    BY DEF AfterStepHook, Phase
  <2> QED BY <2>1, <2>2, <2>3, <2>4 DEF Inv, TypeOK, AfterStepHook, Ask, AskCounted
<1>2. CursorInv'
  BY SuiteAt, AcceptedRange DEF Inv, TypeOK, CursorInv, SpecOpen, RowsOpen, ScenarioOpen,
    AfterStepHook, cursor, IsTableDriven, Rows
<1>3. FreshInv'
  BY DEF Inv, TypeOK, SuiteResults, SpecResults, FreshInv, VerdictInv, SpecOpen, ScenarioOpen, AfterStepHook, Ask, AskCounted, cursor, GetFailed
<1>4. VerdictInv'
  BY DEF Inv, TypeOK, SuiteResults, SpecResults, FreshInv, VerdictInv, SpecOpen, ScenarioOpen, AfterStepHook, Ask, AskCounted, cursor, GetFailed
<1> QED BY <1>1, <1>2, <1>3, <1>4 DEF Inv

LEMMA AfterScenarioHookInv ==
  ASSUME Inv, NEW reply \in Reply, AfterScenarioHook(reply)
  PROVE  Inv'
<1> DEFINE rowIndex == IF IsTableDriven THEN row - Rows.start ELSE 0
           added == failures \cup {<<rowIndex, sc>>}
<1>0. rowIndex \in Nat
  <2>1. Suite[sp].rows \in Nat /\ RowsAccepted(Suite[sp].rows)
    BY SuiteAt DEF Inv, TypeOK, CursorInv, SpecOpen, AfterScenarioHook
  <2>2. Rows.start \in Nat /\ (IsTableDriven => row >= Rows.start)
    BY <2>1, AcceptedRange DEF Inv, CursorInv, Rows, RowsOpen, ScenarioOpen, AfterScenarioHook
  <2> QED BY <2>2 DEF Inv, TypeOK
<1>1. TypeOK'
  <2>1. row' \in Nat /\ sc' \in Nat \ {0}
    BY DEF Inv, TypeOK, AfterScenarioHook, NextRow
  <2>2. failures' \in SUBSET (Nat \X Nat)
    BY <1>0 DEF Inv, TypeOK, AfterScenarioHook
  <2>3. specResult' \in SpecResults
    BY <2>2, AddScenarioResultsType DEF Inv, TypeOK, AfterScenarioHook
  <2>4. scenarioFailed' \in BOOLEAN /\ reported' \in BOOLEAN
    BY DEF Inv, TypeOK, AfterScenarioHook, AskCounted, GetFailed
  <2>5. pc' \in Phase
    BY DEF AfterScenarioHook, Phase
  <2> QED BY <2>1, <2>2, <2>3, <2>4, <2>5 DEF Inv, TypeOK, AfterScenarioHook, Ask, AskCounted
<1>2. CursorInv'
  <2>1. SpecOpen /\ RowsOpen
    BY DEF AfterScenarioHook, SpecOpen, RowsOpen, ScenarioOpen
  <2>2. RowsAccepted(Suite[sp].rows) /\ Suite[sp].rows \in Nat
    BY <2>1, SuiteAt DEF Inv, TypeOK, CursorInv
  <2>3. row' >= row
    BY DEF Inv, TypeOK, AfterScenarioHook, NextRow
  <2>4. Rows.start \in Nat
    BY <2>2, AcceptedRange DEF Rows
  <2>5. IsTableDriven => row' >= Rows.start
    BY <2>1, <2>3, <2>4 DEF Inv, TypeOK, CursorInv, AfterScenarioHook, NextRow
  <2> QED BY <2>2, <2>5 DEF AfterScenarioHook, CursorInv, IsTableDriven, Rows
<1>3. FreshInv'
  <2>1. CASE pc' = "SpecAfter"
    <3>1. /\ failures' \in SUBSET (Nat \X Nat)
          /\ specResult' = AddScenarioResults(specResult, failures')
      BY <1>1, <2>1 DEF TypeOK, AfterScenarioHook
    <3>2. specResult'.isFailed = (specResult.isFailed \/ failures' # {})
      BY <3>1, AddScenarioResultsType DEF Inv, TypeOK
    <3> QED BY <2>1, <3>2 DEF FreshInv
  <2>2. CASE pc' = "ScenarioInit"
    BY <2>2 DEF FreshInv
  <2> QED BY <2>1, <2>2 DEF AfterScenarioHook
<1>4. VerdictInv'
  <2> DEFINE failed == scenarioFailed \/ GetFailed(reply)
  <2>1. reported' <=> \/ suiteResult.isFailed
                      \/ specResult.isFailed \/ failures # {}
                      \/ failed
    BY DEF Inv, TypeOK, VerdictInv, SpecOpen, ScenarioOpen, AfterScenarioHook, AskCounted, GetFailed
  <2>2. failures' # {} <=> failures # {} \/ failed
    BY DEF Inv, TypeOK, AfterScenarioHook, GetFailed
  <2>3. specResult'.isFailed \/ failures' # {} <=> specResult.isFailed \/ failures' # {}
    <3>1. CASE pc' = "SpecAfter"
      <4>1. /\ failures' \in SUBSET (Nat \X Nat)
            /\ specResult' = AddScenarioResults(specResult, failures')
        BY <1>1, <3>1 DEF TypeOK, AfterScenarioHook
      <4> QED BY <4>1, AddScenarioResultsType DEF Inv, TypeOK
    <3>2. CASE pc' = "ScenarioInit"
      BY <3>2 DEF AfterScenarioHook
    <3> QED BY <3>1, <3>2 DEF AfterScenarioHook
  <2>4. suiteResult' = suiteResult /\ pc' \in {"SpecAfter", "ScenarioInit"}
    BY DEF AfterScenarioHook
  <2> QED BY <2>1, <2>2, <2>3, <2>4 DEF VerdictInv, SpecOpen, ScenarioOpen
<1> QED BY <1>1, <1>2, <1>3, <1>4 DEF Inv

LEMMA AfterSpecHookInv ==
  ASSUME Inv, NEW reply \in Reply, AfterSpecHook(reply)
  PROVE  Inv'
<1> DEFINE result == [specResult EXCEPT !.isFailed = @ \/ GetFailed(reply)]
<1>0. /\ result \in SpecResults
      /\ result.isFailed = (specResult.isFailed \/ GetFailed(reply))
      /\ specResult' = result
      /\ suiteResult' = AddSpecResult(suiteResult, result)
      /\ suiteResult' \in SuiteResults
      /\ suiteResult'.isFailed = (suiteResult.isFailed \/ result.isFailed)
  <2>1. result \in SpecResults /\ result.isFailed = (specResult.isFailed \/ GetFailed(reply))
    BY DEF Inv, TypeOK, SpecResults, GetFailed
  <2> QED BY <2>1, AddSpecResultType DEF Inv, TypeOK, AfterSpecHook
<1>1. TypeOK'
  <2>1. info' \in InfoFlags
    BY FlagsType DEF Inv, TypeOK, AfterSpecHook, IsLastSpec, GetFailed, InfoFlags
  <2>2. sp' \in DOMAIN Suite
    BY SuiteAssumption DEF Inv, TypeOK, AfterSpecHook, IsLastSpec
  <2>3. reported' \in BOOLEAN
    BY DEF Inv, TypeOK, AfterSpecHook, IsLastSpec, AskCounted, GetFailed
  <2> QED BY <1>0, <2>1, <2>2, <2>3 DEF Inv, TypeOK, Phase, AfterSpecHook, IsLastSpec, Ask, AskCounted
<1>2. CursorInv'
  BY SuiteAt, AcceptedRange DEF Inv, TypeOK, CursorInv, SpecOpen, RowsOpen, ScenarioOpen,
    AfterSpecHook, cursor, IsTableDriven, Rows
<1>3. FreshInv'
  <2>1. reported' <=> suiteResult'.isFailed
    BY <1>0 DEF Inv, TypeOK, FreshInv, VerdictInv, SpecOpen, ScenarioOpen, AfterSpecHook,
      AskCounted, GetFailed
  <2>2. pc' \in {"SpecInit", "SuiteAfter"}
    BY DEF AfterSpecHook
  <2> QED BY <2>1, <2>2 DEF FreshInv
<1>4. VerdictInv'
  <2>1. reported' <=> suiteResult'.isFailed
    BY <1>0 DEF Inv, TypeOK, FreshInv, VerdictInv, SpecOpen, ScenarioOpen, AfterSpecHook,
      AskCounted, GetFailed
  <2>2. pc' \in {"SpecInit", "SuiteAfter"}
    BY DEF AfterSpecHook
  <2> QED BY <2>1, <2>2 DEF VerdictInv, SpecOpen, ScenarioOpen
<1> QED BY <1>1, <1>2, <1>3, <1>4 DEF Inv

LEMMA AfterSuiteHookInv ==
  ASSUME Inv, NEW reply \in Reply, AfterSuiteHook(reply)
  PROVE  Inv'
<1>1. TypeOK'
  BY SuiteAt DEF Inv, TypeOK, InfoFlags, SuiteResults, Phase, AfterSuiteHook, Ask, AskCounted, cursor, GetFailed
<1>2. CursorInv'
  BY SuiteAt, AcceptedRange DEF Inv, TypeOK, CursorInv, SpecOpen, RowsOpen, ScenarioOpen,
    AfterSuiteHook, cursor, IsTableDriven, Rows
<1>3. FreshInv'
  BY DEF Inv, TypeOK, SuiteResults, SpecResults, FreshInv, VerdictInv, SpecOpen, ScenarioOpen, AfterSuiteHook, Ask, AskCounted, cursor, GetFailed
<1>4. VerdictInv'
  BY DEF Inv, TypeOK, SuiteResults, SpecResults, FreshInv, VerdictInv, SpecOpen, ScenarioOpen, AfterSuiteHook, Ask, AskCounted, cursor, GetFailed
<1> QED BY <1>1, <1>2, <1>3, <1>4 DEF Inv

LEMMA RejectTableRowsInv ==
  ASSUME Inv, RejectTableRows
  PROVE  Inv'
<1>1. TypeOK'
  BY DEF Inv, TypeOK, Phase, RejectTableRows, cursor
<1>2. CursorInv' /\ FreshInv' /\ VerdictInv'
  BY DEF Inv, CursorInv, FreshInv, VerdictInv, SpecOpen, RowsOpen, ScenarioOpen,
    RejectTableRows, cursor
<1> QED BY <1>1, <1>2 DEF Inv

LEMMA StutterInv ==
  ASSUME Inv, UNCHANGED vars
  PROVE  Inv'
BY DEF Inv, vars, TypeOK, CursorInv, FreshInv, VerdictInv, SpecOpen, RowsOpen,
  ScenarioOpen, RowsAccepted, Rows, SelectedRows, IsTableDriven

LEMMA NextInv == Inv /\ [Next]_vars => Inv'
<1> SUFFICES ASSUME Inv, [Next]_vars PROVE Inv'
  OBVIOUS
<1>1. CASE UNCHANGED vars
  BY <1>1, StutterInv
<1>2. CASE RejectTableRows
  BY <1>2, RejectTableRowsInv
<1>3. CASE \E reply \in Reply : Exchange(reply)
  <2>1. PICK reply \in Reply : Exchange(reply)
    BY <1>3
  <2> QED BY <2>1, InitSuiteDataStoreInv, BeforeSuiteHookInv, InitSpecDataStoreInv,
       BeforeSpecHookInv, InitScenarioDataStoreInv, BeforeScenarioHookInv,
       BeforeStepHookInv, ExecuteStepInv, AfterStepHookInv, AfterScenarioHookInv,
       AfterSpecHookInv, AfterSuiteHookInv DEF Exchange
<1> QED BY <1>1, <1>2, <1>3 DEF Next

LEMMA Invariance == Spec => []Inv
BY InitInv, NextInv, PTL DEF Spec

\* The state keeps its types, for every suite: in particular the cursor stays
\* inside the suite and no row index below the table is ever looked up.
THEOREM TypeCorrect == Spec => []TypeOK
<1>1. Inv => TypeOK
  BY DEF Inv
<1> QED BY <1>1, Invariance, PTL

\* The exit verdict is the truth about what the runner answered, for every suite,
\* every --table-rows and every sequence of answers.
THEOREM VerdictSound == Spec => []SuiteVerdict
<1>1. Inv => SuiteVerdict
  BY DEF Inv, VerdictInv, SuiteVerdict, SpecOpen, ScenarioOpen
<1> QED BY <1>1, Invariance, PTL

\* One more recorded specification adds to the count exactly when it is failed.
LEMMA AddSpecResultCounts ==
  ASSUME NEW suite \in SuiteResults, NEW res \in SpecResults,
         suite.specsFailedCount = Cardinality(FailedOf(suite.specResults))
  PROVE  AddSpecResult(suite, res).specsFailedCount
           = Cardinality(FailedOf(AddSpecResult(suite, res).specResults))
<1> DEFINE before == suite.specResults
           after  == Append(before, res)
           n == Len(before)
<1>1. /\ before \in Seq(SpecResults) /\ n \in Nat /\ DOMAIN before = 1..n
      /\ Len(after) = n + 1 /\ DOMAIN after = 1..(n + 1)
      /\ \A i \in 1..n : after[i] = before[i]
      /\ after[n + 1] = res
  BY DEF SuiteResults
<1>2. FailedOf(after) = FailedOf(before) \cup (IF res.isFailed THEN {n + 1} ELSE {})
  BY <1>1 DEF FailedOf
<1>3. IsFiniteSet(FailedOf(before)) /\ n + 1 \notin FailedOf(before)
  <2>1. FailedOf(before) \subseteq 1..n
    BY <1>1 DEF FailedOf
  <2>2. IsFiniteSet(1..n)
    BY <1>1, FS_Interval
  <2>3. n + 1 \notin 1..n
    BY <1>1
  <2> QED BY <2>1, <2>2, <2>3, FS_Subset
<1>4. Cardinality(FailedOf(after)) =
        Cardinality(FailedOf(before)) + IF res.isFailed THEN 1 ELSE 0
  <2>1. CASE res.isFailed
    <3>1. FailedOf(after) = FailedOf(before) \cup {n + 1}
      BY <1>2, <2>1
    <3>2. Cardinality(FailedOf(after)) = Cardinality(FailedOf(before)) + 1
      BY <1>3, <3>1, FS_AddElement
    <3> QED BY <2>1, <3>2
  <2>2. CASE ~res.isFailed
    <3>1. FailedOf(after) = FailedOf(before)
      BY <1>2, <2>2
    <3>2. Cardinality(FailedOf(before)) \in Nat
      BY <1>3, FS_CardinalityType
    <3> QED BY <2>2, <3>1, <3>2
  <2> QED BY <2>1, <2>2
<1> QED BY <1>4 DEF AddSpecResult

LEMMA FailedSpecsStep ==
  ASSUME Inv, FailedSpecsCounted, [Next]_vars
  PROVE  FailedSpecsCounted'
<1>1. CASE /\ suiteResult'.specsFailedCount = suiteResult.specsFailedCount
           /\ suiteResult'.specResults = suiteResult.specResults
           /\ suiteResult.isFailed => suiteResult'.isFailed
  BY <1>1 DEF FailedSpecsCounted, FailedOf
<1>2. ASSUME NEW reply \in Reply, AfterSpecHook(reply)
      PROVE  FailedSpecsCounted'
  <2> DEFINE result == [specResult EXCEPT !.isFailed = @ \/ GetFailed(reply)]
  <2>1. result \in SpecResults /\ suiteResult \in SuiteResults
    BY DEF Inv, TypeOK, SpecResults, GetFailed
  <2>2. suiteResult' = AddSpecResult(suiteResult, result)
    BY <1>2 DEF AfterSpecHook
  <2>3. suiteResult'.specsFailedCount = Cardinality(FailedOf(suiteResult'.specResults))
    BY <2>1, <2>2, AddSpecResultCounts DEF FailedSpecsCounted
  <2>4. suiteResult'.specsFailedCount > 0 => suiteResult'.isFailed
    BY <2>1, <2>2 DEF AddSpecResult, FailedSpecsCounted, SuiteResults, SpecResults
  <2> QED BY <2>3, <2>4 DEF FailedSpecsCounted
<1>3. CASE UNCHANGED vars
  BY <1>1, <1>3 DEF vars
<1>4. CASE RejectTableRows
  BY <1>1, <1>4 DEF RejectTableRows
<1>5. ASSUME NEW reply \in Reply, Exchange(reply), ~AfterSpecHook(reply)
      PROVE  FailedSpecsCounted'
  <2>1. CASE BeforeSuiteHook(reply) \/ AfterSuiteHook(reply)
    BY <1>1, <2>1 DEF BeforeSuiteHook, AfterSuiteHook, Inv, TypeOK, FreshInv, SuiteResults
  <2>2. CASE suiteResult' = suiteResult
    BY <1>1, <2>2
  <2> QED BY <1>5, <2>1, <2>2 DEF Exchange, InitSuiteDataStore, InitSpecDataStore,
       BeforeSpecHook, InitScenarioDataStore, BeforeScenarioHook, BeforeStepHook,
       ExecuteStep, AfterStepHook, AfterScenarioHook
<1> QED BY <1>2, <1>3, <1>4, <1>5 DEF Next

\* The number of failed specifications the summary prints is right for every suite.
THEOREM FailedSpecsCountSound == Spec => []FailedSpecsCounted
<1>1. Init => FailedSpecsCounted
  <2>1. FailedOf(<<>>) = {}
    BY DEF FailedOf
  <2>2. Cardinality(FailedOf(<<>>)) = 0
    BY <2>1, FS_EmptySet
  <2> QED BY <2>2 DEF Init, FailedSpecsCounted
<1>2. Inv /\ FailedSpecsCounted /\ [Next]_vars => FailedSpecsCounted'
  BY FailedSpecsStep
<1> QED BY <1>1, <1>2, Invariance, PTL DEF Spec

\* A step of the executor whose runner is gone: the exchange is lost, whatever it asks.
LEMMA LostRunnerStep ==
  ASSUME Inv, Next, link = "closed"
  PROVE  /\ suiteResult'.specResults # suiteResult.specResults
              => suiteResult'.specResults[Len(suiteResult'.specResults)].isFailed
         /\ pc' = "Done" => suiteResult'.isFailed
<1> DEFINE Fails == /\ suiteResult'.specResults # suiteResult.specResults
                         => suiteResult'.specResults[Len(suiteResult'.specResults)].isFailed
                    /\ pc' = "Done" => suiteResult'.isFailed
<1>1. CASE suiteResult'.specResults = suiteResult.specResults /\ pc' # "Done"
  BY <1>1
<1>3. CASE RejectTableRows
  BY <1>1, <1>3 DEF RejectTableRows
<1>4. ASSUME NEW reply \in Reply, Exchange(reply)
      PROVE  Fails
  <2>1. CASE AfterSpecHook(reply)
    <3> DEFINE result == [specResult EXCEPT !.isFailed = @ \/ GetFailed(reply)]
    <3>1. GetFailed(reply)
      BY <2>1 DEF AfterSpecHook, AskCounted, Ask, GetFailed
    <3>2. result \in SpecResults /\ suiteResult.specResults \in Seq(SpecResults)
      BY DEF Inv, TypeOK, SpecResults, SuiteResults, GetFailed
    <3>3. result.isFailed
      BY <3>1 DEF Inv, TypeOK, SpecResults
    <3>4. suiteResult'.specResults = Append(suiteResult.specResults, result)
      BY <2>1 DEF AfterSpecHook, AddSpecResult
    <3>5. suiteResult'.specResults[Len(suiteResult'.specResults)] = result
      BY <3>2, <3>4
    <3>6. pc' # "Done"
      BY <2>1 DEF AfterSpecHook
    <3> QED BY <3>3, <3>5, <3>6
  <2>2. CASE AfterSuiteHook(reply)
    <3>1. GetFailed(reply)
      BY <2>2 DEF AfterSuiteHook, AskCounted, Ask, GetFailed
    <3>2. suiteResult' = [suiteResult EXCEPT !.isFailed = @ \/ GetFailed(reply)]
      BY <2>2 DEF AfterSuiteHook
    <3>3. suiteResult'.isFailed /\ suiteResult'.specResults = suiteResult.specResults
      BY <3>1, <3>2 DEF Inv, TypeOK, SuiteResults
    <3> QED BY <3>3
  <2>3. CASE BeforeSuiteHook(reply)
    BY <1>1, <2>3 DEF BeforeSuiteHook, Inv, TypeOK, SuiteResults
  <2>4. CASE suiteResult' = suiteResult /\ pc' # "Done"
    BY <1>1, <2>4
  <2> QED BY <1>4, <2>1, <2>2, <2>3, <2>4 DEF Exchange, InitSuiteDataStore, InitSpecDataStore,
       BeforeSpecHook, InitScenarioDataStore, BeforeScenarioHook, BeforeStepHook,
       ExecuteStep, AfterStepHook, AfterScenarioHook
<1> QED BY <1>3, <1>4 DEF Next

\* Whatever the suite, nothing passes once the runner is gone: no specification whose result
\* is recorded after that, and not the suite.
THEOREM LostRunnerSound == Spec => LostRunnerFails
<1>1. Inv /\ [Next]_vars
        => [link = "closed" =>
              /\ suiteResult'.specResults # suiteResult.specResults
                   => suiteResult'.specResults[Len(suiteResult'.specResults)].isFailed
              /\ pc' = "Done" => suiteResult'.isFailed]_vars
  BY LostRunnerStep
<1> QED BY <1>1, Invariance, PTL DEF Spec, LostRunnerFails
-----------------------------------------------------------------------------
(* Which scenarios have run for which rows.                                *)

FirstRow == IF IsTableDriven THEN Rows.start ELSE 0
LastRow == IF IsTableDriven THEN Rows.end ELSE 0

\* All scenarios for the rows from first to the one before r, and for row r the
\* first n scenarios.
BegunUpTo(first, r, count, n) ==
  ((first..(r - 1)) \X (1..count)) \cup ({r} \X (1..n))

\* Rows and scenarios are begun one after the other, and none is added up
\* before all are through.
RanInv ==
  /\ SpecOpen /\ pc # "SpecAfter" => specResult.scenarioCount = 0
  /\ pc = "SpecBefore" => ran = {}
  /\ RowsOpen => FirstRow <= row /\ row <= LastRow /\ sc <= Len(Scenarios)
  /\ pc = "ScenarioInit" => ran = BegunUpTo(FirstRow, row, Len(Scenarios), sc - 1)
  /\ ScenarioOpen => ran = BegunUpTo(FirstRow, row, Len(Scenarios), sc)
  /\ pc = "SpecAfter" /\ specResult.scenarioCount > 0
       => ran = (FirstRow..LastRow) \X (1..Len(Scenarios))

\* executeScenario begins one scenario more.
LEMMA BeginOne ==
  ASSUME NEW first \in Int, NEW r \in Int, NEW count \in Nat, NEW n \in Nat \ {0}
  PROVE  BegunUpTo(first, r, count, n - 1) \cup {<<r, n>>} = BegunUpTo(first, r, count, n)
<1>1. ({r} \X (1..(n - 1))) \cup {<<r, n>>} = {r} \X (1..n)
  <2>1. 1..n = (1..(n - 1)) \cup {n}
    OBVIOUS
  <2> QED BY <2>1
<1> QED BY <1>1 DEF BegunUpTo

\* A row whose scenarios have all run is one of those that are through.
LEMMA RowThrough ==
  ASSUME NEW first \in Int, NEW r \in Int, NEW count \in Nat, first <= r
  PROVE  BegunUpTo(first, r, count, count) = (first..r) \X (1..count)
<1> DEFINE Before == first..(r - 1)
           All == 1..count
<1>1. first..r = Before \cup {r}
  OBVIOUS
<1> HIDE DEF Before, All
<1>2. (Before \cup {r}) \X All = (Before \X All) \cup ({r} \X All)
  OBVIOUS
<1> QED BY <1>1, <1>2 DEF BegunUpTo, Before, All

\* A row of which no scenario has run adds nothing to those before it.
LEMMA RowAhead ==
  ASSUME NEW first \in Int, NEW r \in Int, NEW count \in Nat
  PROVE  BegunUpTo(first, r, count, 0) = (first..(r - 1)) \X (1..count)
<1>1. 1..0 = {}
  OBVIOUS
<1>2. {r} \X {} = {}
  OBVIOUS
<1> QED BY <1>1, <1>2 DEF BegunUpTo

\* The rows under the cursor: none is skipped, and they are those of the table.
LEMMA RowsAt ==
  ASSUME Inv, SpecOpen
  PROVE  /\ FirstRow \in Nat /\ LastRow \in Nat /\ FirstRow <= LastRow
         /\ Len(Scenarios) \in Nat
         /\ IsTableDriven => LastRow < Suite[sp].rows
<1>1. Suite[sp].rows \in Nat /\ Len(Scenarios) \in Nat /\ RowsAccepted(Suite[sp].rows)
  BY SuiteAt DEF Inv, TypeOK, CursorInv, Scenarios
<1>2. CASE ~IsTableDriven
  BY <1>1, <1>2 DEF FirstRow, LastRow
<1>3. CASE IsTableDriven /\ TableRows = <<>>
  BY <1>1, <1>3 DEF FirstRow, LastRow, Rows, SelectedRows, IsTableDriven
<1>4. CASE IsTableDriven /\ TableRows # <<>>
  <2>1. Len(TableRows) \in {1, 2}
    BY <1>1, <1>4 DEF RowsAccepted
  <2>2. TableRows[1] \in Int /\ TableRows[Len(TableRows)] \in Int
    BY <2>1, TableRowsAssumption
  <2> QED BY <1>1, <1>4, <2>2 DEF FirstRow, LastRow, Rows, SelectedRows, RowsAccepted
<1> QED BY <1>1, <1>2, <1>3, <1>4

\* The scenario hook that ends a row or the specification.
LEMMA AfterScenarioRan ==
  ASSUME Inv, RanInv, NEW reply \in Reply, AfterScenarioHook(reply)
  PROVE  RanInv'
<1>1. /\ pc = "ScenarioAfter" /\ SpecOpen /\ RowsOpen /\ ScenarioOpen
      /\ sp' = sp /\ ran' = ran
  BY DEF AfterScenarioHook, SpecOpen, RowsOpen, ScenarioOpen
<1>2. /\ FirstRow \in Nat /\ LastRow \in Nat /\ FirstRow <= LastRow
      /\ Len(Scenarios) \in Nat
      /\ row \in Nat /\ sc \in Nat \ {0}
      /\ FirstRow <= row /\ row <= LastRow /\ sc <= Len(Scenarios)
      /\ ran = BegunUpTo(FirstRow, row, Len(Scenarios), sc)
  BY <1>1, RowsAt DEF Inv, TypeOK, RanInv
<1>3. /\ FirstRow' = FirstRow /\ LastRow' = LastRow /\ Scenarios' = Scenarios
      /\ IsTableDriven' = IsTableDriven
  BY <1>1 DEF FirstRow, LastRow, Scenarios, IsTableDriven, Rows
<1>4. IsLastRow <=> row = LastRow
  BY <1>2 DEF IsLastRow, FirstRow, LastRow
<1>5. CASE sc < Len(Scenarios)
  <2>1. sc' = sc + 1 /\ row' = row /\ pc' = "ScenarioInit" /\ specResult' = specResult
    BY <1>2, <1>5 DEF AfterScenarioHook
  <2>2. sc' <= Len(Scenarios) /\ sc' - 1 = sc
    BY <1>2, <1>5, <2>1
  <2> QED BY <1>1, <1>2, <1>3, <2>1, <2>2 DEF RanInv, SpecOpen, RowsOpen, ScenarioOpen
<1>6. CASE sc = Len(Scenarios) /\ row # LastRow
  <2>1. sc' = 1 /\ row' = row + 1 /\ pc' = "ScenarioInit" /\ specResult' = specResult
    BY <1>2, <1>4, <1>6 DEF AfterScenarioHook, NextRow
  <2>2. row' <= LastRow /\ FirstRow <= row' /\ sc' <= Len(Scenarios) /\ sc' - 1 = 0
    BY <1>2, <1>6, <2>1
  <2>3. ran = BegunUpTo(FirstRow, row', Len(Scenarios), 0)
    <3>1. ran = (FirstRow..row) \X (1..Len(Scenarios))
      BY <1>2, <1>6, RowThrough
    <3>2. BegunUpTo(FirstRow, row', Len(Scenarios), 0)
            = (FirstRow..(row' - 1)) \X (1..Len(Scenarios))
      BY <1>2, <2>1, RowAhead
    <3>3. row' - 1 = row
      BY <1>2, <2>1
    <3> QED BY <3>1, <3>2, <3>3
  <2> QED BY <1>1, <1>2, <1>3, <2>1, <2>2, <2>3 DEF RanInv, SpecOpen, RowsOpen, ScenarioOpen
<1>7. CASE sc = Len(Scenarios) /\ row = LastRow
  <2>1. pc' = "SpecAfter"
    BY <1>2, <1>4, <1>7 DEF AfterScenarioHook
  <2>2. ran = (FirstRow..LastRow) \X (1..Len(Scenarios))
    BY <1>2, <1>7, RowThrough
  <2> QED BY <1>1, <1>3, <2>1, <2>2 DEF RanInv, SpecOpen, RowsOpen, ScenarioOpen
<1> QED BY <1>2, <1>5, <1>6, <1>7

\* The first row and the first scenario, when there is a scenario at all.
LEMMA BeforeSpecRan ==
  ASSUME Inv, RanInv, NEW reply \in Reply, BeforeSpecHook(reply)
  PROVE  RanInv'
<1>1. /\ pc = "SpecBefore" /\ SpecOpen /\ sp' = sp /\ ran' = {} /\ ran = {}
      /\ sc' = 1 /\ row' = FirstRow
      /\ pc' \in {"SpecAfter", "ScenarioInit"}
      /\ specResult.scenarioCount = 0
  BY DEF BeforeSpecHook, SpecOpen, RanInv, FirstRow
<1>2. specResult'.scenarioCount = 0
  BY <1>1 DEF BeforeSpecHook, Inv, TypeOK, SpecResults
<1>3. /\ FirstRow \in Nat /\ LastRow \in Nat /\ FirstRow <= LastRow
      /\ Scenarios \in Seq(Nat)
  BY <1>1, RowsAt, SuiteAt DEF Inv, TypeOK, Scenarios
<1>4. FirstRow' = FirstRow /\ LastRow' = LastRow /\ Scenarios' = Scenarios
  BY <1>1 DEF FirstRow, LastRow, Scenarios, IsTableDriven, Rows
<1>5. CASE pc' = "ScenarioInit"
  <2>1. Scenarios # <<>>
    BY <1>5 DEF BeforeSpecHook
  <2>2. Len(Scenarios) \in Nat /\ 1 <= Len(Scenarios)
    BY <1>3, <2>1
  <2>3. {} = BegunUpTo(FirstRow, FirstRow, Len(Scenarios), 0)
    <3>1. FirstRow..(FirstRow - 1) = {} /\ 1..0 = {}
      BY <1>3
    <3> QED BY <3>1 DEF BegunUpTo
  <2> QED BY <1>1, <1>2, <1>3, <1>4, <1>5, <2>2, <2>3 DEF RanInv, SpecOpen, RowsOpen, ScenarioOpen
<1>6. CASE pc' = "SpecAfter"
  BY <1>2, <1>6 DEF RanInv, RowsOpen, ScenarioOpen, SpecOpen
<1> QED BY <1>1, <1>5, <1>6

\* The next scenario begins.
LEMMA InitScenarioRan ==
  ASSUME Inv, RanInv, NEW reply \in Reply, InitScenarioDataStore(reply)
  PROVE  RanInv'
<1>1. /\ pc = "ScenarioInit" /\ SpecOpen /\ RowsOpen /\ pc' = "ScenarioBefore"
      /\ sp' = sp /\ row' = row /\ sc' = sc /\ specResult' = specResult
      /\ ran' = ran \cup {<<row, sc>>}
  BY DEF InitScenarioDataStore, SpecOpen, RowsOpen
<1>2. /\ FirstRow \in Nat /\ Len(Scenarios) \in Nat /\ row \in Nat /\ sc \in Nat \ {0}
      /\ ran = BegunUpTo(FirstRow, row, Len(Scenarios), sc - 1)
  BY <1>1, RowsAt DEF Inv, TypeOK, RanInv
<1>3. ran' = BegunUpTo(FirstRow, row, Len(Scenarios), sc)
  BY <1>1, <1>2, BeginOne
<1>4. FirstRow' = FirstRow /\ LastRow' = LastRow /\ Scenarios' = Scenarios
  BY <1>1 DEF FirstRow, LastRow, Scenarios, IsTableDriven, Rows
<1> QED BY <1>1, <1>3, <1>4 DEF RanInv, SpecOpen, RowsOpen, ScenarioOpen

\* The exchanges below a scenario leave the cursor's row and scenario alone.
LEMMA ScenarioRan ==
  ASSUME RanInv, ScenarioOpen, ScenarioOpen', UNCHANGED <<sp, row, sc, specResult, ran>>
  PROVE  RanInv'
<1>1. FirstRow' = FirstRow /\ LastRow' = LastRow /\ Scenarios' = Scenarios
  BY DEF FirstRow, LastRow, Scenarios, IsTableDriven, Rows
<1> QED BY <1>1 DEF RanInv, SpecOpen, RowsOpen, ScenarioOpen

\* One case per action.
LEMMA RanStep == Inv /\ RanInv /\ [Next]_vars => RanInv'
<1> SUFFICES ASSUME Inv, RanInv, [Next]_vars PROVE RanInv'
  OBVIOUS
<1>1. CASE UNCHANGED vars
  BY <1>1 DEF vars, cursor, RanInv, SpecOpen, RowsOpen, ScenarioOpen, FirstRow, LastRow,
              Scenarios, IsTableDriven, Rows
<1>2. CASE ~SpecOpen'
  BY <1>2 DEF RanInv, SpecOpen, RowsOpen, ScenarioOpen
<1>3. CASE RejectTableRows
  BY <1>2, <1>3 DEF RejectTableRows, SpecOpen
<1>4. ASSUME NEW reply \in Reply, Exchange(reply)
      PROVE  RanInv'
  <2>1. CASE InitSpecDataStore(reply)
    BY <2>1 DEF InitSpecDataStore, NewSpecResult, RanInv, SpecOpen, RowsOpen, ScenarioOpen
  <2>2. CASE BeforeScenarioHook(reply)
    BY <2>2, ScenarioRan DEF BeforeScenarioHook, ScenarioOpen, cursor
  <2>3. CASE BeforeStepHook(reply)
    BY <2>3, ScenarioRan DEF BeforeStepHook, ScenarioOpen, cursor
  <2>4. CASE ExecuteStep(reply)
    BY <2>4, ScenarioRan DEF ExecuteStep, ScenarioOpen, cursor
  <2>5. CASE AfterStepHook(reply)
    BY <2>5, ScenarioRan DEF AfterStepHook, ScenarioOpen
  <2>6. CASE InitSuiteDataStore(reply) \/ BeforeSuiteHook(reply) \/ AfterSpecHook(reply)
             \/ AfterSuiteHook(reply)
    BY <1>2, <2>6 DEF InitSuiteDataStore, BeforeSuiteHook, AfterSpecHook, AfterSuiteHook,
                      SpecOpen
  <2> QED BY <1>4, <2>1, <2>2, <2>3, <2>4, <2>5, <2>6, BeforeSpecRan, InitScenarioRan,
             AfterScenarioRan DEF Exchange
<1> QED BY <1>1, <1>3, <1>4 DEF Next

\* At the end of the scenarios that is what --table-rows asks for.
LEMMA RanSuffices == Inv /\ RanInv => SelectedRowsRun
<1> SUFFICES ASSUME Inv, RanInv, pc = "SpecAfter", specResult.scenarioCount > 0
             PROVE  SelectedRowsRun
  BY DEF SelectedRowsRun
<1>1. SpecOpen /\ ran = (FirstRow..LastRow) \X (1..Len(Scenarios))
  BY DEF RanInv, SpecOpen
<1>2. /\ FirstRow \in Nat /\ LastRow \in Nat
      /\ IsTableDriven => LastRow < Suite[sp].rows
      /\ Suite[sp].rows \in Nat /\ RowsAccepted(Suite[sp].rows)
  BY <1>1, RowsAt, SuiteAt DEF Inv, TypeOK, CursorInv
<1>3. CASE ~IsTableDriven
  <2>1. FirstRow..LastRow = {0}
    BY <1>3 DEF FirstRow, LastRow
  <2> QED BY <1>1, <1>3, <2>1 DEF SelectedRowsRun
<1>4. CASE IsTableDriven /\ TableRows = <<>>
  <2>1. FirstRow = 0 /\ LastRow = Suite[sp].rows - 1
    BY <1>4 DEF FirstRow, LastRow, Rows, SelectedRows
  <2> QED BY <1>1, <1>4, <2>1 DEF SelectedRowsRun
<1>5. CASE IsTableDriven /\ TableRows # <<>>
  <2> DEFINE from == TableRows[1]
             to == TableRows[Len(TableRows)]
  <2>1. Len(TableRows) \in {1, 2}
    BY <1>2, <1>5 DEF RowsAccepted
  <2>2. from \in Int /\ to \in Int
    BY <2>1, TableRowsAssumption
  <2>3. FirstRow = from - 1 /\ LastRow = to - 1
    BY <1>5 DEF FirstRow, LastRow, Rows, SelectedRows
  <2> HIDE DEF from, to
  <2>4. {n - 1 : n \in from..to} = (from - 1)..(to - 1)
    <3>1. ASSUME NEW m \in (from - 1)..(to - 1)
          PROVE  m \in {n - 1 : n \in from..to}
      <4>1. m + 1 \in from..to /\ m = (m + 1) - 1
        BY <2>2
      <4> QED BY <4>1
    <3>2. ASSUME NEW n \in from..to
          PROVE  n - 1 \in (from - 1)..(to - 1)
      BY <2>2
    <3> QED BY <3>1, <3>2
  <2>5. (from - 1)..(to - 1) \subseteq 0..(Suite[sp].rows - 1)
    BY <1>2, <1>5, <2>2, <2>3
  <2> QED BY <1>1, <1>5, <2>3, <2>4, <2>5 DEF SelectedRowsRun, from, to
<1> QED BY <1>3, <1>4, <1>5

\* For every suite and every --table-rows: when the scenarios of a specification are
\* through, each has run for every selected row, and for no other.
THEOREM RowsSound == Spec => []SelectedRowsRun
<1>1. Init => RanInv
  BY DEF Init, RanInv, SpecOpen, RowsOpen, ScenarioOpen
<1>2. Inv /\ RanInv /\ Inv' /\ [Next]_vars => RanInv'
  BY RanStep
<1> QED BY <1>1, <1>2, RanSuffices, Invariance, PTL DEF Spec

-----------------------------------------------------------------------------
(* The scopes: every exchange with the runner is the beginning of a scope, *)
(* the body of a step, the end of a scope, or (a data store request)       *)
(* nothing at the level of the scopes.                                     *)

\* f is the verdict that is a, b, c, d on the levels 1 to 4.
VerdictIs(f, a, b, c, d) ==
  /\ f \in [1..4 -> BOOLEAN]
  /\ (f[1] <=> a) /\ (f[2] <=> b) /\ (f[3] <=> c) /\ (f[4] <=> d)

LEMMA VerdictByLevel ==
  ASSUME NEW depth \in 0..4,
         NEW a \in BOOLEAN, NEW b \in BOOLEAN, NEW c \in BOOLEAN, NEW d \in BOOLEAN
  PROVE  VerdictIs([l \in 1..4 |-> l <= depth /\ <<a, b, c, d>>[l]],
                   depth >= 1 /\ a, depth >= 2 /\ b, depth >= 3 /\ c, depth >= 4 /\ d)
<1> DEFINE f == [l \in 1..4 |-> l <= depth /\ <<a, b, c, d>>[l]]
<1>1. \A l \in 1..4 : f[l] = (l <= depth /\ <<a, b, c, d>>[l])
  OBVIOUS
<1>2. f \in [1..4 -> BOOLEAN]
  OBVIOUS
<1>3. f[1] = (1 <= depth /\ a) /\ f[2] = (2 <= depth /\ b)
  BY <1>1
<1>4. f[3] = (3 <= depth /\ c) /\ f[4] = (4 <= depth /\ d)
  BY <1>1
<1> QED BY <1>2, <1>3, <1>4 DEF VerdictIs

LEMMA ScopeVerdictByLevel ==
  ASSUME TypeOK
  PROVE  VerdictIs(ScopeVerdict, ScopeDepth >= 1 /\ suiteResult.isFailed,
                   ScopeDepth >= 2 /\ (specResult.isFailed \/ failures # {}),
                   ScopeDepth >= 3 /\ scenarioFailed,
                   ScopeDepth >= 4 /\ stepFailed)
<1>1. ScopeDepth \in 0..4
  BY DEF TypeOK, Phase, ScopeDepth
<1>2. /\ suiteResult.isFailed \in BOOLEAN /\ scenarioFailed \in BOOLEAN
      /\ (specResult.isFailed \/ failures # {}) \in BOOLEAN /\ stepFailed \in BOOLEAN
  BY DEF TypeOK, SuiteResults, SpecResults
<1> DEFINE depth == ScopeDepth
<1> DEFINE suite == suiteResult.isFailed
<1> DEFINE spec == specResult.isFailed \/ failures # {}
<1>3. ScopeVerdict = [l \in 1..4 |-> l <= depth /\ <<suite, spec, scenarioFailed, stepFailed>>[l]]
  BY DEF ScopeVerdict, LevelVerdict
<1>4. depth \in 0..4 /\ suite \in BOOLEAN /\ spec \in BOOLEAN
  BY <1>1, <1>2
<1> HIDE DEF depth, suite, spec
<1>5. VerdictIs(ScopeVerdict, depth >= 1 /\ suite, depth >= 2 /\ spec,
                depth >= 3 /\ scenarioFailed, depth >= 4 /\ stepFailed)
  BY <1>2, <1>3, <1>4, VerdictByLevel
<1> QED BY <1>5 DEF depth, suite, spec

LEMMA ScopeVerdictByLevelPrimed ==
  ASSUME TypeOK'
  PROVE  VerdictIs(ScopeVerdict', ScopeDepth' >= 1 /\ suiteResult'.isFailed,
                   ScopeDepth' >= 2 /\ (specResult'.isFailed \/ failures' # {}),
                   ScopeDepth' >= 3 /\ scenarioFailed',
                   ScopeDepth' >= 4 /\ stepFailed')
<1>1. ScopeDepth' \in 0..4
  BY DEF TypeOK, Phase, ScopeDepth
<1>2. /\ suiteResult'.isFailed \in BOOLEAN /\ scenarioFailed' \in BOOLEAN
      /\ (specResult'.isFailed \/ failures' # {}) \in BOOLEAN /\ stepFailed' \in BOOLEAN
  BY DEF TypeOK, SuiteResults, SpecResults
<1> DEFINE depth == ScopeDepth'
<1> DEFINE suite == suiteResult'.isFailed
<1> DEFINE spec == specResult'.isFailed \/ failures' # {}
<1>3. ScopeVerdict' = [l \in 1..4 |-> l <= depth /\ <<suite, spec, scenarioFailed', stepFailed'>>[l]]
  BY DEF ScopeVerdict, LevelVerdict
<1>4. depth \in 0..4 /\ suite \in BOOLEAN /\ spec \in BOOLEAN
  BY <1>1, <1>2
<1> HIDE DEF depth, suite, spec
<1>5. VerdictIs(ScopeVerdict', depth >= 1 /\ suite, depth >= 2 /\ spec,
                depth >= 3 /\ scenarioFailed', depth >= 4 /\ stepFailed')
  BY <1>2, <1>3, <1>4, VerdictByLevel
<1> QED BY <1>5 DEF depth, suite, spec

\* Two verdicts that agree on every level are the same function.
LEMMA VerdictsEqual ==
  ASSUME NEW f \in [1..4 -> BOOLEAN], NEW g \in [1..4 -> BOOLEAN],
         f[1] <=> g[1], f[2] <=> g[2], f[3] <=> g[3], f[4] <=> g[4]
  PROVE  f = g
<1>1. \A l \in 1..4 : l = 1 \/ l = 2 \/ l = 3 \/ l = 4
  OBVIOUS
<1> QED BY <1>1

LEMMA ScopesInitial == Init => Scopes!ScopesInit
<1> SUFFICES ASSUME Init PROVE Scopes!ScopesInit
  OBVIOUS
<1>1. ScopeDepth = 0 /\ ScopeOutcome = "none" /\ ScopeGoesOn
  BY DEF Init, ScopeDepth, ScopeOutcome, ScopeGoesOn
<1>2. ScopeVerdict = [l \in 1..4 |-> FALSE]
  BY <1>1, \A l \in 1..4 : ~(l <= 0) DEF ScopeVerdict
<1> QED BY <1>1, <1>2 DEF Scopes!ScopesInit, Scopes!Level

LEMMA BeforeSuiteHookScopes ==
  ASSUME Inv, Inv', NEW reply \in Reply, BeforeSuiteHook(reply)
  PROVE  Scopes!Start(GetFailed(reply))
<1>1. ScopeDepth = 0 /\ ScopeOutcome = "none" /\ ScopeGoesOn
  BY DEF BeforeSuiteHook, ScopeDepth, ScopeOutcome, ScopeGoesOn
<1>2. /\ ScopeDepth' = 1 /\ ScopeOutcome' = "none" /\ (GetFailed(reply) => ~ScopeGoesOn')
      /\ ScopeGoesOn' \in BOOLEAN /\ GetFailed(reply) \in BOOLEAN
  BY DEF BeforeSuiteHook, ScopeDepth, ScopeOutcome, ScopeGoesOn, GetFailed
<1>3. ScopeVerdict' = [ScopeVerdict EXCEPT ![1] = GetFailed(reply)]
  <2>1. /\ VerdictIs(ScopeVerdict, FALSE, FALSE, FALSE, FALSE)
        /\ VerdictIs(ScopeVerdict', suiteResult'.isFailed, FALSE, FALSE, FALSE)
    BY <1>1, <1>2, ScopeVerdictByLevel, ScopeVerdictByLevelPrimed DEF Inv, VerdictIs
  <2>2. suiteResult'.isFailed = GetFailed(reply)
    BY DEF BeforeSuiteHook, Inv, TypeOK, FreshInv, SuiteResults, SpecResults, cursor, GetFailed
  <2> DEFINE opened == [ScopeVerdict EXCEPT ![1] = GetFailed(reply)]
  <2>3. opened \in [1..4 -> BOOLEAN]
    BY <2>1, <1>2 DEF VerdictIs
  <2>4. /\ (opened[1] <=> ScopeVerdict'[1]) /\ (opened[2] <=> ScopeVerdict'[2])
        /\ (opened[3] <=> ScopeVerdict'[3]) /\ (opened[4] <=> ScopeVerdict'[4])
    BY <2>1, <2>2, <1>2 DEF VerdictIs
  <2> QED BY <2>1, <2>3, <2>4, VerdictsEqual DEF VerdictIs
<1> QED BY <1>1, <1>2, <1>3 DEF Scopes!Start

LEMMA BeforeSpecHookScopes ==
  ASSUME Inv, Inv', NEW reply \in Reply, BeforeSpecHook(reply)
  PROVE  Scopes!Start(GetFailed(reply))
<1>1. ScopeDepth = 1 /\ ScopeOutcome = "none" /\ ScopeGoesOn
  BY DEF BeforeSpecHook, ScopeDepth, ScopeOutcome, ScopeGoesOn
<1>2. /\ ScopeDepth' = 2 /\ ScopeOutcome' = "none" /\ (GetFailed(reply) => ~ScopeGoesOn')
      /\ ScopeGoesOn' \in BOOLEAN /\ GetFailed(reply) \in BOOLEAN
  BY DEF BeforeSpecHook, ScopeDepth, ScopeOutcome, ScopeGoesOn, GetFailed
<1>3. ScopeVerdict' = [ScopeVerdict EXCEPT ![2] = GetFailed(reply)]
  <2>1. /\ VerdictIs(ScopeVerdict, suiteResult.isFailed, FALSE, FALSE, FALSE)
        /\ VerdictIs(ScopeVerdict', suiteResult'.isFailed, specResult'.isFailed \/ failures' # {}, FALSE, FALSE)
    BY <1>1, <1>2, ScopeVerdictByLevel, ScopeVerdictByLevelPrimed DEF Inv, VerdictIs
  <2>2. /\ suiteResult'.isFailed = suiteResult.isFailed
        /\ (specResult'.isFailed \/ failures' # {}) = GetFailed(reply)
    BY DEF BeforeSpecHook, Inv, TypeOK, FreshInv, SuiteResults, SpecResults, cursor, GetFailed
  <2> DEFINE opened == [ScopeVerdict EXCEPT ![2] = GetFailed(reply)]
  <2>3. opened \in [1..4 -> BOOLEAN]
    BY <2>1, <1>2 DEF VerdictIs
  <2>4. /\ (opened[1] <=> ScopeVerdict'[1]) /\ (opened[2] <=> ScopeVerdict'[2])
        /\ (opened[3] <=> ScopeVerdict'[3]) /\ (opened[4] <=> ScopeVerdict'[4])
    BY <2>1, <2>2, <1>2 DEF VerdictIs
  <2> QED BY <2>1, <2>3, <2>4, VerdictsEqual DEF VerdictIs
<1> QED BY <1>1, <1>2, <1>3 DEF Scopes!Start

LEMMA BeforeScenarioHookScopes ==
  ASSUME Inv, Inv', NEW reply \in Reply, BeforeScenarioHook(reply)
  PROVE  Scopes!Start(GetFailed(reply))
<1>1. ScopeDepth = 2 /\ ScopeOutcome = "none" /\ ScopeGoesOn
  BY DEF BeforeScenarioHook, ScopeDepth, ScopeOutcome, ScopeGoesOn
<1>2. /\ ScopeDepth' = 3 /\ ScopeOutcome' = "none" /\ (GetFailed(reply) => ~ScopeGoesOn')
      /\ ScopeGoesOn' \in BOOLEAN /\ GetFailed(reply) \in BOOLEAN
  BY DEF BeforeScenarioHook, ScopeDepth, ScopeOutcome, ScopeGoesOn, GetFailed
<1>3. ScopeVerdict' = [ScopeVerdict EXCEPT ![3] = GetFailed(reply)]
  <2>1. /\ VerdictIs(ScopeVerdict, suiteResult.isFailed, specResult.isFailed \/ failures # {}, FALSE, FALSE)
        /\ VerdictIs(ScopeVerdict', suiteResult'.isFailed, specResult'.isFailed \/ failures' # {}, scenarioFailed', FALSE)
    BY <1>1, <1>2, ScopeVerdictByLevel, ScopeVerdictByLevelPrimed DEF Inv, VerdictIs
  <2>2. /\ suiteResult'.isFailed = suiteResult.isFailed
        /\ (specResult'.isFailed \/ failures' # {}) = (specResult.isFailed \/ failures # {})
        /\ scenarioFailed' = GetFailed(reply)
    BY DEF BeforeScenarioHook, Inv, TypeOK, FreshInv, SuiteResults, SpecResults, cursor, GetFailed
  <2> DEFINE opened == [ScopeVerdict EXCEPT ![3] = GetFailed(reply)]
  <2>3. opened \in [1..4 -> BOOLEAN]
    BY <2>1, <1>2 DEF VerdictIs
  <2>4. /\ (opened[1] <=> ScopeVerdict'[1]) /\ (opened[2] <=> ScopeVerdict'[2])
        /\ (opened[3] <=> ScopeVerdict'[3]) /\ (opened[4] <=> ScopeVerdict'[4])
    BY <2>1, <2>2, <1>2 DEF VerdictIs
  <2> QED BY <2>1, <2>3, <2>4, VerdictsEqual DEF VerdictIs
<1> QED BY <1>1, <1>2, <1>3 DEF Scopes!Start

LEMMA BeforeStepHookScopes ==
  ASSUME Inv, Inv', NEW reply \in Reply, BeforeStepHook(reply)
  PROVE  Scopes!Start(GetFailed(reply))
<1>1. ScopeDepth = 3 /\ ScopeOutcome = "none" /\ ScopeGoesOn
  BY DEF BeforeStepHook, ScopeDepth, ScopeOutcome, ScopeGoesOn
<1>2. /\ ScopeDepth' = 4 /\ ScopeOutcome' = "none" /\ (GetFailed(reply) => ~ScopeGoesOn')
      /\ ScopeGoesOn' \in BOOLEAN /\ GetFailed(reply) \in BOOLEAN
  BY DEF BeforeStepHook, ScopeDepth, ScopeOutcome, ScopeGoesOn, GetFailed
<1>3. ScopeVerdict' = [ScopeVerdict EXCEPT ![4] = GetFailed(reply)]
  <2>1. /\ VerdictIs(ScopeVerdict, suiteResult.isFailed, specResult.isFailed \/ failures # {}, scenarioFailed, FALSE)
        /\ VerdictIs(ScopeVerdict', suiteResult'.isFailed, specResult'.isFailed \/ failures' # {}, scenarioFailed', stepFailed')
    BY <1>1, <1>2, ScopeVerdictByLevel, ScopeVerdictByLevelPrimed DEF Inv, VerdictIs
  <2>2. /\ suiteResult'.isFailed = suiteResult.isFailed
        /\ (specResult'.isFailed \/ failures' # {}) = (specResult.isFailed \/ failures # {})
        /\ scenarioFailed' = scenarioFailed
        /\ stepFailed' = GetFailed(reply)
    BY DEF BeforeStepHook, Inv, TypeOK, FreshInv, SuiteResults, SpecResults, cursor, GetFailed
  <2> DEFINE opened == [ScopeVerdict EXCEPT ![4] = GetFailed(reply)]
  <2>3. opened \in [1..4 -> BOOLEAN]
    BY <2>1, <1>2 DEF VerdictIs
  <2>4. /\ (opened[1] <=> ScopeVerdict'[1]) /\ (opened[2] <=> ScopeVerdict'[2])
        /\ (opened[3] <=> ScopeVerdict'[3]) /\ (opened[4] <=> ScopeVerdict'[4])
    BY <2>1, <2>2, <1>2 DEF VerdictIs
  <2> QED BY <2>1, <2>3, <2>4, VerdictsEqual DEF VerdictIs
<1> QED BY <1>1, <1>2, <1>3 DEF Scopes!Start

LEMMA ExecuteStepScopes ==
  ASSUME Inv, Inv', NEW reply \in Reply, ExecuteStep(reply)
  PROVE  Scopes!Execute(GetFailed(reply))
<1>1. ScopeDepth = 4 /\ ScopeOutcome = "none" /\ ScopeGoesOn
  BY DEF ExecuteStep, ScopeDepth, ScopeOutcome, ScopeGoesOn
<1>2. ScopeDepth' = 4 /\ ScopeOutcome' = "none" /\ ~ScopeGoesOn'
  BY DEF ExecuteStep, ScopeDepth, ScopeOutcome, ScopeGoesOn
<1>3. ScopeVerdict' = [ScopeVerdict EXCEPT ![4] = GetFailed(reply)]
  <2>1. /\ VerdictIs(ScopeVerdict, suiteResult.isFailed, specResult.isFailed \/ failures # {}, scenarioFailed, stepFailed)
        /\ VerdictIs(ScopeVerdict', suiteResult'.isFailed, specResult'.isFailed \/ failures' # {}, scenarioFailed', stepFailed')
    BY <1>1, <1>2, ScopeVerdictByLevel, ScopeVerdictByLevelPrimed DEF Inv, VerdictIs
  <2>2. /\ suiteResult'.isFailed = suiteResult.isFailed
        /\ (specResult'.isFailed \/ failures' # {}) = (specResult.isFailed \/ failures # {})
        /\ scenarioFailed' = scenarioFailed
        /\ stepFailed' = GetFailed(reply)
    BY DEF ExecuteStep, Inv, TypeOK, SuiteResults, SpecResults, cursor, GetFailed
  <2> DEFINE executed == [ScopeVerdict EXCEPT ![4] = GetFailed(reply)]
  <2>3. executed \in [1..4 -> BOOLEAN]
    BY <2>1 DEF VerdictIs, GetFailed
  <2>4. /\ (executed[1] <=> ScopeVerdict'[1]) /\ (executed[2] <=> ScopeVerdict'[2])
        /\ (executed[3] <=> ScopeVerdict'[3]) /\ (executed[4] <=> ScopeVerdict'[4])
    BY <2>1, <2>2 DEF VerdictIs, GetFailed
  <2> QED BY <2>1, <2>3, <2>4, VerdictsEqual DEF VerdictIs
<1> QED BY <1>1, <1>2, <1>3 DEF Scopes!Execute, ScopeGoesOn

LEMMA AfterStepHookScopes ==
  ASSUME Inv, Inv', NEW reply \in Reply, AfterStepHook(reply)
  PROVE  Scopes!End(GetFailed(reply))
<1>1. ScopeDepth = 4 /\ ScopeOutcome = "none" /\ ~ScopeGoesOn
  BY DEF AfterStepHook, ScopeDepth, ScopeOutcome, ScopeGoesOn
<1>2. /\ ScopeDepth' = 3 /\ ScopeOutcome' = "none" /\ (stepFailed \/ GetFailed(reply) => ~ScopeGoesOn')
      /\ ScopeGoesOn' \in BOOLEAN /\ GetFailed(reply) \in BOOLEAN
  BY DEF AfterStepHook, GetFailed, ScopeDepth, ScopeOutcome, ScopeGoesOn, StopsAtItem
<1>3. /\ VerdictIs(ScopeVerdict, suiteResult.isFailed, specResult.isFailed \/ failures # {}, scenarioFailed, stepFailed)
      /\ VerdictIs(ScopeVerdict', suiteResult'.isFailed, specResult'.isFailed \/ failures' # {}, scenarioFailed', FALSE)
  BY <1>1, <1>2, ScopeVerdictByLevel, ScopeVerdictByLevelPrimed DEF Inv, VerdictIs
<1>4. /\ suiteResult'.isFailed = suiteResult.isFailed
      /\ (specResult'.isFailed \/ failures' # {}) = (specResult.isFailed \/ failures # {})
      /\ scenarioFailed' = (scenarioFailed \/ stepFailed \/ GetFailed(reply))
  BY DEF AfterStepHook, Inv, TypeOK, SuiteResults, SpecResults, cursor, GetFailed
<1> DEFINE closed == [l \in 1..4 |-> IF l = 4 THEN FALSE
                                    ELSE IF l = 3 THEN ScopeVerdict[l] \/ ScopeVerdict[4] \/ GetFailed(reply)
                                    ELSE ScopeVerdict[l]]
<1>5. closed \in [1..4 -> BOOLEAN]
  BY <1>3 DEF VerdictIs, GetFailed
<1>6. /\ (closed[1] <=> ScopeVerdict'[1]) /\ (closed[2] <=> ScopeVerdict'[2])
      /\ (closed[3] <=> ScopeVerdict'[3]) /\ (closed[4] <=> ScopeVerdict'[4])
  BY <1>3, <1>4 DEF VerdictIs, GetFailed
<1>7. ScopeVerdict' = closed
  BY <1>3, <1>5, <1>6, VerdictsEqual DEF VerdictIs
<1> QED BY <1>1, <1>2, <1>3, <1>4, <1>7 DEF Scopes!End, Scopes!Level, VerdictIs

LEMMA AfterScenarioHookScopes ==
  ASSUME Inv, Inv', NEW reply \in Reply, AfterScenarioHook(reply)
  PROVE  Scopes!End(GetFailed(reply))
<1>1. ScopeDepth = 3 /\ ScopeOutcome = "none" /\ ~ScopeGoesOn
  BY DEF AfterScenarioHook, ScopeDepth, ScopeOutcome, ScopeGoesOn
<1>2. /\ ScopeDepth' = 2 /\ ScopeOutcome' = "none" /\ ScopeGoesOn' \in BOOLEAN
      /\ ScopeGoesOn' \in BOOLEAN /\ GetFailed(reply) \in BOOLEAN
  BY DEF AfterScenarioHook, GetFailed, ScopeDepth, ScopeOutcome, ScopeGoesOn, StopsAtItem
<1>3. /\ VerdictIs(ScopeVerdict, suiteResult.isFailed, specResult.isFailed \/ failures # {}, scenarioFailed, FALSE)
      /\ VerdictIs(ScopeVerdict', suiteResult'.isFailed, specResult'.isFailed \/ failures' # {}, FALSE, FALSE)
  BY <1>1, <1>2, ScopeVerdictByLevel, ScopeVerdictByLevelPrimed DEF Inv, VerdictIs
<1>4. /\ suiteResult'.isFailed = suiteResult.isFailed
      /\ (specResult'.isFailed \/ failures' # {}) = (specResult.isFailed \/ failures # {} \/ scenarioFailed \/ GetFailed(reply))
  <2>1. failures' # {} <=> failures # {} \/ scenarioFailed \/ GetFailed(reply)
    BY DEF Inv, TypeOK, AfterScenarioHook, GetFailed
  <2>2. CASE pc' = "SpecAfter"
    <3>1. failures' \in SUBSET (Nat \X Nat) /\ specResult' = AddScenarioResults(specResult, failures')
      BY <2>2 DEF Inv, TypeOK, AfterScenarioHook
    <3>2. specResult'.isFailed = (specResult.isFailed \/ failures' # {})
      BY <3>1, AddScenarioResultsType DEF Inv, TypeOK
    <3> QED BY <2>1, <3>2 DEF AfterScenarioHook
  <2>3. CASE pc' = "ScenarioInit"
    BY <2>1, <2>3 DEF AfterScenarioHook
  <2> QED BY <2>2, <2>3 DEF AfterScenarioHook
<1> DEFINE closed == [l \in 1..4 |-> IF l = 3 THEN FALSE
                                    ELSE IF l = 2 THEN ScopeVerdict[l] \/ ScopeVerdict[3] \/ GetFailed(reply)
                                    ELSE ScopeVerdict[l]]
<1>5. closed \in [1..4 -> BOOLEAN]
  BY <1>3 DEF VerdictIs, GetFailed
<1>6. /\ (closed[1] <=> ScopeVerdict'[1]) /\ (closed[2] <=> ScopeVerdict'[2])
      /\ (closed[3] <=> ScopeVerdict'[3]) /\ (closed[4] <=> ScopeVerdict'[4])
  BY <1>3, <1>4 DEF VerdictIs, GetFailed
<1>7. ScopeVerdict' = closed
  BY <1>3, <1>5, <1>6, VerdictsEqual DEF VerdictIs
<1> QED BY <1>1, <1>2, <1>3, <1>4, <1>7 DEF Scopes!End, Scopes!Level, VerdictIs

LEMMA AfterSpecHookScopes ==
  ASSUME Inv, Inv', NEW reply \in Reply, AfterSpecHook(reply)
  PROVE  Scopes!End(GetFailed(reply))
<1>1. ScopeDepth = 2 /\ ScopeOutcome = "none" /\ ~ScopeGoesOn
  BY DEF AfterSpecHook, ScopeDepth, ScopeOutcome, ScopeGoesOn
<1>2. /\ ScopeDepth' = 1 /\ ScopeOutcome' = "none" /\ ScopeGoesOn' \in BOOLEAN
      /\ ScopeGoesOn' \in BOOLEAN /\ GetFailed(reply) \in BOOLEAN
  BY DEF AfterSpecHook, GetFailed, ScopeDepth, ScopeOutcome, ScopeGoesOn, StopsAtItem
<1>3. /\ VerdictIs(ScopeVerdict, suiteResult.isFailed, specResult.isFailed \/ failures # {}, FALSE, FALSE)
      /\ VerdictIs(ScopeVerdict', suiteResult'.isFailed, FALSE, FALSE, FALSE)
  BY <1>1, <1>2, ScopeVerdictByLevel, ScopeVerdictByLevelPrimed DEF Inv, VerdictIs
<1>4. suiteResult'.isFailed = (suiteResult.isFailed \/ specResult.isFailed \/ failures # {} \/ GetFailed(reply))
  <2>1. /\ [specResult EXCEPT !.isFailed = @ \/ GetFailed(reply)] \in SpecResults
        /\ [specResult EXCEPT !.isFailed = @ \/ GetFailed(reply)].isFailed
             = (specResult.isFailed \/ GetFailed(reply))
    BY DEF Inv, TypeOK, SpecResults, GetFailed
  <2>2. suiteResult'.isFailed = (suiteResult.isFailed \/ specResult.isFailed \/ GetFailed(reply))
    BY <2>1, AddSpecResultType DEF AfterSpecHook, Inv, TypeOK
  <2> QED BY <2>2 DEF Inv, TypeOK, FreshInv, SuiteResults, SpecResults, AfterSpecHook, GetFailed
<1> DEFINE closed == [l \in 1..4 |-> IF l = 2 THEN FALSE
                                    ELSE IF l = 1 THEN ScopeVerdict[l] \/ ScopeVerdict[2] \/ GetFailed(reply)
                                    ELSE ScopeVerdict[l]]
<1>5. closed \in [1..4 -> BOOLEAN]
  BY <1>3 DEF VerdictIs, GetFailed
<1>6. /\ (closed[1] <=> ScopeVerdict'[1]) /\ (closed[2] <=> ScopeVerdict'[2])
      /\ (closed[3] <=> ScopeVerdict'[3]) /\ (closed[4] <=> ScopeVerdict'[4])
  BY <1>3, <1>4 DEF VerdictIs, GetFailed
<1>7. ScopeVerdict' = closed
  BY <1>3, <1>5, <1>6, VerdictsEqual DEF VerdictIs
<1> QED BY <1>1, <1>2, <1>3, <1>4, <1>7 DEF Scopes!End, Scopes!Level, VerdictIs

LEMMA AfterSuiteHookScopes ==
  ASSUME Inv, Inv', NEW reply \in Reply, AfterSuiteHook(reply)
  PROVE  Scopes!End(GetFailed(reply))
<1>1. ScopeDepth = 1 /\ ScopeOutcome = "none" /\ ~ScopeGoesOn
  BY DEF AfterSuiteHook, ScopeDepth, ScopeOutcome, ScopeGoesOn
<1>2. /\ ScopeDepth' = 0 /\ ScopeOutcome' = (IF suiteResult'.isFailed THEN "failed" ELSE "passed") /\ ~ScopeGoesOn'
      /\ ScopeGoesOn' \in BOOLEAN /\ GetFailed(reply) \in BOOLEAN
  BY DEF AfterSuiteHook, GetFailed, ScopeDepth, ScopeOutcome, ScopeGoesOn, StopsAtItem
<1>3. /\ VerdictIs(ScopeVerdict, suiteResult.isFailed, FALSE, FALSE, FALSE)
      /\ VerdictIs(ScopeVerdict', FALSE, FALSE, FALSE, FALSE)
  BY <1>1, <1>2, ScopeVerdictByLevel, ScopeVerdictByLevelPrimed DEF Inv, VerdictIs
<1>4. suiteResult'.isFailed = (suiteResult.isFailed \/ GetFailed(reply))
  BY DEF AfterSuiteHook, Inv, TypeOK, SuiteResults, cursor, GetFailed
<1> DEFINE closed == [l \in 1..4 |-> IF l = 1 THEN FALSE
                                    ELSE IF l = 0 THEN ScopeVerdict[l] \/ ScopeVerdict[1] \/ GetFailed(reply)
                                    ELSE ScopeVerdict[l]]
<1>5. closed \in [1..4 -> BOOLEAN]
  BY <1>3 DEF VerdictIs, GetFailed
<1>6. /\ (closed[1] <=> ScopeVerdict'[1]) /\ (closed[2] <=> ScopeVerdict'[2])
      /\ (closed[3] <=> ScopeVerdict'[3]) /\ (closed[4] <=> ScopeVerdict'[4])
  BY <1>3, <1>4 DEF VerdictIs, GetFailed
<1>7. ScopeVerdict' = closed
  BY <1>3, <1>5, <1>6, VerdictsEqual DEF VerdictIs
<1> QED BY <1>1, <1>2, <1>3, <1>4, <1>7 DEF Scopes!End, Scopes!Level, VerdictIs

\* The data store requests and stuttering are invisible at this level.
LEMMA ScopesStutter ==
  ASSUME Inv, Inv', NEW reply \in Reply,
         \/ InitSuiteDataStore(reply) \/ InitSpecDataStore(reply)
         \/ InitScenarioDataStore(reply) \/ UNCHANGED vars
  PROVE  UNCHANGED Scopes!scopeVars
<1>1. ScopeDepth' = ScopeDepth /\ ScopeOutcome' = ScopeOutcome /\ ScopeGoesOn' = ScopeGoesOn
  BY DEF InitSuiteDataStore, InitSpecDataStore, InitScenarioDataStore, vars,
    ScopeDepth, ScopeOutcome, ScopeGoesOn
<1>2. /\ suiteResult' = suiteResult
      /\ ScopeDepth >= 2 => UNCHANGED <<specResult, failures>>
      /\ ScopeDepth >= 3 => UNCHANGED <<scenarioFailed, stepFailed>>
  BY DEF InitSuiteDataStore, InitSpecDataStore, InitScenarioDataStore, vars, ScopeDepth
<1>3. ScopeVerdict' = ScopeVerdict
  <2>1. ScopeDepth \in 0..4
    BY DEF Inv, TypeOK, Phase, ScopeDepth
  <2> QED BY <1>1, <1>2, <2>1, ScopeVerdictByLevel, ScopeVerdictByLevelPrimed, VerdictsEqual DEF VerdictIs, Inv
<1> QED BY <1>1, <1>3 DEF Scopes!scopeVars

LEMMA RejectTableRowsScopes ==
  ASSUME Inv, Inv', RejectTableRows
  PROVE  Scopes!Abort
<1>1. ScopeDepth = 1 /\ ScopeDepth' = 1
  BY DEF RejectTableRows, ScopeDepth
<1>2. ScopeOutcome = "none" /\ ScopeOutcome' = "aborted" /\ ScopeGoesOn /\ ScopeGoesOn'
  BY DEF RejectTableRows, ScopeOutcome, ScopeGoesOn
<1>3. ScopeVerdict' = ScopeVerdict
  BY <1>1, ScopeVerdictByLevel, ScopeVerdictByLevelPrimed, VerdictsEqual DEF VerdictIs, Inv, RejectTableRows, cursor
<1> QED BY <1>1, <1>2, <1>3 DEF Scopes!Abort

LEMMA ScopesStep == Inv /\ Inv' /\ [Next]_vars => [Scopes!ScopesNext]_(Scopes!scopeVars)
<1> SUFFICES ASSUME Inv, Inv', [Next]_vars
             PROVE  Scopes!ScopesNext \/ UNCHANGED Scopes!scopeVars
  OBVIOUS
<1>1. CASE UNCHANGED vars
  BY <1>1, ScopesStutter DEF Reply
<1>2. CASE RejectTableRows
  BY <1>2, RejectTableRowsScopes DEF Scopes!ScopesNext
<1>3. CASE \E reply \in Reply : Exchange(reply)
  <2>1. PICK reply \in Reply : Exchange(reply)
    BY <1>3
  <2>2. GetFailed(reply) \in BOOLEAN
    BY DEF GetFailed
  <2>3. CASE \/ BeforeSuiteHook(reply) \/ BeforeSpecHook(reply)
             \/ BeforeScenarioHook(reply) \/ BeforeStepHook(reply)
    BY <2>2, <2>3, BeforeSuiteHookScopes, BeforeSpecHookScopes, BeforeScenarioHookScopes,
      BeforeStepHookScopes DEF Scopes!ScopesNext
  <2>4. CASE ExecuteStep(reply)
    BY <2>2, <2>4, ExecuteStepScopes DEF Scopes!ScopesNext
  <2>5. CASE \/ AfterSuiteHook(reply) \/ AfterSpecHook(reply)
             \/ AfterScenarioHook(reply) \/ AfterStepHook(reply)
    BY <2>2, <2>5, AfterSuiteHookScopes, AfterSpecHookScopes, AfterScenarioHookScopes,
      AfterStepHookScopes DEF Scopes!ScopesNext
  <2>6. CASE \/ InitSuiteDataStore(reply) \/ InitSpecDataStore(reply)
             \/ InitScenarioDataStore(reply)
    BY <2>6, ScopesStutter
  <2> QED BY <2>1, <2>3, <2>4, <2>5, <2>6 DEF Exchange
<1> QED BY <1>1, <1>2, <1>3 DEF Next

\* Every execution, of whatever suite, is a well-nested sequence of scopes whose
\* verdicts climb to the outcome of the process.
THEOREM ScopesRefined == Spec => ScopesNest
<1>1. Inv /\ Inv' /\ [Next]_vars => [Scopes!ScopesNext]_(Scopes!scopeVars)
  BY ScopesStep
<1> QED BY ScopesInitial, <1>1, Invariance, PTL DEF Spec, ScopesNest, Scopes!ScopesSpec
=============================================================================

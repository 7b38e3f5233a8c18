--------------------------- MODULE MCSpecExecution ---------------------------
(***************************************************************************)
(* Instances of SpecExecution for TLC: a suite without --table-rows, and   *)
(* another one with it.                                                    *)
(***************************************************************************)
EXTENDS SpecExecution

\* A table with two rows, a context, two scenarios; then a plain specification
\* with a scenario of two steps and an empty one.
MixedSuite ==
  << [rows |-> 2, contexts |-> 1, scenarios |-> <<1, 0>>],
     [rows |-> 0, contexts |-> 0, scenarios |-> <<2, 0>>] >>

NoTableRows == <<>>

\* Three rows of which --table-rows 2-3 selects two; a table it does not fit;
\* nothing after that is executed.
TableSuite ==
  << [rows |-> 3, contexts |-> 0, scenarios |-> <<1, 1>>],
     [rows |-> 3, contexts |-> 0, scenarios |-> <<>>],
     [rows |-> 1, contexts |-> 0, scenarios |-> <<1>>] >>

Rows2To3 == <<2, 3>>

VARIABLE tableRows  \* is it the suite with --table-rows

Selecting == INSTANCE SpecExecution WITH Suite <- TableSuite, TableRows <- Rows2To3

MCvars == <<tableRows, vars>>

MCInit == tableRows \in BOOLEAN /\ Init

MCNext ==
  /\ UNCHANGED tableRows
  /\ \/ ~tableRows /\ Next
     \/ tableRows /\ Selecting!Next

MCSpec == MCInit /\ [][MCNext]_MCvars /\ WF_MCvars(MCNext)
-----------------------------------------------------------------------------
(* Properties: those of SpecExecution, and                                 *)

\* SpecExecution's SelectedRowsRun, with --table-rows and without.
TableRowsRun == IF tableRows THEN Selecting!SelectedRowsRun ELSE SelectedRowsRun
=============================================================================

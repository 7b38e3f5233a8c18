----------------------------- MODULE StepSequence -----------------------------
(***************************************************************************)
(* What a scenario promises about its steps, concepts expanded: they run   *)
(* in their order, each at most once, none after the first that failed,    *)
(* and none is left out of a scenario that passed.  SpecExecution is       *)
(* written on this promise; ScenarioItems implements it.                   *)
(***************************************************************************)
EXTENDS Naturals, Sequences

CONSTANT Steps  \* the steps of the scenario, contexts first

VARIABLES
  ran,     \* the steps that were executed
  failed,  \* the scenario's verdict so far
  over     \* the scenario has been closed

sequenceVars == <<ran, failed, over>>

SequenceInit == ran = <<>> /\ failed = FALSE /\ over = FALSE

\* The Starting hook failed: no step will run.
Bar ==
  /\ ran = <<>> /\ ~failed /\ ~over
  /\ failed' = TRUE
  /\ UNCHANGED <<ran, over>>

Run(stepFailed) ==
  /\ ~failed /\ ~over /\ Len(ran) < Len(Steps)
  /\ ran' = Append(ran, Steps[Len(ran) + 1])
  /\ failed' = stepFailed
  /\ UNCHANGED over

\* The Ending hook.
Close(hookFailed) ==
  /\ ~over /\ (failed \/ ran = Steps)
  /\ over' = TRUE
  /\ failed' = (failed \/ hookFailed)
  /\ UNCHANGED ran

SequenceNext == Bar \/ \E f \in BOOLEAN : Run(f) \/ Close(f)

SequenceSpec == SequenceInit /\ [][SequenceNext]_sequenceVars
=============================================================================

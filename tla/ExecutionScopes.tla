--------------------------- MODULE ExecutionScopes ---------------------------
(***************************************************************************)
(* What the language runner and the plugins are promised by an execution:  *)
(* the suite, its specifications, their scenarios and their steps are      *)
(* nested scopes.  A scope begins with its "Starting" hook and ends with   *)
(* its "Ending" hook, one child at a time is open, nothing begins in a     *)
(* scope whose Starting hook failed, no step follows a failed step, and    *)
(* the verdict of a closed scope is never lost on the way up.              *)
(*                                                                         *)
(* SpecExecution is shown to implement this module.                        *)
(***************************************************************************)
EXTENDS Naturals

VARIABLES
  depth,    \* open scopes: 0 none, 1 suite, 2 specification, 3 scenario, 4 step
  goesOn,   \* whether the innermost scope may still open (or execute) something
  verdict,  \* per level, whether a failure was reported in the scope open there
  outcome   \* what the process reports in the end

scopeVars == <<depth, goesOn, verdict, outcome>>

Level == 1..4

ScopesTypeOK ==
  /\ depth \in 0..4
  /\ goesOn \in BOOLEAN
  /\ verdict \in [Level -> BOOLEAN]
  /\ outcome \in {"none", "passed", "failed", "aborted"}

ScopesInit ==
  /\ depth = 0
  /\ goesOn = TRUE
  /\ verdict = [l \in Level |-> FALSE]
  /\ outcome = "none"

\* The Starting hook of the next scope; a failed one bars everything inside.
Start(hookFailed) ==
  /\ depth < 4 /\ goesOn /\ outcome = "none"
  /\ depth' = depth + 1
  /\ verdict' = [verdict EXCEPT ![depth + 1] = hookFailed]
  /\ goesOn' \in BOOLEAN /\ (hookFailed => ~goesOn')
  /\ UNCHANGED outcome

\* The body of a step.
Execute(failed) ==
  /\ depth = 4 /\ goesOn /\ outcome = "none"
  /\ verdict' = [verdict EXCEPT ![4] = failed]
  /\ goesOn' = FALSE
  /\ UNCHANGED <<depth, outcome>>

\* The Ending hook of the innermost scope: its verdict passes to its parent.
\* A failed step bars the rest of its scenario, other scopes may go on.
End(hookFailed) ==
  LET failed == verdict[depth] \/ hookFailed
  IN  /\ depth > 0 /\ ~goesOn /\ outcome = "none"
      /\ depth' = depth - 1
      /\ verdict' = [l \in Level |-> IF l = depth THEN FALSE
                                     ELSE IF l = depth - 1 THEN verdict[l] \/ failed
                                     ELSE verdict[l]]
      /\ goesOn' \in BOOLEAN /\ (depth = 1 \/ (depth = 4 /\ failed) => ~goesOn')
      /\ outcome' = IF depth # 1 THEN "none"
                    ELSE IF failed THEN "failed" ELSE "passed"

\* The process gives up between two specifications (a rejected --table-rows).
Abort ==
  /\ depth = 1 /\ goesOn /\ outcome = "none"
  /\ outcome' = "aborted"
  /\ UNCHANGED <<depth, goesOn, verdict>>

ScopesNext ==
  \/ \E failed \in BOOLEAN : Start(failed) \/ Execute(failed) \/ End(failed)
  \/ Abort

ScopesSpec == ScopesInit /\ [][ScopesNext]_scopeVars
=============================================================================

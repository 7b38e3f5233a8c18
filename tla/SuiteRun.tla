------------------------------- MODULE SuiteRun -------------------------------
(***************************************************************************)
(* What a suite execution promises to the command line, however it is      *)
(* carried out: each specification meets exactly one fate, the process     *)
(* reports when no specification is pending any more, and what it reports  *)
(* is failed exactly when a specification or a suite hook failed.          *)
(*                                                                         *)
(* Specifications that were skipped because no runner could be started do  *)
(* not make the report a failure: that is what the code promises, too.     *)
(***************************************************************************)
CONSTANT Specs

VARIABLES
  fate,     \* what has become of each specification
  trouble,  \* a suite hook has failed
  outcome   \* what the process reports

runVars == <<fate, trouble, outcome>>

Fate == {"pending", "passed", "failed", "skipped", "barred"}

RunInit ==
  /\ fate = [s \in Specs |-> "pending"]
  /\ trouble = FALSE
  /\ outcome = "running"

\* Pending specifications meet one fate together.
Settle(specs, end) ==
  /\ outcome = "running"
  /\ \A s \in specs : fate[s] = "pending"
  /\ fate' = [s \in Specs |-> IF s \in specs THEN end ELSE fate[s]]

Execute(s, failed) ==
  /\ Settle({s}, IF failed THEN "failed" ELSE "passed")
  /\ UNCHANGED <<trouble, outcome>>

\* No runner could be started for these.
Skip(specs) == Settle(specs, "skipped") /\ UNCHANGED <<trouble, outcome>>

\* The hook before these failed.
Bar(specs) == Settle(specs, "barred") /\ trouble' = TRUE /\ UNCHANGED outcome

\* The hook after the last specification failed.
EndInTrouble == outcome = "running" /\ trouble' = TRUE /\ UNCHANGED <<fate, outcome>>

Report ==
  /\ outcome = "running"
  /\ \A s \in Specs : fate[s] # "pending"
  /\ outcome' = IF trouble \/ \E s \in Specs : fate[s] = "failed" THEN "failed" ELSE "passed"
  /\ UNCHANGED <<fate, trouble>>

\* The process is ended from within (a rejected --table-rows).
Abort == outcome = "running" /\ outcome' = "aborted" /\ UNCHANGED <<fate, trouble>>

RunNext ==
  \/ \E s \in Specs : Execute(s, TRUE) \/ Execute(s, FALSE)
  \/ \E specs \in SUBSET Specs : Skip(specs) \/ Bar(specs)
  \/ EndInTrouble \/ Report \/ Abort

SuiteSpec == RunInit /\ [][RunNext]_runVars
=============================================================================

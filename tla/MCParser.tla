------------------------------- MODULE MCParser -------------------------------
(***************************************************************************)
(* Instances of the readers for TLC: the lines of a specification, the     *)
(* text of a step, a tag expression, the messages on a connection.  A      *)
(* behaviour reads one of them.                                            *)
(***************************************************************************)
EXTENDS SpecParser, Framing, StepText, TagExpression, TLC

VARIABLE reader  \* which of them reads

\* Titles are only compared with each other.
TitlesSymmetry == Permutations(Titles)

MCvars == <<reader, vars, textVars, expression, framing>>

MCInit ==
  /\ reader \in {"lines", "text", "tags", "frames"}
  /\ reader # "frames" => peer = "client"
  /\ Init /\ TextInit /\ TagsInit /\ FramingInit

MCNext ==
  \/ reader = "lines" /\ Next /\ UNCHANGED <<reader, textVars, expression, framing>>
  \/ reader = "text" /\ TextNext /\ UNCHANGED <<reader, vars, expression, framing>>
  \/ reader = "tags" /\ TagsNext /\ UNCHANGED <<reader, vars, textVars, framing>>
  \/ reader = "frames" /\ FramingNext /\ UNCHANGED <<reader, vars, textVars, expression>>

MCSpec == MCInit /\ [][MCNext]_MCvars
=============================================================================

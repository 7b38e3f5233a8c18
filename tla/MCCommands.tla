------------------------------ MODULE MCCommands ------------------------------
(***************************************************************************)
(* Instances for TLC of what the program does when it is called: a command *)
(* line, a step to rename, a concept to extract, plugins to install.  A    *)
(* behaviour is of one of these.                                           *)
(***************************************************************************)
EXTENDS Refactoring, CommandLine, ConceptExtraction, Installation, TLC

\* A context, a scenario with a concept that has a step of the second file, a comment; two
\* scenarios; one scenario.
MCContents ==
  << << [kind |-> "step", steps |-> <<"w">>],
        [kind |-> "scenario", steps |-> <<"c", "s">>, qualifies |-> TRUE],
        [kind |-> "other"] >>,
     << [kind |-> "scenario", steps |-> <<"t">>, qualifies |-> FALSE],
        [kind |-> "scenario", steps |-> <<"u">>, qualifies |-> TRUE] >>,
     << [kind |-> "scenario", steps |-> <<"c", "t">>, qualifies |-> FALSE] >> >>

\* A concept with a plain step and a concept.
MCConceptSteps == [c \in {"c", "d"} |-> IF c = "c" THEN <<"t", "d">> ELSE <<"v">>]

All == [files |-> {1, 2, 3}, index |-> -1]
At(file, index) == [files |-> {file}, index |-> index]
Missing == [files |-> {}, index |-> -1]

\* gauge specs; gauge b.spec:1 a.spec b.spec:0; gauge a.spec:1 missing; and flags
MCInvocations ==
  [args : {<<All>>, <<At(2, 1), At(1, -1), At(2, 0)>>, <<At(1, 1), Missing>>},
   format : {FALSE}, tagged : BOOLEAN, group : {-1, 1, 3}, streams : {0, 3}]
  \cup [args : {<<All>>}, format : {TRUE}, tagged : {FALSE}, group : {-1}, streams : {3}]

\* gauge -n 2 -g 1 specs
MCGroup == [args : {<<All>>}, format : {FALSE}, tagged : {FALSE}, group : {1}, streams : {2}]
-----------------------------------------------------------------------------
(* Refactoring: two specifications and a file with two concepts, one of    *)
(* which uses the other; a step or a concept gets a new name and has its   *)
(* arguments swapped, replaced or extended.                                *)

Static(v) == [kind |-> "static", value |-> v]
Param(v) == [kind |-> "dynamic", value |-> v]
Inline == [kind |-> "table", value |-> "cells"]

Line(v, a) == [value |-> v, args |-> a, heading |-> FALSE, concept |-> FALSE]
Nested(v, a) == [Line(v, a) EXCEPT !.concept = TRUE]
Concept(v, a) == [Nested(v, a) EXCEPT !.heading = TRUE]
NewStep(v, a) == [value |-> v, args |-> a]

say == <<"say", "{}", "{}">>
look == <<"look", "{}">>
see == <<"see">>
use == <<"use", "{}">>

\* The second use of "use", above its heading, is not known as a concept.
MCProject ==
  "a.spec" :> <<Line(say, <<Static("1"), Static("2")>>), Line(say, <<Static("1"), Inline>>),
                Line(use, <<Static("3")>>)>>
  @@ "b.spec" :> <<Line(see, <<>>), Line(look, <<Inline>>)>>
  @@ "c.cpt" :> <<Concept(<<"d", "{}">>, <<Param("p")>>), Line(say, <<Param("p"), Static("4")>>),
                  Nested(use, <<Param("p")>>), Line(use, <<Static("6")>>),
                  Concept(use, <<Param("q")>>), Line(see, <<>>), Line(look, <<Inline>>),
                  Line(say, <<Static("5"), Param("q")>>)>>

Requested(old, new) == {[old |-> old, new |-> n] : n \in new}

\* Arguments swapped, replaced, extended or left out; a word behind the last of them.
MCRequests ==
  LET Say == NewStep(say, <<Param("x"), Param("y")>>)
      Look == NewStep(look, <<Param("x")>>)
  IN  Requested(Say,
        {Say, NewStep(see, <<>>), NewStep(<<"tell", "{}", "{}">>, <<Param("y"), Param("x")>>),
         NewStep(<<"tell", "{}", "{}">>, <<Param("y"), Param("z")>>)})
      \cup Requested(Look,
        {NewStep(<<"look", "{}", "there">>, <<Param("x")>>),
         NewStep(<<"look", "{}", "{}">>, <<Param("z"), Param("x")>>)})
      \cup Requested(NewStep(use, <<Param("x")>>),
        {NewStep(<<"e", "{}">>, <<Param("x")>>),
         NewStep(<<"e", "{}", "{}">>, <<Param("x"), Param("w")>>)})
      \cup Requested(NewStep(<<"none">>, <<>>), {NewStep(<<"e">>, <<>>)})

\* The theorems are about projects like this one.
ASSUME MCProjectAssumption == ProjectAssumed /\ ProjectParses
-----------------------------------------------------------------------------
(* Concept extraction: names of up to two arguments, one or two steps of   *)
(* up to two, with a table that is handed on or kept.                      *)

HandedOn(name) == [kind |-> "param", name |-> name, cells |-> <<>>]
Kept(name, cells) == [kind |-> "inline", name |-> name, cells |-> cells]
None == [kind |-> "none", name |-> "", cells |-> <<>>]

MCSteps ==
  [args : {<<>>, <<Static("1")>>, <<Param("c"), Static("1")>>},
   table : {None, HandedOn("t"), Kept("i", <<"c">>)}]

MCSelections ==
  [name : SeqOf({Static("1"), Static("2"), Param("1"), Param("c"), Param("t")}, 2),
   steps : SeqOf(MCSteps, 2) \ {<<>>}]
-----------------------------------------------------------------------------
(* Installation: a runner with a version for this Gauge, one for an older  *)
(* one and one for a newer one, a plugin with two versions, one with       *)
(* versions that cannot be parsed.                                         *)

Version(v, min, max) == [version |-> v, minimum |-> min, maximum |-> max]

MCRepository ==
  "java" :> <<Version(<<0, 0, 9>>, <<0, 1, 0>>, <<0, 1, 4>>), Version(<<0, 1, 2>>, <<0, 0, 9>>, <<>>),
              Version(<<1, 0, 0>>, <<0, 2, 0>>, <<1, 0, 0>>)>>
  @@ "html" :> <<Version(<<0, 1, 3>>, <<0, 1, 0>>, <<0, 1, 5>>),
                 Version(<<0, 2, 1>>, <<0, 1, 5>>, <<0, 2, 0>>)>>
  @@ "odd" :> <<Version(<<1>>, <<0, 1, 0>>, <<>>), Version(<<0, 1, 0>>, <<0, 1, 0>>, <<>>)>>
  @@ "report" :> <<Version(<<0, 1, 0>>, <<0, 1, 0>>, <<>>)>>

MCDefaultPlugins == <<"report">>
MCCurrentVersion == <<0, 1, 5>>

Flags(flag, plugins, versions) == [flag : {flag}, plugin : plugins, version : versions]

MCCalls ==
  Flags("install", {"java", "odd"}, {<<>>}) \cup Flags("install", {"html"}, {<<>>, <<0, 1, 3>>})
  \cup Flags("update", {"html"}, {<<>>}) \cup Flags("file", {"java"}, {<<1, 0, 0>>})
  \cup Flags("init", {"java"}, {<<>>}) \cup Flags("install-all", {"java"}, {<<>>})
  \cup Flags("add", {"html"}, {<<>>, <<0, 1, 3>>})
-----------------------------------------------------------------------------
VARIABLE call  \* what the program is called for

MCvars == <<call, refactoringVars, commandVars, extractionVars, installationVars>>

OneOf(S) == CHOOSE x \in S : TRUE

MCInit ==
  /\ call \in {"command", "refactor", "extract", "install"}
  /\ call # "command" => flags = OneOf(Invocations) /\ broken = {}
  /\ call # "refactor" => request = OneOf(Requests) /\ runner = "absent"
  /\ call # "extract" => selection = OneOf(Selections)
  /\ RefactoringInit /\ CommandInit /\ ExtractionInit /\ InstallationInit

MCNext ==
  \/ /\ call = "command" /\ CommandNext
     /\ UNCHANGED <<call, refactoringVars, extractionVars, installationVars>>
  \/ /\ call = "refactor" /\ RefactoringNext
     /\ UNCHANGED <<call, commandVars, extractionVars, installationVars>>
  \/ /\ call = "extract" /\ ExtractionNext
     /\ UNCHANGED <<call, refactoringVars, commandVars, installationVars>>
  \/ /\ call = "install" /\ InstallationNext
     /\ UNCHANGED <<call, refactoringVars, commandVars, extractionVars>>

MCSpec == MCInit /\ [][MCNext]_MCvars /\ WF_MCvars(MCNext)
-----------------------------------------------------------------------------
(* The other properties are with the components.                          *)

\* Every call comes to its end: every parser sends what main waits for, the validator gets
\* through the concepts, and no refactoring, extraction or installation waits for ever.
CommandsTerminate ==
  <>[]CASE call = "command" -> phase \in {"exit", "crashed"}
        [] call = "refactor" -> stage \in {"done", "crashed"}
        [] call = "extract" -> extraction \in {"done", "crashed"}
        [] call = "install" -> at \in {"start", "crashed"}
=============================================================================

------------------------------ MODULE MCConcepts ------------------------------
(***************************************************************************)
(* Instances of what concerns concepts for TLC: the dictionary that is     *)
(* read from files, the arguments through nested concepts, the execution   *)
(* of a scenario with them.  A behaviour is of one of the three.           *)
(***************************************************************************)
EXTENDS ScenarioItems, Concepts, Arguments, TLC

\* ScenarioItems: a context step; a comment; a concept of a step, a concept and a step; a step.
MCItem == {"context", "outer", "first", "inner", "in1", "in2", "last", "comment", "step"}

MCKind == [i \in MCItem |-> CASE i \in {"outer", "inner"} -> "concept"
                             [] i = "comment" -> "other"
                             [] OTHER -> "step"]

MCSteps == [i \in MCItem |-> CASE i = "outer" -> <<"first", "inner", "last">>
                              [] i = "inner" -> <<"in1", "in2">>
                              [] OTHER -> <<>>]

MCContexts == <<"context">>
MCItems == <<"comment", "outer", "step">>
MCTimes == {0, 1}

\* Arguments: two concepts use a third, which uses a fourth, every way they can; the steps of
\* the specification have static arguments, those of a data table with two rows, and tables.
Static(v) == [type |-> "static", value |-> v, table |-> <<>>]
Dynamic(p) == [type |-> "dynamic", value |-> p, table |-> <<>>]
Table(cell) == [type |-> "table", value |-> "", table |-> <<cell>>]
Use(v, a) == [value |-> v, args |-> a]
Args(params) == {Static("1")} \cup {Dynamic(p) : p \in params}

ConceptsWith(a, b, c, t) ==
  "outer" :> [params |-> <<"p", "q">>, steps |-> <<Use("inner", <<a, b>>), Use("s", <<t>>)>>]
  @@ "other" :> [params |-> <<"p">>, steps |-> <<Use("inner", <<c, Static("2")>>)>>]
  @@ "inner" :> [params |-> <<"q", "r">>,
                 steps |-> <<Use("s", <<Dynamic("r")>>), Use("least", <<Dynamic("q")>>)>>]
  @@ "least" :> [params |-> <<"p">>, steps |-> <<Use("s", <<Dynamic("p")>>)>>]

StepsWith(a, b) ==
  <<Use("outer", <<a, b>>), Use("other", <<Dynamic("col")>>), Use("outer", <<Static("4"), a>>),
    Use("s", <<b>>)>>

MCProjects ==
  [concepts : {ConceptsWith(a, b, c, t) :
                 a \in Args({"p", "q"}) \cup {Table(Static("3"))}, b \in {Dynamic("q"), Static("2")},
                 c \in Args({"p"}), t \in {Dynamic("p")} \cup {Table(x) : x \in Args({"p"})}},
   dataTable : {"col" :> <<"x", "y">>},
   steps : {StepsWith(a, b) : a, b \in {Static("5"), Dynamic("col"), Table(Dynamic("col"))}}]
-----------------------------------------------------------------------------
VARIABLE subject  \* which of the three a behaviour is of

MCvars == <<subject, vars, conceptVars, argumentVars>>

MCInit ==
  /\ subject \in {"dictionary", "arguments", "scenario"}
  /\ subject # "dictionary" => strict = TRUE
  /\ subject # "arguments" => project = CHOOSE p \in Projects : TRUE
  /\ Init /\ ConceptsInit /\ ArgumentsInit

MCNext ==
  \/ subject = "scenario" /\ Next /\ UNCHANGED <<subject, conceptVars, argumentVars>>
  \/ subject = "dictionary" /\ ConceptsNext /\ UNCHANGED <<subject, vars, argumentVars>>
  \/ subject = "arguments" /\ ArgumentsNext /\ UNCHANGED <<subject, vars, conceptVars>>

MCSpec == MCInit /\ [][MCNext]_MCvars
=============================================================================

------------------------------ MODULE SpecParser ------------------------------
(***************************************************************************)
(* Parsing a specification: generateTokens (specparser.go) makes a token   *)
(* of every line, then createSpecification (specification.go) gives every  *)
(* token its place.  Both keep a set of states from line to line, which    *)
(* decides what a table, a step or an underline belongs to.                *)
(*                                                                         *)
(* A line is its kind, with a title for text and headings and a set of     *)
(* parameters for steps and table rows.  "|" stands for that single        *)
(* character, which is a table line without cells, "|---|" for a row of    *)
(* dashes and empty cells, "|p|" for one whose cells are parameter names.  *)
(***************************************************************************)
EXTENDS Integers, Sequences

CONSTANTS
  Titles,   \* titles of scenarios
  Params,   \* names of parameters
  MaxLines  \* bound on the lines of the specification

ASSUME MaxLinesAssumption == MaxLines \in Nat

Other == "other"  \* a column that no step refers to, the title of a line without one

Line == [kind : {"#", "===", "---", "tags", "table:", "|", "|---|"}, title : {Other}, params : {{}}]
   \cup [kind : {"##", "text"}, title : Titles, params : {{}}]
   \cup [kind : {"*"}, title : {Other}, params : SUBSET Params]
   \cup [kind : {"|p|"}, title : {Other}, params : {Params}]

VARIABLES
  phase,        \* "lines", "tokens", "accepted", "rejected"; "crashed" when the process panics
  lines,        \* the lines read
  currentState, \* states of the specParser
  tokens,       \* what the lines are: a kind, and the line it comes from
  next,         \* position of the token to convert
  state,        \* states of the converters
  heading,      \* line of the specification's heading, 0 while it has none
  items,        \* where the tokens went, in order; "in" is the scenario, or the step of a table
  dataTable     \* the specification's data table

parser == <<lines, currentState, tokens>>
specification == <<heading, items, dataTable>>
vars == <<phase, parser, next, state, specification>>

NoTable == [isInitialized |-> FALSE, columns |-> {}, rows |-> 0]

Init ==
  /\ phase = "lines"
  /\ lines = <<>> /\ currentState = {} /\ tokens = <<>>
  /\ next = 1 /\ state = {}
  /\ heading = 0 /\ items = <<>> /\ dataTable = NoTable

-----------------------------------------------------------------------------
(* generateTokens.                                                         *)

Read(line) ==
  /\ phase = "lines" /\ Len(lines) < MaxLines
  /\ lines' = Append(lines, line)
  /\ UNCHANGED <<phase, next, state, specification>>

Accept(kind, states) ==
  /\ tokens' = Append(tokens, [kind |-> kind, line |-> Len(lines) + 1])
  /\ currentState' = states

\* An underline makes a heading of the last token, if there was a comment since the
\* states were cleared: of the comment, or of what has come after it.
Underlines(line) == line.kind \in {"===", "---"} /\ "comment" \in currentState

Underline(line) ==
  LET kind == IF line.kind = "===" THEN "spec" ELSE "scenario"
  IN  /\ Underlines(line) /\ Read(line)
      /\ tokens' = [tokens EXCEPT ![Len(tokens)].kind = kind]
      /\ currentState' = IF kind = "scenario" THEN {} ELSE currentState

\* The states after a line that is not part of a table.
LineScopes(line) ==
  CASE line.kind \in {"#", "table:"} -> currentState
    [] line.kind \in {"text", "===", "---"} -> {"comment"}
    [] OTHER -> {}

TokenKind(line) ==
  CASE line.kind = "#" -> "spec" [] line.kind = "##" -> "scenario"
    [] line.kind = "*" -> "step" [] line.kind = "tags" -> "tag"
    [] line.kind = "table:" -> "dataTable" [] OTHER -> "comment"

TableKinds == {"|", "|---|", "|p|"}

PlainLine(line) ==
  /\ line.kind \notin TableKinds /\ ~Underlines(line)
  /\ Read(line)
  /\ Accept(TokenKind(line), LineScopes(line))

\* processTable: the first line of a table is its header.
TableLine(line) ==
  /\ line.kind \in TableKinds /\ Read(line)
  /\ IF "table" \in currentState
     THEN Accept("tableRow", currentState \cup {"tableData"})
     ELSE Accept("tableHeader", currentState \cup {"table"})

\* A heading or a step without text, a step that does not parse, a header with a
\* blank or repeated column, a data table that cannot be resolved.
RejectLine ==
  /\ phase = "lines" /\ Len(lines) < MaxLines
  /\ phase' = "rejected"
  /\ UNCHANGED <<parser, next, state, specification>>

\* nextLine panics when the scanner gives up on a line.
LineTooLong ==
  /\ phase = "lines" /\ Len(lines) < MaxLines
  /\ phase' = "crashed"
  /\ UNCHANGED <<parser, next, state, specification>>

EndOfLines ==
  /\ phase = "lines" /\ phase' = "tokens"
  /\ UNCHANGED <<parser, next, state, specification>>

-----------------------------------------------------------------------------
(* createSpecification: one converter per kind of token.                   *)

Token == tokens[next]
TokenLine == lines[Token.line]
Converts(kind) == phase = "tokens" /\ next \in DOMAIN tokens /\ Token.kind = kind

In(scope) == scope \in state

Positions(as) == {i \in DOMAIN items : items[i].as = as}
LastOf(positions) == CHOOSE i \in positions : \A j \in positions : j <= i

\* latestScenario, latestStep, latestContext; 0 where they would not find one.
Latest(as) == IF Positions(as) = {} THEN 0 ELSE items[LastOf(Positions(as))].line

LatestScenario == Latest("scenario")

\* A slip: a scenario without steps is passed over.
HereWithSteps == IF In("step") THEN LatestScenario ELSE 0

\* What a comment or tags are added to.
Here == IF In("scenario") THEN LatestScenario ELSE 0

Place(as, in) ==
  /\ items' = Append(items, [line |-> Token.line, as |-> as, in |-> in])
  /\ next' = next + 1
  /\ UNCHANGED <<parser, heading>>

\* retainStates, addStates
Retain(retained, added) == state' = (state \cap retained) \cup added

Unchanged(p) ==
  /\ phase' = p
  /\ UNCHANGED <<parser, next, state, specification>>

\* A token that no converter takes is dropped: a step or a table header above the
\* specification's heading.
Drop ==
  /\ \/ Converts("step") /\ ~In("scenario") /\ ~In("spec")
     \/ Converts("tableHeader") /\ ~In("spec")
  /\ next' = next + 1
  /\ UNCHANGED <<phase, parser, state, specification>>

SpecConverter ==
  /\ Converts("spec") /\ heading = 0
  /\ heading' = Token.line
  /\ next' = next + 1
  /\ Retain(state, {"spec"})
  /\ UNCHANGED <<phase, parser, items, dataTable>>

MultipleHeadings == Converts("spec") /\ heading # 0 /\ Unchanged("rejected")

HasScenario(title) == \E i \in Positions("scenario") : lines[items[i].line].title = title

ScenarioConverter ==
  /\ Converts("scenario") /\ heading # 0 /\ ~HasScenario(TokenLine.title)
  /\ Place("scenario", 0)
  /\ Retain({"spec"}, {"scenario"})
  /\ UNCHANGED <<phase, dataTable>>

MisplacedScenario ==
  /\ Converts("scenario") /\ (heading = 0 \/ HasScenario(TokenLine.title))
  /\ Unchanged("rejected")

\* validateDynamicArg
Resolves(line) == line.params \subseteq dataTable.columns

\* The states that tables, and steps and comments, leave as they are.
TableScopes == {"spec", "scenario", "step", "context", "table"}

ItemScopes == {"spec", "scenario"}

StepConverter ==
  /\ Converts("step") /\ In("scenario") /\ Resolves(TokenLine)
  /\ Place("step", LatestScenario)
  /\ Retain(ItemScopes, {"step"})
  /\ UNCHANGED <<phase, dataTable>>

ContextConverter ==
  /\ Converts("step") /\ ~In("scenario") /\ In("spec") /\ Resolves(TokenLine)
  /\ Place("context", 0)
  /\ Retain({"spec"}, {"context"})
  /\ UNCHANGED <<phase, dataTable>>

UnresolvedStep ==
  /\ Converts("step") /\ (In("scenario") \/ In("spec")) /\ ~Resolves(TokenLine)
  /\ Unchanged("rejected")

CommentConverter ==
  /\ Converts("comment")
  /\ Place("comment", Here)
  /\ Retain(ItemScopes, {"comment"})
  /\ UNCHANGED <<phase, dataTable>>

\* Tags leave the state as it is.
TagConverter ==
  /\ Converts("tag")
  /\ Place("tags", Here)
  /\ UNCHANGED <<phase, state, dataTable>>

\* What a file can hold: columns and perhaps a row, or nothing at all.
CsvTable ==
  [isInitialized : {TRUE}, columns : SUBSET (Params \cup {Other}) \ {{}}, rows : 0..1]
    \cup {NoTable}

\* keywordConverter for the first data table, which ends the scenario it stands in.
TakeExternalTable(csv) ==
  /\ Converts("dataTable") /\ In("spec") /\ ~dataTable.isInitialized
  /\ dataTable' = csv
  /\ Place("table", 0)
  /\ Retain({"spec"}, {"keyword"})
  /\ UNCHANGED phase

\* Every other one is a comment of the specification.
IgnoreExternalTable ==
  /\ Converts("dataTable") /\ (~In("spec") \/ dataTable.isInitialized)
  /\ Place("comment", 0)
  /\ UNCHANGED <<phase, state, dataTable>>

HasStep == In("step") \/ In("context")
LatestStep == IF In("step") THEN Latest("step") ELSE Latest("context")

\* addInlineTableHeader; getRows, which it reaches, looks at the first column.
InlineTableHeader ==
  /\ Converts("tableHeader") /\ In("spec") /\ HasStep
  /\ IF TokenLine.kind = "|" THEN Unchanged("crashed")
     ELSE /\ Place("header", LatestStep)
          /\ Retain(TableScopes, {"table"})
          /\ UNCHANGED <<phase, dataTable>>

Columns(line) ==
  CASE line.kind = "|" -> {} [] line.kind = "|p|" -> line.params [] OTHER -> {Other}

\* A slip: the last table counts.
TakesTableAlways == Converts("tableHeader") /\ In("spec") /\ ~HasStep /\ ~In("scenario")

TakesTable ==
  Converts("tableHeader") /\ In("spec") /\ ~HasStep /\ ~In("scenario") /\ ~dataTable.isInitialized

DataTableHeader ==
  /\ TakesTable
  /\ dataTable' = [isInitialized |-> TRUE, columns |-> Columns(TokenLine), rows |-> 0]
  /\ Place("table", 0)
  /\ Retain(TableScopes, {"table"})
  /\ UNCHANGED phase

\* A second data table, or a table in a scenario without a step above it.
IgnoreTable ==
  /\ Converts("tableHeader") /\ In("spec") /\ ~HasStep /\ ~TakesTable
  /\ Place("comment", Here)
  /\ UNCHANGED <<phase, state, dataTable>>

\* A row of a table that was ignored, or has none.
RowAsComment ==
  /\ Converts("tableRow") /\ ~In("table")
  /\ Place("comment", Here)
  /\ Retain(TableScopes, {})
  /\ UNCHANGED <<phase, dataTable>>

\* A slip: a row with no cells at all is one, too.
AreUnderlinedNone(line) == line.kind \in {"|---|", "|"}

AreUnderlined(line) == line.kind = "|---|"

Separator ==
  /\ Converts("tableRow") /\ In("table") /\ AreUnderlined(TokenLine)
  /\ next' = next + 1
  /\ Retain(TableScopes, {})
  /\ UNCHANGED <<phase, parser, specification>>

\* addInlineTableRow, to the last argument of the latest step.
InlineTableRow ==
  /\ Converts("tableRow") /\ In("table") /\ ~AreUnderlined(TokenLine) /\ HasStep
  /\ Place("row", LatestStep)
  /\ Retain(TableScopes, {})
  /\ UNCHANGED <<phase, dataTable>>

DataTableRow ==
  /\ Converts("tableRow") /\ In("table") /\ ~AreUnderlined(TokenLine) /\ ~HasStep
  /\ dataTable' = [dataTable EXCEPT !.rows = @ + 1]
  /\ Place("row", 0)
  /\ Retain(TableScopes, {})
  /\ UNCHANGED phase

\* getRowCount looks at the first column.
RowCountPanics == dataTable.isInitialized /\ dataTable.columns = {}

\* validateSpec
Finish ==
  /\ phase = "tokens" /\ next > Len(tokens)
  /\ \/ /\ items = <<>> \/ heading = 0
        /\ Unchanged("rejected")
     \/ /\ items # <<>> /\ heading # 0 /\ RowCountPanics
        /\ Unchanged("crashed")
     \/ /\ items # <<>> /\ heading # 0 /\ ~RowCountPanics
        /\ Unchanged(IF dataTable.isInitialized /\ dataTable.rows = 0 THEN "rejected" ELSE "accepted")

Next ==
  \/ \E line \in Line : Underline(line) \/ PlainLine(line) \/ TableLine(line)
  \/ RejectLine \/ LineTooLong \/ EndOfLines
  \/ Drop \/ SpecConverter \/ MultipleHeadings
  \/ ScenarioConverter \/ MisplacedScenario
  \/ StepConverter \/ ContextConverter \/ UnresolvedStep
  \/ CommentConverter \/ TagConverter
  \/ \E csv \in CsvTable : TakeExternalTable(csv)
  \/ IgnoreExternalTable
  \/ InlineTableHeader \/ DataTableHeader \/ IgnoreTable
  \/ RowAsComment \/ Separator \/ InlineTableRow \/ DataTableRow
  \/ Finish

Spec == Init /\ [][Next]_vars
-----------------------------------------------------------------------------
(* Properties.                                                             *)

Items == {items[i] : i \in DOMAIN items}

TokenKinds == {"spec", "scenario", "step", "tag", "dataTable", "comment", "tableHeader", "tableRow"}
Places == {"scenario", "step", "context", "comment", "tags", "table", "header", "row"}

\* The types of the state; an item is in a scenario or a step that was placed.
TypeOK ==
  /\ phase \in {"lines", "tokens", "accepted", "rejected", "crashed"}
  /\ lines \in Seq(Line) /\ Len(lines) <= MaxLines
  /\ currentState \subseteq {"comment", "table", "tableData"}
  /\ tokens \in Seq([kind : TokenKinds, line : Nat])
  /\ \A i \in DOMAIN tokens : tokens[i].line \in DOMAIN lines
  /\ next \in 1..(Len(tokens) + 1)
  /\ state \subseteq TableScopes \cup {"comment", "keyword"}
  /\ heading \in 0..Len(lines)
  /\ items \in Seq([line : Nat, as : Places, in : Nat])
  /\ \A item \in Items :
       /\ item.line \in DOMAIN lines
       /\ item.in = 0 \/ \E owner \in Items : /\ owner.line = item.in
                                              /\ owner.as \in {"scenario", "step", "context"}
  /\ dataTable \in [isInitialized : BOOLEAN, columns : SUBSET (Params \cup {Other}), rows : Nat]
  /\ dataTable.isInitialized \/ dataTable = NoTable

\* What the states say is so, which the code relies on when it takes the last
\* element of a list: with "comment" there is a token for an underline to change,
\* with "step" the latest scenario has a step, with "table" the latest step has a
\* table for a row to go into (latestStep, latestContext, addInlineTableRow).
StatesHold ==
  /\ phase = "lines" /\ "comment" \in currentState => tokens # <<>>
  /\ In("scenario") => LatestScenario # 0
  /\ In("step") => \E item \in Items : item.as = "step" /\ item.in = LatestScenario
  /\ In("context") => Latest("context") # 0
  /\ In("table") /\ HasStep => \E item \in Items : item.as = "header" /\ item.in = LatestStep
  /\ In("table") /\ ~HasStep => dataTable.isInitialized

\* Every line below the heading of an accepted specification has exactly one place
\* in it, and every other line at most one; underlines and separators of tables have
\* none of their own.  The places are in the order of the lines.
NothingLost ==
  phase = "accepted" =>
    /\ \A i, j \in DOMAIN items : i < j => items[i].line < items[j].line
    /\ \A n \in DOMAIN lines :
         n > heading /\ lines[n].kind \notin {"===", "---", "|---|"}
           => \E item \in Items : item.line = n

ScenarioAbove(n) ==
  LET above == {item.line : item \in {s \in Items : s.as = "scenario" /\ s.line < n}}
  IN  IF above = {} THEN 0 ELSE CHOOSE s \in above : \A t \in above : t <= s

\* Steps, comments and tags belong to the scenario they stand in and to the
\* specification above the first one - but a data table that is taken from within
\* a scenario ends it (keywordConverter retains only specScope), and what follows
\* is the specification's: the steps become contexts.
OwnedByScenarioAbove ==
  \A item \in Items :
    LET above == ScenarioAbove(item.line)
        cut == \E t \in Items : /\ t.as = "table" /\ lines[t.line].kind = "table:"
                                /\ above < t.line /\ t.line < item.line
    IN  item.as \in {"step", "context", "comment", "tags"} /\ lines[item.line].kind # "table:"
          => item.in = IF cut THEN 0 ELSE above

\* Every parameter of a step is a column of the data table that the specification
\* ends up with.  It is checked when the step is read, against the table there is
\* then, and looked up when the step is executed (getArg panics if it is not there).
ParametersResolve ==
  \A item \in Items :
    item.as \in {"step", "context"} => lines[item.line].params \subseteq dataTable.columns

\* A table that a step has been given stands below it with nothing but tables, tags
\* and further data table files in between, and rows below their header.
TablesFollowTheirStep ==
  \A item \in Items :
    item.as \in {"header", "row"} /\ item.in # 0 =>
      /\ \A n \in (item.in + 1)..item.line : lines[n].kind \in TableKinds \cup {"tags", "table:"}
      /\ item.as = "row" => \E h \in Items : /\ h.as = "header" /\ h.in = item.in
                                             /\ h.line < item.line

\* What is read belongs to what it was written below: the items to their scenarios, the
\* tables to their steps.
ItemsBelongAbove == OwnedByScenarioAbove /\ TablesFollowTheirStep
=============================================================================

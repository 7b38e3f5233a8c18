--------------------------- MODULE ConceptExtraction ---------------------------
(***************************************************************************)
(* Making a concept of selected steps (concept_extractor.go), for an       *)
(* editor: the concept is appended to a file, and then the selected lines  *)
(* are replaced with one that uses it.                                     *)
(*                                                                         *)
(* An argument is its kind and its value.  A step may have a table below   *)
(* it, which stays with the step in the concept, with the arguments in its *)
(* cells, or is handed on as a parameter that the editor has named.        *)
(***************************************************************************)
EXTENDS Integers, SequencesExt

CONSTANT Selections  \* what an editor may ask for: the arguments of the name, and the steps

Argument == [kind : {"static", "dynamic", "special"}, value : STRING]
Table == [kind : {"none", "param", "inline"}, name : STRING, cells : Seq(STRING)]

ASSUME ExtractionAssumption ==
  \A s \in Selections :
    s.name \in Seq(Argument) /\ s.steps \in Seq([args : Seq(Argument), table : Table])

VARIABLES
  selection,
  extraction,    \* "extract", "concept", "usage", "done"; "crashed"
  extractor,  \* what was made of the steps so far
  written     \* the files written: "concept", "usage"

extractionVars == <<selection, extraction, extractor, written>>

NoTable == [kind |-> "none", name |-> "", cells |-> <<>>]
Gap == [kind |-> "gap", value |-> ""]
TableArg(table) == [kind |-> "table", value |-> table.name]
Dynamic(value) == [kind |-> "dynamic", value |-> value]

ExtractionInit ==
  /\ selection \in Selections
  /\ extraction = "extract"
  /\ extractor = [conceptName |-> selection.name, table |-> NoTable, dynamicArgs |-> <<>>, steps |-> <<>>]
  /\ written = {}

-----------------------------------------------------------------------------
(* getExtractedConcept.                                                    *)

\* A slip: only the first argument is compared.
ReplaceFirstArg(args, with) ==
  [i \in DOMAIN args |->
     IF i = 1 /\ args[i] \in ToSet(with) THEN Dynamic(args[i].value) ELSE args[i]]

\* An argument that is one of the name's becomes a parameter with its value for a name.
ReplaceArgsWithDynamic(args, with) ==
  [i \in DOMAIN args |-> IF args[i] \in ToSet(with) THEN Dynamic(args[i].value) ELSE args[i]]

Replace(args, old, new) ==
  IF old \notin ToSet(args) THEN args
  ELSE [args EXCEPT ![Min({i \in DOMAIN args : args[i] = old})] = new]

\* handleTable, addTableAsParam: the name loses the parameter, whose table comes below it.
WithTable(e, step) ==
  CASE step.table.kind = "none" -> e
    [] step.table.kind = "param" ->
         [e EXCEPT !.conceptName = Replace(@, Dynamic(step.table.name), Gap), !.table = step.table]
    [] step.table.kind = "inline" ->
         [e EXCEPT !.dynamicArgs = @ \o step.table.cells]

ArgsWithTable(step) ==
  step.args \o CASE step.table.kind = "none" -> <<>>
                 [] step.table.kind = "param" -> <<Dynamic(step.table.name)>>
                 [] step.table.kind = "inline" -> <<TableArg(step.table)>>

ExtractStep ==
  /\ extraction = "extract" /\ Len(extractor.steps) < Len(selection.steps)
  /\ LET step == selection.steps[Len(extractor.steps) + 1]
     IN  extractor' = [WithTable(extractor, step) EXCEPT
           !.steps = Append(@, ReplaceArgsWithDynamic(ArgsWithTable(step), selection.name))]
  /\ UNCHANGED <<selection, extraction, written>>

\* A name or a step that does not parse has no tokens, of which the first is taken.
RejectText ==
  /\ extraction = "extract"
  /\ extractor.steps = <<>> \/ Len(extractor.steps) < Len(selection.steps)
  /\ extraction' = "crashed"
  /\ UNCHANGED <<selection, extractor, written>>

\* A table that does not parse leaves a step with a placeholder and no argument for it,
\* and formatStep panics before the error is looked at.
RejectTable ==
  /\ extraction = "extract" /\ Len(extractor.steps) < Len(selection.steps)
  /\ selection.steps[Len(extractor.steps) + 1].table.kind # "none"
  /\ extraction' = "crashed"
  /\ UNCHANGED <<selection, extractor, written>>

\* The specification does not parse.
RejectSpec ==
  /\ extraction = "extract" /\ extractor.steps = <<>>
  /\ extraction' = "done"
  /\ UNCHANGED <<selection, extractor, written>>

ExtractConcept ==
  /\ extraction = "extract" /\ Len(extractor.steps) = Len(selection.steps)
  /\ extraction' = "concept"
  /\ UNCHANGED <<selection, extractor, written>>

\* addArgsFromTable
Heading ==
  LET args == extractor.dynamicArgs
  IN  ReplaceArgsWithDynamic(selection.name, selection.name)
        \o [i \in DOMAIN args |-> Dynamic(args[i])]

\* What the usage is read as: blanks are dropped at the end of a line, and the table below
\* it is the last argument.
Usage ==
  LET args == extractor.dynamicArgs
      line == extractor.conceptName \o [i \in DOMAIN args |-> Dynamic(args[i])]
      last == {i \in DOMAIN line : line[i] # Gap}
  IN  SubSeq(line, 1, IF last = {} THEN 0 ELSE Max(last))
        \o (IF extractor.table = NoTable THEN <<>> ELSE <<TableArg(extractor.table)>>)

-----------------------------------------------------------------------------
(* writeConceptToFile.                                                     *)

\* That a file cannot be written is logged.
WriteConcept ==
  /\ extraction = "concept" /\ extraction' = "usage"
  /\ written' \in {written, written \cup {"concept"}}
  /\ UNCHANGED <<selection, extractor>>

\* Lines that are not in the file, or no longer, are out of range.
WriteUsage ==
  /\ extraction = "usage"
  /\ \/ extraction' = "done" /\ written' \in {written, written \cup {"usage"}}
     \/ extraction' = "crashed" /\ UNCHANGED written
  /\ UNCHANGED <<selection, extractor>>

ExtractionNext ==
  ExtractStep \/ RejectText \/ RejectTable \/ RejectSpec \/ ExtractConcept \/ WriteConcept \/ WriteUsage

ExtractionSpec == ExtractionInit /\ [][ExtractionNext]_extractionVars
-----------------------------------------------------------------------------
(* Properties.                                                             *)

IsUse == Len(Usage) = Len(Heading) /\ Gap \notin ToSet(Usage)

Value(arg) ==
  IF arg \in ToSet(Heading) THEN Usage[Min({i \in DOMAIN Heading : Heading[i] = arg})] ELSE arg

Tables(kind) == {k \in DOMAIN selection.steps : selection.steps[k].table.kind = kind}

\* No two arguments of the name become the same parameter; it has every parameter of the
\* steps; if it has one for a table, then a single one, and last, which no step has for an
\* argument, and no other table adds any to it.
Extractable ==
  LET steps == selection.steps
      name == selection.name
      params == {Dynamic(steps[k].table.name) : k \in Tables("param")}
  IN  /\ \A i, j \in DOMAIN name : i # j => name[i].value # name[j].value
      /\ \A k \in DOMAIN steps : \A i \in DOMAIN steps[k].args :
           steps[k].args[i].kind = "dynamic" => steps[k].args[i] \in ToSet(name)
      /\ params # {} =>
           /\ name # <<>> /\ params = {Last(name)}
           /\ \A k \in DOMAIN steps : Last(name) \notin ToSet(steps[k].args)
           /\ \A k \in Tables("inline") : steps[k].table.cells = <<>>
      /\ \A k \in Tables("inline") : \A i \in DOMAIN steps[k].table.cells :
           \/ Dynamic(steps[k].table.cells[i]) \in ToSet(name)
           \/ steps[k].table.cells[i] \notin {name[j].value : j \in DOMAIN name}

\* Where the usage stands and the concept was written, the usage is one of the concept, and
\* its steps with the values of the parameters are the steps that were selected, tables and
\* the arguments in them included.
ExtractionKeepsMeaning ==
  written = {"concept", "usage"} /\ Extractable =>
    /\ IsUse
    /\ \A k \in DOMAIN selection.steps :
         LET step == selection.steps[k]
             args == extractor.steps[k]
         IN  /\ \A i \in DOMAIN step.args : Value(args[i]) = step.args[i]
             /\ step.table.kind # "none" => Value(Last(args)) = TableArg(step.table)
             /\ step.table.kind = "inline" =>
                  \A i \in DOMAIN step.table.cells :
                    Value(Dynamic(step.table.cells[i])) = Dynamic(step.table.cells[i])
=============================================================================

------------------------------- MODULE Concepts -------------------------------
(***************************************************************************)
(* Concept files and the concept dictionary (concept.go): a file is read   *)
(* line by line into concepts, its concepts are added to the dictionary,   *)
(* and steps that refer to a concept are replaced by it, whichever of the  *)
(* two comes first.                                                        *)
(*                                                                         *)
(* A line is what the tokenizer makes of it (specparser.go); a step is its *)
(* value.  Parameters are left out.  Steps are objects that are shared and *)
(* changed in place, so the dictionary keeps, for every concept and every  *)
(* step in it, the concept whose steps that object has been given.         *)
(***************************************************************************)
EXTENDS Integers, FiniteSets, SequencesExt

CONSTANTS
  Names,      \* values that a concept heading or a step can have
  PlainSteps, \* values that only steps have
  MaxLines    \* bound on the lines of all files together

ASSUME ConceptLinesAssumption == MaxLines \in Nat

VARIABLES
  strict,    \* does an error end the reading (it never changes)
  phase,     \* "reading", "adding", "ready", "rejected"; "crashed" when the process panics
  linesLeft, \* lines that may still be read
  lines,     \* history: the lines of the file
  inTable,   \* tableScope of the specParser
  scopes,    \* currentState of the conceptParser
  concepts,  \* its finished concepts; then those that are still to be added
  current,   \* its currentConcept, as a sequence of none or one
  dictionary \* the conceptDictionary

file == <<lines, inTable, scopes, concepts, current>>
conceptVars == <<strict, phase, linesLeft, file, dictionary>>

-----------------------------------------------------------------------------
(* The dictionary.  defs are the concepts it holds, in the order they were *)
(* added; a step's "into" is the concept whose steps it has been given, 0  *)
(* when it is a plain step.  conceptsMap maps a value to its concept,      *)
(* constructionMap a value to the object that was there first: a step of a *)
(* concept, or its heading (0).                                            *)

NoConcepts == [defs |-> <<>>, conceptsMap |-> <<>>, constructionMap |-> <<>>]

Defines(dict, value) == value \in DOMAIN dict.conceptsMap

\* A slip: the step that was there first stays what it is.
UpdateStepNever(dict, value, d) == dict.defs

\* updateStep for the heading of concept d: the object that has had its value
\* first becomes a concept.
UpdateStep(dict, value, d) ==
  IF value \notin DOMAIN dict.constructionMap THEN dict.defs
  ELSE LET at == dict.constructionMap[value]
       IN  [dict.defs EXCEPT ![at[1]].steps[at[2]].into = IF @ = 0 THEN d ELSE @]

\* Where a value that is new in a concept is first found: its heading, or a step.
Place(concept, value) ==
  IF value = concept.value THEN 0 ELSE Min({i \in DOMAIN concept.steps : concept.steps[i] = value})

\* replaceNestedConceptSteps, and the new entry in conceptsMap.
ReplaceNestedConceptSteps(dict, concept) ==
  LET d == Len(dict.defs) + 1
      plain == {i \in DOMAIN concept.steps : ~Defines(dict, concept.steps[i])}
      seen == DOMAIN dict.constructionMap
  IN  [dict EXCEPT
        !.defs = Append(UpdateStep(dict, concept.value, d),
                        [value |-> concept.value,
                         steps |-> [i \in DOMAIN concept.steps |->
                                     [value |-> concept.steps[i],
                                      into |-> IF i \in plain THEN 0
                                               ELSE dict.conceptsMap[concept.steps[i]]]]]),
        !.conceptsMap = [v \in DOMAIN @ \cup {concept.value} |->
                           IF v = concept.value THEN d ELSE @[v]],
        !.constructionMap =
          [v \in seen \cup {concept.value} \cup {concept.steps[i] : i \in plain} |->
             IF v \in seen THEN @[v] ELSE <<d, Place(concept, v)>>]]

Expands(dict, d, e) == \E i \in DOMAIN dict.defs[d].steps : dict.defs[d].steps[i].into = e
Mentions(dict, d, e) ==
  \E i \in DOMAIN dict.defs[d].steps : dict.defs[d].steps[i].value = dict.defs[e].value

\* What getCopy reaches when it copies concept d: what is in every set that has what d
\* expands to, and with a concept what that expands to.
Reaches(dict, d, e) ==
  \A reached \in SUBSET DOMAIN dict.defs :
    (\A x \in {d} \cup reached : \A y \in DOMAIN dict.defs : Expands(dict, x, y) => y \in reached)
      => e \in reached

\* A slip: concepts inside concepts are not looked into.
CircularShallow(dict) == \E d \in DOMAIN dict.defs : Mentions(dict, d, d)

\* validateConcepts and checkCircularReferencing: a concept, or one it expands to,
\* mentions it.
Circular(dict) ==
  \E d, e \in DOMAIN dict.defs : (e = d \/ Reaches(dict, d, e)) /\ Mentions(dict, e, d)

-----------------------------------------------------------------------------
(* Reading a file.                                                         *)

NewFile ==
  /\ lines' = <<>> /\ inTable' = FALSE /\ scopes' = {}
  /\ concepts' = <<>> /\ current' = <<>>

ConceptsInit ==
  /\ strict \in BOOLEAN
  /\ phase = "reading" /\ linesLeft = MaxLines
  /\ lines = <<>> /\ inTable = FALSE /\ scopes = {}
  /\ concepts = <<>> /\ current = <<>>
  /\ dictionary = NoConcepts

Line(kind, value) ==
  /\ phase = "reading" /\ linesLeft > 0
  /\ linesLeft' = linesLeft - 1
  /\ lines' = Append(lines, [kind |-> kind, value |-> value])
  /\ UNCHANGED <<strict, dictionary>>

\* createConceptsDictionary: the next file, or the end of it.
NextFile(fails) ==
  /\ phase' = IF fails /\ strict THEN "rejected" ELSE "reading"
  /\ NewFile
  /\ UNCHANGED strict

\* createConcepts returns an error: the dictionary has nothing of this file.
RejectFile == phase = "reading" /\ NextFile(TRUE) /\ UNCHANGED dictionary

RejectLine == linesLeft > 0 /\ linesLeft' = linesLeft - 1 /\ RejectFile

\* A slip: a concept without steps is not taken over.
FinishedEmptyLost == IF "step" \in scopes THEN concepts \o current ELSE concepts

\* The concepts that are finished when the next heading comes; isInState asks for
\* any of its states.
Finished == IF scopes \cap {"concept", "step"} # {} THEN concepts \o current ELSE concepts

\* A "#" heading does not end a table for the tokenizer, a "##" heading does.
ConceptHeading(value, endsTable) ==
  /\ Line("heading", value)
  /\ concepts' = Finished
  /\ current' = << [value |-> value, steps |-> <<>>] >>
  /\ scopes' = scopes \cup {"concept"}
  /\ inTable' = (inTable /\ ~endsTable)
  /\ UNCHANGED phase

CallsItself(value) == current # <<>> /\ current[1].value = value

ConceptStep(value) ==
  /\ "concept" \in scopes /\ ~CallsItself(value)
  /\ Line("step", value)
  /\ current' = [current EXCEPT ![1].steps = Append(@, value)]
  /\ scopes' = scopes \cup {"step"}
  /\ inTable' = FALSE
  /\ UNCHANGED <<phase, concepts>>

\* No heading above the step, or the concept calls itself.
RejectStep(value) ==
  /\ "concept" \notin scopes \/ CallsItself(value)
  /\ RejectLine

Comment ==
  /\ Line("comment", "")
  /\ inTable' = FALSE
  /\ UNCHANGED <<phase, scopes, concepts, current>>

HasStep == current # <<>> /\ current[1].steps # <<>>

\* The first line of a table needs a step; the others are not asked.
TableAccepted == inTable \/ "step" \in scopes

\* processTableHeader and processTableDataRow index the last step of the current
\* concept, whether it has one or not.
TableLine ==
  /\ TableAccepted
  /\ Line("table", "")
  /\ phase' = IF HasStep THEN "reading" ELSE "crashed"
  /\ inTable' = TRUE
  /\ UNCHANGED <<scopes, concepts, current>>

RejectTable == ~TableAccepted /\ RejectLine

\* The end of the file.
EndFile ==
  /\ phase = "reading" /\ phase' = "adding" /\ lines # <<>>
  /\ scopes # {"concept"}
  /\ concepts' = concepts \o current /\ current' = <<>>
  /\ UNCHANGED <<strict, linesLeft, lines, inTable, scopes, dictionary>>

\* add: one concept after the other; ...
Adding == phase = "adding" /\ concepts # <<>>

AddConcept ==
  /\ Adding /\ ~Defines(dictionary, Head(concepts).value)
  /\ dictionary' = ReplaceNestedConceptSteps(dictionary, Head(concepts))
  /\ concepts' = Tail(concepts)
  /\ UNCHANGED <<strict, phase, linesLeft, lines, inTable, scopes, current>>

\* ... a second definition is an error, which leaves what has been added.
DuplicateConcept ==
  /\ Adding /\ Defines(dictionary, Head(concepts).value)
  /\ NextFile(TRUE)
  /\ UNCHANGED <<linesLeft, dictionary>>

ValidateConcepts ==
  /\ phase = "adding" /\ concepts = <<>>
  /\ NextFile(Circular(dictionary))
  /\ UNCHANGED <<linesLeft, dictionary>>

\* "Concept should have atleast one step".
RejectWithoutStep == scopes = {"concept"} /\ RejectFile /\ UNCHANGED linesLeft

\* A heading, a step or a table whose text does not parse; an unreadable file.
RejectText == RejectLine

\* All files are read.
Ready ==
  /\ phase = "reading" /\ lines = <<>>
  /\ phase' = "ready"
  /\ UNCHANGED <<strict, linesLeft, file, dictionary>>

ConceptsNext ==
  \/ \E value \in Names : ConceptHeading(value, TRUE) \/ ConceptHeading(value, FALSE)
  \/ \E value \in Names \cup PlainSteps : ConceptStep(value) \/ RejectStep(value)
  \/ Comment \/ TableLine \/ RejectTable \/ RejectText
  \/ EndFile \/ RejectWithoutStep \/ AddConcept \/ DuplicateConcept \/ ValidateConcepts \/ Ready

ConceptsSpec == ConceptsInit /\ [][ConceptsNext]_conceptVars
-----------------------------------------------------------------------------
(* Properties.                                                             *)

Defs == DOMAIN dictionary.defs

\* The step lines that belong to the heading at line n.
StepsBelow(n) ==
  LET below == {m \in DOMAIN lines : /\ m > n /\ lines[m].kind = "step"
                                     /\ \A k \in (n + 1)..m : lines[k].kind # "heading"}
  IN  {<<m, lines[m].value>> : m \in below}

Headings == {n \in DOMAIN lines : lines[n].kind = "heading"}

\* What is parsed of a file is what was written in it: each heading is a concept,
\* in order, with the steps below it and no others (createConcepts takes the
\* concepts over one heading late, by states that are never cleared).
ConceptsAsWritten ==
  phase = "reading" =>
    LET parsed == concepts \o current
        Rank(S, n) == Cardinality({m \in S : m <= n})
    IN  /\ Len(parsed) = Cardinality(Headings)
        /\ \A n \in Headings :
             LET c == parsed[Rank(Headings, n)]
                 below == StepsBelow(n)
             IN  /\ c.value = lines[n].value
                 /\ Len(c.steps) = Cardinality(below)
                 /\ \A s \in below : c.steps[Rank({t[1] : t \in below}, s[1])] = s[2]

\* In a dictionary that is good for an execution no concept expands to itself:
\* copying it into a specification (getCopy) comes to an end.
AcceptedIsFinite ==
  strict /\ phase \notin {"adding", "rejected"} => \A d \in Defs : ~Reaches(dictionary, d, d)

Earlier(at, than) == at[1] < than[1] \/ (at[1] = than[1] /\ at[2] < than[2])

References(value) ==
  {at \in UNION {{<<d, i>> : i \in DOMAIN dictionary.defs[d].steps} : d \in Defs} :
     dictionary.defs[at[1]].steps[at[2]].value = value}

Into(at) == dictionary.defs[at[1]].steps[at[2]].into

\* A step that refers to a concept expands to that concept if it comes after it,
\* or if it is the first to refer to it; and a step expands to nothing else.
ReferencesExpand ==
  /\ \A d \in Defs : \A i \in DOMAIN dictionary.defs[d].steps :
       Into(<<d, i>>) # 0
         => dictionary.defs[Into(<<d, i>>)].value = dictionary.defs[d].steps[i].value
  /\ \A e \in Defs :
       LET references == References(dictionary.defs[e].value)
           IsFirst(at) == \A other \in references : ~Earlier(other, at)
       IN  \A at \in references : (at[1] > e \/ IsFirst(at)) => Into(at) = e

\* "mutates the step with concept steps so that anyone who is referencing the step
\* will now refer a concept" (concept.go, updateStep).  The code does not keep it:
\* of several references that come before the concept only the first is changed.
EveryReferenceExpands ==
  \A e \in Defs : \A at \in References(dictionary.defs[e].value) : Into(at) # 0

=============================================================================

-------------------------- MODULE SpecParser_proofs --------------------------
(***************************************************************************)
(* Theorems about SpecParser for specifications of any length, with any    *)
(* titles and parameters, and about StepText: the text of a step, of any   *)
(* length and with any parameters, reads the same after it is written.     *)
(***************************************************************************)
EXTENDS SpecParser, StepText, FiniteSetTheorems, SequenceTheorems, WellFoundedInduction, TLAPS

Item == [line : Nat, as : Places, in : Nat]

-----------------------------------------------------------------------------
(* Lists of items.                                                         *)

\* Where there are items of a kind, one of them is the last.
LatestInv ==
  \A as \in Places : Positions(as) # {} => LastOf(Positions(as)) \in Positions(as)

\* Latest finds the line of an item of its kind, if there is one.
LEMMA LatestFinds ==
  ASSUME items \in Seq(Item), LatestInv, NEW as \in Places
  PROVE  /\ Latest(as) \in Nat
         /\ (\E item \in Items : item.as = as)
              => \E item \in Items : item.as = as /\ item.line = Latest(as)
         /\ (~ \E item \in Items : item.as = as) => Latest(as) = 0
<1>1. CASE Positions(as) = {}
  <2>1. Latest(as) = 0
    BY <1>1 DEF Latest
  <2>2. ~ \E item \in Items : item.as = as
    BY <1>1 DEF Items, Positions
  <2>3. Latest(as) \in Nat
    BY <2>1
  <2> QED BY <2>1, <2>2, <2>3
<1>2. CASE Positions(as) # {}
  <2>1. LastOf(Positions(as)) \in Positions(as)
    BY <1>2 DEF LatestInv
  <2>2. Latest(as) = items[LastOf(Positions(as))].line
    BY <1>2 DEF Latest
  <2>3. LastOf(Positions(as)) \in DOMAIN items /\ items[LastOf(Positions(as))].as = as
    BY <2>1 DEF Positions
  <2>4. items[LastOf(Positions(as))] \in Items
    BY <2>3 DEF Items
  <2>5. items[LastOf(Positions(as))] \in Item
    <3>1. DOMAIN items = 1..Len(items)
      OBVIOUS
    <3> QED BY <2>3, <3>1, ElementOfSeq
  <2>6. Latest(as) \in Nat
    BY <2>2, <2>5 DEF Item
  <2> QED BY <2>2, <2>3, <2>4, <2>6
<1> QED BY <1>1, <1>2

LEMMA AppendedIsLast ==
  ASSUME NEW n \in Nat, NEW P, NEW Q, P \subseteq 1..n, Q = P \cup {n + 1}
  PROVE  LastOf(Q) = n + 1
<1>1. n + 1 \in Q /\ \A k \in Q : k <= n + 1
  OBVIOUS
<1>2. \A i \in Q : (\A k \in Q : k <= i) => i = n + 1
  OBVIOUS
<1> QED BY <1>1, <1>2 DEF LastOf

\* Placing adds one item, which is the latest of its kind.
LEMMA Placed ==
  ASSUME items \in Seq(Item), LatestInv,
         NEW as \in Places, NEW in \in Nat, Token.line \in Nat, Place(as, in)
  PROVE  /\ items' \in Seq(Item) /\ LatestInv'
         /\ Items' = Items \cup {[line |-> Token.line, as |-> as, in |-> in]}
         /\ Latest(as)' = Token.line
         /\ \A other \in Places \ {as} : Latest(other)' = Latest(other)
<1> DEFINE new == [line |-> Token.line, as |-> as, in |-> in]
           n == Len(items)
<1>1. new \in Item /\ items' = Append(items, new)
  BY DEF Place, Item
<1>2. new.as = as /\ new.line = Token.line
  OBVIOUS
<1> HIDE DEF new
<1>3. /\ items' \in Seq(Item) /\ Len(items') = n + 1 /\ n \in Nat
      /\ \A i \in 1..n : items'[i] = items[i]
      /\ items'[n + 1] = new
  BY <1>1, AppendProperties
<1>4. DOMAIN items' = 1..(n + 1) /\ DOMAIN items = 1..n
  BY <1>3
<1>5. Items' = Items \cup {new}
  BY <1>3, <1>4 DEF Items
<1>6. Positions(as)' = Positions(as) \cup {n + 1}
  <2>1. \A i \in 1..n : items'[i].as = items[i].as
    BY <1>3
  <2>2. items'[n + 1].as = as
    BY <1>2, <1>3
  <2>3. ASSUME NEW i
        PROVE  i \in Positions(as)' <=> i \in Positions(as) \/ i = n + 1
    <3> HIDE DEF n
    <3>1. i \in 1..(n + 1) <=> i \in 1..n \/ i = n + 1
      BY <1>3
    <3>2. n + 1 \notin 1..n
      BY <1>3
    <3> QED BY <1>4, <2>1, <2>2, <3>1, <3>2 DEF Positions
  <2> QED BY <2>3
<1>7. LastOf(Positions(as)') = n + 1
  <2>1. Positions(as) \subseteq 1..n
    BY <1>4 DEF Positions
  <2>2. n \in Nat
    BY <1>3
  <2> HIDE DEF n
  <2> QED BY <1>6, <2>1, <2>2, AppendedIsLast
<1>8. Latest(as)' = Token.line
  BY <1>2, <1>3, <1>6, <1>7 DEF Latest
<1>9. ASSUME NEW other \in Places \ {as}
      PROVE  /\ Positions(other)' = Positions(other)
             /\ LastOf(Positions(other)') = LastOf(Positions(other))
             /\ Latest(other)' = Latest(other)
  <2>1. Positions(other)' = Positions(other)
    <3>1. \A i \in 1..n : items'[i].as = items[i].as
      BY <1>3
    <3>2. items'[n + 1].as # other
      BY <1>2, <1>3
    <3> HIDE DEF n
    <3> QED BY <1>3, <1>4, <3>1, <3>2 DEF Positions
  <2>2. LastOf(Positions(other)') = LastOf(Positions(other))
    BY <2>1
  <2>3. CASE Positions(other) = {}
    BY <2>1, <2>2, <2>3 DEF Latest
  <2>4. CASE Positions(other) # {}
    <3>1. LastOf(Positions(other)) \in 1..n
      BY <1>4, <2>4 DEF Positions, LatestInv
    <3>2. items'[LastOf(Positions(other))] = items[LastOf(Positions(other))]
      BY <1>3, <3>1
    <3> QED BY <2>1, <2>2, <2>4, <3>2 DEF Latest
  <2> QED BY <2>3, <2>4, <2>1, <2>2
<1>10. LatestInv'
  <2> SUFFICES ASSUME NEW other \in Places, Positions(other)' # {}
               PROVE  LastOf(Positions(other)') \in Positions(other)'
    BY DEF LatestInv
  <2>1. CASE other = as
    BY <1>6, <1>7, <2>1
  <2>2. CASE other # as
    BY <1>9, <2>2 DEF LatestInv
  <2> QED BY <2>1, <2>2
<1> QED BY <1>3, <1>5, <1>8, <1>9, <1>10 DEF new

-----------------------------------------------------------------------------
(* The inductive invariant.                                                *)

\* While lines are read, nothing is placed.
LinesInv ==
  phase = "lines" =>
    next = 1 /\ state = {} /\ heading = 0 /\ items = <<>> /\ dataTable = NoTable

Inv == TypeOK /\ LinesInv /\ LatestInv /\ StatesHold /\ ParametersResolve

LEMMA EmptyItems ==
  ASSUME items = <<>>
  PROVE  items \in Seq(Item) /\ Items = {} /\ LatestInv /\ ParametersResolve
<1>1. DOMAIN items = {}
  OBVIOUS
<1>2. Items = {}
  BY <1>1 DEF Items
<1>3. LatestInv
  BY <1>1 DEF LatestInv, Positions
<1>4. ParametersResolve
  BY <1>2 DEF ParametersResolve
<1> QED BY <1>2, <1>3, <1>4

LEMMA InitInv == Init => Inv
<1> SUFFICES ASSUME Init PROVE Inv
  OBVIOUS
<1> USE DEF Init
<1>1. TypeOK
  BY EmptyItems, MaxLinesAssumption DEF TypeOK, NoTable, Item
<1>2. StatesHold
  BY DEF StatesHold, In, HasStep
<1> QED BY <1>1, <1>2, EmptyItems DEF Inv, LinesInv

LEMMA TokenType ==
  ASSUME TypeOK, next \in DOMAIN tokens
  PROVE  /\ Token.line \in DOMAIN lines /\ Token.line \in Nat \ {0}
         /\ next + 1 \in 1..(Len(tokens) + 1)
<1>1. DOMAIN lines = 1..Len(lines) /\ DOMAIN tokens = 1..Len(tokens)
  BY DEF TypeOK
<1>2. tokens[next].line \in DOMAIN lines
  BY DEF TypeOK
<1>3. next + 1 \in 1..(Len(tokens) + 1)
  BY <1>1 DEF TypeOK
<1>4. DOMAIN lines \subseteq Nat \ {0}
  BY <1>1 DEF TypeOK
<1> QED BY <1>2, <1>3, <1>4 DEF Token

\* What a placed item leaves of the invariant, whatever the states become.
LEMMA PlaceInv ==
  ASSUME Inv, NEW kind, Converts(kind), NEW as \in Places, NEW in \in Nat, Place(as, in),
         phase' = phase,
         in = 0 \/ \E owner \in Items : /\ owner.line = in
                                        /\ owner.as \in {"scenario", "step", "context"},
         state' \subseteq TableScopes \cup {"comment", "keyword"},
         dataTable' \in [isInitialized : BOOLEAN, columns : SUBSET (Params \cup {Other}), rows : Nat],
         dataTable'.isInitialized \/ dataTable' = NoTable,
         dataTable.columns \subseteq dataTable'.columns,
         as \in {"step", "context"} => TokenLine.params \subseteq dataTable.columns
  PROVE  /\ TypeOK' /\ LinesInv' /\ LatestInv' /\ ParametersResolve'
         /\ Items' = Items \cup {[line |-> Token.line, as |-> as, in |-> in]}
         /\ Latest(as)' = Token.line /\ Token.line # 0
         /\ \A other \in Places \ {as} : Latest(other)' = Latest(other)
<1> DEFINE new == [line |-> Token.line, as |-> as, in |-> in]
<1>1. TypeOK /\ phase = "tokens" /\ next \in DOMAIN tokens
  BY DEF Inv, Converts
<1>2. /\ Token.line \in DOMAIN lines /\ Token.line \in Nat \ {0}
      /\ next + 1 \in 1..(Len(tokens) + 1)
  BY <1>1, TokenType
<1>3. items \in Seq(Item) /\ LatestInv
  BY DEF Inv, TypeOK, Item
<1>4. /\ items' \in Seq(Item) /\ LatestInv'
      /\ Items' = Items \cup {new}
      /\ Latest(as)' = Token.line
      /\ \A other \in Places \ {as} : Latest(other)' = Latest(other)
  BY <1>2, <1>3, Placed
<1>5. UNCHANGED <<parser, heading>> /\ next' = next + 1
  BY DEF Place
<1>6. TypeOK'
  <2>1. \A item \in Items' :
          /\ item.line \in DOMAIN lines
          /\ item.in = 0 \/ \E owner \in Items' : /\ owner.line = item.in
                                                   /\ owner.as \in {"scenario", "step", "context"}
    <3> TAKE item \in Items'
    <3>1. CASE item = new
      <4>1. item.line = Token.line /\ item.in = in
        BY <3>1
      <4> QED BY <1>2, <1>4, <4>1
    <3>2. CASE item \in Items
      BY <1>1, <1>4, <3>2 DEF TypeOK
    <3> HIDE DEF new
    <3> QED BY <1>4, <3>1, <3>2
  <2> QED BY <1>1, <1>2, <1>4, <1>5, <2>1 DEF TypeOK, parser, Item
<1>7. ParametersResolve'
  <2>1. lines' = lines
    BY <1>5 DEF parser
  <2> SUFFICES ASSUME NEW item \in Items', item.as \in {"step", "context"}
               PROVE  lines[item.line].params \subseteq dataTable'.columns
    BY <2>1 DEF ParametersResolve
  <2>2. CASE item = new
    <3>1. item.line = Token.line /\ item.as = as
      BY <2>2
    <3>2. TokenLine.params \subseteq dataTable.columns
      BY <3>1
    <3> QED BY <3>1, <3>2 DEF TokenLine
  <2>3. CASE item \in Items
    BY <2>3 DEF Inv, ParametersResolve
  <2> HIDE DEF new
  <2> QED BY <1>4, <2>2, <2>3
<1> QED BY <1>1, <1>2, <1>4, <1>6, <1>7 DEF LinesInv

\* The states still hold after an item that is no scenario, step or header, when none
\* of them is added but "table" for the specification's own table.
LEMMA PlaceStates ==
  ASSUME Inv, phase' = "tokens", NEW as \in {"comment", "tags", "table", "row"},
         Items \subseteq Items',
         \A other \in Places \ {as} : Latest(other)' = Latest(other),
         dataTable.isInitialized => dataTable'.isInitialized,
         \A scope \in {"scenario", "step", "context"} : scope \in state' => scope \in state,
         "table" \in state' =>
           \/ "table" \in state /\ \A scope \in {"step", "context"} : scope \in state => scope \in state'
           \/ dataTable'.isInitialized /\ "step" \notin state' /\ "context" \notin state'
  PROVE  StatesHold'
<1>1. \A other \in {"scenario", "step", "context"} : Latest(other)' = Latest(other)
  BY DEF Places
<1>2. StatesHold
  BY DEF Inv
<1> QED BY <1>1, <1>2 DEF StatesHold, In, HasStep, LatestStep, LatestScenario

-----------------------------------------------------------------------------
(* Reading lines.                                                          *)

LEMMA ReadLine ==
  ASSUME Inv, NEW line \in Line, Read(line),
         tokens' \in Seq([kind : TokenKinds, line : Nat]),
         \A i \in DOMAIN tokens' : tokens'[i].line \in DOMAIN lines',
         Len(tokens') >= 1,
         currentState' \subseteq {"comment", "table", "tableData"}
  PROVE  Inv'
<1>1. lines' \in Seq(Line) /\ Len(lines') <= MaxLines /\ Len(lines') \in Nat
  BY MaxLinesAssumption DEF Inv, TypeOK, Read
<1>2. /\ phase' = phase /\ phase = "lines" /\ next' = 1 /\ state' = {} /\ heading' = 0
      /\ items' = <<>> /\ dataTable' = NoTable
  BY DEF Read, Inv, LinesInv, specification
<1>3. items' \in Seq(Item) /\ Items' = {} /\ LatestInv' /\ ParametersResolve'
  <2>1. items = <<>> /\ Items' = Items /\ items' = items
    BY <1>2 DEF Items, Inv, LinesInv
  <2>2. DOMAIN items' = {}
    BY <1>2
  <2> QED BY <2>1, <2>2, EmptyItems DEF Items, LatestInv, Positions, ParametersResolve
<1>4. TypeOK'
  BY <1>1, <1>2, <1>3 DEF TypeOK, NoTable, Item
<1>5. StatesHold'
  <2>1. tokens' # <<>>
    OBVIOUS
  <2> QED BY <1>2, <2>1 DEF StatesHold, In, HasStep
<1> QED BY <1>2, <1>3, <1>4, <1>5 DEF Inv, LinesInv

LEMMA AcceptToken ==
  ASSUME Inv, NEW line \in Line, Read(line), NEW kind \in TokenKinds,
         NEW states \in SUBSET {"comment", "table", "tableData"}, Accept(kind, states)
  PROVE  Inv'
<1> DEFINE token == [kind |-> kind, line |-> Len(lines) + 1]
<1>1. lines \in Seq(Line) /\ lines' = Append(lines, line) /\ Len(lines) \in Nat
  BY DEF Read, Inv, TypeOK
<1>2. DOMAIN lines = 1..Len(lines) /\ DOMAIN lines' = 1..(Len(lines) + 1)
  BY <1>1
<1>3. token \in [kind : TokenKinds, line : Nat] /\ token.line = Len(lines) + 1
  BY <1>1
<1>4. tokens \in Seq([kind : TokenKinds, line : Nat]) /\ Len(tokens) \in Nat
  BY DEF Inv, TypeOK
<1>5. tokens' = Append(tokens, token)
  BY DEF Accept
<1> HIDE DEF token
<1>6. /\ tokens' \in Seq([kind : TokenKinds, line : Nat]) /\ Len(tokens') = Len(tokens) + 1
      /\ \A i \in 1..Len(tokens) : tokens'[i] = tokens[i]
      /\ tokens'[Len(tokens) + 1] = token
  BY <1>3, <1>4, <1>5, AppendProperties
<1>7. \A i \in DOMAIN tokens' : tokens'[i].line \in DOMAIN lines'
  <2> TAKE i \in DOMAIN tokens'
  <2>1. i \in 1..Len(tokens) \/ i = Len(tokens) + 1
    BY <1>4, <1>6
  <2>2. CASE i \in 1..Len(tokens)
    <3>1. i \in DOMAIN tokens
      BY <1>4, <2>2
    <3>2. tokens[i].line \in DOMAIN lines
      BY <3>1 DEF Inv, TypeOK
    <3> QED BY <1>1, <1>2, <1>6, <2>2, <3>2
  <2>3. CASE i = Len(tokens) + 1
    BY <1>1, <1>2, <1>3, <1>6, <2>3
  <2> QED BY <2>1, <2>2, <2>3
<1>8. Len(tokens') >= 1
  BY <1>4, <1>6
<1> QED BY <1>6, <1>7, <1>8, ReadLine DEF Accept

LEMMA UnderlineInv ==
  ASSUME Inv, NEW line \in Line, Underline(line)
  PROVE  Inv'
<1> DEFINE kind == IF line.kind = "===" THEN "spec" ELSE "scenario"
           n == Len(tokens)
<1>1. /\ Read(line) /\ tokens' = [tokens EXCEPT ![n].kind = kind]
      /\ currentState' = IF kind = "scenario" THEN {} ELSE currentState
  BY DEF Underline
<1>2. kind \in TokenKinds
  BY DEF TokenKinds
<1>3. tokens \in Seq([kind : TokenKinds, line : Nat]) /\ tokens # <<>>
  <2>1. phase = "lines" /\ "comment" \in currentState
    BY DEF Underline, Underlines, Read
  <2> QED BY <2>1 DEF Inv, TypeOK, StatesHold
<1>4. n \in 1..n /\ DOMAIN tokens = 1..n /\ n >= 1
  BY <1>3
<1>5. tokens[n] \in [kind : TokenKinds, line : Nat]
  BY <1>3, <1>4, ElementOfSeq
<1> HIDE DEF kind, n
<1>6. DEFINE changed == [tokens[n] EXCEPT !.kind = kind]
<1>7. changed \in [kind : TokenKinds, line : Nat] /\ changed.line = tokens[n].line
  BY <1>2, <1>5
<1>8. tokens' = [tokens EXCEPT ![n] = changed]
  BY <1>1
<1> HIDE DEF changed
<1>9. /\ tokens' \in Seq([kind : TokenKinds, line : Nat]) /\ Len(tokens') = Len(tokens)
      /\ DOMAIN tokens' = 1..n
      /\ \A i \in 1..n : tokens'[i] = IF i = n THEN changed ELSE tokens[i]
  BY <1>3, <1>4, <1>7, <1>8 DEF n
<1>10. \A i \in DOMAIN tokens' : tokens'[i].line \in DOMAIN lines'
  <2>1. lines \in Seq(Line) /\ lines' = Append(lines, line)
    BY <1>1 DEF Read, Inv, TypeOK
  <2>2. DOMAIN lines \subseteq DOMAIN lines'
    BY <2>1
  <2>3. \A i \in 1..n : tokens[i].line \in DOMAIN lines
    BY <1>4 DEF Inv, TypeOK
  <2> QED BY <1>4, <1>7, <1>9, <2>2, <2>3
<1>11. currentState' \subseteq {"comment", "table", "tableData"}
  BY <1>1 DEF Inv, TypeOK
<1>12. Len(tokens') >= 1
  BY <1>4, <1>9 DEF n
<1> QED BY <1>1, <1>9, <1>10, <1>11, <1>12, ReadLine

LEMMA PlainLineInv ==
  ASSUME Inv, NEW line \in Line, PlainLine(line)
  PROVE  Inv'
<1>1. TokenKind(line) \in TokenKinds
  BY DEF TokenKind, TokenKinds
<1>2. LineScopes(line) \in SUBSET {"comment", "table", "tableData"}
  BY DEF LineScopes, Inv, TypeOK
<1> QED BY <1>1, <1>2, AcceptToken DEF PlainLine

LEMMA TableLineInv ==
  ASSUME Inv, NEW line \in Line, TableLine(line)
  PROVE  Inv'
<1>1. currentState \in SUBSET {"comment", "table", "tableData"}
  BY DEF Inv, TypeOK
<1>2. CASE "table" \in currentState
  BY <1>1, <1>2, AcceptToken DEF TableLine, TokenKinds
<1>3. CASE "table" \notin currentState
  BY <1>1, <1>3, AcceptToken DEF TableLine, TokenKinds
<1> QED BY <1>2, <1>3

-----------------------------------------------------------------------------
(* Converting tokens.                                                      *)

\* Latest of a kind is the line of such an item, or 0.
LEMMA LatestOwner ==
  ASSUME Inv, NEW as \in {"scenario", "step", "context"}
  PROVE  /\ Latest(as) \in Nat
         /\ Latest(as) = 0 \/ \E owner \in Items : /\ owner.line = Latest(as)
                                                 /\ owner.as \in {"scenario", "step", "context"}
<1>1. items \in Seq(Item) /\ LatestInv /\ as \in Places
  BY DEF Inv, TypeOK, Item, Places
<1> QED BY <1>1, LatestFinds

LEMMA HereOwner ==
  ASSUME Inv
  PROVE  /\ Here \in Nat
         /\ Here = 0 \/ \E owner \in Items : /\ owner.line = Here
                                          /\ owner.as \in {"scenario", "step", "context"}
BY LatestOwner DEF Here, LatestScenario

\* The types of states and table when both are kept.
LEMMA Kept ==
  ASSUME Inv
  PROVE  /\ state \subseteq TableScopes \cup {"comment", "keyword"}
         /\ dataTable \in [isInitialized : BOOLEAN, columns : SUBSET (Params \cup {Other}), rows : Nat]
         /\ dataTable.isInitialized \/ dataTable = NoTable
BY DEF Inv, TypeOK

\* A step that places nothing.
LEMMA DropInv ==
  ASSUME Inv, NEW kind, Converts(kind), next' = next + 1,
         UNCHANGED <<phase, parser, items, dataTable>>,
         state' \subseteq state \cup {"spec"},
         "table" \in state' => \A scope \in {"step", "context"} : scope \in state => scope \in state',
         heading' \in {heading, Token.line}
  PROVE  Inv'
<1>1. TypeOK /\ phase = "tokens" /\ next \in DOMAIN tokens
  BY DEF Inv, Converts
<1>2. Token.line \in DOMAIN lines /\ next + 1 \in 1..(Len(tokens) + 1)
  BY <1>1, TokenType
<1>3. Items' = Items /\ Latest("scenario")' = Latest("scenario")
      /\ Latest("step")' = Latest("step") /\ Latest("context")' = Latest("context")
  BY DEF Items, Latest, Positions
<1>4. DOMAIN lines = 1..Len(lines)
  BY <1>1 DEF TypeOK
<1>5. TypeOK'
  BY <1>1, <1>2, <1>3, <1>4 DEF TypeOK, parser, TableScopes
<1>6. LatestInv'
  BY DEF Inv, LatestInv, Positions
<1>7. StatesHold'
  BY <1>1, <1>3 DEF Inv, StatesHold, In, HasStep, LatestStep, LatestScenario
<1>8. ParametersResolve'
  BY <1>3 DEF Inv, ParametersResolve, parser
<1> QED BY <1>1, <1>5, <1>6, <1>7, <1>8 DEF Inv, LinesInv

LEMMA ScenarioInv ==
  ASSUME Inv, ScenarioConverter
  PROVE  Inv'
<1>1. Converts("scenario") /\ Place("scenario", 0) /\ phase' = phase /\ dataTable' = dataTable
      /\ state' = (state \cap {"spec"}) \cup {"scenario"} /\ "scenario" \in Places
  BY DEF ScenarioConverter, Retain, Places
<1>2. state' \subseteq TableScopes \cup {"comment", "keyword"}
  BY <1>1 DEF TableScopes
<1>3. /\ TypeOK' /\ LinesInv' /\ LatestInv' /\ ParametersResolve'
      /\ Latest("scenario")' = Token.line /\ Token.line # 0
  BY <1>1, <1>2, Kept, PlaceInv
<1>4. StatesHold'
  BY <1>1, <1>3 DEF StatesHold, In, HasStep, LatestScenario, Converts
<1> QED BY <1>3, <1>4 DEF Inv

LEMMA StepInv ==
  ASSUME Inv, StepConverter
  PROVE  Inv'
<1>1. Converts("step") /\ Place("step", LatestScenario) /\ phase' = phase /\ dataTable' = dataTable
      /\ state' = (state \cap ItemScopes) \cup {"step"} /\ "step" \in Places
      /\ "scenario" \in state /\ TokenLine.params \subseteq dataTable.columns
  BY DEF StepConverter, Retain, Places, In, Resolves
<1>2. state' \subseteq TableScopes \cup {"comment", "keyword"}
  BY <1>1 DEF TableScopes, ItemScopes
<1>3. LatestScenario \in Nat
      /\ (LatestScenario = 0 \/ \E owner \in Items : /\ owner.line = LatestScenario
                                                   /\ owner.as \in {"scenario", "step", "context"})
  BY LatestOwner DEF LatestScenario
<1>4. /\ TypeOK' /\ LinesInv' /\ LatestInv' /\ ParametersResolve'
      /\ Items' = Items \cup {[line |-> Token.line, as |-> "step", in |-> LatestScenario]}
      /\ Latest("scenario")' = Latest("scenario")
  BY <1>1, <1>2, <1>3, Kept, PlaceInv DEF Places
<1>5. LatestScenario # 0
  BY <1>1 DEF Inv, StatesHold, In
<1>6. StatesHold'
  <2>1. \E item \in Items' : item.as = "step" /\ item.in = LatestScenario'
    <3> DEFINE new == [line |-> Token.line, as |-> "step", in |-> LatestScenario]
    <3>1. new \in Items' /\ new.as = "step" /\ new.in = LatestScenario
      BY <1>4
    <3>2. LatestScenario' = LatestScenario
      BY <1>4 DEF LatestScenario
    <3> HIDE DEF new
    <3> QED BY <3>1, <3>2
  <2>2. phase' = "tokens" /\ "table" \notin state' /\ "context" \notin state'
    BY <1>1 DEF Converts, ItemScopes
  <2>3. LatestScenario' # 0
    BY <1>4, <1>5 DEF LatestScenario
  <2> QED BY <2>1, <2>2, <2>3 DEF StatesHold, In
<1> QED BY <1>4, <1>6 DEF Inv

LEMMA ContextInv ==
  ASSUME Inv, ContextConverter
  PROVE  Inv'
<1>1. Converts("step") /\ Place("context", 0) /\ phase' = phase /\ dataTable' = dataTable
      /\ state' = (state \cap {"spec"}) \cup {"context"} /\ "context" \in Places
      /\ TokenLine.params \subseteq dataTable.columns
  BY DEF ContextConverter, Retain, Places, Resolves
<1>2. state' \subseteq TableScopes \cup {"comment", "keyword"}
  BY <1>1 DEF TableScopes
<1>3. /\ TypeOK' /\ LinesInv' /\ LatestInv' /\ ParametersResolve'
      /\ Latest("context")' = Token.line /\ Token.line # 0
  BY <1>1, <1>2, Kept, PlaceInv
<1>4. StatesHold'
  BY <1>1, <1>3 DEF StatesHold, In, HasStep, Converts
<1> QED BY <1>3, <1>4 DEF Inv

\* Comments, tags, tables of the specification and rows.
LEMMA OtherInv ==
  ASSUME Inv, NEW kind, Converts(kind), NEW as \in {"comment", "tags", "table", "row"},
         NEW in \in Nat, Place(as, in), phase' = phase,
         in = 0 \/ \E owner \in Items : /\ owner.line = in
                                        /\ owner.as \in {"scenario", "step", "context"},
         state' \subseteq state \cup {"comment", "keyword", "table"},
         dataTable' \in [isInitialized : BOOLEAN, columns : SUBSET (Params \cup {Other}), rows : Nat],
         dataTable'.isInitialized \/ dataTable' = NoTable,
         dataTable.columns \subseteq dataTable'.columns,
         dataTable.isInitialized => dataTable'.isInitialized,
         "table" \in state' =>
           \/ "table" \in state /\ \A scope \in {"step", "context"} : scope \in state => scope \in state'
           \/ dataTable'.isInitialized /\ "step" \notin state' /\ "context" \notin state'
  PROVE  Inv'
<1>1. as \in Places /\ as \notin {"step", "context"}
  BY DEF Places
<1>2. state' \subseteq TableScopes \cup {"comment", "keyword"}
  BY Kept DEF TableScopes
<1>3. /\ TypeOK' /\ LinesInv' /\ LatestInv' /\ ParametersResolve'
      /\ Items' = Items \cup {[line |-> Token.line, as |-> as, in |-> in]}
      /\ \A other \in Places \ {as} : Latest(other)' = Latest(other)
  BY <1>1, <1>2, PlaceInv
<1>4. phase' = "tokens"
  BY DEF Converts
<1>5. \A scope \in {"scenario", "step", "context"} : scope \in state' => scope \in state
  OBVIOUS
<1>6. Items \subseteq Items'
  BY <1>3
<1>7. StatesHold'
  BY <1>3, <1>4, <1>5, <1>6, PlaceStates
<1> QED BY <1>3, <1>7 DEF Inv

LEMMA CommentInv ==
  ASSUME Inv, CommentConverter
  PROVE  Inv'
<1>1. /\ Converts("comment") /\ Place("comment", Here) /\ phase' = phase /\ dataTable' = dataTable
      /\ state' = (state \cap ItemScopes) \cup {"comment"}
  BY DEF CommentConverter, Retain
<1>2. "table" \notin state'
  BY <1>1 DEF ItemScopes
<1> QED BY <1>1, <1>2, HereOwner, Kept, OtherInv

LEMMA TagInv ==
  ASSUME Inv, TagConverter
  PROVE  Inv'
<1>1. /\ Converts("tag") /\ Place("tags", Here) /\ phase' = phase /\ dataTable' = dataTable
      /\ state' = state
  BY DEF TagConverter
<1> QED BY <1>1, HereOwner, Kept, OtherInv

LEMMA TakeExternalInv ==
  ASSUME Inv, NEW csv \in CsvTable, TakeExternalTable(csv)
  PROVE  Inv'
<1>1. /\ Converts("dataTable") /\ Place("table", 0) /\ phase' = phase /\ dataTable' = csv
      /\ state' = (state \cap {"spec"}) \cup {"keyword"} /\ ~dataTable.isInitialized
  BY DEF TakeExternalTable, Retain
<1>2. /\ csv \in [isInitialized : BOOLEAN, columns : SUBSET (Params \cup {Other}), rows : Nat]
      /\ csv.isInitialized \/ csv = NoTable
  <2>1. CASE csv = NoTable
    <3>1. csv = [isInitialized |-> FALSE, columns |-> {}, rows |-> 0]
      BY <2>1 DEF NoTable
    <3>2. [isInitialized |-> FALSE, columns |-> {}, rows |-> 0]
            \in [isInitialized : BOOLEAN, columns : SUBSET (Params \cup {Other}), rows : Nat]
      OBVIOUS
    <3> QED BY <2>1, <3>1, <3>2
  <2>2. CASE csv \in [isInitialized : {TRUE}, columns : SUBSET (Params \cup {Other}) \ {{}}, rows : 0..1]
    <3>1. /\ csv = [isInitialized |-> csv.isInitialized, columns |-> csv.columns, rows |-> csv.rows]
          /\ csv.isInitialized = TRUE
          /\ csv.columns \in SUBSET (Params \cup {Other})
          /\ csv.rows \in 0..1
      BY <2>2
    <3>2. csv.rows \in Nat
      BY <3>1
    <3>3. csv.isInitialized \in BOOLEAN
      BY <3>1, Zenon
    <3>4. [isInitialized |-> csv.isInitialized, columns |-> csv.columns, rows |-> csv.rows]
            \in [isInitialized : BOOLEAN, columns : SUBSET (Params \cup {Other}), rows : Nat]
      BY <3>1, <3>2, <3>3
    <3> QED BY <3>1, <3>4, Zenon
  <2> QED BY <2>1, <2>2 DEF CsvTable
<1>3. dataTable.columns \subseteq csv.columns
  BY <1>1, Kept DEF NoTable
<1>4. "table" \notin state'
  BY <1>1
<1> QED BY <1>1, <1>2, <1>3, <1>4, OtherInv

LEMMA IgnoreExternalInv ==
  ASSUME Inv, IgnoreExternalTable
  PROVE  Inv'
<1>1. /\ Converts("dataTable") /\ Place("comment", 0) /\ phase' = phase /\ dataTable' = dataTable
      /\ state' = state
  BY DEF IgnoreExternalTable
<1> QED BY <1>1, Kept, OtherInv

LEMMA StepOwner ==
  ASSUME Inv
  PROVE  /\ LatestStep \in Nat
         /\ LatestStep = 0 \/ \E owner \in Items : /\ owner.line = LatestStep
                                                /\ owner.as \in {"scenario", "step", "context"}
BY LatestOwner DEF LatestStep

LEMMA InlineTableHeaderInv ==
  ASSUME Inv, InlineTableHeader, TokenLine.kind # "|"
  PROVE  Inv'
<1>1. /\ Converts("tableHeader") /\ Place("header", LatestStep) /\ phase' = phase
      /\ dataTable' = dataTable /\ HasStep
      /\ state' = (state \cap TableScopes) \cup {"table"} /\ "header" \in Places
  BY DEF InlineTableHeader, Retain, Places
<1>2. state' \subseteq TableScopes \cup {"comment", "keyword"}
  BY <1>1 DEF TableScopes
<1>3. /\ TypeOK' /\ LinesInv' /\ LatestInv' /\ ParametersResolve'
      /\ Items' = Items \cup {[line |-> Token.line, as |-> "header", in |-> LatestStep]}
      /\ Latest("scenario")' = Latest("scenario")
      /\ Latest("step")' = Latest("step") /\ Latest("context")' = Latest("context")
  BY <1>1, <1>2, Kept, StepOwner, PlaceInv DEF Places
<1>4. \A scope \in {"scenario", "step", "context"} : scope \in state' <=> scope \in state
  BY <1>1 DEF TableScopes
<1>5. LatestStep' = LatestStep /\ LatestScenario' = LatestScenario
  BY <1>3, <1>4 DEF LatestStep, LatestScenario, In
<1>6. \E item \in Items' : item.as = "header" /\ item.in = LatestStep'
  <2> DEFINE new == [line |-> Token.line, as |-> "header", in |-> LatestStep]
  <2>1. new \in Items' /\ new.as = "header" /\ new.in = LatestStep
    BY <1>3
  <2> HIDE DEF new
  <2> QED BY <1>5, <2>1
<1>7. StatesHold'
  <2>1. Items \subseteq Items' /\ phase' = "tokens"
    BY <1>1, <1>3 DEF Converts
  <2>2. HasStep'
    BY <1>1, <1>4 DEF HasStep, In
  <2> QED BY <1>3, <1>4, <1>5, <1>6, <2>1, <2>2 DEF Inv, StatesHold, In
<1> QED BY <1>3, <1>7 DEF Inv

LEMMA DataTableHeaderInv ==
  ASSUME Inv, DataTableHeader
  PROVE  Inv'
<1>1. /\ Converts("tableHeader") /\ Place("table", 0) /\ phase' = phase
      /\ dataTable' = [isInitialized |-> TRUE, columns |-> Columns(TokenLine), rows |-> 0]
      /\ state' = (state \cap TableScopes) \cup {"table"}
      /\ "step" \notin state /\ "context" \notin state /\ ~dataTable.isInitialized
  BY DEF DataTableHeader, TakesTable, Retain, HasStep, In
<1>2. TokenLine \in Line
  <2>1. next \in DOMAIN tokens
    BY <1>1 DEF Converts
  <2>2. Token.line \in DOMAIN lines /\ lines \in Seq(Line)
    BY <2>1, TokenType DEF Inv, TypeOK
  <2>3. DOMAIN lines = 1..Len(lines)
    BY <2>2
  <2> QED BY <2>2, <2>3, ElementOfSeq DEF TokenLine
<1>3. Columns(TokenLine) \in SUBSET (Params \cup {Other})
  <2>1. TokenLine.kind = "|p|" => TokenLine.params = Params
    BY <1>2 DEF Line
  <2> QED BY <2>1 DEF Columns
<1>4. /\ dataTable' \in [isInitialized : BOOLEAN, columns : SUBSET (Params \cup {Other}), rows : Nat]
      /\ dataTable'.isInitialized
  BY <1>1, <1>3
<1>5. dataTable.columns \subseteq dataTable'.columns
  BY <1>1, Kept DEF NoTable
<1>6. /\ state' \subseteq state \cup {"comment", "keyword", "table"}
      /\ "step" \notin state' /\ "context" \notin state'
  BY <1>1
<1> QED BY <1>1, <1>4, <1>5, <1>6, OtherInv

LEMMA IgnoreTableInv ==
  ASSUME Inv, IgnoreTable
  PROVE  Inv'
<1>1. /\ Converts("tableHeader") /\ Place("comment", Here) /\ phase' = phase
      /\ dataTable' = dataTable /\ state' = state
  BY DEF IgnoreTable
<1> QED BY <1>1, HereOwner, Kept, OtherInv

LEMMA RowAsCommentInv ==
  ASSUME Inv, RowAsComment
  PROVE  Inv'
<1>1. /\ Converts("tableRow") /\ Place("comment", Here) /\ phase' = phase
      /\ dataTable' = dataTable /\ state' = state \cap TableScopes /\ "table" \notin state'
  BY DEF RowAsComment, Retain, In
<1> QED BY <1>1, HereOwner, Kept, OtherInv

LEMMA InlineTableRowInv ==
  ASSUME Inv, InlineTableRow
  PROVE  Inv'
<1>1. /\ Converts("tableRow") /\ Place("row", LatestStep) /\ phase' = phase
      /\ dataTable' = dataTable /\ state' = state \cap TableScopes /\ "table" \in state
  BY DEF InlineTableRow, Retain, In
<1>2. \A scope \in {"step", "context"} : scope \in state => scope \in state'
  BY <1>1 DEF TableScopes
<1> QED BY <1>1, <1>2, StepOwner, Kept, OtherInv

LEMMA DataTableRowInv ==
  ASSUME Inv, DataTableRow
  PROVE  Inv'
<1>1. /\ Converts("tableRow") /\ Place("row", 0) /\ phase' = phase
      /\ dataTable' = [dataTable EXCEPT !.rows = @ + 1]
      /\ state' = state \cap TableScopes /\ "table" \in state
      /\ "step" \notin state /\ "context" \notin state
  BY DEF DataTableRow, Retain, In, HasStep
<1>2. dataTable.isInitialized
  BY <1>1 DEF Inv, StatesHold, In, HasStep
<1>3. /\ dataTable' \in [isInitialized : BOOLEAN, columns : SUBSET (Params \cup {Other}), rows : Nat]
      /\ dataTable'.isInitialized /\ dataTable'.columns = dataTable.columns
  BY <1>1, <1>2, Kept
<1> QED BY <1>1, <1>3, OtherInv

LEMMA DropsInv ==
  ASSUME Inv, Drop \/ SpecConverter \/ Separator
  PROVE  Inv'
<1>1. CASE Drop
  BY <1>1, DropInv DEF Drop, specification
<1>2. CASE SpecConverter
  BY <1>2, DropInv DEF SpecConverter, Retain
<1>3. CASE Separator
  <2>1. \A scope \in {"step", "context"} : scope \in state => scope \in state'
    BY <1>3 DEF Separator, Retain, TableScopes
  <2> QED BY <1>3, <2>1, DropInv DEF Separator, Retain, specification
<1> QED BY <1>1, <1>2, <1>3

\* Where only the phase changes.
LEMMA UnchangedInv ==
  ASSUME Inv, phase' \in {"tokens", "accepted", "rejected", "crashed"},
         UNCHANGED <<parser, next, state, specification>>
  PROVE  Inv'
<1>1. UNCHANGED <<lines, currentState, tokens, next, state, heading, items, dataTable>>
  BY DEF parser, specification
<1>2. Items' = Items
  BY <1>1 DEF Items
<1>3. TypeOK'
  BY <1>1, <1>2 DEF Inv, TypeOK
<1>4. LatestInv' /\ ParametersResolve'
  BY <1>1, <1>2 DEF Inv, LatestInv, Positions, ParametersResolve
<1>5. StatesHold'
  BY <1>1, <1>2 DEF Inv, StatesHold, In, HasStep, LatestStep, LatestScenario, Latest, Positions
<1> QED BY <1>3, <1>4, <1>5 DEF Inv, LinesInv

LEMMA StutterInv == Inv /\ UNCHANGED vars => Inv'
<1> SUFFICES ASSUME Inv, UNCHANGED vars PROVE Inv'
  OBVIOUS
<1>1. UNCHANGED <<phase, lines, currentState, tokens, next, state, heading, items, dataTable>>
  BY DEF vars, parser, specification
<1>2. Items' = Items
  BY <1>1 DEF Items
<1>3. TypeOK' /\ LinesInv'
  BY <1>1, <1>2 DEF Inv, TypeOK, LinesInv
<1>4. LatestInv' /\ ParametersResolve'
  BY <1>1, <1>2 DEF Inv, LatestInv, Positions, ParametersResolve
<1>5. StatesHold'
  BY <1>1, <1>2 DEF Inv, StatesHold, In, HasStep, LatestStep, LatestScenario, Latest, Positions
<1> QED BY <1>3, <1>4, <1>5 DEF Inv

LEMMA NextInv == Inv /\ [Next]_vars => Inv'
<1> SUFFICES ASSUME Inv, [Next]_vars PROVE Inv'
  OBVIOUS
<1>1. CASE \E line \in Line : Underline(line) \/ PlainLine(line) \/ TableLine(line)
  BY <1>1, UnderlineInv, PlainLineInv, TableLineInv
<1>2. CASE RejectLine \/ LineTooLong \/ EndOfLines
  BY <1>2, UnchangedInv DEF RejectLine, LineTooLong, EndOfLines
<1>3. CASE MultipleHeadings \/ MisplacedScenario \/ UnresolvedStep
  BY <1>3, UnchangedInv DEF MultipleHeadings, MisplacedScenario, UnresolvedStep, Unchanged
<1>4. CASE Drop \/ SpecConverter \/ Separator
  BY <1>4, DropsInv
<1>5. CASE ScenarioConverter \/ StepConverter \/ ContextConverter
  BY <1>5, ScenarioInv, StepInv, ContextInv
<1>6. CASE CommentConverter \/ TagConverter
  BY <1>6, CommentInv, TagInv
<1>7. CASE \E csv \in CsvTable : TakeExternalTable(csv)
  BY <1>7, TakeExternalInv
<1>8. CASE InlineTableHeader
  <2>1. CASE TokenLine.kind = "|"
    BY <1>8, <2>1, UnchangedInv DEF InlineTableHeader, Unchanged
  <2> QED BY <1>8, <2>1, InlineTableHeaderInv
<1>9. CASE IgnoreExternalTable \/ DataTableHeader \/ IgnoreTable
  BY <1>9, IgnoreExternalInv, DataTableHeaderInv, IgnoreTableInv
<1>10. CASE RowAsComment \/ InlineTableRow \/ DataTableRow
  BY <1>10, RowAsCommentInv, InlineTableRowInv, DataTableRowInv
<1>11. CASE Finish
  BY <1>11, UnchangedInv DEF Finish, Unchanged
<1>12. CASE UNCHANGED vars
  BY <1>12, StutterInv
<1> QED BY <1>1, <1>2, <1>3, <1>4, <1>5, <1>6, <1>7, <1>8, <1>9, <1>10, <1>11, <1>12 DEF Next

-----------------------------------------------------------------------------
(* The theorems.                                                           *)

LEMMA Invariance == Spec => []Inv
<1>1. Init => Inv
  BY InitInv
<1>2. Inv /\ [Next]_vars => Inv'
  BY NextInv
<1> QED BY <1>1, <1>2, PTL DEF Spec

\* The state is well typed, and every item is in a scenario or a step that exists.
THEOREM TypeCorrect == Spec => []TypeOK
<1>1. Inv => TypeOK
  BY DEF Inv
<1> QED BY <1>1, Invariance, PTL

\* The states of the parser mean what the code takes them for: latestStep,
\* latestContext and the rows of inline tables never index an empty list.
THEOREM StatesSound == Spec => []StatesHold
<1>1. Inv => StatesHold
  BY DEF Inv
<1> QED BY <1>1, Invariance, PTL

\* The parameters of every step are columns of the specification's data table.
THEOREM ParametersSound == Spec => []ParametersResolve
<1>1. Inv => ParametersResolve
  BY DEF Inv
<1> QED BY <1>1, Invariance, PTL

-----------------------------------------------------------------------------
(* Lines and their places.                                                 *)

TokensInOrder == \A i, j \in DOMAIN tokens : i < j => tokens[i].line < tokens[j].line

\* Only an underline has no token.
LinesHaveTokens ==
  \A n \in DOMAIN lines :
    lines[n].kind \notin {"===", "---"} => \E i \in DOMAIN tokens : tokens[i].line = n

ItemsInOrder == \A i, j \in DOMAIN items : i < j => items[i].line < items[j].line

\* What is converted comes after what was.
ItemsBefore ==
  phase = "tokens" =>
    \A item \in Items : \A i \in DOMAIN tokens : i >= next => item.line < tokens[i].line

\* A token after the heading has a place.
TokensPlaced ==
  phase \in {"tokens", "accepted"} /\ heading # 0 =>
    \A i \in DOMAIN tokens :
      i < next => \/ tokens[i].line <= heading
                  \/ lines[tokens[i].line].kind = "|---|"
                  \/ \E item \in Items : item.line = tokens[i].line

HeadingKnown == heading # 0 => "spec" \in state

AllConverted == phase = "accepted" => heading # 0 /\ next > Len(tokens)

PlacesInv ==
  /\ TokensInOrder /\ LinesHaveTokens /\ ItemsInOrder
  /\ ItemsBefore /\ TokensPlaced /\ HeadingKnown /\ AllConverted

LEMMA TokenFacts ==
  ASSUME TypeOK
  PROVE  /\ Len(tokens) \in Nat /\ DOMAIN tokens = 1..Len(tokens) /\ next \in Nat \ {0}
         /\ Len(lines) \in Nat /\ DOMAIN lines = 1..Len(lines)
         /\ \A i \in DOMAIN tokens : tokens[i].line \in DOMAIN lines /\ tokens[i].line \in Nat
         /\ heading \in Nat
<1>1. /\ Len(tokens) \in Nat /\ DOMAIN tokens = 1..Len(tokens)
      /\ Len(lines) \in Nat /\ DOMAIN lines = 1..Len(lines)
  BY LenProperties DEF TypeOK
<1>2. next \in Nat \ {0} /\ heading \in Nat
  BY <1>1 DEF TypeOK
<1>3. \A i \in DOMAIN tokens : tokens[i].line \in DOMAIN lines
  BY DEF TypeOK
<1>4. \A i \in DOMAIN tokens : tokens[i].line \in Nat
  BY <1>1, <1>3
<1> QED BY <1>1, <1>2, <1>3, <1>4

LEMMA AcceptPlaces ==
  ASSUME Inv, PlacesInv, NEW line \in Line, Read(line), NEW kind, NEW states, Accept(kind, states)
  PROVE  TokensInOrder' /\ LinesHaveTokens'
<1> DEFINE token == [kind |-> kind, line |-> Len(lines) + 1]
           T == [kind : {kind, "spec", "scenario", "step", "tag", "dataTable", "comment",
                         "tableHeader", "tableRow"}, line : Nat]
<1>1. /\ Len(tokens) \in Nat /\ DOMAIN tokens = 1..Len(tokens)
      /\ Len(lines) \in Nat /\ DOMAIN lines = 1..Len(lines)
      /\ \A i \in DOMAIN tokens : tokens[i].line \in DOMAIN lines
  BY TokenFacts DEF Inv
<1>2. lines \in Seq(Line) /\ lines' = Append(lines, line)
  BY DEF Inv, TypeOK, Read
<1>3. /\ DOMAIN lines' = 1..(Len(lines) + 1)
      /\ \A n \in 1..Len(lines) : lines'[n] = lines[n]
  BY <1>1, <1>2
<1>4. token \in T /\ token.line = Len(lines) + 1
  BY <1>1
<1>5. tokens \in Seq(T) /\ tokens' = Append(tokens, token)
  <2>1. tokens \in Seq([kind : TokenKinds, line : Nat])
    BY DEF Inv, TypeOK
  <2>2. [kind : TokenKinds, line : Nat] \subseteq T
    BY DEF TokenKinds
  <2>3. tokens \in Seq(T)
    BY <2>1, <2>2, SeqMonotonic
  <2> QED BY <2>3 DEF Accept
<1> HIDE DEF token, T
<1>6. /\ Len(tokens') = Len(tokens) + 1 /\ tokens' \in Seq(T)
      /\ \A i \in 1..Len(tokens) : tokens'[i] = tokens[i]
      /\ tokens'[Len(tokens) + 1] = token
  BY <1>4, <1>5, AppendProperties
<1>7. DOMAIN tokens' = 1..(Len(tokens) + 1)
  BY <1>6, LenProperties
<1>8. ASSUME NEW i \in DOMAIN tokens', NEW j \in DOMAIN tokens', i < j
      PROVE  tokens'[i].line < tokens'[j].line
  <2>1. i \in DOMAIN tokens /\ tokens'[i] = tokens[i]
    BY <1>1, <1>6, <1>7, <1>8
  <2>2. CASE j \in DOMAIN tokens
    BY <1>1, <1>6, <1>8, <2>1, <2>2 DEF PlacesInv, TokensInOrder
  <2>3. CASE j \notin DOMAIN tokens
    <3>1. j = Len(tokens) + 1
      BY <1>1, <1>7, <2>3
    <3>2. tokens'[j].line = Len(lines) + 1
      BY <1>4, <1>6, <3>1
    <3>3. tokens[i].line \in 1..Len(lines)
      BY <1>1, <2>1
    <3> QED BY <1>1, <2>1, <3>2, <3>3
  <2> QED BY <2>2, <2>3
<1>9. ASSUME NEW n \in DOMAIN lines', lines'[n].kind \notin {"===", "---"}
      PROVE  \E i \in DOMAIN tokens' : tokens'[i].line = n
  <2>1. CASE n \in DOMAIN lines
    <3>1. PICK i \in DOMAIN tokens : tokens[i].line = n
      BY <1>1, <1>3, <1>9, <2>1 DEF PlacesInv, LinesHaveTokens
    <3>2. i \in DOMAIN tokens' /\ tokens'[i] = tokens[i]
      BY <1>1, <1>6, <1>7
    <3> QED BY <3>1, <3>2
  <2>2. CASE n \notin DOMAIN lines
    <3>1. n = Len(lines) + 1 /\ Len(tokens) + 1 \in DOMAIN tokens'
      BY <1>1, <1>3, <1>7, <2>2
    <3> QED BY <1>4, <1>6, <3>1
  <2> QED BY <2>1, <2>2
<1> QED BY <1>8, <1>9 DEF TokensInOrder, LinesHaveTokens

LEMMA ReadPlaces ==
  ASSUME Inv, PlacesInv, NEW line \in Line, Underline(line) \/ PlainLine(line) \/ TableLine(line)
  PROVE  PlacesInv'
<1>1. Read(line)
  BY DEF Underline, PlainLine, TableLine
<1>2. /\ phase = "lines" /\ phase' = "lines" /\ heading' = 0 /\ items' = items /\ items = <<>>
  BY <1>1 DEF Read, specification, Inv, LinesInv
<1>3. TokensInOrder' /\ LinesHaveTokens'
  <2>1. CASE PlainLine(line) \/ TableLine(line)
    BY <1>1, <2>1, AcceptPlaces DEF PlainLine, TableLine
  <2>2. CASE Underline(line)
    <3> DEFINE kind == IF line.kind = "===" THEN "spec" ELSE "scenario"
    <3>1. tokens' = [tokens EXCEPT ![Len(tokens)].kind = kind] /\ line.kind \in {"===", "---"}
      BY <2>2 DEF Underline, Underlines
    <3>2. /\ Len(lines) \in Nat /\ DOMAIN lines = 1..Len(lines)
          /\ DOMAIN tokens = 1..Len(tokens) /\ Len(tokens) \in Nat
      BY TokenFacts DEF Inv
    <3>3. lines \in Seq(Line) /\ lines' = Append(lines, line)
      BY <1>1 DEF Inv, TypeOK, Read
    <3>4. /\ DOMAIN lines' = 1..(Len(lines) + 1) /\ lines'[Len(lines) + 1] = line
          /\ \A n \in 1..Len(lines) : lines'[n] = lines[n]
      BY <3>2, <3>3
    <3>5. DOMAIN tokens' = DOMAIN tokens
      BY <3>1
    <3>6. \A i \in DOMAIN tokens : tokens'[i].line = tokens[i].line
      <4>1. \A i \in DOMAIN tokens : tokens[i] \in [kind : TokenKinds, line : Nat]
        BY <3>2, ElementOfSeq DEF Inv, TypeOK
      <4>2. ASSUME NEW i \in DOMAIN tokens
            PROVE  tokens'[i].line = tokens[i].line
        <5>1. CASE i = Len(tokens)
          <6>1. tokens'[i] = [tokens[i] EXCEPT !.kind = kind]
            BY <3>1, <5>1
          <6> HIDE DEF kind
          <6> QED BY <4>1, <6>1
        <5>2. CASE i # Len(tokens)
          BY <3>1, <5>2
        <5> QED BY <5>1, <5>2
      <4> QED BY <4>2
    <3>7. TokensInOrder'
      BY <3>5, <3>6 DEF PlacesInv, TokensInOrder
    <3>8. ASSUME NEW n \in DOMAIN lines', lines'[n].kind \notin {"===", "---"}
          PROVE  \E i \in DOMAIN tokens' : tokens'[i].line = n
      <4>1. n \in DOMAIN lines /\ lines'[n] = lines[n]
        BY <3>1, <3>2, <3>4, <3>8
      <4> QED BY <3>5, <3>6, <3>8, <4>1 DEF PlacesInv, LinesHaveTokens
    <3> QED BY <3>7, <3>8 DEF LinesHaveTokens
  <2> QED BY <2>1, <2>2
<1>4. ItemsInOrder'
  BY <1>2 DEF ItemsInOrder
<1> QED BY <1>2, <1>3, <1>4 DEF PlacesInv, ItemsBefore, TokensPlaced, HeadingKnown, AllConverted

\* An item that is placed comes after all others, and its token has a place.
LEMMA PlacePlaces ==
  ASSUME Inv, PlacesInv, NEW kind, Converts(kind), NEW as \in Places, NEW in \in Nat,
         Place(as, in), phase' = phase, "spec" \in state => "spec" \in state'
  PROVE  PlacesInv'
<1> DEFINE new == [line |-> Token.line, as |-> as, in |-> in]
<1>1. /\ phase = "tokens" /\ next \in DOMAIN tokens
      /\ next' = next + 1 /\ heading' = heading /\ lines' = lines /\ tokens' = tokens
      /\ items' = Append(items, new)
  BY DEF Converts, Place, parser
<1>2. /\ Len(tokens) \in Nat /\ DOMAIN tokens = 1..Len(tokens) /\ next \in Nat \ {0}
      /\ \A i \in DOMAIN tokens : tokens[i].line \in Nat
      /\ heading \in Nat
  BY TokenFacts DEF Inv
<1>3. new.line = tokens[next].line /\ new \in Item
  BY <1>1, <1>2 DEF Token, Item
<1>4. items \in Seq(Item)
  BY DEF Inv, TypeOK, Item
<1> HIDE DEF new
<1>5. /\ items' \in Seq(Item) /\ Len(items') = Len(items) + 1 /\ Len(items) \in Nat
      /\ \A i \in 1..Len(items) : items'[i] = items[i]
      /\ items'[Len(items) + 1] = new
  BY <1>1, <1>3, <1>4, AppendProperties, LenProperties
<1>6. DOMAIN items = 1..Len(items) /\ DOMAIN items' = 1..(Len(items) + 1)
  BY <1>4, <1>5, LenProperties
<1>7. Items' = Items \cup {new}
  BY <1>5, <1>6 DEF Items
<1>8. ItemsInOrder'
  <2>1. ASSUME NEW i \in DOMAIN items', NEW j \in DOMAIN items', i < j
        PROVE  items'[i].line < items'[j].line
    <3>1. i \in DOMAIN items /\ items'[i] = items[i]
      BY <1>5, <1>6, <2>1
    <3>2. CASE j \in DOMAIN items
      BY <1>5, <1>6, <2>1, <3>1, <3>2 DEF PlacesInv, ItemsInOrder
    <3>3. CASE j \notin DOMAIN items
      <4>1. items'[j] = new
        BY <1>5, <1>6, <3>3
      <4>2. items[i] \in Items
        BY <3>1 DEF Items
      <4>3. items[i].line < tokens[next].line
        BY <1>1, <1>2, <4>2 DEF PlacesInv, ItemsBefore
      <4> QED BY <1>3, <3>1, <4>1, <4>3
    <3> QED BY <3>2, <3>3
  <2> QED BY <2>1 DEF ItemsInOrder
<1>9. ItemsBefore'
  <2>1. ASSUME NEW item \in Items', NEW i \in DOMAIN tokens, i >= next + 1
        PROVE  item.line < tokens[i].line
    <3>1. CASE item \in Items
      BY <1>1, <1>2, <2>1, <3>1 DEF PlacesInv, ItemsBefore
    <3>2. CASE item = new
      <4>1. next < i
        BY <1>2, <2>1
      <4>2. tokens[next].line < tokens[i].line
        BY <1>1, <4>1 DEF PlacesInv, TokensInOrder
      <4> QED BY <1>3, <3>2, <4>2
    <3> QED BY <1>7, <3>1, <3>2
  <2> QED BY <1>1, <2>1 DEF ItemsBefore
<1>10. TokensPlaced'
  <2>1. ASSUME heading # 0, NEW i \in DOMAIN tokens, i < next + 1
        PROVE  \/ tokens[i].line <= heading
               \/ lines[tokens[i].line].kind = "|---|"
               \/ \E item \in Items' : item.line = tokens[i].line
    <3>1. CASE i = next
      BY <1>3, <1>7, <3>1
    <3>2. CASE i # next
      <4>1. i < next
        BY <1>2, <2>1, <3>2
      <4> QED BY <1>1, <1>7, <2>1, <4>1 DEF PlacesInv, TokensPlaced
    <3> QED BY <3>1, <3>2
  <2> QED BY <1>1, <2>1 DEF TokensPlaced
<1>11. TokensInOrder' /\ LinesHaveTokens' /\ HeadingKnown' /\ AllConverted'
  BY <1>1 DEF PlacesInv, TokensInOrder, LinesHaveTokens, HeadingKnown, AllConverted
<1> QED BY <1>8, <1>9, <1>10, <1>11 DEF PlacesInv

\* A token without a place is above the heading, is the heading, or separates a table.
LEMMA SkipPlaces ==
  ASSUME Inv, PlacesInv, Drop \/ SpecConverter \/ Separator
  PROVE  PlacesInv'
<1>1. /\ phase = "tokens" /\ phase' = phase /\ next \in DOMAIN tokens
      /\ next' = next + 1 /\ lines' = lines /\ tokens' = tokens /\ items' = items
  BY DEF Drop, SpecConverter, Separator, Converts, parser, specification
<1>2. /\ Len(tokens) \in Nat /\ DOMAIN tokens = 1..Len(tokens) /\ next \in Nat \ {0}
      /\ \A i \in DOMAIN tokens : tokens[i].line \in Nat
      /\ heading \in Nat
  BY TokenFacts DEF Inv
<1>3. Items' = Items /\ ItemsInOrder'
  BY <1>1 DEF Items, PlacesInv, ItemsInOrder
<1>4. ItemsBefore'
  BY <1>1, <1>2, <1>3 DEF PlacesInv, ItemsBefore
<1>5. TokensInOrder' /\ LinesHaveTokens' /\ AllConverted'
  BY <1>1 DEF PlacesInv, TokensInOrder, LinesHaveTokens, AllConverted
<1>6. HeadingKnown' /\ TokensPlaced'
  <2>1. CASE Drop
    <3>1. heading' = heading /\ state' = state /\ "spec" \notin state
      BY <2>1 DEF Drop, In, specification
    <3>2. heading = 0
      BY <3>1 DEF PlacesInv, HeadingKnown
    <3> QED BY <3>1, <3>2 DEF HeadingKnown, TokensPlaced
  <2>2. CASE SpecConverter
    <3>1. heading' = tokens[next].line /\ "spec" \in state'
      BY <2>2 DEF SpecConverter, Retain, Token
    <3>2. ASSUME NEW i \in DOMAIN tokens, i < next + 1
          PROVE  tokens[i].line <= tokens[next].line
      <4>1. CASE i = next
        BY <1>1, <1>2, <4>1
      <4>2. CASE i # next
        <5>1. i < next
          BY <1>2, <3>2, <4>2
        <5> QED BY <1>1, <1>2, <5>1 DEF PlacesInv, TokensInOrder
      <4> QED BY <4>1, <4>2
    <3> QED BY <1>1, <3>1, <3>2 DEF HeadingKnown, TokensPlaced
  <2>3. CASE Separator
    <3>1. heading' = heading /\ state' = state \cap TableScopes
      BY <2>3 DEF Separator, Retain, specification
    <3>2. lines[tokens[next].line].kind = "|---|"
      BY <2>3 DEF Separator, AreUnderlined, TokenLine, Token
    <3>3. HeadingKnown'
      BY <3>1 DEF PlacesInv, HeadingKnown, TableScopes
    <3>4. ASSUME heading # 0, NEW i \in DOMAIN tokens, i < next + 1
          PROVE  \/ tokens[i].line <= heading
                 \/ lines[tokens[i].line].kind = "|---|"
                 \/ \E item \in Items : item.line = tokens[i].line
      <4>1. CASE i = next
        BY <3>2, <4>1
      <4>2. CASE i # next
        <5>1. i < next
          BY <1>2, <3>4, <4>2
        <5> QED BY <1>1, <3>4, <5>1 DEF PlacesInv, TokensPlaced
      <4> QED BY <4>1, <4>2
    <3> QED BY <1>1, <1>3, <3>1, <3>3, <3>4 DEF TokensPlaced
  <2> QED BY <2>1, <2>2, <2>3
<1> QED BY <1>3, <1>4, <1>5, <1>6 DEF PlacesInv

\* Steps that place nothing and stay at their token.
LEMMA StayPlaces ==
  ASSUME Inv, PlacesInv, UNCHANGED <<lines, tokens, next, state, heading, items>>,
         phase' = phase \/ phase' \in {"rejected", "crashed"}
           \/ (phase = "lines" /\ phase' = "tokens")
           \/ (phase = "tokens" /\ phase' = "accepted" /\ heading # 0 /\ next > Len(tokens))
  PROVE  PlacesInv'
<1>1. Items' = Items
  BY DEF Items
<1>2. TokensInOrder' /\ LinesHaveTokens' /\ ItemsInOrder' /\ HeadingKnown' /\ AllConverted'
  BY DEF PlacesInv, TokensInOrder, LinesHaveTokens, ItemsInOrder, HeadingKnown, AllConverted
<1>3. phase = "lines" => Items = {} /\ heading = 0
  BY EmptyItems DEF Inv, LinesInv
<1>4. ItemsBefore' /\ TokensPlaced'
  BY <1>1, <1>3 DEF PlacesInv, ItemsBefore, TokensPlaced
<1> QED BY <1>2, <1>4 DEF PlacesInv

LEMMA PlacesStep == Inv /\ PlacesInv /\ [Next]_vars => PlacesInv'
<1> SUFFICES ASSUME Inv, PlacesInv, [Next]_vars PROVE PlacesInv'
  OBVIOUS
<1>1. CASE \E line \in Line : Underline(line) \/ PlainLine(line) \/ TableLine(line)
  BY <1>1, ReadPlaces
<1>2. CASE RejectLine \/ LineTooLong \/ EndOfLines
  BY <1>2, StayPlaces DEF RejectLine, LineTooLong, EndOfLines, parser, specification
<1>3. CASE MultipleHeadings \/ MisplacedScenario \/ UnresolvedStep
  BY <1>3, StayPlaces DEF MultipleHeadings, MisplacedScenario, UnresolvedStep, Unchanged,
     parser, specification
<1>4. CASE Drop \/ SpecConverter \/ Separator
  BY <1>4, SkipPlaces
<1>5. Here \in Nat /\ LatestScenario \in Nat /\ LatestStep \in Nat
  BY HereOwner, LatestOwner, StepOwner DEF LatestScenario
<1>6. CASE ScenarioConverter \/ StepConverter \/ ContextConverter
  BY <1>5, <1>6, PlacePlaces DEF ScenarioConverter, StepConverter, ContextConverter, Retain,
     ItemScopes, Places
<1>7. CASE CommentConverter \/ TagConverter \/ IgnoreExternalTable \/ IgnoreTable \/ RowAsComment
  BY <1>5, <1>7, PlacePlaces DEF CommentConverter, TagConverter, IgnoreExternalTable, IgnoreTable,
     RowAsComment, Retain, ItemScopes, TableScopes, Places
<1>8. CASE \E csv \in CsvTable : TakeExternalTable(csv)
  BY <1>8, PlacePlaces DEF TakeExternalTable, Retain, Places
<1>9. CASE InlineTableHeader
  <2>1. CASE TokenLine.kind = "|"
    BY <1>9, <2>1, StayPlaces DEF InlineTableHeader, Unchanged, parser, specification
  <2>2. CASE TokenLine.kind # "|"
    BY <1>5, <1>9, <2>2, PlacePlaces DEF InlineTableHeader, Retain, TableScopes, Places
  <2> QED BY <2>1, <2>2
<1>10. CASE DataTableHeader \/ InlineTableRow \/ DataTableRow
  BY <1>5, <1>10, PlacePlaces DEF DataTableHeader, TakesTable, InlineTableRow, DataTableRow,
     Retain, TableScopes, Places
<1>11. CASE Finish
  BY <1>11, StayPlaces DEF Finish, Unchanged, parser, specification
<1>12. CASE UNCHANGED vars
  BY <1>12, StayPlaces DEF vars, parser, specification
<1> QED BY <1>1, <1>2, <1>3, <1>4, <1>6, <1>7, <1>8, <1>9, <1>10, <1>11, <1>12 DEF Next

LEMMA PlacesSuffice ==
  ASSUME Inv, PlacesInv
  PROVE  NothingLost
<1> SUFFICES ASSUME phase = "accepted"
             PROVE  /\ ItemsInOrder
                    /\ \A n \in DOMAIN lines :
                         n > heading /\ lines[n].kind \notin {"===", "---", "|---|"}
                           => \E item \in Items : item.line = n
  BY DEF NothingLost, ItemsInOrder
<1>1. ItemsInOrder
  BY DEF PlacesInv
<1>2. ASSUME NEW n \in DOMAIN lines, n > heading, lines[n].kind \notin {"===", "---", "|---|"}
      PROVE  \E item \in Items : item.line = n
  <2>1. PICK i \in DOMAIN tokens : tokens[i].line = n
    BY <1>2 DEF PlacesInv, LinesHaveTokens
  <2>2. i < next /\ heading # 0
    BY TokenFacts DEF PlacesInv, AllConverted, Inv
  <2>3. n \in Nat /\ heading \in Nat
    BY TokenFacts DEF Inv
  <2> QED BY <1>2, <2>1, <2>2, <2>3 DEF PlacesInv, TokensPlaced
<1> QED BY <1>1, <1>2

\* Every line below the heading of an accepted specification has a place of its own, in the
\* order of the lines, for specifications of any length.
THEOREM EveryLinePlaced == Spec => []NothingLost
<1>1. Init => Inv /\ PlacesInv
  <2>1. Init => PlacesInv
    BY DEF Init, PlacesInv, TokensInOrder, LinesHaveTokens, ItemsInOrder, ItemsBefore,
       TokensPlaced, HeadingKnown, AllConverted
  <2> QED BY <2>1, InitInv
<1>2. Inv /\ PlacesInv => NothingLost
  BY PlacesSuffice
<1> QED BY <1>1, <1>2, NextInv, PlacesStep, PTL DEF Spec

-----------------------------------------------------------------------------
(* Items and what they were written below.                                 *)

QuietKinds == TableKinds \cup {"tags", "table:"}
CommentKinds == {"text", "===", "---"}

\* What kind of line a token comes from.
KindsAgree ==
  \A i \in DOMAIN tokens :
    /\ tokens[i].kind = "step" => lines[tokens[i].line].kind = "*"
    /\ tokens[i].kind = "tag" => lines[tokens[i].line].kind = "tags"
    /\ tokens[i].kind = "dataTable" => lines[tokens[i].line].kind = "table:"
    /\ tokens[i].kind \in {"tableHeader", "tableRow"} => lines[tokens[i].line].kind \in TableKinds

\* There is a comment at or above line n, and no step in between.
CommentAbove(n) ==
  \E i \in DOMAIN tokens :
    /\ tokens[i].line <= n /\ lines[tokens[i].line].kind \in CommentKinds
    /\ \A m \in DOMAIN lines : tokens[i].line < m /\ m <= n => lines[m].kind # "*"

\* A line without a token is an underline, and those come below comments.
UnderlinesBelowComments ==
  /\ "comment" \in currentState => CommentAbove(Len(lines))
  /\ \A n \in DOMAIN lines : (\E i \in DOMAIN tokens : tokens[i].line = n) \/ CommentAbove(n)

StepLines == \A item \in Items : item.as \in {"step", "context"} => lines[item.line].kind = "*"

\* The states stand in each other, and all of them below the heading.
ScopesNested ==
  /\ In("step") => In("scenario")
  /\ In("context") => In("spec")
  /\ In("scenario") \/ In("spec") => heading # 0

ScenarioIsLatest == \A item \in Items : item.as = "scenario" => item.line <= LatestScenario

ExternalTable(item) == item.as = "table" /\ lines[item.line].kind = "table:"

ExternalAfter(n) == \E item \in Items : ExternalTable(item) /\ n < item.line

\* The scenario under way is the latest, unless a data table has ended it.
ScenarioState ==
  phase = "tokens" => (In("scenario") <=> LatestScenario # 0 /\ ~ExternalAfter(LatestScenario))

\* Below the step that a table would go to there were only tables, tags and the like.
StepIsNear ==
  phase = "tokens" /\ HasStep =>
    \A i \in DOMAIN tokens :
      i < next /\ LatestStep < tokens[i].line => lines[tokens[i].line].kind \in QuietKinds

BelongInv ==
  /\ KindsAgree /\ UnderlinesBelowComments /\ StepLines /\ ScopesNested /\ ScenarioIsLatest
  /\ ScenarioState /\ StepIsNear /\ ItemsBelongAbove

LEMMA EmptyBelong ==
  ASSUME items = <<>>, state = {}, LatestScenario = 0
  PROVE  StepLines /\ ScopesNested /\ ScenarioIsLatest /\ ScenarioState /\ StepIsNear
           /\ ItemsBelongAbove
<1>1. Items = {}
  BY EmptyItems
<1> QED BY <1>1 DEF StepLines, ScopesNested, ScenarioIsLatest, ScenarioState, StepIsNear,
      ItemsBelongAbove, OwnedByScenarioAbove, TablesFollowTheirStep, In, HasStep

LEMMA NoScenario ==
  ASSUME items = <<>>
  PROVE  LatestScenario = 0
<1>1. Positions("scenario") = {}
  BY DEF Positions
<1> QED BY <1>1 DEF LatestScenario, Latest

\* Reading a line: what its token is.
LEMMA AcceptBelong ==
  ASSUME Inv, BelongInv, NEW line \in Line, Read(line), NEW kind \in TokenKinds, NEW states,
         Accept(kind, states),
         kind = "step" => line.kind = "*", kind = "tag" => line.kind = "tags",
         kind = "dataTable" => line.kind = "table:",
         kind \in {"tableHeader", "tableRow"} => line.kind \in TableKinds,
         "comment" \in states =>
           line.kind \in CommentKinds \/ ("comment" \in currentState /\ line.kind # "*")
  PROVE  KindsAgree' /\ UnderlinesBelowComments'
<1> DEFINE token == [kind |-> kind, line |-> Len(lines) + 1]
<1>1. /\ Len(tokens) \in Nat /\ DOMAIN tokens = 1..Len(tokens)
      /\ Len(lines) \in Nat /\ DOMAIN lines = 1..Len(lines)
      /\ \A i \in DOMAIN tokens : tokens[i].line \in DOMAIN lines
  BY TokenFacts DEF Inv
<1>2. lines \in Seq(Line) /\ lines' = Append(lines, line)
  BY DEF Inv, TypeOK, Read
<1>3. /\ DOMAIN lines' = 1..(Len(lines) + 1) /\ Len(lines') = Len(lines) + 1
      /\ \A n \in 1..Len(lines) : lines'[n] = lines[n]
      /\ lines'[Len(lines) + 1] = line
  BY <1>1, <1>2
<1>4. /\ token \in [kind : TokenKinds, line : Nat]
      /\ token.line = Len(lines) + 1 /\ token.kind = kind
  BY <1>1
<1>5. tokens \in Seq([kind : TokenKinds, line : Nat]) /\ tokens' = Append(tokens, token)
  BY DEF Inv, TypeOK, Accept
<1> HIDE DEF token
<1>6. /\ Len(tokens') = Len(tokens) + 1 /\ tokens' \in Seq([kind : TokenKinds, line : Nat])
      /\ \A i \in 1..Len(tokens) : tokens'[i] = tokens[i]
      /\ tokens'[Len(tokens) + 1] = token
  BY <1>4, <1>5, AppendProperties
<1>7. DOMAIN tokens' = 1..(Len(tokens) + 1)
  BY <1>6, LenProperties
<1>8. \A i \in DOMAIN tokens : /\ i \in DOMAIN tokens' /\ tokens'[i] = tokens[i]
                               /\ lines'[tokens[i].line] = lines[tokens[i].line]
  BY <1>1, <1>3, <1>6, <1>7
<1>9. KindsAgree'
  <2>1. ASSUME NEW i \in DOMAIN tokens'
        PROVE  /\ tokens'[i].kind = "step" => lines'[tokens'[i].line].kind = "*"
               /\ tokens'[i].kind = "tag" => lines'[tokens'[i].line].kind = "tags"
               /\ tokens'[i].kind = "dataTable" => lines'[tokens'[i].line].kind = "table:"
               /\ tokens'[i].kind \in {"tableHeader", "tableRow"}
                    => lines'[tokens'[i].line].kind \in TableKinds
    <3>1. CASE i \in DOMAIN tokens
      BY <1>8, <3>1 DEF BelongInv, KindsAgree
    <3>2. CASE i \notin DOMAIN tokens
      <4>1. tokens'[i] = token
        BY <1>1, <1>6, <1>7, <2>1, <3>2
      <4>2. tokens'[i].kind = kind /\ lines'[tokens'[i].line] = line
        BY <1>3, <1>4, <4>1
      <4> QED BY <4>2
    <3> QED BY <3>1, <3>2
  <2> QED BY <2>1 DEF KindsAgree
<1>10. ASSUME NEW n \in 1..Len(lines), CommentAbove(n)
       PROVE  CommentAbove(n)'
  <2>1. PICK i \in DOMAIN tokens :
          /\ tokens[i].line <= n /\ lines[tokens[i].line].kind \in CommentKinds
          /\ \A m \in DOMAIN lines : tokens[i].line < m /\ m <= n => lines[m].kind # "*"
    BY <1>10 DEF CommentAbove
  <2>2. i \in DOMAIN tokens' /\ tokens'[i].line = tokens[i].line
        /\ lines'[tokens'[i].line].kind \in CommentKinds
    BY <1>8, <2>1
  <2>3. \A m \in DOMAIN lines' : m <= n => m \in DOMAIN lines /\ lines'[m] = lines[m]
    BY <1>1, <1>3, <1>10
  <2> QED BY <2>1, <2>2, <2>3 DEF CommentAbove
<1>11. ASSUME NEW n \in DOMAIN lines'
       PROVE  (\E i \in DOMAIN tokens' : tokens'[i].line = n) \/ CommentAbove(n)'
  <2>1. CASE n \in DOMAIN lines
    <3>1. n \in 1..Len(lines)
      BY <1>1, <2>1
    <3> QED BY <1>8, <1>10, <2>1, <3>1 DEF BelongInv, UnderlinesBelowComments
  <2>2. CASE n \notin DOMAIN lines
    <3>1. n = Len(lines) + 1 /\ Len(tokens) + 1 \in DOMAIN tokens'
      BY <1>1, <1>3, <1>7, <2>2
    <3> QED BY <1>4, <1>6, <3>1
  <2> QED BY <2>1, <2>2
<1>12. ASSUME "comment" \in currentState'
       PROVE  CommentAbove(Len(lines))'
  <2>0. Len(lines)' = Len(lines) + 1
    BY <1>3
  <2>1. CASE line.kind \in CommentKinds
    <3>1. Len(tokens) + 1 \in DOMAIN tokens' /\ tokens'[Len(tokens) + 1].line = Len(lines) + 1
      BY <1>1, <1>4, <1>6, <1>7
    <3>2. \A m \in DOMAIN lines' : ~(Len(lines) + 1 < m)
      BY <1>1, <1>3
    <3> QED BY <1>1, <1>3, <2>0, <2>1, <3>1, <3>2 DEF CommentAbove
  <2>2. CASE "comment" \in currentState /\ line.kind # "*"
    <3>1. PICK i \in DOMAIN tokens :
            /\ tokens[i].line <= Len(lines) /\ lines[tokens[i].line].kind \in CommentKinds
            /\ \A m \in DOMAIN lines : tokens[i].line < m /\ m <= Len(lines) => lines[m].kind # "*"
      BY <2>2 DEF BelongInv, UnderlinesBelowComments, CommentAbove
    <3>2. i \in DOMAIN tokens' /\ tokens'[i].line = tokens[i].line
          /\ lines'[tokens'[i].line].kind \in CommentKinds /\ tokens[i].line <= Len(lines) + 1
      BY <1>1, <1>8, <3>1
    <3>3. ASSUME NEW m \in DOMAIN lines', tokens[i].line < m
          PROVE  lines'[m].kind # "*"
      <4>1. CASE m \in 1..Len(lines)
        BY <1>1, <1>3, <3>1, <3>3, <4>1
      <4>2. CASE m \notin 1..Len(lines)
        <5>1. m = Len(lines) + 1
          BY <1>1, <1>3, <4>2
        <5> QED BY <1>3, <2>2, <5>1
      <4> QED BY <4>1, <4>2
    <3> QED BY <2>0, <3>2, <3>3 DEF CommentAbove
  <2>3. currentState' = states
    BY DEF Accept
  <2> QED BY <1>12, <2>1, <2>2, <2>3
<1> QED BY <1>9, <1>11, <1>12 DEF UnderlinesBelowComments

LEMMA UnderlineBelong ==
  ASSUME Inv, BelongInv, NEW line \in Line, Underline(line)
  PROVE  KindsAgree' /\ UnderlinesBelowComments'
<1> DEFINE kind == IF line.kind = "===" THEN "spec" ELSE "scenario"
<1>1. /\ tokens' = [tokens EXCEPT ![Len(tokens)].kind = kind] /\ line.kind \in {"===", "---"}
      /\ Read(line) /\ "comment" \in currentState
  BY DEF Underline, Underlines
<1>2. /\ Len(lines) \in Nat /\ DOMAIN lines = 1..Len(lines)
      /\ DOMAIN tokens = 1..Len(tokens) /\ Len(tokens) \in Nat
      /\ \A i \in DOMAIN tokens : tokens[i].line \in DOMAIN lines
  BY TokenFacts DEF Inv
<1>3. lines \in Seq(Line) /\ lines' = Append(lines, line)
  BY <1>1 DEF Inv, TypeOK, Read
<1>4. /\ DOMAIN lines' = 1..(Len(lines) + 1) /\ lines'[Len(lines) + 1] = line
      /\ Len(lines') = Len(lines) + 1
      /\ \A n \in 1..Len(lines) : lines'[n] = lines[n]
  BY <1>2, <1>3
<1>5. DOMAIN tokens' = DOMAIN tokens
  BY <1>1
<1>6. \A i \in DOMAIN tokens : tokens'[i].line = tokens[i].line
                               /\ tokens'[i].kind \in {tokens[i].kind, "spec", "scenario"}
  <2>1. \A i \in DOMAIN tokens : tokens[i] \in [kind : TokenKinds, line : Nat]
    BY <1>2, ElementOfSeq DEF Inv, TypeOK
  <2>2. ASSUME NEW i \in DOMAIN tokens
        PROVE  tokens'[i].line = tokens[i].line
               /\ tokens'[i].kind \in {tokens[i].kind, "spec", "scenario"}
    <3>1. CASE i = Len(tokens)
      <4>1. tokens'[i] = [tokens[i] EXCEPT !.kind = kind]
        BY <1>1, <3>1
      <4>2. kind \in {"spec", "scenario"}
        OBVIOUS
      <4> HIDE DEF kind
      <4> QED BY <2>1, <4>1, <4>2
    <3>2. CASE i # Len(tokens)
      BY <1>1, <3>2
    <3> QED BY <3>1, <3>2
  <2> QED BY <2>2
<1>7. \A i \in DOMAIN tokens : lines'[tokens'[i].line] = lines[tokens[i].line]
  BY <1>2, <1>4, <1>6
<1>8. KindsAgree'
  <2>1. ASSUME NEW i \in DOMAIN tokens'
        PROVE  /\ tokens'[i].kind = "step" => lines'[tokens'[i].line].kind = "*"
               /\ tokens'[i].kind = "tag" => lines'[tokens'[i].line].kind = "tags"
               /\ tokens'[i].kind = "dataTable" => lines'[tokens'[i].line].kind = "table:"
               /\ tokens'[i].kind \in {"tableHeader", "tableRow"}
                    => lines'[tokens'[i].line].kind \in TableKinds
    <3>1. i \in DOMAIN tokens
      BY <1>5
    <3> QED BY <1>6, <1>7, <3>1 DEF BelongInv, KindsAgree
  <2> QED BY <2>1 DEF KindsAgree
<1>9. ASSUME NEW n \in 1..Len(lines), CommentAbove(n)
      PROVE  CommentAbove(n)'
  <2>1. PICK i \in DOMAIN tokens :
          /\ tokens[i].line <= n /\ lines[tokens[i].line].kind \in CommentKinds
          /\ \A m \in DOMAIN lines : tokens[i].line < m /\ m <= n => lines[m].kind # "*"
    BY <1>9 DEF CommentAbove
  <2>2. \A m \in DOMAIN lines' : m <= n => m \in DOMAIN lines /\ lines'[m] = lines[m]
    BY <1>2, <1>4, <1>9
  <2> QED BY <1>5, <1>6, <1>7, <2>1, <2>2 DEF CommentAbove
<1>10. CommentAbove(Len(lines))'
  <2>1. PICK i \in DOMAIN tokens :
          /\ tokens[i].line <= Len(lines) /\ lines[tokens[i].line].kind \in CommentKinds
          /\ \A m \in DOMAIN lines : tokens[i].line < m /\ m <= Len(lines) => lines[m].kind # "*"
    BY <1>1 DEF BelongInv, UnderlinesBelowComments, CommentAbove
  <2>2. ASSUME NEW m \in DOMAIN lines', tokens[i].line < m
        PROVE  lines'[m].kind # "*"
    <3>1. CASE m \in 1..Len(lines)
      BY <1>2, <1>4, <2>1, <2>2, <3>1
    <3>2. CASE m \notin 1..Len(lines)
      <4>1. m = Len(lines) + 1
        BY <1>2, <1>4, <3>2
      <4> QED BY <1>1, <1>4, <4>1
    <3> QED BY <3>1, <3>2
  <2>3. tokens[i].line <= Len(lines')
    BY <1>2, <1>4, <2>1
  <2>4. i \in DOMAIN tokens' /\ tokens'[i].line <= Len(lines')
        /\ lines'[tokens'[i].line].kind \in CommentKinds
    BY <1>5, <1>6, <1>7, <2>1, <2>3
  <2>5. \A m \in DOMAIN lines' : tokens'[i].line < m => lines'[m].kind # "*"
    BY <1>6, <2>2
  <2> QED BY <2>4, <2>5 DEF CommentAbove
<1>11. ASSUME NEW n \in DOMAIN lines'
       PROVE  (\E i \in DOMAIN tokens' : tokens'[i].line = n) \/ CommentAbove(n)'
  <2>1. CASE n \in 1..Len(lines)
    <3>1. n \in DOMAIN lines
      BY <1>2, <2>1
    <3> QED BY <1>5, <1>6, <1>9, <2>1, <3>1 DEF BelongInv, UnderlinesBelowComments
  <2>2. CASE n \notin 1..Len(lines)
    <3>1. n = Len(lines')
      BY <1>2, <1>4, <2>2
    <3> QED BY <1>10, <3>1
  <2> QED BY <2>1, <2>2
<1> QED BY <1>8, <1>10, <1>11 DEF UnderlinesBelowComments

LEMMA ReadBelong ==
  ASSUME Inv, BelongInv, NEW line \in Line, Underline(line) \/ PlainLine(line) \/ TableLine(line)
  PROVE  BelongInv'
<1>1. Read(line)
  BY DEF Underline, PlainLine, TableLine
<1>2. items' = <<>> /\ state' = {} /\ LatestScenario' = 0
  <2>1. phase = "lines" /\ items' = items /\ state' = state
    BY <1>1 DEF Read, specification
  <2>2. items = <<>> /\ state = {}
    BY <2>1 DEF Inv, LinesInv
  <2>3. Positions("scenario")' = {}
    BY <2>1, <2>2 DEF Positions
  <2> QED BY <2>1, <2>2, <2>3 DEF LatestScenario, Latest
<1>3. KindsAgree' /\ UnderlinesBelowComments'
  <2>1. CASE Underline(line)
    BY <2>1, UnderlineBelong
  <2>2. CASE PlainLine(line)
    <3>1. TokenKind(line) \in TokenKinds
      BY DEF TokenKind, TokenKinds
    <3>2. /\ TokenKind(line) = "step" => line.kind = "*"
          /\ TokenKind(line) = "tag" => line.kind = "tags"
          /\ TokenKind(line) = "dataTable" => line.kind = "table:"
          /\ TokenKind(line) \notin {"tableHeader", "tableRow"}
      BY DEF TokenKind
    <3>3. "comment" \in LineScopes(line)
            => line.kind \in CommentKinds \/ ("comment" \in currentState /\ line.kind # "*")
      BY DEF LineScopes, CommentKinds
    <3> QED BY <1>1, <2>2, <3>1, <3>2, <3>3, AcceptBelong DEF PlainLine
  <2>3. CASE TableLine(line)
    <3>1. line.kind \in TableKinds /\ line.kind # "*"
      BY <2>3 DEF TableLine, TableKinds
    <3>2. {"tableHeader", "tableRow"} \subseteq TokenKinds
      BY DEF TokenKinds
    <3>3. "comment" \in currentState \cup {"tableData"} => "comment" \in currentState
      OBVIOUS
    <3>4. "comment" \in currentState \cup {"table"} => "comment" \in currentState
      OBVIOUS
    <3> QED BY <1>1, <2>3, <3>1, <3>2, <3>3, <3>4, AcceptBelong DEF TableLine
  <2> QED BY <2>1, <2>2, <2>3
<1>4. Items' = {}
  BY <1>2 DEF Items
<1>5. /\ StepLines' /\ ScopesNested' /\ ScenarioIsLatest' /\ ScenarioState' /\ StepIsNear'
      /\ ItemsBelongAbove'
  BY <1>2, <1>4 DEF StepLines, ScopesNested, ScenarioIsLatest, ScenarioState, StepIsNear,
     ItemsBelongAbove, OwnedByScenarioAbove, TablesFollowTheirStep, In, HasStep
<1> QED BY <1>3, <1>5 DEF BelongInv

-----------------------------------------------------------------------------
\* The scenario above a line, for the latest line.
LEMMA ScenarioAboveLatest ==
  ASSUME Inv, ScenarioIsLatest, NEW n \in Nat, \A item \in Items : item.line < n
  PROVE  ScenarioAbove(n) = LatestScenario
<1> DEFINE above == {item.line : item \in {s \in Items : s.as = "scenario" /\ s.line < n}}
<1>1. items \in Seq(Item) /\ LatestInv /\ "scenario" \in Places
  BY DEF Inv, TypeOK, Item, Places
<1>2. Latest("scenario") = LatestScenario /\ LatestScenario \in Nat
  BY <1>1, LatestFinds DEF LatestScenario
<1>3. CASE \E item \in Items : item.as = "scenario"
  <2>1. LatestScenario \in above
    <3>1. PICK item \in Items : item.as = "scenario" /\ item.line = LatestScenario
      BY <1>1, <1>2, <1>3, LatestFinds
    <3> QED BY <3>1
  <2>2. \A t \in above : t <= LatestScenario
    BY DEF ScenarioIsLatest
  <2>3. above \subseteq Nat
    <3>1. \A item \in Items : item \in Item
      BY <1>1, ElementOfSeq, LenProperties DEF Items
    <3> QED BY <3>1 DEF Item
  <2>4. \A s \in above : (\A t \in above : t <= s) => s = LatestScenario
    BY <1>2, <2>1, <2>2, <2>3
  <2>5. (CHOOSE s \in above : \A t \in above : t <= s) = LatestScenario
    BY <2>1, <2>2, <2>4
  <2> QED BY <2>1, <2>5 DEF ScenarioAbove
<1>4. CASE ~ \E item \in Items : item.as = "scenario"
  <2>1. above = {}
    BY <1>4
  <2>2. LatestScenario = 0
    BY <1>1, <1>2, <1>4, LatestFinds
  <2> QED BY <2>1, <2>2 DEF ScenarioAbove
<1> QED BY <1>3, <1>4

\* An external data table ends the scenario above line m.
Cut(n, m) == \E t \in Items : ExternalTable(t) /\ n < t.line /\ t.line < m

\* What a new item leaves as it was: all that is said of those above it.
LEMMA PlaceOwners ==
  ASSUME Inv, PlacesInv, BelongInv, NEW kind, Converts(kind), NEW as \in Places, NEW in \in Nat,
         Place(as, in), phase' = phase,
         as \in {"step", "context", "comment", "tags"} /\ lines[Token.line].kind # "table:"
           => in = Here,
         as \in {"step", "context"} => lines[Token.line].kind = "*"
  PROVE  OwnedByScenarioAbove' /\ StepLines' /\ ScenarioIsLatest'
<1> DEFINE new == [line |-> Token.line, as |-> as, in |-> in]
<1>1. /\ phase = "tokens" /\ next \in DOMAIN tokens /\ lines' = lines /\ tokens' = tokens
  BY DEF Converts, Place, parser
<1>2. items \in Seq(Item) /\ LatestInv /\ Token.line \in Nat
  BY <1>1, TokenType DEF Inv, TypeOK, Item
<1>3. /\ Items' = Items \cup {new} /\ Latest(as)' = Token.line
      /\ \A other \in Places \ {as} : Latest(other)' = Latest(other)
  BY <1>2, Placed
<1>4. \A item \in Items : item.line < Token.line
  BY <1>1, TokenFacts DEF PlacesInv, ItemsBefore, Token, Inv
<1>5. new.line = Token.line /\ new.as = as /\ new.in = in
  OBVIOUS
<1>6. \A item \in Items : item \in Item /\ item.line \in Nat
  <2>1. \A item \in Items : item \in Item
    BY <1>2, ElementOfSeq, LenProperties DEF Items
  <2> QED BY <2>1 DEF Item
<1> HIDE DEF new
<1>7. StepLines'
  BY <1>1, <1>3, <1>5 DEF BelongInv, StepLines
<1>8. ScenarioIsLatest'
  <2>1. CASE as = "scenario"
    <3>1. LatestScenario' = Token.line
      BY <1>3, <2>1 DEF LatestScenario
    <3> QED BY <1>2, <1>3, <1>4, <1>5, <1>6, <3>1 DEF ScenarioIsLatest
  <2>2. CASE as # "scenario"
    <3>1. LatestScenario' = LatestScenario
      BY <1>3, <2>2 DEF LatestScenario, Places
    <3> QED BY <1>3, <1>5, <2>2, <3>1 DEF ScenarioIsLatest, BelongInv
  <2> QED BY <2>1, <2>2
<1>9. ASSUME NEW n \in Nat, n <= Token.line
      PROVE  ScenarioAbove(n)' = ScenarioAbove(n)
  <2>1. {s \in Items' : s.as = "scenario" /\ s.line < n}
          = {s \in Items : s.as = "scenario" /\ s.line < n}
    BY <1>2, <1>3, <1>5, <1>9
  <2> DEFINE above == {item.line : item \in {s \in Items : s.as = "scenario" /\ s.line < n}}
             above2 == {item.line : item \in {s \in Items' : s.as = "scenario" /\ s.line < n}}
             Highest(S) == IF S = {} THEN 0 ELSE CHOOSE s \in S : \A t \in S : t <= s
  <2>2. above2 = above
    BY <2>1
  <2>3. ScenarioAbove(n) = Highest(above)
    BY DEF ScenarioAbove
  <2>4. ScenarioAbove(n)' = Highest(above2)
    BY DEF ScenarioAbove
  <2> HIDE DEF above, above2, Highest
  <2> QED BY <2>2, <2>3, <2>4
<1>10. ASSUME NEW n, NEW m \in Nat, m <= Token.line
       PROVE  Cut(n, m)' <=> Cut(n, m)
  BY <1>1, <1>2, <1>3, <1>5, <1>10 DEF Cut, ExternalTable
<1>11. ASSUME NEW item \in Items', item.as \in {"step", "context", "comment", "tags"},
              lines[item.line].kind # "table:", NEW above, above = ScenarioAbove(item.line)'
       PROVE  item.in = IF Cut(above, item.line)' THEN 0 ELSE above
  <2>1. CASE item \in Items
    <3>1. item.line \in Nat /\ item.line <= Token.line
      BY <1>2, <1>4, <1>6, <2>1
    <3>2. above = ScenarioAbove(item.line)
      BY <1>9, <1>11, <3>1
    <3>3. Cut(above, item.line)' <=> Cut(above, item.line)
      BY <1>10, <3>1
    <3>4. item.in = IF Cut(above, item.line) THEN 0 ELSE above
      BY <1>11, <2>1, <3>2 DEF BelongInv, ItemsBelongAbove, OwnedByScenarioAbove, Cut, ExternalTable
    <3> QED BY <3>3, <3>4
  <2>2. CASE item = new
    <3>1. item.line = Token.line /\ item.in = Here
      BY <1>5, <1>11, <2>2
    <3>2. ScenarioAbove(Token.line) = LatestScenario
      BY <1>2, <1>4, ScenarioAboveLatest DEF BelongInv
    <3>3. above = LatestScenario
      BY <1>2, <1>9, <1>11, <3>1, <3>2
    <3>4. Cut(above, item.line)' <=> ExternalAfter(LatestScenario)
      <4>1. Cut(above, item.line)' <=> Cut(above, item.line)
        BY <1>2, <1>10, <3>1
      <4>2. Cut(above, item.line) <=> ExternalAfter(LatestScenario)
        BY <1>4, <3>1, <3>3 DEF Cut, ExternalAfter
      <4> QED BY <4>1, <4>2
    <3>5. In("scenario") <=> LatestScenario # 0 /\ ~ExternalAfter(LatestScenario)
      BY <1>1 DEF BelongInv, ScenarioState
    <3> QED BY <3>1, <3>3, <3>4, <3>5 DEF Here
  <2> QED BY <1>3, <2>1, <2>2
<1>12. OwnedByScenarioAbove'
  <2>1. ASSUME NEW item \in Items', item.as \in {"step", "context", "comment", "tags"},
               lines[item.line].kind # "table:", NEW above, above = ScenarioAbove(item.line)'
        PROVE  item.in = IF \E t \in Items' : /\ t.as = "table" /\ lines[t.line].kind = "table:"
                                              /\ above < t.line /\ t.line < item.line
                         THEN 0 ELSE above
    BY <1>1, <1>11, <2>1 DEF Cut, ExternalTable
  <2> QED BY <1>1, <2>1 DEF OwnedByScenarioAbove
<1> QED BY <1>7, <1>8, <1>12

\* The latest step stands on a line of its own, above all that is still to be converted.
LEMMA LatestStepLine ==
  ASSUME Inv, PlacesInv, BelongInv, phase = "tokens", next \in DOMAIN tokens, HasStep
  PROVE  LatestStep \in Nat /\ LatestStep < Token.line /\ lines[LatestStep].kind = "*"
<1>1. items \in Seq(Item) /\ LatestInv /\ {"step", "context"} \subseteq Places
  BY DEF Inv, TypeOK, Item, Places
<1>2. \E item \in Items : item.as \in {"step", "context"} /\ item.line = LatestStep
  <2>1. CASE In("step")
    <3>1. \E item \in Items : item.as = "step"
      BY <2>1 DEF Inv, StatesHold
    <3> QED BY <1>1, <2>1, <3>1, LatestFinds DEF LatestStep
  <2>2. CASE ~In("step")
    <3>1. Latest("context") # 0
      BY <2>2 DEF Inv, StatesHold, HasStep
    <3> QED BY <1>1, <2>2, <3>1, LatestFinds DEF LatestStep
  <2> QED BY <2>1, <2>2
<1>3. LatestStep < Token.line
  BY <1>2, TokenFacts DEF PlacesInv, ItemsBefore, Token, Inv
<1>4. lines[LatestStep].kind = "*"
  BY <1>2 DEF BelongInv, StepLines
<1> QED BY <1>3, <1>4, StepOwner

\* Between a step and a table that goes to it there is nothing but tables, tags and the like.
LEMMA TableNear ==
  ASSUME Inv, PlacesInv, BelongInv, phase = "tokens", next \in DOMAIN tokens, HasStep,
         lines[Token.line].kind \in TableKinds
  PROVE  \A n \in (LatestStep + 1)..Token.line : lines[n].kind \in QuietKinds
<1> SUFFICES ASSUME NEW n \in (LatestStep + 1)..Token.line
             PROVE  lines[n].kind \in QuietKinds
  OBVIOUS
<1>1. /\ Len(tokens) \in Nat /\ DOMAIN tokens = 1..Len(tokens) /\ next \in Nat
      /\ Len(lines) \in Nat /\ DOMAIN lines = 1..Len(lines)
      /\ \A i \in DOMAIN tokens : tokens[i].line \in DOMAIN lines /\ tokens[i].line \in Nat
      /\ Token = tokens[next]
  BY TokenFacts DEF Inv, Token
<1>2. LatestStep \in Nat /\ LatestStep < Token.line /\ lines[LatestStep].kind = "*"
  BY LatestStepLine
<1>3. n \in DOMAIN lines /\ n \in Nat /\ LatestStep < n /\ n <= Token.line
  BY <1>1, <1>2
<1>4. ASSUME NEW i \in DOMAIN tokens, LatestStep < tokens[i].line, tokens[i].line <= n
      PROVE  lines[tokens[i].line].kind \in QuietKinds
  <2>1. CASE i < next
    BY <1>4, <2>1 DEF BelongInv, StepIsNear
  <2>2. CASE i = next
    BY <1>1, <2>2 DEF QuietKinds
  <2>3. CASE next < i
    <3>1. Token.line < tokens[i].line
      BY <1>1, <2>3 DEF PlacesInv, TokensInOrder
    <3> QED BY <1>1, <1>3, <1>4, <3>1
  <2> QED BY <1>1, <2>1, <2>2, <2>3
<1>5. CASE \E i \in DOMAIN tokens : tokens[i].line = n
  BY <1>3, <1>4, <1>5
<1>6. CASE CommentAbove(n)
  <2>1. PICK i \in DOMAIN tokens :
          /\ tokens[i].line <= n /\ lines[tokens[i].line].kind \in CommentKinds
          /\ \A m \in DOMAIN lines : tokens[i].line < m /\ m <= n => lines[m].kind # "*"
    BY <1>6 DEF CommentAbove
  <2>2. CASE LatestStep < tokens[i].line
    BY <1>4, <2>1, <2>2 DEF CommentKinds, QuietKinds, TableKinds
  <2>3. CASE LatestStep = tokens[i].line
    BY <1>2, <2>1, <2>3 DEF CommentKinds
  <2>4. CASE tokens[i].line < LatestStep
    <3>1. LatestStep \in DOMAIN lines
      BY <1>1, <1>2, <1>3, <2>4
    <3> QED BY <1>2, <1>3, <2>1, <2>4, <3>1
  <2> QED BY <1>1, <1>2, <2>2, <2>3, <2>4
<1> QED BY <1>3, <1>5, <1>6 DEF BelongInv, UnderlinesBelowComments

\* What a new item leaves as it was said of tables, when it goes to the latest step.
LEMMA PlaceTables ==
  ASSUME Inv, PlacesInv, BelongInv, NEW kind, Converts(kind), NEW as \in Places, NEW in \in Nat,
         Place(as, in),
         as \in {"header", "row"} /\ in # 0 =>
           /\ HasStep /\ in = LatestStep /\ lines[Token.line].kind \in TableKinds
           /\ as = "row" => In("table")
  PROVE  TablesFollowTheirStep'
<1> DEFINE new == [line |-> Token.line, as |-> as, in |-> in]
<1>1. /\ phase = "tokens" /\ next \in DOMAIN tokens /\ lines' = lines
  BY DEF Converts, Place, parser
<1>2. items \in Seq(Item) /\ LatestInv /\ Token.line \in Nat
  BY <1>1, TokenType DEF Inv, TypeOK, Item
<1>3. Items' = Items \cup {new}
  BY <1>2, Placed
<1>4. \A item \in Items : item.line < Token.line
  BY <1>1, TokenFacts DEF PlacesInv, ItemsBefore, Token, Inv
<1>5. new.line = Token.line /\ new.as = as /\ new.in = in
  OBVIOUS
<1> HIDE DEF new
<1>6. ASSUME NEW item \in Items', item.as \in {"header", "row"}, item.in # 0
      PROVE  /\ \A n \in (item.in + 1)..item.line :
                  lines[n].kind \in TableKinds \cup {"tags", "table:"}
             /\ item.as = "row" => \E h \in Items' : /\ h.as = "header" /\ h.in = item.in
                                                     /\ h.line < item.line
  <2>1. CASE item \in Items
    BY <1>3, <1>6, <2>1 DEF BelongInv, ItemsBelongAbove, TablesFollowTheirStep
  <2>2. CASE item = new
    <3>1. /\ HasStep /\ in = LatestStep /\ lines[Token.line].kind \in TableKinds
          /\ as = "row" => In("table")
      BY <1>5, <1>6, <2>2
    <3>2. \A n \in (item.in + 1)..item.line : lines[n].kind \in TableKinds \cup {"tags", "table:"}
      BY <1>1, <1>5, <2>2, <3>1, TableNear DEF QuietKinds
    <3>3. ASSUME item.as = "row"
          PROVE  \E h \in Items' : h.as = "header" /\ h.in = item.in /\ h.line < item.line
      <4>1. PICK h \in Items : h.as = "header" /\ h.in = LatestStep
        BY <1>5, <2>2, <3>1, <3>3 DEF Inv, StatesHold
      <4> QED BY <1>3, <1>4, <1>5, <2>2, <3>1, <4>1
    <3> QED BY <3>2, <3>3
  <2> QED BY <1>3, <2>1, <2>2
<1> QED BY <1>1, <1>6 DEF TablesFollowTheirStep

\* What has been converted since the latest step, when one more token has been.
LEMMA NearKept ==
  ASSUME Inv, PlacesInv, BelongInv, phase = "tokens", next \in DOMAIN tokens,
         next' = next + 1, lines' = lines, tokens' = tokens,
         HasStep' => \/ LatestStep' = Token.line
                     \/ /\ HasStep /\ LatestStep' = LatestStep
                        /\ lines[Token.line].kind \in QuietKinds
  PROVE  StepIsNear'
<1>1. /\ DOMAIN tokens = 1..Len(tokens) /\ Len(tokens) \in Nat /\ next \in Nat
      /\ \A i \in DOMAIN tokens : tokens[i].line \in Nat
      /\ Token = tokens[next]
  BY TokenFacts DEF Inv, Token
<1>2. ASSUME HasStep', NEW i \in DOMAIN tokens, i < next + 1, LatestStep' < tokens[i].line
      PROVE  lines[tokens[i].line].kind \in QuietKinds
  <2>1. CASE LatestStep' = Token.line
    <3>1. CASE i = next
      BY <1>1, <1>2, <2>1, <3>1
    <3>2. CASE i < next
      <4>1. tokens[i].line < Token.line
        BY <1>1, <3>2 DEF PlacesInv, TokensInOrder
      <4> QED BY <1>1, <1>2, <2>1, <4>1
    <3> QED BY <1>1, <1>2, <3>1, <3>2
  <2>2. CASE HasStep /\ LatestStep' = LatestStep /\ lines[Token.line].kind \in QuietKinds
    <3>1. CASE i = next
      BY <1>1, <2>2, <3>1
    <3>2. CASE i < next
      BY <1>2, <2>2, <3>2 DEF BelongInv, StepIsNear
    <3> QED BY <1>1, <1>2, <3>1, <3>2
  <2> QED BY <1>2, <2>1, <2>2
<1> QED BY <1>2 DEF StepIsNear

\* An item that is placed, whatever it is.
LEMMA PlaceBelong ==
  ASSUME Inv, PlacesInv, BelongInv, NEW kind, Converts(kind), NEW as \in Places, NEW in \in Nat,
         Place(as, in), phase' = phase,
         as \in {"step", "context", "comment", "tags"} /\ lines[Token.line].kind # "table:"
           => in = Here,
         as \in {"step", "context"} => lines[Token.line].kind = "*",
         as \in {"header", "row"} /\ in # 0 =>
           /\ HasStep /\ in = LatestStep /\ lines[Token.line].kind \in TableKinds
           /\ as = "row" => In("table"),
         HasStep' => \/ LatestStep' = Token.line
                     \/ /\ HasStep /\ LatestStep' = LatestStep
                        /\ lines[Token.line].kind \in QuietKinds,
         ScopesNested', ScenarioState'
  PROVE  BelongInv'
<1>1. /\ phase = "tokens" /\ next \in DOMAIN tokens /\ next' = next + 1
      /\ lines' = lines /\ tokens' = tokens /\ currentState' = currentState
  BY DEF Converts, Place, parser
<1>2. KindsAgree' /\ UnderlinesBelowComments'
  BY <1>1 DEF BelongInv, KindsAgree, UnderlinesBelowComments, CommentAbove
<1>3. OwnedByScenarioAbove' /\ StepLines' /\ ScenarioIsLatest'
  BY PlaceOwners
<1>4. TablesFollowTheirStep'
  BY PlaceTables
<1>5. StepIsNear'
  BY <1>1, NearKept
<1> QED BY <1>2, <1>3, <1>4, <1>5 DEF BelongInv, ItemsBelongAbove

\* An item that neither begins a scenario or a step nor ends the scenario: the latest step is
\* left, or the line is one that may stand between a step and its table.
LEMMA LowerBelong ==
  ASSUME Inv, PlacesInv, BelongInv, NEW kind, Converts(kind),
         NEW as \in {"comment", "tags", "table", "header", "row"}, NEW in \in Nat,
         Place(as, in), phase' = phase,
         as \in {"comment", "tags"} /\ lines[Token.line].kind # "table:" => in = Here,
         as = "table" => lines[Token.line].kind # "table:",
         as \in {"header", "row"} /\ in # 0 =>
           /\ HasStep /\ in = LatestStep /\ lines[Token.line].kind \in TableKinds
           /\ as = "row" => In("table"),
         \A scope \in {"spec", "scenario"} : scope \in state' <=> scope \in state,
         \/ "step" \notin state' /\ "context" \notin state'
         \/ /\ lines[Token.line].kind \in QuietKinds
            /\ \A scope \in {"step", "context"} : scope \in state' <=> scope \in state
  PROVE  BelongInv'
<1> DEFINE new == [line |-> Token.line, as |-> as, in |-> in]
<1>1. /\ phase = "tokens" /\ next \in DOMAIN tokens /\ lines' = lines /\ heading' = heading
      /\ as \in Places \ {"scenario", "step", "context"}
      /\ {"scenario", "step", "context"} \subseteq Places
  BY DEF Converts, Place, parser, Places
<1>2. items \in Seq(Item) /\ LatestInv /\ Token.line \in Nat
  BY <1>1, TokenType DEF Inv, TypeOK, Item
<1>3. /\ Items' = Items \cup {new}
      /\ \A other \in {"scenario", "step", "context"} : Latest(other)' = Latest(other)
  BY <1>1, <1>2, Placed
<1>4. new.line = Token.line /\ new.as = as
  OBVIOUS
<1> HIDE DEF new
<1>5. ScopesNested'
  BY <1>1 DEF BelongInv, ScopesNested, In
<1>6. ScenarioState'
  <2>1. LatestScenario' = LatestScenario
    BY <1>3 DEF LatestScenario
  <2>2. ExternalAfter(LatestScenario)' <=> ExternalAfter(LatestScenario)
    BY <1>1, <1>3, <1>4, <2>1 DEF ExternalAfter, ExternalTable
  <2>3. In("scenario")' <=> In("scenario")
    BY DEF In
  <2> QED BY <1>1, <2>1, <2>2, <2>3 DEF BelongInv, ScenarioState
<1>7. HasStep' => /\ HasStep /\ LatestStep' = LatestStep
                  /\ lines[Token.line].kind \in QuietKinds
  BY <1>3 DEF HasStep, LatestStep, In
<1> QED BY <1>1, <1>5, <1>6, <1>7, PlaceBelong

\* The line a converter works on.
LEMMA ConvertedLine ==
  ASSUME BelongInv, NEW kind, Converts(kind)
  PROVE  /\ kind = "step" => lines[Token.line].kind = "*"
         /\ kind = "tag" => lines[Token.line].kind = "tags"
         /\ kind = "dataTable" => lines[Token.line].kind = "table:"
         /\ kind \in {"tableHeader", "tableRow"} => lines[Token.line].kind \in TableKinds
BY DEF BelongInv, KindsAgree, Converts, Token

LEMMA ScenarioBelong ==
  ASSUME Inv, PlacesInv, BelongInv, ScenarioConverter
  PROVE  BelongInv'
<1>1. /\ Converts("scenario") /\ Place("scenario", 0) /\ phase' = phase /\ heading # 0
      /\ state' = (state \cap {"spec"}) \cup {"scenario"} /\ "scenario" \in Places
  BY DEF ScenarioConverter, Retain, Places
<1> DEFINE new == [line |-> Token.line, as |-> "scenario", in |-> 0]
<1>2. phase = "tokens" /\ next \in DOMAIN tokens /\ heading' = heading
  BY <1>1 DEF Converts, Place
<1>3. items \in Seq(Item) /\ LatestInv /\ Token.line \in Nat \ {0}
  BY <1>2, TokenType DEF Inv, TypeOK, Item
<1>4. Items' = Items \cup {new} /\ LatestScenario' = Token.line
  BY <1>1, <1>3, Placed DEF LatestScenario
<1>5. \A item \in Items : item.line < Token.line
  BY <1>2, TokenFacts DEF PlacesInv, ItemsBefore, Token, Inv
<1>6. new.line = Token.line /\ new.as = "scenario"
  OBVIOUS
<1> HIDE DEF new
<1>7. ScopesNested' /\ ~HasStep'
  BY <1>1, <1>2 DEF ScopesNested, In, HasStep
<1>8. ~ExternalAfter(LatestScenario)'
  <2>1. \A item \in Items : item.line \in Nat
    <3>1. \A item \in Items : item \in Item
      BY <1>3, ElementOfSeq, LenProperties DEF Items
    <3> QED BY <3>1 DEF Item
  <2>2. ASSUME NEW item \in Items'
        PROVE  ~(Token.line < item.line)
    BY <1>3, <1>4, <1>5, <1>6, <2>1
  <2> QED BY <1>4, <2>2 DEF ExternalAfter
<1>9. ScenarioState'
  <2>1. In("scenario")' /\ LatestScenario' # 0
    BY <1>1, <1>3, <1>4 DEF In
  <2> QED BY <1>8, <2>1 DEF ScenarioState
<1> QED BY <1>1, <1>7, <1>9, PlaceBelong

\* What a step or a context leaves of the state of scenarios.
LEMMA StepScenario ==
  ASSUME Inv, NEW kind, Converts(kind), NEW as \in {"step", "context"}, NEW in \in Nat,
         Place(as, in), phase' = phase, "scenario" \in state' <=> "scenario" \in state
  PROVE  (BelongInv => ScenarioState') /\ Latest(as)' = Token.line
<1> DEFINE new == [line |-> Token.line, as |-> as, in |-> in]
<1>1. /\ phase = "tokens" /\ next \in DOMAIN tokens /\ lines' = lines
      /\ as \in Places /\ "scenario" \in Places \ {as}
  BY DEF Converts, Place, parser, Places
<1>2. items \in Seq(Item) /\ LatestInv /\ Token.line \in Nat
  BY <1>1, TokenType DEF Inv, TypeOK, Item
<1>3. /\ Items' = Items \cup {new} /\ Latest(as)' = Token.line
      /\ LatestScenario' = LatestScenario
  BY <1>1, <1>2, Placed DEF LatestScenario
<1>4. new.as = as
  OBVIOUS
<1> HIDE DEF new
<1>5. ExternalAfter(LatestScenario)' <=> ExternalAfter(LatestScenario)
  BY <1>1, <1>3, <1>4 DEF ExternalAfter, ExternalTable
<1>6. In("scenario")' <=> In("scenario")
  BY DEF In
<1> QED BY <1>1, <1>3, <1>5, <1>6 DEF BelongInv, ScenarioState

LEMMA StepBelong ==
  ASSUME Inv, PlacesInv, BelongInv, StepConverter
  PROVE  BelongInv'
<1>1. /\ Converts("step") /\ Place("step", Here) /\ phase' = phase
      /\ state' = (state \cap ItemScopes) \cup {"step"} /\ "step" \in Places /\ "scenario" \in state
  BY DEF StepConverter, Retain, Places, Here, In
<1>2. heading' = heading
  BY <1>1 DEF Place
<1>3. Here \in Nat /\ lines[Token.line].kind = "*"
  BY <1>1, HereOwner, ConvertedLine
<1>4. ScenarioState' /\ Latest("step")' = Token.line
  BY <1>1, <1>3, StepScenario DEF ItemScopes
<1>5. ScopesNested' /\ LatestStep' = Token.line
  BY <1>1, <1>2, <1>4 DEF ScopesNested, BelongInv, In, LatestStep, ItemScopes
<1> QED BY <1>1, <1>3, <1>4, <1>5, PlaceBelong

LEMMA ContextBelong ==
  ASSUME Inv, PlacesInv, BelongInv, ContextConverter
  PROVE  BelongInv'
<1>1. /\ Converts("step") /\ Place("context", 0) /\ Here = 0 /\ phase' = phase
      /\ state' = (state \cap {"spec"}) \cup {"context"} /\ "context" \in Places
      /\ "scenario" \notin state /\ "spec" \in state
  BY DEF ContextConverter, Retain, Places, Here, In
<1>2. heading' = heading
  BY <1>1 DEF Place
<1>3. lines[Token.line].kind = "*"
  BY <1>1, ConvertedLine
<1>4. ScenarioState' /\ Latest("context")' = Token.line
  BY <1>1, StepScenario
<1>5. ScopesNested' /\ LatestStep' = Token.line
  BY <1>1, <1>2, <1>4 DEF ScopesNested, BelongInv, In, LatestStep
<1> QED BY <1>1, <1>3, <1>4, <1>5, PlaceBelong

LEMMA TakeExternalBelong ==
  ASSUME Inv, PlacesInv, BelongInv, NEW csv \in CsvTable, TakeExternalTable(csv)
  PROVE  BelongInv'
<1>1. /\ Converts("dataTable") /\ Place("table", 0) /\ phase' = phase
      /\ state' = (state \cap {"spec"}) \cup {"keyword"} /\ "table" \in Places
      /\ "scenario" \in Places \ {"table"}
  BY DEF TakeExternalTable, Retain, Places
<1> DEFINE new == [line |-> Token.line, as |-> "table", in |-> 0]
<1>2. phase = "tokens" /\ next \in DOMAIN tokens /\ heading' = heading /\ lines' = lines
  BY <1>1 DEF Converts, Place, parser
<1>3. items \in Seq(Item) /\ LatestInv /\ Token.line \in Nat \ {0}
  BY <1>2, TokenType DEF Inv, TypeOK, Item
<1>4. Items' = Items \cup {new} /\ LatestScenario' = LatestScenario
  BY <1>1, <1>3, Placed DEF LatestScenario
<1>5. new.line = Token.line /\ new.as = "table"
  OBVIOUS
<1> HIDE DEF new
<1>6. ScopesNested' /\ ~HasStep' /\ ~In("scenario")'
  BY <1>1, <1>2 DEF BelongInv, ScopesNested, In, HasStep
<1>7. LatestScenario # 0 => ExternalAfter(LatestScenario)'
  <2>1. ASSUME LatestScenario # 0
        PROVE  LatestScenario < Token.line
    <3>1. PICK item \in Items : item.line = LatestScenario
      BY <1>1, <1>3, <2>1, LatestFinds DEF LatestScenario
    <3> QED BY <1>2, <3>1, TokenFacts DEF PlacesInv, ItemsBefore, Token, Inv
  <2>2. lines'[new.line].kind = "table:" /\ new \in Items'
    BY <1>1, <1>2, <1>4, <1>5, ConvertedLine
  <2>3. ASSUME LatestScenario # 0
        PROVE  \E item \in Items' : /\ item.as = "table" /\ lines'[item.line].kind = "table:"
                                    /\ LatestScenario' < item.line
    BY <1>4, <1>5, <2>1, <2>2, <2>3
  <2> QED BY <2>3 DEF ExternalAfter, ExternalTable
<1>8. ScenarioState'
  BY <1>4, <1>6, <1>7 DEF ScenarioState
<1> QED BY <1>1, <1>6, <1>8, PlaceBelong

LEMMA LowerConverters ==
  ASSUME Inv, PlacesInv, BelongInv,
         \/ CommentConverter \/ TagConverter \/ IgnoreExternalTable \/ IgnoreTable \/ RowAsComment
         \/ InlineTableHeader /\ TokenLine.kind # "|"
         \/ DataTableHeader \/ InlineTableRow \/ DataTableRow
  PROVE  BelongInv'
<1>1. Here \in Nat /\ LatestStep \in Nat
  BY HereOwner, StepOwner
<1>2. CASE CommentConverter
  <2>1. /\ Converts("comment") /\ Place("comment", Here) /\ phase' = phase
        /\ state' = (state \cap ItemScopes) \cup {"comment"}
    BY <1>2 DEF CommentConverter, Retain
  <2>2. /\ "step" \notin state' /\ "context" \notin state'
        /\ \A scope \in {"spec", "scenario"} : scope \in state' <=> scope \in state
    BY <2>1 DEF ItemScopes
  <2> QED BY <1>1, <2>1, <2>2, LowerBelong
<1>3. CASE TagConverter
  <2>1. /\ Converts("tag") /\ Place("tags", Here) /\ phase' = phase /\ state' = state
    BY <1>3 DEF TagConverter
  <2>2. lines[Token.line].kind \in QuietKinds
    BY <2>1, ConvertedLine DEF QuietKinds
  <2> QED BY <1>1, <2>1, <2>2, LowerBelong
<1>4. CASE IgnoreExternalTable
  <2>1. /\ Converts("dataTable") /\ Place("comment", 0) /\ phase' = phase /\ state' = state
    BY <1>4 DEF IgnoreExternalTable
  <2>2. lines[Token.line].kind = "table:" /\ lines[Token.line].kind \in QuietKinds
    BY <2>1, ConvertedLine DEF QuietKinds
  <2> QED BY <2>1, <2>2, LowerBelong
<1>5. CASE IgnoreTable
  <2>1. /\ Converts("tableHeader") /\ Place("comment", Here) /\ phase' = phase /\ state' = state
    BY <1>5 DEF IgnoreTable
  <2>2. lines[Token.line].kind \in QuietKinds
    BY <2>1, ConvertedLine DEF QuietKinds
  <2> QED BY <1>1, <2>1, <2>2, LowerBelong
<1>6. CASE RowAsComment
  <2>1. /\ Converts("tableRow") /\ Place("comment", Here) /\ phase' = phase
        /\ state' = state \cap TableScopes
    BY <1>6 DEF RowAsComment, Retain
  <2>2. lines[Token.line].kind \in QuietKinds
    BY <2>1, ConvertedLine DEF QuietKinds
  <2>3. \A scope \in {"spec", "scenario", "step", "context"} : scope \in state' <=> scope \in state
    BY <2>1 DEF TableScopes
  <2> QED BY <1>1, <2>1, <2>2, <2>3, LowerBelong
<1>7. CASE InlineTableHeader /\ TokenLine.kind # "|"
  <2>1. /\ Converts("tableHeader") /\ Place("header", LatestStep) /\ phase' = phase /\ HasStep
        /\ state' = (state \cap TableScopes) \cup {"table"}
    BY <1>7 DEF InlineTableHeader, Retain
  <2>2. lines[Token.line].kind \in TableKinds /\ lines[Token.line].kind \in QuietKinds
    BY <2>1, ConvertedLine DEF QuietKinds
  <2>3. \A scope \in {"spec", "scenario", "step", "context"} : scope \in state' <=> scope \in state
    BY <2>1 DEF TableScopes
  <2> QED BY <1>1, <2>1, <2>2, <2>3, LowerBelong
<1>8. CASE DataTableHeader
  <2>1. /\ Converts("tableHeader") /\ Place("table", 0) /\ phase' = phase
        /\ state' = (state \cap TableScopes) \cup {"table"}
    BY <1>8 DEF DataTableHeader, TakesTable, Retain
  <2>2. /\ lines[Token.line].kind \in TableKinds /\ lines[Token.line].kind \in QuietKinds
        /\ lines[Token.line].kind # "table:"
    BY <2>1, ConvertedLine DEF QuietKinds, TableKinds
  <2>3. \A scope \in {"spec", "scenario", "step", "context"} : scope \in state' <=> scope \in state
    BY <2>1 DEF TableScopes
  <2> QED BY <2>1, <2>2, <2>3, LowerBelong
<1>9. CASE InlineTableRow
  <2>1. /\ Converts("tableRow") /\ Place("row", LatestStep) /\ phase' = phase /\ HasStep
        /\ state' = state \cap TableScopes /\ In("table")
    BY <1>9 DEF InlineTableRow, Retain
  <2>2. lines[Token.line].kind \in TableKinds /\ lines[Token.line].kind \in QuietKinds
    BY <2>1, ConvertedLine DEF QuietKinds
  <2>3. \A scope \in {"spec", "scenario", "step", "context"} : scope \in state' <=> scope \in state
    BY <2>1 DEF TableScopes
  <2> QED BY <1>1, <2>1, <2>2, <2>3, LowerBelong
<1>10. CASE DataTableRow
  <2>1. /\ Converts("tableRow") /\ Place("row", 0) /\ phase' = phase
        /\ state' = state \cap TableScopes
    BY <1>10 DEF DataTableRow, Retain
  <2>2. lines[Token.line].kind \in QuietKinds
    BY <2>1, ConvertedLine DEF QuietKinds
  <2>3. \A scope \in {"spec", "scenario", "step", "context"} : scope \in state' <=> scope \in state
    BY <2>1 DEF TableScopes
  <2> QED BY <2>1, <2>2, <2>3, LowerBelong
<1> QED BY <1>2, <1>3, <1>4, <1>5, <1>6, <1>7, <1>8, <1>9, <1>10

\* Where no item is placed, nothing more is said of those there are.
LEMMA SameItems ==
  ASSUME BelongInv, UNCHANGED <<parser, items>>
  PROVE  /\ KindsAgree' /\ UnderlinesBelowComments' /\ StepLines' /\ ScenarioIsLatest'
         /\ ItemsBelongAbove'
         /\ LatestScenario' = LatestScenario
         /\ ExternalAfter(LatestScenario)' <=> ExternalAfter(LatestScenario)
         /\ Latest("step")' = Latest("step") /\ Latest("context")' = Latest("context")
<1>1. /\ lines' = lines /\ tokens' = tokens /\ currentState' = currentState /\ Items' = Items
      /\ Latest("step")' = Latest("step") /\ Latest("context")' = Latest("context")
      /\ LatestScenario' = LatestScenario
  BY DEF parser, Items, Latest, LatestScenario, Positions
<1>2. KindsAgree' /\ UnderlinesBelowComments'
  BY <1>1 DEF BelongInv, KindsAgree, UnderlinesBelowComments, CommentAbove
<1>3. StepLines' /\ ScenarioIsLatest'
  BY <1>1 DEF BelongInv, StepLines, ScenarioIsLatest
<1>4. ItemsBelongAbove'
  <2>1. ASSUME NEW n
        PROVE  ScenarioAbove(n)' = ScenarioAbove(n)
    BY <1>1 DEF ScenarioAbove
  <2>2. OwnedByScenarioAbove'
    BY <1>1, <2>1 DEF BelongInv, ItemsBelongAbove, OwnedByScenarioAbove
  <2>3. TablesFollowTheirStep'
    BY <1>1 DEF BelongInv, ItemsBelongAbove, TablesFollowTheirStep
  <2> QED BY <2>2, <2>3 DEF ItemsBelongAbove
<1>5. ExternalAfter(LatestScenario)' <=> ExternalAfter(LatestScenario)
  BY <1>1 DEF ExternalAfter, ExternalTable
<1> QED BY <1>1, <1>2, <1>3, <1>4, <1>5

LEMMA SkipBelong ==
  ASSUME Inv, PlacesInv, BelongInv, Drop \/ SpecConverter \/ Separator
  PROVE  BelongInv'
<1>1. /\ phase = "tokens" /\ phase' = phase /\ next \in DOMAIN tokens /\ next' = next + 1
      /\ UNCHANGED <<parser, items>> /\ lines' = lines /\ tokens' = tokens
  BY DEF Drop, SpecConverter, Separator, Converts, parser, specification
<1>2. /\ KindsAgree' /\ UnderlinesBelowComments' /\ StepLines' /\ ScenarioIsLatest'
      /\ ItemsBelongAbove' /\ LatestScenario' = LatestScenario
      /\ ExternalAfter(LatestScenario)' <=> ExternalAfter(LatestScenario)
      /\ Latest("step")' = Latest("step") /\ Latest("context")' = Latest("context")
  BY <1>1, SameItems
<1>3. \A scope \in {"scenario", "step", "context"} : scope \in state' <=> scope \in state
  BY DEF Drop, SpecConverter, Separator, Retain, TableScopes
<1>4. ScenarioState'
  BY <1>1, <1>2, <1>3 DEF BelongInv, ScenarioState, In
<1>5. ScopesNested'
  <2>1. CASE Drop
    BY <2>1 DEF Drop, BelongInv, ScopesNested, In, specification
  <2>2. CASE SpecConverter
    <3>1. heading' # 0
      BY <1>1, <2>2, TokenType DEF SpecConverter, Inv
    <3> QED BY <1>3, <2>2, <3>1 DEF SpecConverter, Retain, BelongInv, ScopesNested, In
  <2>3. CASE Separator
    BY <1>3, <2>3 DEF Separator, Retain, TableScopes, BelongInv, ScopesNested, In, specification
  <2> QED BY <2>1, <2>2, <2>3
<1>6. HasStep => lines[Token.line].kind \in QuietKinds
  <2>1. CASE Drop
    BY <2>1, ConvertedLine DEF Drop, BelongInv, ScopesNested, HasStep, QuietKinds
  <2>2. CASE SpecConverter
    BY <2>2 DEF SpecConverter, BelongInv, ScopesNested, HasStep
  <2>3. CASE Separator
    BY <2>3, ConvertedLine DEF Separator, QuietKinds
  <2> QED BY <2>1, <2>2, <2>3
<1>7. HasStep' <=> HasStep /\ LatestStep' = LatestStep
  BY <1>2, <1>3 DEF HasStep, LatestStep, In
<1>8. StepIsNear'
  BY <1>1, <1>6, <1>7, NearKept
<1> QED BY <1>2, <1>4, <1>5, <1>8 DEF BelongInv

LEMMA StayBelong ==
  ASSUME Inv, BelongInv, UNCHANGED <<parser, next, state, specification>>,
         phase' \in {phase, "accepted", "rejected", "crashed"}
           \/ (phase = "lines" /\ phase' = "tokens")
  PROVE  BelongInv'
<1>1. /\ UNCHANGED <<parser, items>> /\ state' = state /\ next' = next /\ heading' = heading
      /\ lines' = lines /\ tokens' = tokens
  BY DEF parser, specification
<1>2. /\ KindsAgree' /\ UnderlinesBelowComments' /\ StepLines' /\ ScenarioIsLatest'
      /\ ItemsBelongAbove' /\ LatestScenario' = LatestScenario
      /\ ExternalAfter(LatestScenario)' <=> ExternalAfter(LatestScenario)
      /\ Latest("step")' = Latest("step") /\ Latest("context")' = Latest("context")
  BY <1>1, SameItems
<1>3. ScopesNested'
  BY <1>1 DEF BelongInv, ScopesNested, In
<1>4. CASE phase' = "tokens"
  <2>1. CASE phase = "tokens"
    <3>1. (HasStep' <=> HasStep) /\ LatestStep' = LatestStep
      BY <1>1, <1>2 DEF HasStep, LatestStep, In
    <3>2. ScenarioState'
      BY <1>1, <1>2, <2>1 DEF BelongInv, ScenarioState, In
    <3>3. StepIsNear'
      BY <1>1, <2>1, <3>1 DEF BelongInv, StepIsNear
    <3> QED BY <1>2, <1>3, <3>2, <3>3 DEF BelongInv
  <2>2. CASE phase = "lines"
    <3>1. items = <<>> /\ state = {}
      BY <2>2 DEF Inv, LinesInv
    <3>2. LatestScenario' = 0
      BY <1>2, <3>1, NoScenario
    <3>3. ScenarioState' /\ StepIsNear'
      BY <1>1, <3>1, <3>2 DEF ScenarioState, StepIsNear, HasStep, In
    <3> QED BY <1>2, <1>3, <3>3 DEF BelongInv
  <2> QED BY <1>4, <2>1, <2>2
<1>5. CASE phase' # "tokens"
  BY <1>2, <1>3, <1>5 DEF BelongInv, ScenarioState, StepIsNear
<1> QED BY <1>4, <1>5

LEMMA BelongStep == Inv /\ PlacesInv /\ BelongInv /\ [Next]_vars => BelongInv'
<1> SUFFICES ASSUME Inv, PlacesInv, BelongInv, [Next]_vars PROVE BelongInv'
  OBVIOUS
<1>1. CASE \E line \in Line : Underline(line) \/ PlainLine(line) \/ TableLine(line)
  BY <1>1, ReadBelong
<1>2. CASE RejectLine \/ LineTooLong \/ EndOfLines
  BY <1>2, StayBelong DEF RejectLine, LineTooLong, EndOfLines
<1>3. CASE MultipleHeadings \/ MisplacedScenario \/ UnresolvedStep
  BY <1>3, StayBelong DEF MultipleHeadings, MisplacedScenario, UnresolvedStep, Unchanged
<1>4. CASE Drop \/ SpecConverter \/ Separator
  BY <1>4, SkipBelong
<1>5. CASE ScenarioConverter \/ StepConverter \/ ContextConverter
  BY <1>5, ScenarioBelong, StepBelong, ContextBelong
<1>6. CASE \E csv \in CsvTable : TakeExternalTable(csv)
  BY <1>6, TakeExternalBelong
<1>7. CASE InlineTableHeader
  <2>1. CASE TokenLine.kind = "|"
    BY <1>7, <2>1, StayBelong DEF InlineTableHeader, Unchanged
  <2> QED BY <1>7, <2>1, LowerConverters
<1>8. CASE \/ CommentConverter \/ TagConverter \/ IgnoreExternalTable \/ IgnoreTable
           \/ RowAsComment \/ DataTableHeader \/ InlineTableRow \/ DataTableRow
  BY <1>8, LowerConverters
<1>9. CASE Finish
  BY <1>9, StayBelong DEF Finish, Unchanged
<1>10. CASE UNCHANGED vars
  BY <1>10, StayBelong DEF vars
<1> QED BY <1>1, <1>2, <1>3, <1>4, <1>5, <1>6, <1>7, <1>8, <1>9, <1>10 DEF Next

\* Every step, comment and line of tags belongs to the scenario that it stands below, up to a
\* data table file that ends it, and every table to the step right above it.
THEOREM ItemsSound == Spec => []ItemsBelongAbove
<1>1. Init => Inv /\ PlacesInv /\ BelongInv
  <2>1. Init => PlacesInv
    BY DEF Init, PlacesInv, TokensInOrder, LinesHaveTokens, ItemsInOrder, ItemsBefore,
       TokensPlaced, HeadingKnown, AllConverted
  <2>2. Init => BelongInv
    <3> SUFFICES ASSUME Init PROVE BelongInv
      OBVIOUS
    <3>1. /\ StepLines /\ ScopesNested /\ ScenarioIsLatest /\ ScenarioState /\ StepIsNear
          /\ ItemsBelongAbove
      BY NoScenario, EmptyBelong DEF Init
    <3>2. KindsAgree /\ UnderlinesBelowComments
      BY DEF Init, KindsAgree, UnderlinesBelowComments
    <3> QED BY <3>1, <3>2 DEF BelongInv
  <2> QED BY <2>1, <2>2, InitInv
<1>2. BelongInv => ItemsBelongAbove
  BY DEF BelongInv
<1> QED BY <1>1, <1>2, NextInv, PlacesStep, BelongStep, PTL DEF Spec

-----------------------------------------------------------------------------
(* The text of a step.  Of sequences in general: what holds of the empty   *)
(* one, and of each with one element more, holds of all.                   *)

\* What holds of a number and not of all has a smallest counterexample.
LEMMA Smallest ==
  ASSUME NEW T \in SUBSET Nat, T # {}
  PROVE  \E x \in T : \A y \in T : x <= y
<1> DEFINE R == {ss \in Nat \X Nat : ss[1] < ss[2]}
<1>1. IsWellFoundedOn(R, Nat)
  BY NatLessThanWellFounded DEF OpToRel
<1>2. \A x, y \in Nat : y < x => <<y, x>> \in R
  OBVIOUS
<1> HIDE DEF R
<1>3. PICK x \in T : \A y \in T : ~(<<y, x>> \in R)
  BY <1>1, WFMin
<1>4. \A y \in T : x <= y
  <2> SUFFICES ASSUME NEW y \in T PROVE x <= y
    OBVIOUS
  <2>1. <<y, x>> \notin R
    BY <1>3
  <2>2. ~(y < x)
    BY <2>1, <1>2
  <2> QED BY <2>2
<1> QED BY <1>4

LEMMA FirstPosition ==
  ASSUME NEW P \in SUBSET Nat, P # {}
  PROVE  Min(P) \in P /\ \A j \in P : Min(P) <= j
BY Smallest DEF Min

LEMMA SequencesByAppending ==
  ASSUME NEW A, NEW G, <<>> \in G,
         \A s \in Seq(A) : \A x \in A : s \in G => Append(s, x) \in G
  PROVE  Seq(A) \subseteq G
<1> DEFINE T == {n \in Nat : \E s \in Seq(A) : Len(s) = n /\ s \notin G}
<1>1. T = {}
  <2> SUFFICES ASSUME T # {} PROVE FALSE
    OBVIOUS
  <2>1. T \in SUBSET Nat
    OBVIOUS
  <2>2. PICK n \in T : \A m \in T : n <= m
    <3> HIDE DEF T
    <3> QED BY <2>1, Smallest
  <2>3. PICK s \in Seq(A) : Len(s) = n /\ s \notin G
    BY <2>2
  <2>4. s # <<>>
    BY <2>3
  <2>5. PICK t \in Seq(A), x \in A : s = Append(t, x)
    BY <2>4, SequenceEmptyOrAppend
  <2>6. t \notin G
    BY <2>3, <2>5
  <2>7. Len(t) \in Nat /\ Len(s) = Len(t) + 1
    BY <2>5, AppendProperties, LenProperties
  <2>8. Len(t) \in T
    BY <2>6, <2>7
  <2>9. ~(n <= Len(t))
    BY <2>3, <2>7
  <2> HIDE DEF T
  <2> QED BY <2>2, <2>8, <2>9
<1>2. ASSUME NEW s \in Seq(A) PROVE s \in G
  <2>1. Len(s) \in Nat
    BY LenProperties
  <2>2. Len(s) \notin T
    BY <1>1
  <2> QED BY <2>1, <2>2
<1> QED BY <1>2

LEMMA FunctionIsSeq ==
  ASSUME NEW S, NEW n \in Nat, NEW f \in [1..n -> S]
  PROVE  f \in Seq(S) /\ Len(f) = n
OBVIOUS

LEMMA OneToOne ==
  ASSUME NEW S, NEW T, IsFiniteSet(S), NEW f \in [S -> T],
         \A x, y \in S : f[x] = f[y] => x = y, \A t \in T : \E x \in S : f[x] = t
  PROVE  IsFiniteSet(T) /\ Cardinality(T) = Cardinality(S)
<1>1. f \in Bijection(S, T)
  BY DEF Bijection, Injection, Surjection, IsInjective
<1>2. ExistsBijection(S, T)
  BY <1>1 DEF ExistsBijection
<1> QED BY <1>2, FS_Bijection

\* The function that FlattenSeq computes.
Flattening(n, ss, f) == f = [i \in 1..n |-> IF i = 1 THEN ss[i] ELSE f[i - 1] \o ss[i]]

LEMMA FlatteningExists ==
  ASSUME NEW n \in Nat, NEW ss PROVE \E f : Flattening(n, ss, f)
<1> DEFINE T == {k \in Nat : ~\E f : Flattening(k, ss, f)}
<1> SUFFICES T = {}
  OBVIOUS
<1> SUFFICES ASSUME T # {} PROVE FALSE
  OBVIOUS
<1>1. T \in SUBSET Nat
  OBVIOUS
<1>2. PICK k \in T : \A m \in T : k <= m
  <2> HIDE DEF T
  <2> QED BY <1>1, Smallest
<1>3. CASE k = 0
  <2>1. Flattening(0, ss, [i \in 1..0 |-> ss[i]])
    BY DEF Flattening
  <2> QED BY <1>2, <1>3, <2>1
<1>4. CASE k > 0
  <2>1. k - 1 \in Nat /\ ~(k <= k - 1)
    BY <1>4, <1>1, <1>2
  <2>2. PICK g : Flattening(k - 1, ss, g)
    BY <1>2, <2>1
  <2> DEFINE f == [i \in 1..k |-> IF i = k THEN (IF k = 1 THEN ss[k] ELSE g[k - 1] \o ss[k]) ELSE g[i]]
             h == [i \in 1..k |-> IF i = 1 THEN ss[i] ELSE f[i - 1] \o ss[i]]
  <2>3. \A i \in 1..k : f[i] = IF i = 1 THEN ss[i] ELSE f[i - 1] \o ss[i]
    <3> SUFFICES ASSUME NEW i \in 1..k PROVE f[i] = IF i = 1 THEN ss[i] ELSE f[i - 1] \o ss[i]
      OBVIOUS
    <3>1. k \in Nat
      BY <1>1, <1>2
    <3>2. CASE i = k /\ k = 1
      BY <3>2
    <3>3. CASE i = k /\ k # 1
      <4>1. k - 1 \in 1..k /\ k \in 1..k /\ k - 1 # k
        BY <3>1, <3>3
      <4>2. f[k] = g[k - 1] \o ss[k]
        BY <4>1, <3>3
      <4>3. f[k - 1] = g[k - 1]
        BY <4>1
      <4> HIDE DEF f
      <4> QED BY <4>2, <4>3, <3>3
    <3>4. CASE i # k
      <4>1. i \in 1..(k - 1) /\ f[i] = g[i]
        BY <3>1, <3>4
      <4>2. g[i] = IF i = 1 THEN ss[i] ELSE g[i - 1] \o ss[i]
        BY <2>2, <4>1 DEF Flattening
      <4>3. i # 1 => f[i - 1] = g[i - 1]
        BY <3>1, <3>4
      <4> HIDE DEF f
      <4> QED BY <4>1, <4>2, <4>3
    <3> QED BY <3>2, <3>3, <3>4
  <2>4. f = [i \in 1..k |-> f[i]]
    OBVIOUS
  <2> HIDE DEF f
  <2>5. f = h
    BY <2>3, <2>4
  <2>6. Flattening(k, ss, f)
    BY <2>5 DEF Flattening
  <2> QED BY <1>2, <2>6
<1> QED BY <1>1, <1>2, <1>3, <1>4

\* What the first sequences of ss come to.
IsParts(p, ss, A) ==
  /\ p \in [0..Len(ss) -> Seq(A)] /\ p[0] = <<>> /\ p[Len(ss)] = FlattenSeq(ss)
  /\ \A k \in 1..Len(ss) : p[k] = p[k - 1] \o ss[k]

LEMMA PartsExist ==
  ASSUME NEW A, NEW ss \in Seq(Seq(A))
  PROVE  \E p : IsParts(p, ss, A)
<1> DEFINE n == Len(ss)
           F == CHOOSE f : f = [i \in 1..Len(ss) |-> IF i = 1 THEN ss[i] ELSE f[i - 1] \o ss[i]]
           p == [k \in 0..n |-> IF k = 0 THEN <<>> ELSE F[k]]
<1>1. n \in Nat /\ \A i \in 1..n : ss[i] \in Seq(A)
  BY ElementOfSeq, LenProperties
<1>2. FlattenSeq(ss) = IF n = 0 THEN ss ELSE F[n]
  BY DEF FlattenSeq
<1>3. \A i \in 1..n : F[i] = IF i = 1 THEN ss[i] ELSE F[i - 1] \o ss[i]
  <2>1. \E f : f = [i \in 1..Len(ss) |-> IF i = 1 THEN ss[i] ELSE f[i - 1] \o ss[i]]
    BY <1>1, FlatteningExists DEF Flattening
  <2>2. F = [i \in 1..Len(ss) |-> IF i = 1 THEN ss[i] ELSE F[i - 1] \o ss[i]]
    BY <2>1
  <2> HIDE DEF F
  <2> QED BY <2>2
<1> HIDE DEF F
<1>4. \A k \in 1..n : F[k] \in Seq(A)
  <2> DEFINE T == {k \in 1..n : F[k] \notin Seq(A)}
  <2> SUFFICES ASSUME T # {} PROVE FALSE
    OBVIOUS
  <2>1. T \in SUBSET Nat
    OBVIOUS
  <2>2. PICK k \in T : \A m \in T : k <= m
    <3> HIDE DEF T
    <3> QED BY <2>1, Smallest
  <2>3. CASE k = 1
    BY <2>2, <2>3, <1>1, <1>3
  <2>4. CASE k # 1
    <3>1. k - 1 \in 1..n /\ ~(k <= k - 1)
      BY <2>2, <2>4, <1>1
    <3>2. F[k - 1] \in Seq(A)
      BY <2>2, <3>1
    <3>3. ss[k] \in Seq(A) /\ F[k] = F[k - 1] \o ss[k]
      BY <1>1, <1>3, <2>2, <2>4
    <3>4. F[k - 1] \o ss[k] \in Seq(A)
      BY <3>2, <3>3, ConcatProperties
    <3> QED BY <2>2, <3>3, <3>4
  <2> QED BY <2>3, <2>4
<1>5. p \in [0..n -> Seq(A)]
  <2>1. ASSUME NEW k \in 0..n PROVE (IF k = 0 THEN <<>> ELSE F[k]) \in Seq(A)
    <3>1. k # 0 => k \in 1..n
      BY <1>1
    <3> QED BY <3>1, <1>4
  <2> HIDE DEF n
  <2> QED BY <2>1
<1>6. p[0] = <<>> /\ p[n] = FlattenSeq(ss)
  <2>1. CASE n = 0
    <3>1. ss = <<>>
      BY <2>1, EmptySeq
    <3> QED BY <2>1, <3>1, <1>2
  <2>2. CASE n # 0
    BY <2>2, <1>1, <1>2
  <2> QED BY <2>1, <2>2
<1>7. ASSUME NEW k \in 1..n PROVE p[k] = p[k - 1] \o ss[k]
  <2>1. k \in Nat /\ k # 0 /\ k \in 0..n /\ k - 1 \in 0..n
    BY <1>1
  <2>2. p[k] = F[k]
    BY <2>1
  <2>3. CASE k = 1
    <3>1. p[k - 1] = <<>> /\ F[k] = ss[k]
      BY <2>3, <1>1, <1>3
    <3>2. <<>> \o ss[k] = ss[k]
      BY <1>1, ConcatEmptySeq
    <3> HIDE DEF p
    <3> QED BY <2>2, <3>1, <3>2
  <2>4. CASE k # 1
    <3>1. p[k - 1] = F[k - 1]
      BY <2>1, <2>4
    <3> QED BY <2>2, <2>4, <3>1, <1>3
  <2> QED BY <2>3, <2>4
<1> HIDE DEF p
<1>8. IsParts(p, ss, A)
  BY <1>5, <1>6, <1>7 DEF IsParts
<1> QED BY <1>8

LEMMA FlattenedAppend ==
  ASSUME NEW A, NEW ss \in Seq(Seq(A)), NEW x \in Seq(A)
  PROVE  /\ FlattenSeq(ss) \in Seq(A)
         /\ FlattenSeq(Append(ss, x)) = FlattenSeq(ss) \o x
<1> DEFINE n == Len(ss)
           more == Append(ss, x)
<1>1. n \in Nat /\ more \in Seq(Seq(A)) /\ Len(more) = n + 1
        /\ (\A k \in 1..n : more[k] = ss[k]) /\ more[n + 1] = x
  BY LenProperties, AppendProperties
<1> HIDE DEF more
<1>2. PICK p : IsParts(p, ss, A)
  BY PartsExist
<1>3. PICK q : IsParts(q, more, A)
  BY <1>1, PartsExist
<1>4. \A k \in 0..n : p[k] = q[k]
  <2> DEFINE T == {k \in 0..n : p[k] # q[k]}
  <2> SUFFICES ASSUME T # {} PROVE FALSE
    OBVIOUS
  <2>1. T \in SUBSET Nat
    OBVIOUS
  <2>2. PICK k \in T : \A m \in T : k <= m
    <3> HIDE DEF T
    <3> QED BY <2>1, Smallest
  <2>3. k # 0
    BY <2>2, <1>2, <1>3 DEF IsParts
  <2>4. k \in 1..n /\ k \in 1..(n + 1) /\ k - 1 \in 0..n /\ ~(k <= k - 1)
    BY <2>2, <2>3, <1>1
  <2>5. p[k - 1] = q[k - 1]
    BY <2>2, <2>4
  <2>6. p[k] = p[k - 1] \o ss[k]
    BY <1>2, <2>4 DEF IsParts
  <2>7. q[k] = q[k - 1] \o more[k]
    BY <1>1, <1>3, <2>4 DEF IsParts
  <2> QED BY <1>1, <2>2, <2>4, <2>5, <2>6, <2>7
<1>5. p[n] = FlattenSeq(ss) /\ FlattenSeq(ss) \in Seq(A)
  <2>1. n \in 0..n
    BY <1>1
  <2> QED BY <1>2, <2>1 DEF IsParts
<1>6. q[n + 1] = FlattenSeq(more) /\ q[n + 1] = q[n] \o more[n + 1]
  <2>1. n + 1 \in 1..(n + 1) /\ (n + 1) - 1 = n
    BY <1>1
  <2>2. q[n + 1] = q[(n + 1) - 1] \o more[n + 1]
    BY <1>1, <1>3, <2>1 DEF IsParts
  <2> QED BY <1>1, <1>3, <2>1, <2>2 DEF IsParts
<1>7. p[n] = q[n]
  BY <1>1, <1>4
<1> QED BY <1>1, <1>5, <1>6, <1>7 DEF more

LEMMA FlattenedNothing == FlattenSeq(<<>>) = <<>>
BY DEF FlattenSeq

\* What g makes of every element, one after the other.
Through(all, g) == FlattenSeq([i \in DOMAIN all |-> g[all[i]]])
Makes(g, A, B) == g \in [A -> Seq(B)]

LEMMA ThroughAppend ==
  ASSUME NEW A, NEW B, NEW g, Makes(g, A, B), NEW all \in Seq(A), NEW x \in A
  PROVE  /\ Through(all, g) \in Seq(B)
         /\ Through(Append(all, x), g) = Through(all, g) \o g[x]
<1> DEFINE each == [i \in DOMAIN all |-> g[all[i]]]
           longer == Append(all, x)
           eachLonger == [i \in DOMAIN longer |-> g[longer[i]]]
<1>1. Len(all) \in Nat /\ DOMAIN all = 1..Len(all) /\ \A i \in 1..Len(all) : all[i] \in A
  BY LenProperties, ElementOfSeq
<1>2. longer \in Seq(A) /\ Len(longer) = Len(all) + 1 /\ DOMAIN longer = 1..(Len(all) + 1)
        /\ (\A i \in 1..Len(all) : longer[i] = all[i]) /\ longer[Len(all) + 1] = x
  BY AppendProperties, LenProperties
<1> HIDE DEF longer
<1>3. each \in Seq(Seq(B)) /\ Len(each) = Len(all) /\ \A i \in 1..Len(all) : each[i] = g[all[i]]
  BY <1>1 DEF Makes
<1>4. g[x] \in Seq(B)
  BY DEF Makes
<1>5. eachLonger \in Seq(Seq(B)) /\ Len(eachLonger) = Len(all) + 1
        /\ \A i \in 1..(Len(all) + 1) : eachLonger[i] = g[longer[i]]
  <2>1. \A i \in 1..(Len(all) + 1) : longer[i] \in A
    BY <1>2, ElementOfSeq
  <2>2. Len(all) + 1 \in Nat
    BY <1>1
  <2> QED BY <1>2, <2>1, <2>2 DEF Makes
<1> HIDE DEF each, eachLonger
<1>6. /\ Append(each, g[x]) \in Seq(Seq(B)) /\ Len(Append(each, g[x])) = Len(all) + 1
      /\ \A i \in 1..Len(all) : Append(each, g[x])[i] = each[i]
      /\ Append(each, g[x])[Len(all) + 1] = g[x]
  BY <1>3, <1>4, AppendProperties
<1>7. \A i \in 1..(Len(all) + 1) : eachLonger[i] = Append(each, g[x])[i]
  <2> SUFFICES ASSUME NEW i \in 1..(Len(all) + 1) PROVE eachLonger[i] = Append(each, g[x])[i]
    OBVIOUS
  <2>1. CASE i \in 1..Len(all)
    <3>1. longer[i] = all[i] /\ eachLonger[i] = g[longer[i]]
      BY <1>2, <1>5, <2>1
    <3>2. each[i] = g[all[i]] /\ Append(each, g[x])[i] = each[i]
      BY <1>3, <1>6, <2>1
    <3> QED BY <3>1, <3>2
  <2>2. CASE i = Len(all) + 1
    BY <1>2, <1>5, <1>6, <2>2
  <2>3. i \in 1..Len(all) \/ i = Len(all) + 1
    BY <1>1
  <2> QED BY <2>1, <2>2, <2>3
<1>8. eachLonger = Append(each, g[x])
  <2> DEFINE a == Append(each, g[x])
             L == Len(all) + 1
  <2>1. a \in Seq(Seq(B)) /\ Len(a) = L
    BY <1>6
  <2>2. \A i \in 1..L : eachLonger[i] = a[i]
    BY <1>7
  <2>3. eachLonger \in Seq(Seq(B)) /\ Len(eachLonger) = L
    BY <1>5
  <2> HIDE DEF a, L
  <2>4. eachLonger = a
    BY <2>1, <2>2, <2>3, SeqEqual
  <2> QED BY <2>4 DEF a
<1>9. FlattenSeq(each) \in Seq(B) /\ FlattenSeq(Append(each, g[x])) = FlattenSeq(each) \o g[x]
  BY <1>3, <1>4, FlattenedAppend
<1> QED BY <1>8, <1>9 DEF Through, each, eachLonger, longer

LEMMA ThroughNothing == ASSUME NEW g PROVE Through(<<>>, g) = <<>>
<1>1. [i \in DOMAIN <<>> |-> g[<<>>[i]]] = <<>>
  OBVIOUS
<1> QED BY <1>1, FlattenedNothing DEF Through

LEMMA ThroughType ==
  ASSUME NEW A, NEW B, NEW g, Makes(g, A, B), NEW all \in Seq(A)
  PROVE  Through(all, g) \in Seq(B)
<1>1. CASE A = {}
  <2>1. all = <<>>
    BY <1>1, SequenceEmptyOrAppend
  <2>2. Through(<<>>, g) = <<>> /\ <<>> \in Seq(B)
    BY ThroughNothing
  <2> QED BY <2>1, <2>2
<1>2. CASE A # {}
  <2>1. PICK x \in A : TRUE
    BY <1>2
  <2> QED BY <2>1, ThroughAppend
<1> QED BY <1>1, <1>2

-----------------------------------------------------------------------------
(* The text of a step: reading it, character by character.                 *)

\* What the characters of a text stand for, and what may be read.
Text == Seq(Chars \cup {newline})
Kinds == {"static", "dynamic", "special"}
Arg == [kind : Kinds, text : Text]
Modes == {"default", "quotes", "dynamic", "special", "escape"}

Reading ==
  [state : SUBSET Modes, lastState : SUBSET Modes, stepValue : Text, argText : Text, args : Seq(Arg),
   reserved : BOOLEAN]

LEMMA ReadingFields ==
  ASSUME NEW r \in Reading
  PROVE  /\ r = [state |-> r.state, lastState |-> r.lastState, stepValue |-> r.stepValue,
                 argText |-> r.argText, args |-> r.args, reserved |-> r.reserved]
         /\ r.state \in SUBSET Modes /\ r.lastState \in SUBSET Modes /\ r.stepValue \in Text
         /\ r.argText \in Text /\ r.args \in Seq(Arg) /\ r.reserved \in BOOLEAN
BY DEF Reading

LEMMA NothingRead == Nothing \in Reading
<1>1. <<>> \in Text /\ <<>> \in Seq(Arg)
  BY DEF Text
<1>2. {"default"} \in SUBSET Modes /\ {} \in SUBSET Modes
  BY DEF Modes
<1> QED BY <1>1, <1>2 DEF Nothing, Reading

\* A character that is written goes to the parameter that is open, or to the value.
LEMMA WriteRuneDoes ==
  ASSUME NEW r \in Reading, NEW char \in Chars \cup {newline}
  PROVE  /\ WriteRune(r, char) \in Reading
         /\ WriteRune(r, char).state = r.state /\ WriteRune(r, char).lastState = r.lastState
         /\ WriteRune(r, char).args = r.args /\ WriteRune(r, char).reserved = r.reserved
         /\ r.state \cap {"quotes", "dynamic"} # {} =>
              /\ WriteRune(r, char).argText = Append(r.argText, char)
              /\ WriteRune(r, char).stepValue = r.stepValue
         /\ r.state \cap {"quotes", "dynamic"} = {} =>
              /\ WriteRune(r, char).stepValue = Append(r.stepValue, char)
              /\ WriteRune(r, char).argText = r.argText
<1> DEFINE longer == Append(r.argText, char)
           value == Append(r.stepValue, char)
<1>1. longer \in Text /\ value \in Text
  BY ReadingFields, AppendProperties DEF Text
<1>2. CASE r.state \cap {"quotes", "dynamic"} # {}
  <2>1. WriteRune(r, char) = [r EXCEPT !.argText = longer]
    BY <1>2 DEF WriteRune
  <2> HIDE DEF longer
  <2> QED BY <1>1, <1>2, <2>1 DEF Reading, longer
<1>3. CASE r.state \cap {"quotes", "dynamic"} = {}
  <2>1. WriteRune(r, char) = [r EXCEPT !.stepValue = value]
    BY <1>3 DEF WriteRune
  <2> HIDE DEF value
  <2> QED BY <1>1, <1>3, <2>1 DEF Reading, value
<1> QED BY <1>2, <1>3

\* What a parameter leaves in the value.
LeftBrace == "{"
RightBrace == "}"

LEMMA BracesAre ==
  /\ LeftBrace \in Chars /\ RightBrace \in Chars /\ LeftBrace # RightBrace
  /\ {LeftBrace, RightBrace} \cap {quotes, escape, newline, "<", ">", ":", "n"} = {}
BY Zenon DEF LeftBrace, RightBrace, Chars, quotes, escape, newline

Braces == <<LeftBrace, RightBrace>>

LEMMA BracesAsText == Braces = <<"{", "}">>
BY Zenon DEF Braces, LeftBrace, RightBrace

LEMMA BracesIs ==
  Braces \in Seq(Chars) /\ Len(Braces) = 2 /\ Braces[1] = LeftBrace /\ Braces[2] = RightBrace
<1>1. LeftBrace \in Chars /\ RightBrace \in Chars
  BY BracesAre
<1> QED BY <1>1 DEF Braces

LEMMA EndParamDoes ==
  ASSUME NEW r \in Reading, NEW kind \in Kinds
  PROVE  /\ EndParam(r, kind) \in Reading
         /\ EndParam(r, kind).state = {"default"} /\ EndParam(r, kind).lastState = r.lastState
         /\ EndParam(r, kind).stepValue = r.stepValue \o Braces
         /\ EndParam(r, kind).argText = <<>> /\ EndParam(r, kind).reserved = r.reserved
         /\ EndParam(r, kind).args = Append(r.args, [kind |-> kind, text |-> r.argText])
<1> DEFINE value == r.stepValue \o Braces
           arg == [kind |-> kind, text |-> r.argText]
           more == Append(r.args, arg)
<1>1. Braces \in Text
  BY BracesIs, SeqMonotonic DEF Text
<1>2. value \in Text
  BY <1>1, ReadingFields, ConcatProperties DEF Text
<1>3. arg \in Arg
  BY ReadingFields DEF Arg
<1>4. more \in Seq(Arg)
  BY <1>3, ReadingFields, AppendProperties
<1>5. <<>> \in Text /\ {"default"} \in SUBSET Modes
  BY DEF Text, Modes
<1>6. EndParam(r, kind) = [r EXCEPT !.state = {"default"}, !.stepValue = value, !.argText = <<>>, !.args = more]
  BY BracesAsText DEF EndParam, Reading
<1> HIDE DEF value, more
<1> QED BY <1>2, <1>4, <1>5, <1>6 DEF Reading, value, more

LEMMA MarkedDoes ==
  ASSUME NEW r \in Reading, NEW char
  PROVE  /\ Marked(r, char) \in Reading
         /\ Marked(r, char).state = r.state \cup (IF char = ":" THEN {"special"} ELSE {})
         /\ Marked(r, char).lastState = r.lastState /\ Marked(r, char).stepValue = r.stepValue
         /\ Marked(r, char).argText = r.argText /\ Marked(r, char).args = r.args
         /\ Marked(r, char).reserved = r.reserved
<1> DEFINE wider == r.state \cup {"special"}
<1>1. wider \in SUBSET Modes
  BY ReadingFields DEF Modes
<1>2. CASE char = ":"
  <2>1. Marked(r, char) = [r EXCEPT !.state = wider]
    BY <1>2 DEF Marked
  <2> HIDE DEF wider
  <2> QED BY <1>1, <1>2, <2>1 DEF Reading, wider
<1>3. CASE char # ":"
  BY <1>3 DEF Marked
<1> QED BY <1>2, <1>3

\* Which of the states an unescaped character is read in.
LEMMA ElementUnescaped ==
  ASSUME NEW r \in Reading, ~r.reserved, r.state # {"escape"}, NEW char \in Chars, char # escape
  PROVE  Element(r, char) = AcceptParam(Marked(r, char), char)
BY DEF Element

\* Outside of parameters.
LEMMA ElementPlain ==
  ASSUME NEW r \in Reading, ~r.reserved, r.state \in {{"default"}, {"default", "special"}},
         NEW char \in {"n", ">", ":"}
  PROVE  /\ Element(r, char) \in Reading /\ ~Element(r, char).reserved
         /\ Element(r, char).state = r.state \cup (IF char = ":" THEN {"special"} ELSE {})
         /\ Element(r, char).stepValue = Append(r.stepValue, char)
         /\ Element(r, char).argText = r.argText /\ Element(r, char).args = r.args
<1> DEFINE m == Marked(r, char)
<1>1. /\ m \in Reading /\ m.state = r.state \cup (IF char = ":" THEN {"special"} ELSE {})
      /\ m.stepValue = r.stepValue /\ m.argText = r.argText /\ m.args = r.args /\ m.reserved = r.reserved
  BY MarkedDoes
<1>2. char \in Chars /\ char # escape /\ char # quotes /\ char \notin {"<", "{", "}"}
  BY DEF Chars, escape, quotes
<1>3. r.state # {"escape"}
  OBVIOUS
<1>4. Element(r, char) = AcceptParam(m, char)
  BY <1>2, <1>3, ElementUnescaped
<1> HIDE DEF m
<1>5. m.state \cap {"quotes", "dynamic"} = {} /\ "dynamic" \notin m.state
  BY <1>1
<1>6. AcceptParam(m, char) = WriteRune(m, char)
  BY <1>2, <1>5 DEF AcceptParam
<1>7. /\ WriteRune(m, char) \in Reading /\ WriteRune(m, char).state = m.state
      /\ WriteRune(m, char).args = m.args /\ WriteRune(m, char).reserved = m.reserved
      /\ WriteRune(m, char).stepValue = Append(m.stepValue, char) /\ WriteRune(m, char).argText = m.argText
  BY <1>1, <1>2, <1>5, WriteRuneDoes
<1> QED BY <1>1, <1>4, <1>6, <1>7

\* The character that begins a parameter, and the state it leads to.
Opening(mode) == IF mode = "quotes" THEN quotes ELSE "<"
Closing(mode) == IF mode = "quotes" THEN quotes ELSE ">"
KindOf(mode, marked) == IF mode = "quotes" THEN "static" ELSE IF marked THEN "special" ELSE "dynamic"
Inside(mode, marked) == {mode} \cup (IF marked THEN {"special"} ELSE {})

LEMMA ElementOpens ==
  ASSUME NEW r \in Reading, ~r.reserved, r.state = {"default"}, NEW mode \in {"quotes", "dynamic"}
  PROVE  /\ Element(r, Opening(mode)) \in Reading /\ ~Element(r, Opening(mode)).reserved
         /\ Element(r, Opening(mode)).state = {mode} /\ Element(r, Opening(mode)).stepValue = r.stepValue
         /\ Element(r, Opening(mode)).argText = r.argText /\ Element(r, Opening(mode)).args = r.args
<1> DEFINE char == Opening(mode)
<1>1. char \in Chars /\ char # escape /\ char # ":" /\ char = (IF mode = "quotes" THEN quotes ELSE "<")
  BY DEF Opening, Chars, escape, quotes
<1>2. Marked(r, char) = r
  BY <1>1 DEF Marked
<1>3. r.state # {"escape"}
  OBVIOUS
<1>4. Element(r, char) = AcceptParam(r, char)
  BY <1>1, <1>2, <1>3, ElementUnescaped
<1>5. AcceptParam(r, char) = [r EXCEPT !.state = {mode}]
  <2>1. CASE mode = "quotes"
    <3>1. char = quotes /\ char # "<" /\ char # ">"
      BY <1>1, <2>1 DEF quotes
    <3>2. "dynamic" \notin r.state /\ "quotes" \notin r.state /\ char \notin {"{", "}"}
      BY <3>1 DEF quotes
    <3> HIDE DEF char
    <3>3. AcceptParam(r, char) = [r EXCEPT !.state = {"quotes"}]
      BY <3>1, <3>2 DEF AcceptParam
    <3> QED BY <2>1, <3>3
  <2>2. CASE mode = "dynamic"
    <3>1. char = "<"
      BY <1>1, <2>2
    <3>2. "<" # quotes
      BY DEF quotes
    <3> HIDE DEF char
    <3> QED BY <2>2, <3>1, <3>2 DEF AcceptParam
  <2> QED BY <2>1, <2>2
<1>6. {mode} \in SUBSET Modes
  BY DEF Modes
<1> HIDE DEF char
<1>7. Element(r, char) \in Reading /\ Element(r, char).state = {mode} /\ Element(r, char).reserved = r.reserved
        /\ Element(r, char).stepValue = r.stepValue /\ Element(r, char).argText = r.argText
        /\ Element(r, char).args = r.args
  BY <1>4, <1>5, <1>6 DEF Reading
<1> QED BY <1>7 DEF char

LEMMA ElementCloses ==
  ASSUME NEW r \in Reading, ~r.reserved, NEW mode \in {"quotes", "dynamic"}, NEW marked \in BOOLEAN,
         r.state = Inside(mode, marked)
  PROVE  /\ Element(r, Closing(mode)) \in Reading /\ ~Element(r, Closing(mode)).reserved
         /\ Element(r, Closing(mode)).state = {"default"}
         /\ Element(r, Closing(mode)).stepValue = r.stepValue \o Braces
         /\ Element(r, Closing(mode)).argText = <<>>
         /\ Element(r, Closing(mode)).args = Append(r.args, [kind |-> KindOf(mode, marked), text |-> r.argText])
<1> DEFINE char == Closing(mode)
           kind == KindOf(mode, marked)
<1>1. char \in Chars /\ char # escape /\ char # ":" /\ char = (IF mode = "quotes" THEN quotes ELSE ">")
  BY DEF Closing, Chars, escape, quotes
<1>2. Marked(r, char) = r
  BY <1>1 DEF Marked
<1>3. mode \in r.state /\ r.state # {"escape"} /\ r.state # {"default"} /\ ("special" \in r.state <=> marked)
        /\ (mode = "quotes" => "dynamic" \notin r.state)
  BY DEF Inside
<1>4. Element(r, char) = AcceptParam(r, char)
  BY <1>1, <1>2, <1>3, ElementUnescaped
<1>5. AcceptParam(r, char) = EndParam(r, kind)
  <2>1. CASE mode = "quotes"
    <3>1. char = quotes /\ char # "<" /\ char # ">" /\ kind = "static"
      BY <1>1, <2>1 DEF quotes, KindOf
    <3> HIDE DEF char, kind
    <3> QED BY <1>3, <2>1, <3>1 DEF AcceptParam
  <2>2. CASE mode = "dynamic"
    <3>1. char = ">" /\ kind = IF "special" \in r.state THEN "special" ELSE "dynamic"
      BY <1>1, <1>3, <2>2 DEF KindOf
    <3>2. ">" # quotes /\ ">" # "<"
      BY DEF quotes
    <3> HIDE DEF char, kind
    <3> QED BY <1>3, <2>2, <3>1, <3>2 DEF AcceptParam
  <2> QED BY <2>1, <2>2
<1>6. kind \in Kinds
  BY DEF KindOf, Kinds
<1>7. /\ EndParam(r, kind) \in Reading /\ EndParam(r, kind).state = {"default"}
      /\ EndParam(r, kind).stepValue = r.stepValue \o Braces
      /\ EndParam(r, kind).argText = <<>> /\ EndParam(r, kind).reserved = r.reserved
      /\ EndParam(r, kind).args = Append(r.args, [kind |-> kind, text |-> r.argText])
  BY <1>6, EndParamDoes
<1> HIDE DEF char, kind
<1>8. /\ Element(r, char) \in Reading /\ Element(r, char).state = {"default"} /\ ~Element(r, char).reserved
      /\ Element(r, char).stepValue = r.stepValue \o Braces /\ Element(r, char).argText = <<>>
      /\ Element(r, char).args = Append(r.args, [kind |-> kind, text |-> r.argText])
  BY <1>4, <1>5, <1>7
<1> QED BY <1>8 DEF char, kind

\* Inside a parameter, a character that stands for itself.
LEMMA ElementRaw ==
  ASSUME NEW r \in Reading, ~r.reserved, NEW mode \in {"quotes", "dynamic"}, NEW marked \in BOOLEAN,
         r.state = Inside(mode, marked), NEW char \in Chars \ {quotes, escape},
         mode = "dynamic" => char # ">"
  PROVE  /\ Element(r, char) \in Reading /\ ~Element(r, char).reserved
         /\ Element(r, char).state = Inside(mode, marked \/ char = ":")
         /\ Element(r, char).stepValue = r.stepValue /\ Element(r, char).args = r.args
         /\ Element(r, char).argText = Append(r.argText, char)
<1> DEFINE m == Marked(r, char)
<1>1. /\ m \in Reading /\ m.state = r.state \cup (IF char = ":" THEN {"special"} ELSE {})
      /\ m.stepValue = r.stepValue /\ m.argText = r.argText /\ m.args = r.args /\ m.reserved = r.reserved
  BY MarkedDoes
<1>2. mode \in r.state /\ r.state # {"escape"} /\ (mode = "quotes" => "dynamic" \notin r.state)
  BY DEF Inside
<1>3. Element(r, char) = AcceptParam(m, char)
  BY <1>2, ElementUnescaped
<1>4. m.state = Inside(mode, marked \/ char = ":")
  BY <1>1 DEF Inside
<1>5. mode \in m.state /\ m.state # {"default"} /\ (mode = "quotes" => "dynamic" \notin m.state)
        /\ m.state \cap {"quotes", "dynamic"} # {}
  BY <1>1, <1>2
<1> HIDE DEF m
<1>6. AcceptParam(m, char) = WriteRune(m, char)
  BY <1>5 DEF AcceptParam
<1>7. /\ WriteRune(m, char) \in Reading /\ WriteRune(m, char).state = m.state
      /\ WriteRune(m, char).args = m.args /\ WriteRune(m, char).reserved = m.reserved
      /\ WriteRune(m, char).stepValue = m.stepValue /\ WriteRune(m, char).argText = Append(m.argText, char)
  BY <1>1, <1>5, WriteRuneDoes
<1> QED BY <1>1, <1>3, <1>4, <1>6, <1>7

\* Anywhere, the backslash; and what is written of the character after it.
LEMMA ElementEscape ==
  ASSUME NEW r \in Reading, ~r.reserved, r.state # {"escape"}
  PROVE  /\ Element(r, escape) \in Reading /\ ~Element(r, escape).reserved
         /\ Element(r, escape).state = {"escape"} /\ Element(r, escape).lastState = r.state
         /\ Element(r, escape).stepValue = r.stepValue /\ Element(r, escape).args = r.args
         /\ Element(r, escape).argText = r.argText
<1>1. Element(r, escape) = [r EXCEPT !.lastState = r.state, !.state = {"escape"}]
  BY DEF Element
<1>2. {"escape"} \in SUBSET Modes /\ r.state \in SUBSET Modes
  BY ReadingFields DEF Modes
<1> QED BY <1>1, <1>2 DEF Reading

LEMMA ElementEscaped ==
  ASSUME NEW r \in Reading, ~r.reserved, r.state = {"escape"}, NEW char \in Chars
  PROVE  \E m \in Reading :
           /\ m.state = r.lastState /\ m.lastState = r.lastState /\ m.stepValue = r.stepValue
           /\ m.argText = r.argText /\ m.args = r.args /\ ~m.reserved
           /\ Unescaped(char) \in Chars \cup {newline} /\ Element(r, char) = WriteRune(m, Unescaped(char))
<1> DEFINE m == [r EXCEPT !.state = r.lastState]
<1>1. Element(r, char) = WriteRune(m, Unescaped(char))
  BY DEF Element
<1>2. Unescaped(char) \in Chars \cup {newline}
  BY DEF Unescaped
<1>3. m \in Reading /\ m.state = r.lastState /\ m.lastState = r.lastState /\ m.stepValue = r.stepValue
        /\ m.argText = r.argText /\ m.args = r.args /\ m.reserved = r.reserved
  BY DEF Reading
<1> HIDE DEF m
<1> QED BY <1>1, <1>2, <1>3

\* Whatever is read, it is a reading.
LEMMA ElementType ==
  ASSUME NEW r \in Reading, NEW char \in Chars
  PROVE  Element(r, char) \in Reading
<1>1. CASE r.reserved
  BY <1>1 DEF Element
<1>2. CASE ~r.reserved /\ r.state = {"escape"}
  BY <1>2, ElementEscaped, WriteRuneDoes
<1>3. CASE ~r.reserved /\ r.state # {"escape"} /\ char = escape
  BY <1>3, ElementEscape
<1>4. CASE ~r.reserved /\ r.state # {"escape"} /\ char # escape
  <2> DEFINE m == Marked(r, char)
  <2>1. Element(r, char) = AcceptParam(m, char)
    BY <1>4, ElementUnescaped
  <2>2. m \in Reading
    BY MarkedDoes
  <2> HIDE DEF m
  <2>3. /\ [m EXCEPT !.state = {"dynamic"}] \in Reading /\ [m EXCEPT !.state = {"quotes"}] \in Reading
        /\ [m EXCEPT !.reserved = TRUE] \in Reading
    BY <2>2 DEF Reading, Modes
  <2>4. \A kind \in Kinds : EndParam(m, kind) \in Reading
    BY <2>2, EndParamDoes
  <2>5. WriteRune(m, char) \in Reading
    BY <2>2, WriteRuneDoes
  <2>6. EndParam(m, IF "special" \in m.state THEN "special" ELSE "dynamic") \in Reading
          /\ EndParam(m, "static") \in Reading
    BY <2>4 DEF Kinds
  <2>7. AcceptParam(m, char) \in Reading
    BY <2>3, <2>5, <2>6 DEF AcceptParam
  <2> QED BY <2>1, <2>7
<1> QED BY <1>1, <1>2, <1>3, <1>4 DEF Reading

\* What is read of the first characters of a text.
AfterEach(chars, n, f) == f = [k \in 0..n |-> IF k = 0 THEN Nothing ELSE Element(f[k - 1], chars[k])]

LEMMA ReadingExists ==
  ASSUME NEW chars, NEW n \in Nat PROVE \E f : AfterEach(chars, n, f)
<1> DEFINE T == {k \in Nat : ~\E f : AfterEach(chars, k, f)}
<1> SUFFICES ASSUME T # {} PROVE FALSE
  OBVIOUS
<1>1. T \in SUBSET Nat
  OBVIOUS
<1>2. PICK k \in T : \A m \in T : k <= m
  <2> HIDE DEF T
  <2> QED BY <1>1, Smallest
<1>3. CASE k = 0
  <2> DEFINE f == [j \in 0..0 |-> Nothing]
  <2>1. f = [j \in 0..0 |-> IF j = 0 THEN Nothing ELSE Element(f[j - 1], chars[j])]
    OBVIOUS
  <2>2. AfterEach(chars, 0, f)
    BY <2>1 DEF AfterEach
  <2> HIDE DEF f
  <2> QED BY <1>2, <1>3, <2>2
<1>4. CASE k > 0
  <2>1. k \in Nat /\ k - 1 \in Nat /\ ~(k <= k - 1)
    BY <1>4, <1>1, <1>2
  <2>2. PICK g : AfterEach(chars, k - 1, g)
    BY <1>2, <2>1
  <2> DEFINE f == [j \in 0..k |-> IF j = k THEN Element(g[k - 1], chars[k]) ELSE g[j]]
             h == [j \in 0..k |-> IF j = 0 THEN Nothing ELSE Element(f[j - 1], chars[j])]
  <2>3. \A j \in 0..k : f[j] = IF j = 0 THEN Nothing ELSE Element(f[j - 1], chars[j])
    <3> SUFFICES ASSUME NEW j \in 0..k PROVE f[j] = IF j = 0 THEN Nothing ELSE Element(f[j - 1], chars[j])
      OBVIOUS
    <3>1. CASE j = k
      <4>1. k - 1 \in 0..k /\ k \in 0..k /\ k - 1 # k /\ k # 0
        BY <1>4, <2>1
      <4>2. f[k] = Element(g[k - 1], chars[k])
        BY <4>1
      <4>3. f[k - 1] = g[k - 1]
        BY <4>1
      <4> HIDE DEF f
      <4> QED BY <3>1, <4>1, <4>2, <4>3
    <3>2. CASE j # k
      <4>1. j \in 0..(k - 1) /\ f[j] = g[j]
        BY <2>1, <3>2
      <4>2. g[j] = IF j = 0 THEN Nothing ELSE Element(g[j - 1], chars[j])
        BY <2>2, <4>1 DEF AfterEach
      <4>3. j # 0 => f[j - 1] = g[j - 1]
        BY <2>1, <3>2
      <4> HIDE DEF f
      <4> QED BY <4>1, <4>2, <4>3
    <3> QED BY <3>1, <3>2
  <2>4. f = [j \in 0..k |-> f[j]]
    OBVIOUS
  <2> HIDE DEF f
  <2>5. f = h
    BY <2>3, <2>4
  <2>6. AfterEach(chars, k, f)
    BY <2>5 DEF AfterEach
  <2> QED BY <1>2, <2>6
<1> QED BY <1>1, <1>2, <1>3, <1>4

\* What is read of a text depends only on its characters so far.
Agree(s, t, m) == \A i \in 1..m : s[i] = t[i]

LEMMA SameReading ==
  ASSUME NEW s, NEW t, NEW m \in Nat, NEW n \in Nat, m <= n, NEW f, AfterEach(s, m, f), NEW g, AfterEach(t, n, g),
         Agree(s, t, m)
  PROVE  f[m] = g[m]
<1> DEFINE T == {k \in 0..m : f[k] # g[k]}
<1> SUFFICES ASSUME T # {} PROVE FALSE
  <2> m \in 0..m
    OBVIOUS
  <2> QED OBVIOUS
<1>1. T \in SUBSET Nat
  OBVIOUS
<1>2. PICK k \in T : \A j \in T : k <= j
  <2> HIDE DEF T
  <2> QED BY <1>1, Smallest
<1>3. k \in 0..m /\ k \in 0..n /\ f[k] # g[k]
  OBVIOUS
<1>4. f[k] = (IF k = 0 THEN Nothing ELSE Element(f[k - 1], s[k]))
  BY <1>3 DEF AfterEach
<1>5. g[k] = (IF k = 0 THEN Nothing ELSE Element(g[k - 1], t[k]))
  BY <1>3 DEF AfterEach
<1>6. CASE k = 0
  BY <1>3, <1>4, <1>5, <1>6
<1>7. CASE k # 0
  <2>1. k - 1 \in 0..m /\ ~(k <= k - 1) /\ k \in 1..m
    BY <1>3, <1>7
  <2>2. f[k - 1] = g[k - 1]
    BY <1>2, <2>1
  <2>3. s[k] = t[k]
    BY <2>1 DEF Agree
  <2> QED BY <1>3, <1>4, <1>5, <1>7, <2>2, <2>3
<1> QED BY <1>6, <1>7

\* The function that processStepText computes.
LEMMA ProcessIs ==
  ASSUME NEW chars, Len(chars) \in Nat
  PROVE  \E f : AfterEach(chars, Len(chars), f) /\ processStepText(chars) = f[Len(chars)]
<1> DEFINE n == Len(chars)
           Is(f) == f = [k \in 0..n |-> IF k = 0 THEN Nothing ELSE Element(f[k - 1], chars[k])]
           after == CHOOSE f : Is(f)
<1>1. PICK g : AfterEach(chars, n, g)
  <2> HIDE DEF n
  <2> QED BY ReadingExists DEF n
<1>2. Is(g)
  BY <1>1 DEF AfterEach
<1>3. Is(after)
  BY <1>2
<1>4. AfterEach(chars, n, after)
  BY <1>3 DEF AfterEach
<1>5. processStepText(chars) = after[n]
  BY DEF processStepText
<1> HIDE DEF after
<1> QED BY <1>4, <1>5

LEMMA ProcessNothing == processStepText(<<>>) = Nothing
<1> DEFINE e == <<>>
<1>1. Len(e) = 0
  OBVIOUS
<1> HIDE DEF e
<1>2. PICK f : AfterEach(e, 0, f) /\ processStepText(e) = f[0]
  BY <1>1, ProcessIs
<1>3. f[0] = Nothing
  BY <1>2 DEF AfterEach
<1> QED BY <1>2, <1>3 DEF e

LEMMA ProcessAppend ==
  ASSUME NEW s \in Seq(Chars), NEW char \in Chars
  PROVE  processStepText(Append(s, char)) = Element(processStepText(s), char)
<1> DEFINE t == Append(s, char)
           n == Len(s)
<1>1. t \in Seq(Chars) /\ Len(t) = n + 1 /\ n \in Nat /\ (\A i \in 1..n : t[i] = s[i]) /\ t[n + 1] = char
  BY AppendProperties
<1> HIDE DEF t, n
<1>2. PICK f : AfterEach(s, n, f) /\ processStepText(s) = f[n]
  BY <1>1, ProcessIs DEF n
<1>3. PICK g : AfterEach(t, n + 1, g) /\ processStepText(t) = g[n + 1]
  <2>1. Len(t) \in Nat
    BY <1>1
  <2>2. PICK g : AfterEach(t, Len(t), g) /\ processStepText(t) = g[Len(t)]
    BY <2>1, ProcessIs
  <2> QED BY <1>1, <2>2
<1>4. f[n] = g[n]
  <2>1. n + 1 \in Nat /\ n <= n + 1 /\ n \in Nat /\ \A i \in 1..n : s[i] = t[i]
    BY <1>1
  <2> DEFINE k == n + 1
  <2>2. AfterEach(s, n, f) /\ AfterEach(t, k, g)
    BY <1>2, <1>3
  <2>3. k \in Nat /\ n <= k /\ n \in Nat /\ Agree(s, t, n)
    BY <2>1 DEF Agree
  <2> HIDE DEF k
  <2> QED BY ONLY <2>2, <2>3, SameReading
<1>5. g[n + 1] = Element(g[n], t[n + 1])
  BY <1>1, <1>3 DEF AfterEach
<1> QED BY <1>1, <1>2, <1>3, <1>4, <1>5 DEF t

LEMMA ProcessType ==
  ASSUME NEW s \in Seq(Chars) PROVE processStepText(s) \in Reading
<1> DEFINE G == {t \in Seq(Chars) : processStepText(t) \in Reading}
<1>1. <<>> \in G
  BY ProcessNothing, NothingRead
<1>2. \A t \in Seq(Chars) : \A x \in Chars : t \in G => Append(t, x) \in G
  <2> SUFFICES ASSUME NEW t \in Seq(Chars), NEW x \in Chars, t \in G PROVE Append(t, x) \in G
    OBVIOUS
  <2>1. Append(t, x) \in Seq(Chars) /\ processStepText(Append(t, x)) = Element(processStepText(t), x)
    BY AppendProperties, ProcessAppend
  <2>2. Element(processStepText(t), x) \in Reading
    BY ElementType
  <2> QED BY <2>1, <2>2
<1> HIDE DEF G
<1>3. Seq(Chars) \subseteq G
  BY <1>1, <1>2, SequencesByAppending
<1> QED BY <1>3 DEF G

\* Texts that are read after another.
LEMMA AppendAfter ==
  ASSUME NEW S, NEW o \in Seq(S), NEW c \in Seq(S), NEW x \in S
  PROVE  /\ o \o c \in Seq(S)
         /\ o \o Append(c, x) = Append(o \o c, x)
<1>1. Append(c, x) = c \o <<x>> /\ <<x>> \in Seq(S)
  BY AppendIsConcat
<1> DEFINE e == <<x>>
           oc == o \o c
<1>2. oc \in Seq(S) /\ Append(oc, x) = oc \o e
  BY ConcatProperties, AppendIsConcat
<1>3. e \in Seq(S) /\ Append(c, x) = c \o e
  BY <1>1
<1> HIDE DEF e
<1>4. o \o (c \o e) = (o \o c) \o e
  BY <1>3, ConcatAssociative
<1> QED BY <1>2, <1>3, <1>4

\* Characters that are read and written as they are, outside of parameters.
Plain == {"n", ">", ":"}

ReadsPlain(o, c) ==
  LET p == processStepText(o)
      q == processStepText(o \o c)
  IN  /\ q \in Reading /\ ~q.reserved
      /\ q.state \in {{"default"}, {"default", "special"}}
      /\ ":" \notin ToSet(c) => q.state = p.state
      /\ q.stepValue = p.stepValue \o c /\ q.argText = p.argText /\ q.args = p.args

LEMMA PlainRead ==
  ASSUME NEW o \in Seq(Chars), NEW c \in Seq(Plain), ~processStepText(o).reserved,
         processStepText(o).state \in {{"default"}, {"default", "special"}}
  PROVE  ReadsPlain(o, c)
<1> DEFINE p == processStepText(o)
           G == {t \in Seq(Plain) : ReadsPlain(o, t)}
<1>1. p \in Reading /\ p.stepValue \in Text
  BY ProcessType, ReadingFields
<1>2. <<>> \in G
  <2> DEFINE e == <<>>
  <2>1. o \o e = o /\ p.stepValue \o e = p.stepValue /\ e \in Seq(Plain)
    BY <1>1, ConcatEmptySeq DEF Text
  <2>2. ":" \notin ToSet(e) => p.state = p.state
    OBVIOUS
  <2> HIDE DEF e
  <2>3. ReadsPlain(o, e)
    BY <1>1, <2>1 DEF ReadsPlain
  <2> QED BY <2>1, <2>3 DEF e
<1>3. \A t \in Seq(Plain) : \A x \in Plain : t \in G => Append(t, x) \in G
  <2> SUFFICES ASSUME NEW t \in Seq(Plain), NEW x \in Plain, t \in G PROVE Append(t, x) \in G
    OBVIOUS
  <2> DEFINE q == processStepText(o \o t)
             w == processStepText(o \o Append(t, x))
  <2>1. Plain \subseteq Chars /\ Plain \subseteq Chars \cup {newline}
    BY DEF Plain, Chars
  <2>2. t \in Seq(Chars) /\ t \in Text /\ x \in Chars /\ x \in Chars \cup {newline} /\ x \in {"n", ">", ":"}
    BY <2>1, SeqMonotonic DEF Plain, Text
  <2>3. o \o t \in Seq(Chars) /\ o \o Append(t, x) = Append(o \o t, x)
    BY <2>2, AppendAfter
  <2>4. w = Element(q, x)
    BY <2>2, <2>3, ProcessAppend
  <2>5. /\ q \in Reading /\ ~q.reserved
        /\ q.state \in {{"default"}, {"default", "special"}}
        /\ ":" \notin ToSet(t) => q.state = p.state
        /\ q.stepValue = p.stepValue \o t /\ q.argText = p.argText /\ q.args = p.args
    BY DEF ReadsPlain
  <2> HIDE DEF q, w, p
  <2>6. /\ Element(q, x) \in Reading /\ ~Element(q, x).reserved
        /\ Element(q, x).state = q.state \cup (IF x = ":" THEN {"special"} ELSE {})
        /\ Element(q, x).stepValue = Append(q.stepValue, x)
        /\ Element(q, x).argText = q.argText /\ Element(q, x).args = q.args
    BY <2>2, <2>5, ElementPlain
  <2>7. Append(q.stepValue, x) = p.stepValue \o Append(t, x)
    <3> DEFINE value == p.stepValue
    <3>1. value \in Seq(Chars \cup {newline}) /\ t \in Seq(Chars \cup {newline})
      BY <1>1, <2>2 DEF Text
    <3> HIDE DEF value
    <3>2. value \o Append(t, x) = Append(value \o t, x)
      BY <2>2, <3>1, AppendAfter
    <3> QED BY <2>5, <3>2 DEF value
  <2>8. ToSet(Append(t, x)) = ToSet(t) \cup {x} /\ Append(t, x) \in Seq(Plain)
    <3>1. /\ Append(t, x) \in Seq(Plain) /\ Len(Append(t, x)) = Len(t) + 1 /\ Append(t, x)[Len(t) + 1] = x
          /\ \A i \in 1..Len(t) : Append(t, x)[i] = t[i]
      BY AppendProperties
    <3>2. DOMAIN Append(t, x) = 1..(Len(t) + 1) /\ DOMAIN t = 1..Len(t) /\ Len(t) \in Nat
      BY <3>1
    <3> QED BY <3>1, <3>2 DEF ToSet
  <2>9. /\ w.state \in {{"default"}, {"default", "special"}}
        /\ ":" \notin ToSet(Append(t, x)) => w.state = p.state
    <3>1. CASE x = ":"
      BY <2>4, <2>5, <2>6, <2>8, <3>1
    <3>2. CASE x # ":"
      <4>1. Element(q, x).state = q.state
        BY <2>6, <3>2
      <4> QED BY <2>4, <2>5, <4>1, <2>8
    <3> QED BY <3>1, <3>2
  <2>10. ReadsPlain(o, Append(t, x))
    BY <2>4, <2>5, <2>6, <2>7, <2>9 DEF ReadsPlain, w, p
  <2> QED BY <2>8, <2>10
<1> HIDE DEF G
<1>4. Seq(Plain) \subseteq G
  BY <1>2, <1>3, SequencesByAppending
<1> QED BY <1>4 DEF G

\* What UnescapedString makes of each character of a text.
Letters == Chars \cup {newline}

Escaped ==
  [x \in Letters |->
    IF x \in {quotes, escape} THEN <<escape, x>> ELSE IF x = newline THEN <<escape, "n">> ELSE <<x>>]

LEMMA EscapedMakes == Makes(Escaped, Letters, Chars)
<1> SUFFICES ASSUME NEW x \in Letters PROVE Escaped[x] \in Seq(Chars)
  BY DEF Makes, Escaped
<1>1. escape \in Chars /\ "n" \in Chars
  BY DEF Chars
<1>2. CASE x \in {quotes, escape}
  <2>1. Escaped[x] = <<escape, x>> /\ x \in Chars
    BY <1>2 DEF Escaped, Chars
  <2> QED BY <1>1, <2>1
<1>3. CASE x \notin {quotes, escape} /\ x = newline
  <2>1. Escaped[x] = <<escape, "n">>
    BY <1>3 DEF Escaped
  <2> QED BY <1>1, <2>1
<1>4. CASE x \notin {quotes, escape} /\ x # newline
  <2>1. Escaped[x] = <<x>> /\ x \in Chars
    BY <1>4 DEF Escaped, Letters
  <2> QED BY <2>1
<1> QED BY <1>2, <1>3, <1>4

LEMMA UnescapedIsThrough ==
  ASSUME NEW chars \in Text PROVE UnescapedString(chars) = Through(chars, Escaped)
<1> DEFINE each(i) == CASE chars[i] \in {quotes, escape} -> <<escape, chars[i]>>
                        [] chars[i] = newline -> <<escape, "n">>
                        [] OTHER -> <<chars[i]>>
<1>1. newline \notin {quotes, escape}
  BY DEF newline, quotes, escape
<1>2. \A i \in DOMAIN chars : chars[i] \in Letters
  BY DEF Text, Letters
<1>3. \A i \in DOMAIN chars : each(i) = Escaped[chars[i]]
  <2> SUFFICES ASSUME NEW i \in DOMAIN chars PROVE each(i) = Escaped[chars[i]]
    OBVIOUS
  <2> DEFINE x == chars[i]
  <2>1. x \in Letters
    BY <1>2
  <2> HIDE DEF x
  <2>2. Escaped[x] = IF x \in {quotes, escape} THEN <<escape, x>> ELSE IF x = newline THEN <<escape, "n">> ELSE <<x>>
    BY <2>1 DEF Escaped
  <2>3. CASE x \in {quotes, escape}
    <3>1. each(i) = <<escape, x>>
      BY <1>1, <2>3 DEF x
    <3> QED BY <2>2, <2>3, <3>1 DEF x
  <2>4. CASE x = newline
    <3>1. each(i) = <<escape, "n">>
      BY <1>1, <2>4 DEF x
    <3> QED BY <1>1, <2>2, <2>4, <3>1 DEF x
  <2>5. CASE x \notin {quotes, escape} /\ x # newline
    <3>1. each(i) = <<x>>
      BY <2>5 DEF x
    <3> QED BY <2>2, <2>5, <3>1 DEF x
  <2> QED BY <2>3, <2>4, <2>5
<1>4. UnescapedString(chars) = FlattenSeq([i \in DOMAIN chars |-> each(i)])
  BY DEF UnescapedString
<1> HIDE DEF each
<1>5. [i \in DOMAIN chars |-> each(i)] = [i \in DOMAIN chars |-> Escaped[chars[i]]]
  BY <1>3
<1> QED BY <1>4, <1>5 DEF Through

LEMMA UnescapedAppend ==
  ASSUME NEW u \in Text, NEW x \in Letters
  PROVE  /\ UnescapedString(u) \in Seq(Chars) /\ Escaped[x] \in Seq(Chars)
         /\ Append(u, x) \in Text
         /\ UnescapedString(Append(u, x)) = UnescapedString(u) \o Escaped[x]
<1>1. u \in Seq(Letters)
  BY DEF Text, Letters
<1>2. Append(u, x) \in Seq(Letters)
  BY <1>1, AppendProperties
<1>3. Append(u, x) \in Text
  BY <1>2 DEF Text, Letters
<1>4. UnescapedString(u) = Through(u, Escaped) /\ UnescapedString(Append(u, x)) = Through(Append(u, x), Escaped)
  BY <1>3, UnescapedIsThrough
<1>5. /\ Through(u, Escaped) \in Seq(Chars)
      /\ Through(Append(u, x), Escaped) = Through(u, Escaped) \o Escaped[x]
  BY <1>1, EscapedMakes, ThroughAppend
<1>6. Escaped[x] \in Seq(Chars)
  BY EscapedMakes DEF Makes
<1> QED BY <1>3, <1>4, <1>5, <1>6

LEMMA UnescapedNothing == UnescapedString(<<>>) = <<>>
<1> DEFINE e == <<>>
<1>1. e \in Text
  BY DEF Text
<1> HIDE DEF e
<1>2. UnescapedString(e) = Through(e, Escaped)
  BY <1>1, UnescapedIsThrough
<1> QED BY <1>2, ThroughNothing DEF e

\* What a parameter may consist of, and a reading that has come to its end.
Readable(mode) == IF mode = "dynamic" THEN Letters \ {">"} ELSE Letters

Entered(p, q, mode, u) ==
  /\ q \in Reading /\ ~q.reserved /\ q.state = Inside(mode, ":" \in ToSet(u))
  /\ q.stepValue = p.stepValue /\ q.args = p.args /\ q.argText = u

LEMMA ToSetAppend ==
  ASSUME NEW A, NEW u \in Seq(A), NEW x \in A PROVE ToSet(Append(u, x)) = ToSet(u) \cup {x}
<1>1. /\ Append(u, x) \in Seq(A) /\ Len(Append(u, x)) = Len(u) + 1 /\ Append(u, x)[Len(u) + 1] = x
      /\ \A i \in 1..Len(u) : Append(u, x)[i] = u[i]
  BY AppendProperties
<1>2. DOMAIN Append(u, x) = 1..(Len(u) + 1) /\ DOMAIN u = 1..Len(u) /\ Len(u) \in Nat
  BY <1>1
<1> QED BY <1>1, <1>2 DEF ToSet

LEMMA AppendTwo ==
  ASSUME NEW S, NEW s \in Seq(S), NEW a \in S, NEW b \in S
  PROVE  s \o <<a, b>> = Append(Append(s, a), b)
<1> DEFINE one == <<a>>
           two == <<a, b>>
           more == Append(one, b)
<1>1. one \in Seq(S) /\ Len(one) = 1 /\ one[1] = a
  OBVIOUS
<1>2. two \in Seq(S) /\ Len(two) = 2 /\ two[1] = a /\ two[2] = b
  OBVIOUS
<1>3. s \o one = Append(s, a)
  BY AppendIsConcat
<1> HIDE DEF one, two
<1>4. more \in Seq(S) /\ Len(more) = 2 /\ more[1] = a /\ more[2] = b
  <2>1. /\ more \in Seq(S) /\ Len(more) = Len(one) + 1 /\ more[Len(one) + 1] = b
        /\ \A i \in 1..Len(one) : more[i] = one[i]
    <3>1. one \in Seq(S) /\ b \in S
      BY <1>1
    <3> QED BY ONLY <3>1, AppendProperties, SMTT(30)
  <2> HIDE DEF more
  <2> QED BY <1>1, <2>1
<1>5. more = two
  <2> HIDE DEF more
  <2>1. \A i \in 1..Len(more) : more[i] = two[i]
    BY <1>2, <1>4
  <2> QED BY <1>2, <1>4, <2>1, SeqEqual
<1>6. s \o Append(one, b) = Append(s \o one, b)
  BY ONLY <1>1, s \in Seq(S), b \in S, AppendAfter
<1> QED BY <1>3, <1>5, <1>6 DEF two

LEMMA EscapedRead ==
  ASSUME NEW p, NEW q, NEW mode \in {"quotes", "dynamic"}, NEW u \in Text, Entered(p, q, mode, u),
         NEW char \in Chars, Unescaped(char) # ":"
  PROVE  Entered(p, Element(Element(q, escape), char), mode, Append(u, Unescaped(char)))
<1> DEFINE x == Unescaped(char)
           marked == ":" \in ToSet(u)
           r == Element(q, escape)
           w == Element(r, char)
<1>1. /\ q \in Reading /\ ~q.reserved /\ q.state = Inside(mode, marked)
      /\ q.stepValue = p.stepValue /\ q.args = p.args /\ q.argText = u
  BY DEF Entered
<1>2. q.state # {"escape"} /\ q.state \cap {"quotes", "dynamic"} # {}
  BY <1>1 DEF Inside
<1>3. /\ r \in Reading /\ ~r.reserved /\ r.state = {"escape"} /\ r.lastState = q.state
      /\ r.stepValue = q.stepValue /\ r.args = q.args /\ r.argText = q.argText
  BY <1>1, <1>2, ElementEscape
<1> HIDE DEF r
<1>4. PICK m \in Reading :
        /\ m.state = r.lastState /\ m.lastState = r.lastState /\ m.stepValue = r.stepValue
        /\ m.argText = r.argText /\ m.args = r.args /\ ~m.reserved
        /\ x \in Letters /\ w = WriteRune(m, x)
  BY <1>3, ElementEscaped DEF Letters
<1> HIDE DEF x, w
<1>5. /\ w \in Reading /\ w.state = m.state /\ w.args = m.args /\ w.reserved = m.reserved
      /\ w.argText = Append(m.argText, x) /\ w.stepValue = m.stepValue
  BY <1>2, <1>3, <1>4, WriteRuneDoes DEF Letters
<1>6. ToSet(Append(u, x)) = ToSet(u) \cup {x}
  BY <1>4, ToSetAppend DEF Text, Letters
<1>7. (":" \in ToSet(Append(u, x))) = marked
  BY <1>6 DEF x
<1>8. Entered(p, w, mode, Append(u, x))
  BY <1>1, <1>3, <1>4, <1>5, <1>7 DEF Entered
<1> QED BY <1>8 DEF x, w, r

LEMMA LetterRead ==
  ASSUME NEW s \in Seq(Chars), NEW p, NEW mode \in {"quotes", "dynamic"}, NEW u \in Text,
         Entered(p, processStepText(s), mode, u), NEW x \in Readable(mode)
  PROVE  s \o Escaped[x] \in Seq(Chars) /\ Entered(p, processStepText(s \o Escaped[x]), mode, Append(u, x))
<1> DEFINE q == processStepText(s)
<1>1. x \in Letters /\ (mode = "dynamic" => x # ">")
  BY DEF Readable
<1>2. s \o Escaped[x] \in Seq(Chars)
  <2>1. Escaped[x] \in Seq(Chars)
    BY <1>1, EscapedMakes DEF Makes
  <2> QED BY <2>1, ConcatProperties
<1>3. CASE x \in Chars \ {quotes, escape}
  <2>1. Escaped[x] = <<x>>
    BY <1>1, <1>3 DEF Escaped, Chars, newline
  <2>2. s \o Escaped[x] = Append(s, x)
    BY <1>3, <2>1, AppendIsConcat
  <2>3. processStepText(s \o Escaped[x]) = Element(q, x)
    BY <1>3, <2>2, ProcessAppend
  <2> DEFINE marked == ":" \in ToSet(u)
  <2>4. /\ q \in Reading /\ ~q.reserved /\ q.state = Inside(mode, marked)
        /\ q.stepValue = p.stepValue /\ q.args = p.args /\ q.argText = u
    BY DEF Entered
  <2> HIDE DEF q
  <2>5. marked \in BOOLEAN
    OBVIOUS
  <2> HIDE DEF marked
  <2>6. /\ Element(q, x) \in Reading /\ ~Element(q, x).reserved
        /\ Element(q, x).state = Inside(mode, marked \/ x = ":")
        /\ Element(q, x).stepValue = q.stepValue /\ Element(q, x).args = q.args
        /\ Element(q, x).argText = Append(q.argText, x)
    BY <1>1, <1>3, <2>4, <2>5, ElementRaw
  <2>7. ToSet(Append(u, x)) = ToSet(u) \cup {x}
    BY <1>1, ToSetAppend DEF Text, Letters
  <2>8. (":" \in ToSet(Append(u, x))) = (marked \/ x = ":")
    BY <2>7 DEF marked
  <2>9. Entered(p, Element(q, x), mode, Append(u, x))
    BY <2>4, <2>6, <2>8 DEF Entered
  <2> QED BY <1>2, <2>3, <2>9
<1>4. CASE x \in {quotes, escape, newline}
  <2> DEFINE char == IF x = newline THEN "n" ELSE x
  <2>1. char \in Chars /\ escape \in Chars /\ Unescaped(char) = x /\ x # ":"
    BY <1>4 DEF Chars, Unescaped, quotes, escape, newline
  <2>2. Escaped[x] = <<escape, char>>
    <3>1. newline \notin {quotes, escape}
      BY DEF newline, quotes, escape
    <3> QED BY <1>1, <1>4, <3>1 DEF Escaped
  <2> HIDE DEF char
  <2>3. s \o Escaped[x] = Append(Append(s, escape), char) /\ Append(s, escape) \in Seq(Chars)
    BY <2>1, <2>2, AppendTwo, AppendProperties
  <2>4. processStepText(s \o Escaped[x]) = Element(Element(q, escape), char)
    BY <2>1, <2>3, ProcessAppend
  <2>5. Entered(p, Element(Element(q, escape), char), mode, Append(u, x))
    BY <2>1, EscapedRead
  <2> QED BY <1>2, <2>4, <2>5
<1> QED BY <1>1, <1>3, <1>4 DEF Letters

\* An argument that is read as it is written.
Fits(arg) ==
  /\ arg.kind # "static" => ">" \notin ToSet(arg.text)
  /\ arg.kind = "dynamic" => ":" \notin ToSet(arg.text)
  /\ arg.kind = "special" => ":" \in ToSet(arg.text)

ModeOf(arg) == IF arg.kind = "static" THEN "quotes" ELSE "dynamic"

LEMMA FormattedIs ==
  ASSUME NEW arg \in Arg
  PROVE  /\ formattedArg(arg) = <<Opening(ModeOf(arg))>> \o UnescapedString(arg.text) \o <<Closing(ModeOf(arg))>>
         /\ Opening(ModeOf(arg)) \in Chars /\ Closing(ModeOf(arg)) \in Chars
         /\ UnescapedString(arg.text) \in Seq(Chars) /\ formattedArg(arg) \in Seq(Chars)
<1> DEFINE open == Opening(ModeOf(arg))
           close == Closing(ModeOf(arg))
           middle == UnescapedString(arg.text)
<1>1. open \in Chars /\ close \in Chars
  BY DEF Opening, Closing, Chars
<1>2. formattedArg(arg) = <<open>> \o middle \o <<close>>
  <2>1. CASE arg.kind = "static"
    <3>1. open = quotes /\ close = quotes
      BY <2>1 DEF ModeOf, Opening, Closing
    <3> QED BY <2>1, <3>1 DEF formattedArg
  <2>2. CASE arg.kind # "static"
    <3>1. open = "<" /\ close = ">"
      BY <2>2 DEF ModeOf, Opening, Closing
    <3> QED BY <2>2, <3>1 DEF formattedArg
  <2> QED BY <2>1, <2>2
<1>3. middle \in Seq(Chars)
  <2>1. arg.text \in Text /\ arg.text \in Seq(Letters)
    BY DEF Arg, Text, Letters
  <2>2. middle = Through(arg.text, Escaped)
    BY <2>1, UnescapedIsThrough
  <2>3. Through(arg.text, Escaped) \in Seq(Chars)
    BY <2>1, EscapedMakes, ThroughType
  <2> QED BY <2>2, <2>3
<1> HIDE DEF open, close, middle
<1>4. <<open>> \in Seq(Chars) /\ <<close>> \in Seq(Chars)
  BY <1>1
<1>5. <<open>> \o middle \in Seq(Chars)
  BY <1>3, <1>4, ConcatProperties
<1>6. formattedArg(arg) \in Seq(Chars)
  BY <1>2, <1>4, <1>5, ConcatProperties
<1> QED BY <1>1, <1>2, <1>3, <1>6 DEF open, close, middle

LEMMA MiddleRead ==
  ASSUME NEW s \in Seq(Chars), NEW p, NEW mode \in {"quotes", "dynamic"},
         Entered(p, processStepText(s), mode, <<>>), NEW u \in Seq(Readable(mode))
  PROVE  s \o UnescapedString(u) \in Seq(Chars) /\ Entered(p, processStepText(s \o UnescapedString(u)), mode, u)
<1> DEFINE A == Readable(mode)
           One(t) == s \o UnescapedString(t) \in Seq(Chars) /\ Entered(p, processStepText(s \o UnescapedString(t)), mode, t)
           G == {t \in Seq(A) : One(t)}
<1>1. A \subseteq Letters
  BY DEF Readable
<1>2. <<>> \in G
  <2> DEFINE e == <<>>
  <2>1. UnescapedString(e) = e /\ s \o e = s /\ e \in Seq(A)
    BY UnescapedNothing, ConcatEmptySeq
  <2>2. Entered(p, processStepText(s), mode, e)
    OBVIOUS
  <2> HIDE DEF e, A
  <2>3. One(e)
    BY <2>1, <2>2
  <2> HIDE DEF One
  <2>4. e \in G
    BY <2>1, <2>3
  <2> QED BY <2>4 DEF e
<1>3. \A t \in Seq(A) : \A x \in A : t \in G => Append(t, x) \in G
  <2> SUFFICES ASSUME NEW t \in Seq(A), NEW x \in A, t \in G PROVE Append(t, x) \in G
    OBVIOUS
  <2> DEFINE w == s \o UnescapedString(t)
  <2>1. w \in Seq(Chars) /\ Entered(p, processStepText(w), mode, t)
    OBVIOUS
  <2>2. t \in Text /\ x \in Letters /\ x \in Readable(mode) /\ Append(t, x) \in Seq(A)
    BY <1>1, SeqMonotonic, AppendProperties DEF Text, Letters
  <2>3. /\ UnescapedString(t) \in Seq(Chars) /\ Escaped[x] \in Seq(Chars)
        /\ UnescapedString(Append(t, x)) = UnescapedString(t) \o Escaped[x]
    BY <2>2, UnescapedAppend
  <2>4. s \o UnescapedString(Append(t, x)) = w \o Escaped[x]
    <3> DEFINE a == UnescapedString(t)
               b == Escaped[x]
    <3>1. a \in Seq(Chars) /\ b \in Seq(Chars)
      BY <2>3
    <3> HIDE DEF a, b, w
    <3>2. s \o (a \o b) = (s \o a) \o b
      <4>1. s \in Seq(Chars) /\ a \in Seq(Chars) /\ b \in Seq(Chars)
        BY <3>1
      <4>2. (s \o a) \o b = s \o (a \o b)
        BY ONLY <4>1, ConcatAssociative, SMTT(30)
      <4> QED BY <4>2
    <3> QED BY <2>3, <3>2 DEF a, b, w
  <2> HIDE DEF w, A, G
  <2>5. w \o Escaped[x] \in Seq(Chars) /\ Entered(p, processStepText(w \o Escaped[x]), mode, Append(t, x))
    BY ONLY mode \in {"quotes", "dynamic"}, <2>1, <2>2, LetterRead
  <2>6. One(Append(t, x))
    BY <2>4, <2>5
  <2> HIDE DEF One
  <2> QED BY <2>2, <2>6 DEF G
<1> HIDE DEF G, A
<1>4. Seq(A) \subseteq G
  BY <1>2, <1>3, SequencesByAppending
<1>5. One(u)
  BY <1>4 DEF G, A
<1> QED BY <1>5

Ready(o) ==
  LET p == processStepText(o)
  IN  ~p.reserved /\ p.state = {"default"} /\ p.argText = <<>>

ReadsParameter(o, arg) ==
  LET p == processStepText(o)
      q == processStepText(o \o formattedArg(arg))
  IN  /\ q \in Reading /\ ~q.reserved /\ q.state = {"default"} /\ q.argText = <<>>
      /\ q.stepValue = p.stepValue \o Braces /\ q.args = Append(p.args, arg)

LEMMA ParameterRead ==
  ASSUME NEW o \in Seq(Chars), Ready(o), NEW arg \in Arg, Fits(arg)
  PROVE  o \o formattedArg(arg) \in Seq(Chars) /\ ReadsParameter(o, arg)
<1> DEFINE p == processStepText(o)
           q == processStepText(o \o formattedArg(arg))
<1>0. ~p.reserved /\ p.state = {"default"} /\ p.argText = <<>>
  BY DEF Ready
<1> DEFINE mode == ModeOf(arg)
           open == Opening(mode)
           close == Closing(mode)
           middle == UnescapedString(arg.text)
           s == Append(o, open)
           e == <<>>
<1>1. mode \in {"quotes", "dynamic"} /\ p \in Reading
  BY ProcessType DEF ModeOf
<1>2. /\ formattedArg(arg) = <<open>> \o middle \o <<close>> /\ open \in Chars /\ close \in Chars
      /\ middle \in Seq(Chars) /\ formattedArg(arg) \in Seq(Chars)
  BY FormattedIs
<1> HIDE DEF q
<1>3. s \in Seq(Chars) /\ s = o \o <<open>> /\ processStepText(s) = Element(p, open)
  BY <1>2, AppendProperties, AppendIsConcat, ProcessAppend
<1>4. o \o formattedArg(arg) = Append(s \o middle, close) /\ s \o middle \in Seq(Chars)
  <2> DEFINE a == <<open>>
             c == <<close>>
  <2>1. a \in Seq(Chars) /\ c \in Seq(Chars)
    BY <1>2
  <2> HIDE DEF a, c, middle, s, open, close
  <2>2. a \o middle \in Seq(Chars) /\ o \o a = s
    BY <1>2, <1>3, <2>1, ConcatProperties DEF a
  <2>3. o \o ((a \o middle) \o c) = (o \o (a \o middle)) \o c
    BY <2>1, <2>2, ConcatAssociative
  <2>4. o \o (a \o middle) = (o \o a) \o middle
    BY <1>2, <2>1, ConcatAssociative
  <2>5. s \o middle \in Seq(Chars)
    BY <1>2, <1>3, ConcatProperties
  <2>6. (s \o middle) \o c = Append(s \o middle, close)
    BY <1>2, <2>5, AppendIsConcat DEF c
  <2>7. formattedArg(arg) = (a \o middle) \o c
    BY <1>2 DEF a, c
  <2> QED BY <2>2, <2>3, <2>4, <2>5, <2>6, <2>7
<1>5. Entered(p, processStepText(s), mode, e)
  <2> DEFINE w == Element(p, open)
  <2>1. /\ w \in Reading /\ ~w.reserved /\ w.state = {mode} /\ w.stepValue = p.stepValue
        /\ w.argText = p.argText /\ w.args = p.args
    BY <1>0, <1>1, ElementOpens
  <2>2. Inside(mode, ":" \in ToSet(e)) = {mode}
    BY DEF Inside, ToSet
  <2> HIDE DEF w, mode, open, p
  <2>3. Entered(p, w, mode, e)
    BY <1>0, <2>1, <2>2 DEF Entered
  <2> QED BY <1>3, <2>3 DEF w
<1>6. arg.text \in Seq(Readable(mode))
  <2> DEFINE t == arg.text
  <2>1. t \in Seq(Letters) /\ Len(t) \in Nat /\ DOMAIN t = 1..Len(t)
    BY DEF Arg, Text, Letters
  <2>2. \A i \in 1..Len(t) : t[i] \in Readable(mode)
    <3> SUFFICES ASSUME NEW i \in 1..Len(t) PROVE t[i] \in Readable(mode)
      OBVIOUS
    <3>1. t[i] \in Letters /\ t[i] \in ToSet(t)
      BY <2>1, ElementOfSeq DEF ToSet
    <3>2. mode = "dynamic" => ">" \notin ToSet(t)
      BY DEF Fits, ModeOf
    <3> HIDE DEF t, mode
    <3> QED BY <3>1, <3>2 DEF Readable
  <2> HIDE DEF t, mode
  <2>3. t \in [1..Len(t) -> Readable(mode)]
    BY <2>1, <2>2
  <2>4. t \in Seq(Readable(mode))
    BY <2>1, <2>3, FunctionIsSeq
  <2> QED BY <2>4 DEF t
<1>7. Entered(p, processStepText(s \o middle), mode, arg.text)
  <2> HIDE DEF s, mode
  <2> QED BY <1>1, <1>3, <1>5, <1>6, MiddleRead
<1> DEFINE r == processStepText(s \o middle)
           marked == ":" \in ToSet(arg.text)
<1>8. /\ r \in Reading /\ ~r.reserved /\ r.state = Inside(mode, marked)
      /\ r.stepValue = p.stepValue /\ r.args = p.args /\ r.argText = arg.text
  BY <1>7 DEF Entered
<1>9. q = Element(r, close)
  <2> HIDE DEF s, close, middle
  <2> QED BY <1>2, <1>4, ProcessAppend DEF q
<1>10. [kind |-> KindOf(mode, marked), text |-> arg.text] = arg
  <2>1. arg = [kind |-> arg.kind, text |-> arg.text] /\ arg.kind \in Kinds
    BY DEF Arg
  <2>2. KindOf(mode, marked) = arg.kind
    BY <2>1 DEF KindOf, ModeOf, Fits, Kinds
  <2> QED BY <2>1, <2>2
<1>11. marked \in BOOLEAN
  OBVIOUS
<1> HIDE DEF r, marked, mode, s, middle
<1>12. /\ Element(r, close) \in Reading /\ ~Element(r, close).reserved
       /\ Element(r, close).state = {"default"}
       /\ Element(r, close).stepValue = r.stepValue \o Braces
       /\ Element(r, close).argText = <<>>
       /\ Element(r, close).args = Append(r.args, [kind |-> KindOf(mode, marked), text |-> r.argText])
  BY ONLY <1>1, <1>8, <1>11, ElementCloses, ZenonT(60)
<1>13. o \o formattedArg(arg) \in Seq(Chars)
  BY <1>2, ConcatProperties
<1> HIDE DEF p
<1>14. /\ q \in Reading /\ ~q.reserved /\ q.state = {"default"} /\ q.argText = <<>>
       /\ q.stepValue = p.stepValue \o Braces /\ q.args = Append(p.args, arg)
  BY <1>8, <1>9, <1>10, <1>12
<1> QED BY <1>13, <1>14 DEF ReadsParameter, p, q

-----------------------------------------------------------------------------
(* The placeholders of a text, and the texts without.                      *)

NoPlaceholder(s) == \A i \in 1..(Len(s) - 1) : ~(s[i] = LeftBrace /\ s[i + 1] = RightBrace)
EndsOpen(s) == Len(s) > 0 /\ s[Len(s)] = LeftBrace
Closed(s) == NoPlaceholder(s) /\ ~EndsOpen(s)

LEMMA PlaceholdersAre ==
  ASSUME NEW s
  PROVE  Placeholders(s) = {i \in 1..(Len(s) - 1) : s[i] = LeftBrace /\ s[i + 1] = RightBrace}
BY Zenon DEF Placeholders, LeftBrace, RightBrace

LEMMA NoPlaceholderIs ==
  ASSUME NEW s PROVE NoPlaceholder(s) <=> Placeholders(s) = {}
BY PlaceholdersAre DEF NoPlaceholder

LEMMA NoPlaceholderConcat ==
  ASSUME NEW S, NEW s \in Seq(S), NEW t \in Seq(S), NoPlaceholder(s), NoPlaceholder(t),
         ~(EndsOpen(s) /\ Len(t) > 0 /\ t[1] = RightBrace)
  PROVE  NoPlaceholder(s \o t)
<1> DEFINE w == s \o t
           m == Len(s)
           n == Len(t)
<1>1. Len(w) = m + n /\ \A i \in 1..(m + n) : w[i] = IF i <= m THEN s[i] ELSE t[i - m]
  BY ConcatProperties
<1>2. m \in Nat /\ n \in Nat
  BY LenProperties
<1>3. \A i \in 1..(m - 1) : ~(s[i] = LeftBrace /\ s[i + 1] = RightBrace)
  BY DEF NoPlaceholder
<1>4. \A i \in 1..(n - 1) : ~(t[i] = LeftBrace /\ t[i + 1] = RightBrace)
  BY DEF NoPlaceholder
<1>5. ~(m > 0 /\ s[m] = LeftBrace /\ n > 0 /\ t[1] = RightBrace)
  BY DEF EndsOpen
<1> HIDE DEF w, m, n
<1>6. ASSUME NEW i \in 1..(m + n - 1) PROVE ~(w[i] = LeftBrace /\ w[i + 1] = RightBrace)
  <2>1. i \in Int /\ i \in 1..(m + n) /\ i + 1 \in 1..(m + n)
    BY <1>2
  <2>2. CASE i < m
    <3>1. i \in 1..(m - 1) /\ i <= m /\ i + 1 <= m
      BY <1>2, <2>1, <2>2
    <3>2. w[i] = s[i] /\ w[i + 1] = s[i + 1]
      BY <1>1, <2>1, <3>1
    <3> QED BY <1>3, <3>1, <3>2
  <2>3. CASE i = m
    <3>1. i <= m /\ ~(i + 1 <= m) /\ i + 1 - m = 1 /\ m > 0 /\ n > 0
      BY <1>2, <2>1, <2>3
    <3>2. w[i] = s[m] /\ w[i + 1] = t[1]
      BY <1>1, <2>1, <2>3, <3>1
    <3> QED BY <1>5, <3>1, <3>2
  <2>4. CASE i > m
    <3>1. ~(i <= m) /\ ~(i + 1 <= m) /\ (i + 1) - m = (i - m) + 1 /\ i - m \in 1..(n - 1)
      BY <1>2, <2>1, <2>4
    <3>2. w[i] = t[i - m] /\ w[i + 1] = t[(i + 1) - m]
      BY <1>1, <2>1, <3>1
    <3> QED BY <1>4, <3>1, <3>2
  <2> QED BY <1>2, <2>1, <2>2, <2>3, <2>4
<1>7. Len(w) - 1 = m + n - 1
  BY <1>1, <1>2
<1>8. NoPlaceholder(w)
  BY <1>6, <1>7 DEF NoPlaceholder
<1> QED BY <1>8 DEF w

LEMMA EndsOpenConcat ==
  ASSUME NEW S, NEW s \in Seq(S), NEW t \in Seq(S), Len(t) > 0
  PROVE  EndsOpen(s \o t) <=> EndsOpen(t)
<1> DEFINE w == s \o t
           m == Len(s)
           n == Len(t)
<1>1. w \in Seq(S) /\ Len(w) = m + n /\ m \in Nat /\ n \in Nat
        /\ \A i \in 1..(m + n) : w[i] = IF i <= m THEN s[i] ELSE t[i - m]
  BY ConcatProperties
<1> HIDE DEF w, m, n
<1>2. n > 0 /\ m + n > 0 /\ m + n \in 1..(m + n) /\ ~(m + n <= m) /\ m + n - m = n
  BY <1>1 DEF n
<1>3. w[m + n] = t[n]
  BY <1>1, <1>2
<1>4. EndsOpen(w) <=> EndsOpen(t)
  BY <1>1, <1>2, <1>3 DEF EndsOpen, n
<1> QED BY <1>4 DEF w

LEMMA ClosedConcat ==
  ASSUME NEW S, NEW s \in Seq(S), NEW t \in Seq(S), Closed(s), Closed(t)
  PROVE  Closed(s \o t)
<1>1. NoPlaceholder(s \o t)
  BY NoPlaceholderConcat DEF Closed
<1>2. CASE Len(t) > 0
  BY <1>1, <1>2, EndsOpenConcat DEF Closed
<1>3. CASE ~(Len(t) > 0)
  <2>1. t = <<>>
    BY <1>3, EmptySeq
  <2>2. s \o t = s
    BY <2>1, ConcatEmptySeq
  <2> QED BY <2>2
<1> QED BY <1>2, <1>3

LEMMA NoPlaceholderFront ==
  ASSUME NEW S, NEW t \in Seq(S), NEW x \in S, NoPlaceholder(Append(t, x))
  PROVE  NoPlaceholder(t) /\ ~(EndsOpen(t) /\ x = RightBrace)
<1> DEFINE w == Append(t, x)
           n == Len(t)
<1>1. w \in Seq(S) /\ Len(w) = n + 1 /\ n \in Nat /\ (\A i \in 1..n : w[i] = t[i]) /\ w[n + 1] = x
  BY AppendProperties
<1>2. \A i \in 1..(Len(w) - 1) : ~(w[i] = LeftBrace /\ w[i + 1] = RightBrace)
  BY DEF NoPlaceholder
<1> HIDE DEF w, n
<1>3. Len(w) - 1 = n
  BY <1>1
<1>4. \A i \in 1..n : ~(w[i] = LeftBrace /\ w[i + 1] = RightBrace)
  BY <1>2, <1>3
<1>5. ASSUME NEW i \in 1..(n - 1) PROVE ~(t[i] = LeftBrace /\ t[i + 1] = RightBrace)
  <2>1. i \in 1..n /\ i + 1 \in 1..n
    BY <1>1
  <2> QED BY <1>1, <1>4, <2>1
<1>6. NoPlaceholder(t)
  BY <1>5 DEF NoPlaceholder, n
<1>7. ASSUME n > 0 PROVE ~(t[n] = LeftBrace /\ x = RightBrace)
  <2>1. n \in 1..n
    BY <1>1, <1>7
  <2> QED BY <1>1, <1>4, <2>1
<1> QED BY <1>6, <1>7 DEF EndsOpen, n

LEMMA OneCharacter ==
  ASSUME NEW x
  PROVE  NoPlaceholder(<<x>>) /\ (EndsOpen(<<x>>) <=> x = LeftBrace) /\ Len(<<x>>) = 1 /\ <<x>>[1] = x
BY DEF NoPlaceholder, EndsOpen

LEMMA EscapedClosed ==
  ASSUME NEW x \in Letters
  PROVE  /\ NoPlaceholder(Escaped[x]) /\ Len(Escaped[x]) > 0
         /\ Escaped[x][1] = RightBrace => x = RightBrace
         /\ EndsOpen(Escaped[x]) => x = LeftBrace
<1>1. CASE x \in {quotes, escape}
  <2>1. Escaped[x] = <<escape, x>>
    BY <1>1 DEF Escaped
  <2>2. x # LeftBrace /\ escape # LeftBrace /\ escape # RightBrace
    BY <1>1, BracesAre
  <2> DEFINE w == Escaped[x]
  <2>3. Len(w) = 2 /\ w[1] = escape /\ w[2] = x
    BY <2>1
  <2> HIDE DEF w
  <2>4. NoPlaceholder(w) /\ Len(w) > 0
    <3>1. \A i \in 1..(2 - 1) : i = 1
      OBVIOUS
    <3> QED BY <2>2, <2>3, <3>1 DEF NoPlaceholder
  <2>5. w[1] # RightBrace /\ ~EndsOpen(w)
    BY <2>2, <2>3 DEF EndsOpen
  <2> QED BY <2>4, <2>5 DEF w
<1>2. CASE x \notin {quotes, escape} /\ x = newline
  <2>1. Escaped[x] = <<escape, "n">>
    BY <1>2 DEF Escaped
  <2>2. escape # LeftBrace /\ escape # RightBrace /\ "n" # LeftBrace
    BY BracesAre
  <2> DEFINE w == Escaped[x]
  <2>3. Len(w) = 2 /\ w[1] = escape /\ w[2] = "n"
    BY <2>1
  <2> HIDE DEF w
  <2>4. NoPlaceholder(w) /\ Len(w) > 0
    <3>1. \A i \in 1..(2 - 1) : i = 1
      OBVIOUS
    <3> QED BY <2>2, <2>3, <3>1 DEF NoPlaceholder
  <2>5. w[1] # RightBrace /\ ~EndsOpen(w)
    BY <2>2, <2>3 DEF EndsOpen
  <2> QED BY <2>4, <2>5 DEF w
<1>3. CASE x \notin {quotes, escape} /\ x # newline
  <2>1. Escaped[x] = <<x>>
    BY <1>3 DEF Escaped
  <2>2. NoPlaceholder(<<x>>) /\ (EndsOpen(<<x>>) <=> x = LeftBrace) /\ Len(<<x>>) = 1 /\ <<x>>[1] = x
    BY OneCharacter
  <2> QED BY <2>1, <2>2
<1> QED BY <1>1, <1>2, <1>3

LEMMA UnescapedClosed ==
  ASSUME NEW u \in Text, NoPlaceholder(u)
  PROVE  NoPlaceholder(UnescapedString(u)) /\ (EndsOpen(UnescapedString(u)) => EndsOpen(u))
<1> DEFINE One(t) == NoPlaceholder(t) => /\ NoPlaceholder(UnescapedString(t))
                                         /\ EndsOpen(UnescapedString(t)) => EndsOpen(t)
           G == {t \in Seq(Letters) : One(t)}
<1>1. <<>> \in G
  <2>1. UnescapedString(<<>>) = <<>>
    BY UnescapedNothing
  <2> QED BY <2>1
<1>2. \A t \in Seq(Letters) : \A x \in Letters : t \in G => Append(t, x) \in G
  <2> SUFFICES ASSUME NEW t \in Seq(Letters), NEW x \in Letters, t \in G, NoPlaceholder(Append(t, x))
               PROVE  /\ NoPlaceholder(UnescapedString(Append(t, x)))
                      /\ EndsOpen(UnescapedString(Append(t, x))) => EndsOpen(Append(t, x))
    BY AppendProperties
  <2>1. NoPlaceholder(t) /\ ~(EndsOpen(t) /\ x = RightBrace)
    BY NoPlaceholderFront
  <2>2. NoPlaceholder(UnescapedString(t)) /\ (EndsOpen(UnescapedString(t)) => EndsOpen(t))
    BY <2>1
  <2> DEFINE a == UnescapedString(t)
             b == Escaped[x]
  <2>3. a \in Seq(Chars) /\ b \in Seq(Chars) /\ UnescapedString(Append(t, x)) = a \o b
    BY UnescapedAppend DEF Text, Letters
  <2>4. NoPlaceholder(b) /\ Len(b) > 0 /\ (b[1] = RightBrace => x = RightBrace) /\ (EndsOpen(b) => x = LeftBrace)
    BY EscapedClosed
  <2>5. NoPlaceholder(a) /\ (EndsOpen(a) => EndsOpen(t))
    BY <2>2
  <2> HIDE DEF a, b
  <2>6. NoPlaceholder(a \o b)
    BY <2>1, <2>3, <2>4, <2>5, NoPlaceholderConcat
  <2>7. EndsOpen(a \o b) <=> EndsOpen(b)
    BY <2>3, <2>4, EndsOpenConcat
  <2>8. x = LeftBrace => EndsOpen(Append(t, x))
    <3> DEFINE w == Append(t, x)
    <3>1. Len(w) = Len(t) + 1 /\ Len(t) \in Nat /\ w[Len(t) + 1] = x
      BY AppendProperties
    <3> HIDE DEF w
    <3>2. x = LeftBrace => EndsOpen(w)
      <4>1. Len(w) > 0
        BY <3>1
      <4> QED BY <3>1, <4>1 DEF EndsOpen
    <3> QED BY <3>2 DEF w
  <2> QED BY <2>3, <2>4, <2>6, <2>7, <2>8
<1> HIDE DEF G
<1>3. Seq(Letters) \subseteq G
  BY <1>1, <1>2, SequencesByAppending
<1>4. u \in G
  BY <1>3 DEF Text, Letters
<1> QED BY <1>4 DEF G

\* An argument as it is written leaves no placeholder but those of the text itself.
LEMMA FormattedClosed ==
  ASSUME NEW arg \in Arg, Placeholders(arg.text) = {} PROVE Closed(formattedArg(arg))
<1> DEFINE a == <<Opening(ModeOf(arg))>>
           b == UnescapedString(arg.text)
           c == <<Closing(ModeOf(arg))>>
<1>1. formattedArg(arg) = a \o b \o c /\ a \in Seq(Chars) /\ b \in Seq(Chars) /\ c \in Seq(Chars)
  BY FormattedIs
<1>2. Opening(ModeOf(arg)) # LeftBrace /\ Closing(ModeOf(arg)) # LeftBrace /\ Closing(ModeOf(arg)) # RightBrace
  BY BracesAre DEF Opening, Closing
<1>3. NoPlaceholder(a) /\ ~EndsOpen(a)
  BY <1>2, OneCharacter
<1>4. NoPlaceholder(c) /\ ~EndsOpen(c) /\ Len(c) = 1 /\ c[1] # RightBrace
  BY <1>2, OneCharacter
<1>5. NoPlaceholder(b)
  <2>1. arg.text \in Text
    BY DEF Arg
  <2>2. NoPlaceholder(arg.text)
    BY NoPlaceholderIs
  <2> QED BY <2>1, <2>2, UnescapedClosed
<1> HIDE DEF a, b, c
<1>6. a \o b \in Seq(Chars) /\ NoPlaceholder(a \o b)
  BY <1>1, <1>3, <1>5, NoPlaceholderConcat, ConcatProperties
<1>7. NoPlaceholder((a \o b) \o c)
  BY <1>1, <1>4, <1>6, NoPlaceholderConcat
<1>8. ~EndsOpen((a \o b) \o c)
  <2> DEFINE d == a \o b
  <2>1. d \in Seq(Chars) /\ c \in Seq(Chars) /\ Len(c) > 0
    BY <1>1, <1>4, <1>6
  <2> HIDE DEF d
  <2>2. EndsOpen(d \o c) <=> EndsOpen(c)
    BY ONLY <2>1, EndsOpenConcat
  <2> QED BY <1>4, <2>2 DEF d
<1> QED BY <1>1, <1>7, <1>8 DEF Closed

LEMMA FrontAndBack ==
  ASSUME NEW S, NEW s \in Seq(S), NEW t \in Seq(S)
  PROVE  /\ SubSeq(s \o t, 1, Len(s)) = s
         /\ SubSeq(s \o t, Len(s) + 1, Len(s \o t)) = t
<1> DEFINE w == s \o t
           m == Len(s)
           n == Len(t)
           front == SubSeq(w, 1, m)
           back == SubSeq(w, m + 1, m + n)
<1>1. Len(w) = m + n /\ \A i \in 1..(m + n) : w[i] = IF i <= m THEN s[i] ELSE t[i - m]
  BY ConcatProperties
<1>2. m \in Nat /\ n \in Nat
  BY LenProperties
<1>3. (\A i \in 1..m : s[i] \in S) /\ (\A i \in 1..n : t[i] \in S)
  BY ElementOfSeq
<1> HIDE DEF w, m, n
<1>4. \A i \in 1..m : w[i] = s[i] /\ w[i] \in S
  <2>1. \A i \in 1..m : i \in 1..(m + n) /\ i <= m
    BY <1>2
  <2> QED BY <1>1, <1>3, <2>1
<1>5. \A i \in (m + 1)..(m + n) : w[i] = t[i - m] /\ w[i] \in S
  <2>1. \A i \in (m + 1)..(m + n) : i \in 1..(m + n) /\ ~(i <= m) /\ i - m \in 1..n
    BY <1>2
  <2> QED BY <1>1, <1>3, <2>1
<1>6. front = s
  <2>1. /\ front \in Seq(S) /\ Len(front) = (IF 1 <= m THEN m - 1 + 1 ELSE 0)
        /\ \A i \in 1..(m - 1 + 1) : front[i] = w[1 + i - 1]
    <3>1. 1 \in Int /\ m \in Int /\ \A i \in 1..m : w[i] \in S
      BY <1>2, <1>4
    <3> QED BY ONLY <3>1, SubSeqProperties
  <2> HIDE DEF front
  <2>2. Len(front) = m
    BY <1>2, <2>1
  <2>3. \A i \in 1..m : front[i] = w[i]
    <3>1. \A i \in 1..m : i \in 1..(m - 1 + 1) /\ 1 + i - 1 = i
      BY <1>2
    <3> QED BY <2>1, <3>1
  <2>4. \A i \in 1..Len(front) : front[i] = s[i]
    BY <1>4, <2>2, <2>3
  <2>5. Len(front) = Len(s)
    BY <2>2 DEF m
  <2> QED BY ONLY s \in Seq(S), <2>1, <2>4, <2>5, SeqEqual
<1>7. back = t
  <2>1. /\ back \in Seq(S) /\ Len(back) = (IF m + 1 <= m + n THEN (m + n) - (m + 1) + 1 ELSE 0)
        /\ \A i \in 1..((m + n) - (m + 1) + 1) : back[i] = w[(m + 1) + i - 1]
    <3> DEFINE a == m + 1
               b == m + n
    <3>1. a \in Int /\ b \in Int /\ \A i \in a..b : w[i] \in S
      BY <1>2, <1>5
    <3> HIDE DEF a, b
    <3>2. /\ SubSeq(w, a, b) \in Seq(S) /\ Len(SubSeq(w, a, b)) = (IF a <= b THEN b - a + 1 ELSE 0)
          /\ \A i \in 1..(b - a + 1) : SubSeq(w, a, b)[i] = w[a + i - 1]
      BY ONLY <3>1, SubSeqProperties
    <3> QED BY <3>2 DEF a, b
  <2> HIDE DEF back
  <2>2. Len(back) = n
    BY <1>2, <2>1
  <2>3. \A i \in 1..n : back[i] = w[m + i]
    <3>1. \A i \in 1..n : i \in 1..((m + n) - (m + 1) + 1) /\ (m + 1) + i - 1 = m + i
      BY <1>2
    <3> QED BY <2>1, <3>1
  <2>4. \A i \in 1..n : w[m + i] = t[i]
    <3>1. \A i \in 1..n : m + i \in (m + 1)..(m + n) /\ (m + i) - m = i
      BY <1>2
    <3> QED BY <1>5, <3>1
  <2>5. \A i \in 1..Len(back) : back[i] = t[i]
    BY <2>2, <2>3, <2>4
  <2>6. Len(back) = Len(t)
    BY <2>2 DEF n
  <2> QED BY ONLY t \in Seq(S), <2>1, <2>5, <2>6, SeqEqual
<1>8. Len(w) = m + n
  BY <1>1
<1> QED BY <1>6, <1>7, <1>8 DEF w, m

\* After a text without placeholders, it is the next one that is replaced.
LEMMA ReplacedIs ==
  ASSUME NEW s \in Text, NEW d \in Text, Closed(s), NEW arg
  PROVE  Replaced(s \o (Braces \o d), arg) = s \o formattedArg(arg) \o d
<1> DEFINE A == Chars \cup {newline}
           t == Braces \o d
           w == s \o t
           m == Len(s)
           P == Placeholders(w)
<1>0. s \in Seq(A) /\ d \in Seq(A) /\ Braces \in Seq(A)
  <2>1. Chars \subseteq A
    OBVIOUS
  <2> HIDE DEF A
  <2>2. Braces \in Seq(A)
    BY <2>1, BracesIs, SeqMonotonic
  <2> QED BY <2>2 DEF Text, A
<1> HIDE DEF A
<1>1. t \in Seq(A) /\ Len(t) = 2 + Len(d) /\ t[1] = LeftBrace /\ t[2] = RightBrace
  <2>1. /\ t \in Seq(A) /\ Len(t) = Len(Braces) + Len(d)
        /\ \A i \in 1..(Len(Braces) + Len(d)) : t[i] = IF i <= Len(Braces) THEN Braces[i] ELSE d[i - Len(Braces)]
    BY <1>0, ConcatProperties
  <2>2. Len(d) \in Nat
    BY <1>0, LenProperties
  <2>3. 1 \in 1..(Len(Braces) + Len(d)) /\ 2 \in 1..(Len(Braces) + Len(d)) /\ 1 <= Len(Braces) /\ 2 <= Len(Braces)
    BY <2>2, BracesIs
  <2> HIDE DEF t
  <2> QED BY <2>1, <2>3, BracesIs
<1> HIDE DEF t
<1>2. Len(w) = m + Len(t) /\ \A i \in 1..(m + Len(t)) : w[i] = IF i <= m THEN s[i] ELSE t[i - m]
  <2>1. /\ Len(s \o t) = Len(s) + Len(t)
        /\ \A i \in 1..(Len(s) + Len(t)) : (s \o t)[i] = IF i <= Len(s) THEN s[i] ELSE t[i - Len(s)]
    BY ONLY <1>0, <1>1, ConcatProperties, ZenonT(60)
  <2> QED BY <2>1
<1>3. m \in Nat /\ Len(d) \in Nat
  BY <1>0, LenProperties
<1>4. (\A i \in 1..(m - 1) : ~(s[i] = LeftBrace /\ s[i + 1] = RightBrace)) /\ ~(m > 0 /\ s[m] = LeftBrace)
  BY DEF Closed, NoPlaceholder, EndsOpen
<1> HIDE DEF w, m
<1>5. P = {i \in 1..(m + Len(t) - 1) : w[i] = LeftBrace /\ w[i + 1] = RightBrace}
  <2>1. Len(w) - 1 = m + Len(t) - 1
    BY <1>1, <1>2, <1>3
  <2> QED BY <2>1, PlaceholdersAre
<1>6. m + 1 \in P
  <2>1. m + 1 \in 1..(m + Len(t) - 1) /\ m + 1 \in 1..(m + Len(t)) /\ (m + 1) + 1 \in 1..(m + Len(t))
          /\ ~(m + 1 <= m) /\ ~((m + 1) + 1 <= m) /\ (m + 1) - m = 1 /\ ((m + 1) + 1) - m = 2
    BY <1>1, <1>3
  <2>2. w[m + 1] = LeftBrace /\ w[(m + 1) + 1] = RightBrace
    BY <1>1, <1>2, <2>1
  <2> QED BY <1>5, <2>1, <2>2
<1>7. ASSUME NEW i \in P PROVE m + 1 <= i
  <2>1. i \in 1..(m + Len(t) - 1) /\ i \in Int /\ i \in 1..(m + Len(t)) /\ i + 1 \in 1..(m + Len(t))
          /\ w[i] = LeftBrace /\ w[i + 1] = RightBrace
    <3>1. i \in 1..(m + Len(t) - 1) /\ w[i] = LeftBrace /\ w[i + 1] = RightBrace
      BY <1>5
    <3>2. i \in Int /\ i \in 1..(m + Len(t)) /\ i + 1 \in 1..(m + Len(t))
      BY <1>1, <1>3, <3>1
    <3> QED BY <3>1, <3>2
  <2>2. SUFFICES ASSUME ~(m + 1 <= i) PROVE FALSE
    OBVIOUS
  <2>3. CASE i = m
    <3>1. i <= m /\ m > 0
      BY <1>3, <2>1, <2>3
    <3>2. w[i] = s[m]
      BY <1>2, <2>1, <2>3, <3>1
    <3> QED BY <1>4, <2>1, <3>1, <3>2
  <2>4. CASE i # m
    <3>1. i <= m /\ i + 1 <= m /\ i \in 1..(m - 1)
      BY <1>3, <2>1, <2>2, <2>4
    <3>2. w[i] = s[i] /\ w[i + 1] = s[i + 1]
      BY <1>2, <2>1, <3>1
    <3> QED BY <1>4, <2>1, <3>1, <3>2
  <2> QED BY <2>3, <2>4
<1>8. Min(P) = m + 1
  <2>1. P \in SUBSET Nat
    <3>1. \A i \in 1..(m + Len(t) - 1) : i \in Nat
      BY <1>1, <1>3
    <3> QED BY <1>5, <3>1
  <2> HIDE DEF P
  <2>2. Min(P) \in P /\ \A j \in P : Min(P) <= j
    BY <1>6, <2>1, FirstPosition
  <2>3. Min(P) <= m + 1 /\ m + 1 <= Min(P) /\ Min(P) \in Nat
    BY <1>6, <1>7, <2>1, <2>2
  <2> QED BY <1>3, <2>3
<1> DEFINE q == m + 1
<1>9. Replaced(w, arg) = SubSeq(w, 1, q - 1) \o formattedArg(arg) \o SubSeq(w, q + 2, Len(w))
  <2>1. Len(<<"{", "}">>) = 2
    OBVIOUS
  <2>2. Replaced(w, arg) = ReplaceSubSeqAt(q, formattedArg(arg), <<"{", "}">>, w)
    BY Zenon, <1>8 DEF Replaced
  <2> HIDE DEF q
  <2>3. ReplaceSubSeqAt(q, formattedArg(arg), <<"{", "}">>, w)
          = SubSeq(w, 1, q - 1) \o formattedArg(arg) \o SubSeq(w, q + Len(<<"{", "}">>), Len(w))
    BY Zenon DEF ReplaceSubSeqAt
  <2> QED BY <2>1, <2>2, <2>3
<1>10. SubSeq(w, 1, q - 1) = s
  <2>1. SubSeq(w, 1, Len(s)) = s
    BY <1>0, <1>1, FrontAndBack DEF w
  <2>2. q - 1 = Len(s)
    BY <1>3 DEF m
  <2> QED BY <2>1, <2>2
<1>11. SubSeq(w, q + 2, Len(w)) = d
  <2> DEFINE sb == s \o Braces
  <2>1. sb \in Seq(A) /\ Len(sb) = m + 2
    <3>1. sb \in Seq(A) /\ Len(sb) = Len(s) + Len(Braces)
      BY ONLY <1>0, ConcatProperties
    <3> QED BY <3>1, BracesIs DEF m
  <2>2. w = sb \o d
    BY <1>0, ConcatAssociative DEF w, t
  <2> HIDE DEF sb
  <2>3. SubSeq(sb \o d, Len(sb) + 1, Len(sb \o d)) = d
    BY <1>0, <2>1, FrontAndBack
  <2>4. Len(sb) + 1 = q + 2
    BY <1>3, <2>1
  <2> QED BY <2>2, <2>3, <2>4
<1> QED BY <1>9, <1>10, <1>11 DEF w, t

\* What formatStep makes of a value, placeholder by placeholder.
AfterWriting(r, n, f) == f = [k \in 0..n |-> IF k = 0 THEN r.stepValue ELSE Replaced(f[k - 1], r.args[k])]

LEMMA WritingExists ==
  ASSUME NEW r, NEW n \in Nat PROVE \E f : AfterWriting(r, n, f)
<1> DEFINE T == {k \in Nat : ~\E f : AfterWriting(r, k, f)}
<1> SUFFICES ASSUME T # {} PROVE FALSE
  OBVIOUS
<1>1. T \in SUBSET Nat
  OBVIOUS
<1>2. PICK k \in T : \A m \in T : k <= m
  <2> HIDE DEF T
  <2> QED BY <1>1, Smallest
<1>3. CASE k = 0
  <2> DEFINE f == [j \in 0..0 |-> r.stepValue]
  <2>1. f = [j \in 0..0 |-> IF j = 0 THEN r.stepValue ELSE Replaced(f[j - 1], r.args[j])]
    OBVIOUS
  <2>2. AfterWriting(r, 0, f)
    BY <2>1 DEF AfterWriting
  <2> HIDE DEF f
  <2> QED BY <1>2, <1>3, <2>2
<1>4. CASE k > 0
  <2>1. k \in Nat /\ k - 1 \in Nat /\ ~(k <= k - 1)
    BY <1>4, <1>1, <1>2
  <2>2. PICK g : AfterWriting(r, k - 1, g)
    BY <1>2, <2>1
  <2> DEFINE f == [j \in 0..k |-> IF j = k THEN Replaced(g[k - 1], r.args[k]) ELSE g[j]]
             h == [j \in 0..k |-> IF j = 0 THEN r.stepValue ELSE Replaced(f[j - 1], r.args[j])]
  <2>3. \A j \in 0..k : f[j] = IF j = 0 THEN r.stepValue ELSE Replaced(f[j - 1], r.args[j])
    <3> SUFFICES ASSUME NEW j \in 0..k PROVE f[j] = IF j = 0 THEN r.stepValue ELSE Replaced(f[j - 1], r.args[j])
      OBVIOUS
    <3>1. CASE j = k
      <4>1. k - 1 \in 0..k /\ k \in 0..k /\ k - 1 # k /\ k # 0
        BY <1>4, <2>1
      <4>2. f[k] = Replaced(g[k - 1], r.args[k])
        BY <4>1
      <4>3. f[k - 1] = g[k - 1]
        BY <4>1
      <4> HIDE DEF f
      <4> QED BY <3>1, <4>1, <4>2, <4>3
    <3>2. CASE j # k
      <4>1. j \in 0..(k - 1) /\ f[j] = g[j]
        BY <2>1, <3>2
      <4>2. g[j] = IF j = 0 THEN r.stepValue ELSE Replaced(g[j - 1], r.args[j])
        BY <2>2, <4>1 DEF AfterWriting
      <4>3. j # 0 => f[j - 1] = g[j - 1]
        BY <2>1, <3>2
      <4> HIDE DEF f
      <4> QED BY <4>1, <4>2, <4>3
    <3> QED BY <3>1, <3>2
  <2>4. f = [j \in 0..k |-> f[j]]
    OBVIOUS
  <2> HIDE DEF f
  <2>5. f = h
    BY <2>3, <2>4
  <2>6. AfterWriting(r, k, f)
    BY <2>5 DEF AfterWriting
  <2> QED BY <1>2, <2>6
<1> QED BY <1>1, <1>2, <1>3, <1>4

LEMMA FormatIs ==
  ASSUME NEW r, Len(r.args) \in Nat
  PROVE  \E f : AfterWriting(r, Len(r.args), f) /\ formatStep(r) = f[Len(r.args)]
<1> DEFINE n == Len(r.args)
           Is(f) == f = [k \in 0..n |-> IF k = 0 THEN r.stepValue ELSE Replaced(f[k - 1], r.args[k])]
           after == CHOOSE f : Is(f)
<1>1. PICK g : AfterWriting(r, n, g)
  <2> HIDE DEF n
  <2> QED BY WritingExists DEF n
<1>2. Is(g)
  BY <1>1 DEF AfterWriting
<1>3. Is(after)
  BY <1>2
<1>4. AfterWriting(r, n, after)
  BY <1>3 DEF AfterWriting
<1>5. formatStep(r) = after[n]
  BY DEF formatStep
<1> HIDE DEF after
<1> QED BY <1>4, <1>5

-----------------------------------------------------------------------------
(* A value that can be written, and what is still to be written of it.     *)

PlacesAfter(v, n) == {i \in Placeholders(v) : i > n}

\* Nothing but placeholders has to be escaped, and no parameter comes after a colon.
Clean(v) ==
  \A i \in 1..Len(v) :
    /\ v[i] \in Plain \/ i \in Placeholders(v) \/ i - 1 \in Placeholders(v)
    /\ v[i] = ":" => \A j \in Placeholders(v) : j < i

\* The first k parameters are written, and read again; of the value, the first n characters.
Written(r, k, w, o, n) ==
  LET v == r.stepValue
      p == processStepText(o)
  IN  /\ w = o \o SubSeq(v, n + 1, Len(v))
      /\ n \notin Placeholders(v) /\ Cardinality(PlacesAfter(v, n)) = Len(r.args) - k
      /\ Closed(o)
      /\ ~p.reserved /\ p.state = {"default"} /\ p.argText = <<>>
      /\ p.stepValue = SubSeq(v, 1, n) /\ p.args = SubSeq(r.args, 1, k)

LEMMA PlaceholdersFinite ==
  ASSUME NEW v \in Text
  PROVE  /\ Placeholders(v) \subseteq 1..(Len(v) - 1) /\ Placeholders(v) \subseteq Nat /\ Len(v) \in Nat
         /\ IsFiniteSet(Placeholders(v))
<1>1. Len(v) \in Nat
  BY LenProperties DEF Text
<1>2. Placeholders(v) \subseteq 1..(Len(v) - 1)
  BY PlaceholdersAre
<1>3. IsFiniteSet(1..(Len(v) - 1))
  BY <1>1, FS_Interval
<1>4. IsFiniteSet(Placeholders(v))
  BY <1>2, <1>3, FS_Subset
<1>5. \A i \in 1..(Len(v) - 1) : i \in Nat
  BY <1>1
<1> QED BY <1>1, <1>2, <1>4, <1>5

\* A part of a text is a text.
LEMMA PartOf ==
  ASSUME NEW S, NEW v \in Seq(S), NEW m \in Nat, NEW n \in Nat, 1 <= m, n <= Len(v)
  PROVE  /\ SubSeq(v, m, n) \in Seq(S)
         /\ Len(SubSeq(v, m, n)) = (IF m <= n THEN n - m + 1 ELSE 0)
         /\ \A i \in 1..(n - m + 1) : SubSeq(v, m, n)[i] = v[m + i - 1]
<1>1. Len(v) \in Nat /\ m \in Int /\ n \in Int
  BY LenProperties
<1>2. \A i \in m..n : i \in 1..Len(v)
  BY <1>1
<1>3. \A i \in m..n : v[i] \in S
  BY <1>2, ElementOfSeq
<1> QED BY ONLY <1>1, <1>3, SubSeqProperties

LEMMA NoPlacesLeft ==
  ASSUME NEW v \in Text, Clean(v), NEW n \in 0..Len(v), n \notin Placeholders(v),
         NEW j \in Nat, n <= j, j <= Len(v), \A i \in PlacesAfter(v, n) : j < i
  PROVE  /\ SubSeq(v, n + 1, j) \in Seq(Plain)
         /\ (\E i \in Placeholders(v) : i > j) => ":" \notin ToSet(SubSeq(v, n + 1, j))
<1> DEFINE c == SubSeq(v, n + 1, j)
           m == n + 1
<1>1. Len(v) \in Nat /\ n \in Nat /\ m \in Nat /\ 1 <= m
  BY PlaceholdersFinite
<1>2. /\ c \in Seq(Chars \cup {newline}) /\ Len(c) = (IF m <= j THEN j - m + 1 ELSE 0)
      /\ \A i \in 1..(j - m + 1) : c[i] = v[m + i - 1]
  <2> HIDE DEF m
  <2>1. v \in Seq(Chars \cup {newline})
    BY DEF Text
  <2>2. /\ SubSeq(v, m, j) \in Seq(Chars \cup {newline}) /\ Len(SubSeq(v, m, j)) = (IF m <= j THEN j - m + 1 ELSE 0)
        /\ \A i \in 1..(j - m + 1) : SubSeq(v, m, j)[i] = v[m + i - 1]
    BY ONLY <1>1, <2>1, j \in Nat, j <= Len(v), PartOf
  <2> QED BY <2>2 DEF m
<1> HIDE DEF c
<1>3. Len(c) = j - n
  BY <1>1, <1>2
<1>4. ASSUME NEW i \in 1..(j - n)
      PROVE  c[i] = v[n + i] /\ n + i \in 1..Len(v) /\ n + i > n /\ n + i <= j /\ (n + i) - 1 >= n
  <2>1. i \in 1..(j - m + 1) /\ m + i - 1 = n + i
    BY <1>1
  <2>2. n + i \in 1..Len(v) /\ n + i > n /\ n + i <= j /\ (n + i) - 1 >= n
    BY <1>1
  <2> QED BY <1>2, <2>1, <2>2
<1>5. ASSUME NEW i \in 1..(j - n) PROVE c[i] \in Plain
  <2> DEFINE x == n + i
  <2>1. c[i] = v[x] /\ x \in 1..Len(v) /\ x > n /\ x <= j /\ x - 1 >= n /\ x \in Int
    BY <1>1, <1>4
  <2> HIDE DEF x
  <2>2. x \notin Placeholders(v)
    <3> SUFFICES ASSUME x \in Placeholders(v) PROVE FALSE
      OBVIOUS
    <3>1. x \in PlacesAfter(v, n)
      BY <2>1 DEF PlacesAfter
    <3>2. j < x
      BY <3>1
    <3> QED BY <2>1, <3>2
  <2>3. x - 1 \notin Placeholders(v)
    <3> SUFFICES ASSUME x - 1 \in Placeholders(v) PROVE FALSE
      OBVIOUS
    <3>1. CASE x - 1 = n
      BY <3>1
    <3>2. CASE x - 1 # n
      <4>1. x - 1 > n
        BY <1>1, <2>1, <3>2
      <4>2. x - 1 \in PlacesAfter(v, n)
        BY <4>1 DEF PlacesAfter
      <4>3. j < x - 1
        BY <4>2
      <4> QED BY <2>1, <4>3
    <3> QED BY <3>1, <3>2
  <2> QED BY <2>1, <2>2, <2>3 DEF Clean
<1>6. c \in Seq(Plain)
  <2>1. \A i \in 1..Len(c) : c[i] \in Plain
    BY <1>3, <1>5
  <2>2. Len(c) \in Nat /\ c \in [1..Len(c) -> Chars \cup {newline}]
    BY <1>2, LenProperties
  <2>3. c \in [1..Len(c) -> Plain]
    BY <2>1, <2>2
  <2> QED BY ONLY <2>2, <2>3, FunctionIsSeq
<1>7. ASSUME NEW y \in Placeholders(v), y > j PROVE ":" \notin ToSet(c)
  <2> SUFFICES ASSUME ":" \in ToSet(c) PROVE FALSE
    OBVIOUS
  <2>1. PICK i \in 1..(j - n) : c[i] = ":"
    <3>1. DOMAIN c = 1..Len(c)
      BY <1>2
    <3> QED BY <1>3, <3>1 DEF ToSet
  <2>2. v[n + i] = ":" /\ n + i \in 1..Len(v) /\ n + i <= j
    BY <1>4, <2>1
  <2>3. y < n + i
    BY <2>2 DEF Clean
  <2>4. y \in Nat /\ n + i \in Int
    BY <1>1, <1>7, PlaceholdersFinite
  <2> QED BY <1>7, <2>2, <2>3, <2>4
<1> QED BY <1>6, <1>7 DEF c

\* A value is cut at its next placeholder.
LEMMA CutAtPlaceholder ==
  ASSUME NEW v \in Text, Clean(v), NEW n \in 0..Len(v), n \notin Placeholders(v), PlacesAfter(v, n) # {}
  PROVE  \E j \in PlacesAfter(v, n) : \E c \in Seq(Plain) : \E d \in Text :
           /\ n < j /\ j + 1 <= Len(v) /\ j + 1 \notin Placeholders(v)
           /\ PlacesAfter(v, j + 1) = PlacesAfter(v, n) \ {j}
           /\ c = SubSeq(v, n + 1, j - 1) /\ ":" \notin ToSet(c)
           /\ d = SubSeq(v, j + 2, Len(v)) /\ SubSeq(v, n + 1, Len(v)) = c \o (Braces \o d)
           /\ (SubSeq(v, 1, n) \o c) \o Braces = SubSeq(v, 1, j + 1)
<1> DEFINE L == Len(v)
           A == Chars \cup {newline}
<1>1. L \in Nat /\ Placeholders(v) \subseteq Nat /\ v \in Seq(A) /\ n \in Nat /\ n <= L
  BY PlaceholdersFinite DEF Text
<1>2. PICK j \in PlacesAfter(v, n) : \A i \in PlacesAfter(v, n) : j <= i
  <2>1. PlacesAfter(v, n) \in SUBSET Nat
    BY <1>1 DEF PlacesAfter
  <2> QED BY <2>1, Smallest
<1>3. j \in 1..(L - 1) /\ v[j] = LeftBrace /\ v[j + 1] = RightBrace /\ j > n
  BY <1>2, PlaceholdersAre DEF PlacesAfter
<1> HIDE DEF L, A
<1>4. j \in Nat /\ 1 <= j /\ n < j /\ j + 1 <= L /\ j - 1 \in Nat /\ n <= j - 1 /\ j - 1 <= L
  BY <1>1, <1>3
<1>5. j + 1 \notin Placeholders(v)
  <2>1. RightBrace # LeftBrace
    BY BracesAre
  <2>2. v[j + 1] # LeftBrace
    BY <1>3, <2>1
  <2> QED BY <2>2, PlaceholdersAre
<1>6. PlacesAfter(v, j + 1) = PlacesAfter(v, n) \ {j}
  <2>1. ASSUME NEW i \in Placeholders(v) PROVE (i > j + 1) <=> (i > n /\ i # j)
    <3>1. i \in Nat /\ i # j + 1
      BY <1>1, <1>5
    <3>2. i > n => j <= i
      BY <1>2 DEF PlacesAfter
    <3> QED BY <1>1, <1>4, <3>1, <3>2
  <2> QED BY <2>1 DEF PlacesAfter
<1> DEFINE c == SubSeq(v, n + 1, j - 1)
           d == SubSeq(v, j + 2, L)
<1>7. c \in Seq(Plain) /\ ":" \notin ToSet(c)
  <2> DEFINE j1 == j - 1
  <2>1. j1 \in Nat /\ n <= j1 /\ j1 <= Len(v) /\ \A i \in PlacesAfter(v, n) : j1 < i
    <3>1. \A i \in PlacesAfter(v, n) : i \in Nat /\ j <= i
      BY <1>1, <1>2 DEF PlacesAfter
    <3> QED BY <1>4, <3>1 DEF L
  <2>2. j \in Placeholders(v) /\ j > j1
    BY <1>4 DEF PlacesAfter
  <2> HIDE DEF j1
  <2>3. /\ SubSeq(v, n + 1, j1) \in Seq(Plain)
        /\ (\E i \in Placeholders(v) : i > j1) => ":" \notin ToSet(SubSeq(v, n + 1, j1))
    BY <2>1, NoPlacesLeft
  <2> QED BY <2>2, <2>3 DEF j1
<1>8. d \in Seq(A)
  <2>1. j + 2 \in Nat /\ 1 <= j + 2 /\ L <= Len(v)
    BY <1>1, <1>4 DEF L
  <2> QED BY <1>1, <2>1, PartOf
<1>9. SubSeq(v, j, j + 1) = Braces
  <2> DEFINE two == SubSeq(v, j, j + 1)
  <2>1. j + 1 \in Nat /\ j + 1 <= Len(v) /\ (IF j <= j + 1 THEN (j + 1) - j + 1 ELSE 0) = 2 /\ (j + 1) - j + 1 = 2
    BY <1>4 DEF L
  <2>2. /\ two \in Seq(A) /\ Len(two) = (IF j <= j + 1 THEN (j + 1) - j + 1 ELSE 0)
        /\ \A i \in 1..((j + 1) - j + 1) : two[i] = v[j + i - 1]
    <3> DEFINE j1 == j + 1
    <3>1. j \in Nat /\ j1 \in Nat /\ 1 <= j /\ j1 <= Len(v)
      BY <1>4, <2>1
    <3> HIDE DEF j1
    <3>2. /\ SubSeq(v, j, j1) \in Seq(A) /\ Len(SubSeq(v, j, j1)) = (IF j <= j1 THEN j1 - j + 1 ELSE 0)
          /\ \A i \in 1..(j1 - j + 1) : SubSeq(v, j, j1)[i] = v[j + i - 1]
      BY ONLY <1>1, <3>1, PartOf
    <3> QED BY <3>2 DEF j1
  <2> HIDE DEF two
  <2>3. Len(two) = 2
    BY <2>1, <2>2
  <2>4. two[1] = v[j] /\ two[2] = v[j + 1]
    <3>1. \A i \in 1..2 : two[i] = v[j + i - 1]
      BY <2>1, <2>2
    <3>2. 1 \in 1..2 /\ 2 \in 1..2 /\ j + 1 - 1 = j /\ j + 2 - 1 = j + 1
      BY <1>4
    <3> QED BY <3>1, <3>2
  <2>5. Braces \in Seq(A) /\ Len(Braces) = 2 /\ Braces[1] = LeftBrace /\ Braces[2] = RightBrace
    <3>1. Seq(Chars) \subseteq Seq(A)
      BY SeqMonotonic DEF A
    <3> QED BY <3>1, BracesIs
  <2>6. \A i \in 1..Len(two) : two[i] = Braces[i]
    BY <1>3, <2>3, <2>4, <2>5
  <2>7. Len(two) = Len(Braces)
    BY <2>3, <2>5
  <2>8. two = Braces
    BY ONLY <2>2, <2>5, <2>6, <2>7, SeqEqual
  <2> QED BY <2>8 DEF two
<1>10. SubSeq(v, n + 1, L) = c \o (Braces \o d)
  <2>1. c \o SubSeq(v, j, L) = SubSeq(v, n + 1, L)
    <3> DEFINE a == n + 1
               b == j - 1
    <3>1. a \in 1..(Len(v) + 1) /\ b \in (a - 1)..Len(v) /\ L \in b..Len(v) /\ b + 1 = j
      BY <1>1, <1>4 DEF L
    <3> HIDE DEF a, b
    <3>2. SubSeq(v, a, b) \o SubSeq(v, b + 1, L) = SubSeq(v, a, L)
      BY ONLY <1>1, <3>1, ConcatAdjacentSubSeq
    <3> QED BY <3>1, <3>2 DEF a, b
  <2>2. Braces \o d = SubSeq(v, j, L)
    <3> DEFINE b == j + 1
    <3>1. j \in 1..(Len(v) + 1) /\ b \in (j - 1)..Len(v) /\ L \in b..Len(v) /\ b + 1 = j + 2
      BY <1>1, <1>4 DEF L
    <3> HIDE DEF b
    <3>2. SubSeq(v, j, b) \o SubSeq(v, b + 1, L) = SubSeq(v, j, L)
      BY ONLY <1>1, <3>1, ConcatAdjacentSubSeq
    <3> QED BY <1>9, <3>1, <3>2 DEF b
  <2> QED BY <2>1, <2>2
<1>11. (SubSeq(v, 1, n) \o c) \o Braces = SubSeq(v, 1, j + 1)
  <2>1. SubSeq(v, 1, n) \o c = SubSeq(v, 1, j - 1)
    <3> DEFINE b == j - 1
    <3>1. 1 \in 1..(Len(v) + 1) /\ n \in (1 - 1)..Len(v) /\ b \in n..Len(v)
      BY <1>1, <1>4 DEF L
    <3> HIDE DEF b
    <3>2. SubSeq(v, 1, n) \o SubSeq(v, n + 1, b) = SubSeq(v, 1, b)
      BY ONLY <1>1, <3>1, ConcatAdjacentSubSeq
    <3> QED BY <3>2 DEF b
  <2>2. SubSeq(v, 1, j - 1) \o Braces = SubSeq(v, 1, j + 1)
    <3> DEFINE b == j - 1
               b2 == j + 1
    <3>1. 1 \in 1..(Len(v) + 1) /\ b \in (1 - 1)..Len(v) /\ b2 \in b..Len(v) /\ b + 1 = j
      BY <1>1, <1>4 DEF L
    <3> HIDE DEF b, b2
    <3>2. SubSeq(v, 1, b) \o SubSeq(v, b + 1, b2) = SubSeq(v, 1, b2)
      BY ONLY <1>1, <3>1, ConcatAdjacentSubSeq
    <3> QED BY <1>9, <3>1, <3>2 DEF b, b2
  <2> QED BY <2>1, <2>2
<1> HIDE DEF c, d
<1>12. d \in Text
  BY <1>8 DEF Text, A
<1> QED BY <1>2, <1>4, <1>5, <1>6, <1>7, <1>10, <1>11, <1>12 DEF c, d, L

LEMMA PlainClosed ==
  ASSUME NEW c \in Seq(Plain) PROVE c \in Seq(Chars) /\ c \in Text /\ Closed(c)
<1>1. Plain \subseteq Chars /\ Plain \subseteq Chars \cup {newline}
  BY DEF Plain, Chars
<1>2. c \in Seq(Chars) /\ c \in Text
  BY <1>1, SeqMonotonic DEF Text
<1>3. Len(c) \in Nat /\ \A i \in 1..Len(c) : c[i] \in Plain
  BY ElementOfSeq, LenProperties
<1>4. LeftBrace \notin Plain
  BY BracesAre DEF Plain
<1>5. \A i \in 1..Len(c) : c[i] # LeftBrace
  BY <1>3, <1>4
<1>6. NoPlaceholder(c)
  <2>1. \A i \in 1..(Len(c) - 1) : i \in 1..Len(c)
    BY <1>3
  <2> QED BY <1>5, <2>1 DEF NoPlaceholder
<1>7. ~EndsOpen(c)
  <2>1. Len(c) > 0 => Len(c) \in 1..Len(c)
    BY <1>3
  <2> QED BY <1>5, <2>1 DEF EndsOpen
<1> QED BY <1>2, <1>6, <1>7 DEF Closed

LEMMA WriteOne ==
  ASSUME NEW r \in Reading, Clean(r.stepValue), NEW k \in Nat, k < Len(r.args),
         Fits(r.args[k + 1]), Placeholders(r.args[k + 1].text) = {},
         NEW w, NEW o \in Seq(Chars), NEW n \in 0..Len(r.stepValue), Written(r, k, w, o, n)
  PROVE  \E o2 \in Seq(Chars) : \E n2 \in 0..Len(r.stepValue) : Written(r, k + 1, Replaced(w, r.args[k + 1]), o2, n2)
<1> DEFINE v == r.stepValue
           args == r.args
           arg == args[k + 1]
           p == processStepText(o)
<1>1. /\ w = o \o SubSeq(v, n + 1, Len(v))
      /\ n \notin Placeholders(v) /\ Cardinality(PlacesAfter(v, n)) = Len(args) - k
      /\ Closed(o)
      /\ ~p.reserved /\ p.state = {"default"} /\ p.argText = <<>>
      /\ p.stepValue = SubSeq(v, 1, n) /\ p.args = SubSeq(args, 1, k)
  BY DEF Written
<1>2. v \in Text /\ args \in Seq(Arg) /\ Len(args) \in Nat /\ k + 1 \in 1..Len(args) /\ arg \in Arg
  <2>1. v \in Text /\ args \in Seq(Arg)
    BY ReadingFields
  <2>2. Len(args) \in Nat
    BY <2>1, LenProperties
  <2>3. k + 1 \in 1..Len(args)
    BY <2>2
  <2> QED BY <2>1, <2>2, <2>3, ElementOfSeq
<1>0. n \in 0..Len(v) /\ Clean(v) /\ Fits(arg) /\ Placeholders(arg.text) = {} /\ k < Len(args)
  OBVIOUS
<1> HIDE DEF v, args, p
<1>3. IsFiniteSet(PlacesAfter(v, n)) /\ PlacesAfter(v, n) # {}
  <2>1. IsFiniteSet(PlacesAfter(v, n))
    BY <1>2, PlaceholdersFinite, FS_Subset DEF PlacesAfter
  <2>2. Cardinality({}) = 0
    BY FS_EmptySet
  <2>3. Len(args) - k # 0
    BY <1>0, <1>2
  <2> QED BY <1>1, <2>1, <2>2, <2>3
<1>4. PICK j \in PlacesAfter(v, n) : \E c \in Seq(Plain) : \E d \in Text :
           /\ n < j /\ j + 1 <= Len(v) /\ j + 1 \notin Placeholders(v)
           /\ PlacesAfter(v, j + 1) = PlacesAfter(v, n) \ {j}
           /\ c = SubSeq(v, n + 1, j - 1) /\ ":" \notin ToSet(c)
           /\ d = SubSeq(v, j + 2, Len(v)) /\ SubSeq(v, n + 1, Len(v)) = c \o (Braces \o d)
           /\ (SubSeq(v, 1, n) \o c) \o Braces = SubSeq(v, 1, j + 1)
  BY ONLY <1>0, <1>1, <1>2, <1>3, CutAtPlaceholder
<1>5. PICK c \in Seq(Plain) : \E d \in Text :
           /\ n < j /\ j + 1 <= Len(v) /\ j + 1 \notin Placeholders(v)
           /\ PlacesAfter(v, j + 1) = PlacesAfter(v, n) \ {j}
           /\ c = SubSeq(v, n + 1, j - 1) /\ ":" \notin ToSet(c)
           /\ d = SubSeq(v, j + 2, Len(v)) /\ SubSeq(v, n + 1, Len(v)) = c \o (Braces \o d)
           /\ (SubSeq(v, 1, n) \o c) \o Braces = SubSeq(v, 1, j + 1)
  BY ONLY <1>4
<1>6. PICK d \in Text :
           /\ n < j /\ j + 1 <= Len(v) /\ j + 1 \notin Placeholders(v)
           /\ PlacesAfter(v, j + 1) = PlacesAfter(v, n) \ {j}
           /\ c = SubSeq(v, n + 1, j - 1) /\ ":" \notin ToSet(c)
           /\ d = SubSeq(v, j + 2, Len(v)) /\ SubSeq(v, n + 1, Len(v)) = c \o (Braces \o d)
           /\ (SubSeq(v, 1, n) \o c) \o Braces = SubSeq(v, 1, j + 1)
  BY ONLY <1>5
<1> DEFINE oc == o \o c
           fa == formattedArg(arg)
           o2 == oc \o fa
           n2 == j + 1
           A == Chars \cup {newline}
<1>7. c \in Seq(Chars) /\ c \in Text /\ Closed(c)
  BY PlainClosed
<1>8. fa \in Seq(Chars) /\ Closed(fa)
  BY <1>0, <1>2, FormattedIs, FormattedClosed
<1>9. oc \in Seq(Chars) /\ Closed(oc)
  BY <1>1, <1>7, ConcatProperties, ClosedConcat
<1>10. o2 \in Seq(Chars) /\ Closed(o2)
  <2> HIDE DEF oc, fa
  <2> QED BY <1>8, <1>9, ConcatProperties, ClosedConcat
<1>11. Seq(Chars) \subseteq Text /\ Text = Seq(A)
  BY SeqMonotonic DEF Text
<1>12. w = oc \o (Braces \o d)
  <2> DEFINE t == Braces \o d
  <2>1. Braces \in Seq(A) /\ d \in Seq(A) /\ o \in Seq(A) /\ c \in Seq(A)
    BY <1>7, <1>11, BracesIs
  <2> HIDE DEF A
  <2>2. t \in Seq(A)
    BY <2>1, ConcatProperties
  <2> HIDE DEF t
  <2>3. o \o (c \o t) = (o \o c) \o t
    BY ONLY <2>1, <2>2, ConcatAssociative, SMTT(30)
  <2> QED BY <1>1, <1>6, <2>3 DEF t
<1>13. Replaced(w, arg) = o2 \o SubSeq(v, n2 + 1, Len(v))
  <2>1. oc \in Text
    BY <1>9, <1>11
  <2> HIDE DEF oc, arg
  <2>2. Replaced(oc \o (Braces \o d), arg) = oc \o formattedArg(arg) \o d
    BY <1>9, <2>1, ReplacedIs
  <2>3. n2 + 1 = j + 2
    <3>1. j \in Nat
      BY <1>2, PlaceholdersFinite DEF PlacesAfter
    <3> QED BY <3>1
  <2> QED BY <1>6, <1>12, <2>2, <2>3
<1>14. /\ j \in Nat /\ n2 \in 0..Len(v) /\ n2 \notin Placeholders(v)
       /\ Cardinality(PlacesAfter(v, n2)) = Len(args) - (k + 1)
  <2>1. j \in Nat /\ Len(v) \in Nat
    BY <1>2, PlaceholdersFinite DEF PlacesAfter
  <2>2. n2 \in 0..Len(v)
    <3>1. j + 1 <= Len(v)
      BY <1>6
    <3> QED BY ONLY <2>1, <3>1
  <2>3. Cardinality(PlacesAfter(v, n) \ {j}) = Cardinality(PlacesAfter(v, n)) - 1
    BY <1>3, FS_RemoveElement
  <2>4. Len(args) - k - 1 = Len(args) - (k + 1)
    BY <1>2
  <2>5. Cardinality(PlacesAfter(v, n)) - 1 = Len(args) - (k + 1)
    BY <1>1, <1>2
  <2> QED BY <1>6, <2>1, <2>2, <2>3, <2>5
<1> DEFINE p1 == processStepText(oc)
           p2 == processStepText(o2)
<1>15. /\ p1 \in Reading /\ ~p1.reserved /\ p1.state = {"default"} /\ p1.argText = <<>>
       /\ p1.stepValue = SubSeq(v, 1, n) \o c /\ p1.args = SubSeq(args, 1, k)
  <2>1. ReadsPlain(o, c)
    <3>1. ~processStepText(o).reserved /\ processStepText(o).state \in {{"default"}, {"default", "special"}}
      BY <1>1 DEF p
    <3> QED BY <3>1, PlainRead
  <2>2. /\ p1 \in Reading /\ ~p1.reserved
        /\ ":" \notin ToSet(c) => p1.state = p.state
        /\ p1.stepValue = p.stepValue \o c /\ p1.argText = p.argText /\ p1.args = p.args
    BY <2>1 DEF ReadsPlain, p
  <2> HIDE DEF p1
  <2> QED BY <1>1, <1>6, <2>2
<1>16. /\ ~p2.reserved /\ p2.state = {"default"} /\ p2.argText = <<>>
       /\ p2.stepValue = p1.stepValue \o Braces /\ p2.args = Append(p1.args, arg)
  <2>1. Ready(oc)
    BY <1>15 DEF Ready
  <2> HIDE DEF oc, arg
  <2>2. ReadsParameter(oc, arg)
    BY <1>0, <1>2, <1>9, <2>1, ParameterRead
  <2> QED BY <2>2 DEF ReadsParameter
<1>17. p2.stepValue = SubSeq(v, 1, n2)
  <2> HIDE DEF p1, p2
  <2> QED BY <1>6, <1>15, <1>16
<1>18. p2.args = SubSeq(args, 1, k + 1)
  <2> DEFINE k1 == k + 1
             front == SubSeq(args, 1, k)
  <2>1. 1 \in 1..Len(args) /\ k1 \in 1..Len(args) /\ k1 - 1 = k
    BY <1>2
  <2>2. front \in Seq(Arg)
    <3>1. 1 \in Nat /\ 1 <= 1 /\ k <= Len(args)
      BY <1>0, <1>2
    <3> QED BY <1>2, <3>1, PartOf
  <2> HIDE DEF k1
  <2>3. SubSeq(args, 1, k1) = SubSeq(args, 1, k1 - 1) \o <<args[k1]>>
    BY <1>2, <2>1, SubSeqRecursiveSecond
  <2> HIDE DEF front
  <2>4. Append(front, arg) = front \o <<arg>>
    BY <1>2, <2>2, AppendIsConcat
  <2> HIDE DEF p1, p2
  <2> QED BY <1>15, <1>16, <2>1, <2>3, <2>4 DEF front, k1
<1> HIDE DEF p1, p2, o2, n2, arg
<1>19. Written(r, k + 1, Replaced(w, arg), o2, n2)
  BY <1>10, <1>13, <1>14, <1>16, <1>17, <1>18 DEF Written, v, args, p2
<1> QED BY <1>10, <1>14, <1>19 DEF v, args, arg

\* Accepted is what a text leads to that has only plain characters after its last parameter.
LEMMA WriteEnd ==
  ASSUME NEW r \in Reading, Clean(r.stepValue),
         NEW w, NEW o \in Seq(Chars), NEW n \in 0..Len(r.stepValue), Written(r, Len(r.args), w, o, n)
  PROVE  /\ Accepted(processStepText(w)) /\ processStepText(w).stepValue = r.stepValue
         /\ processStepText(w).args = r.args
<1> DEFINE v == r.stepValue
           args == r.args
           p == processStepText(o)
           q == processStepText(w)
           c == SubSeq(v, n + 1, Len(v))
<1>1. v \in Text /\ args \in Seq(Arg) /\ Len(args) \in Nat
  <2>1. v \in Text /\ args \in Seq(Arg)
    BY ReadingFields
  <2> QED BY <2>1, LenProperties
<1>2. /\ w = o \o c /\ n \notin Placeholders(v) /\ Cardinality(PlacesAfter(v, n)) = Len(args) - Len(args)
      /\ ~p.reserved /\ p.state = {"default"} /\ p.argText = <<>>
      /\ p.stepValue = SubSeq(v, 1, n) /\ p.args = SubSeq(args, 1, Len(args))
  BY DEF Written
<1>0. n \in 0..Len(v) /\ Clean(v)
  OBVIOUS
<1> HIDE DEF v, args
<1>3. PlacesAfter(v, n) = {}
  <2>1. IsFiniteSet(PlacesAfter(v, n))
    BY <1>1, PlaceholdersFinite, FS_Subset DEF PlacesAfter
  <2>2. Cardinality(PlacesAfter(v, n)) = 0
    BY <1>1, <1>2
  <2> QED BY <2>1, <2>2, FS_EmptySet
<1>4. c \in Seq(Plain)
  <2> DEFINE L == Len(v)
  <2>1. L \in Nat /\ n <= L /\ L <= Len(v) /\ \A i \in PlacesAfter(v, n) : L < i
    BY <1>0, <1>1, <1>3, PlaceholdersFinite
  <2> HIDE DEF L
  <2>2. SubSeq(v, n + 1, L) \in Seq(Plain)
    BY ONLY <1>0, <1>1, <1>2, <2>1, NoPlacesLeft
  <2> QED BY <2>2 DEF L
<1> HIDE DEF c
<1>5. ReadsPlain(o, c)
  <2>1. ~processStepText(o).reserved /\ processStepText(o).state \in {{"default"}, {"default", "special"}}
    BY <1>2
  <2> QED BY <1>4, <2>1, PlainRead
<1>6. /\ ~q.reserved /\ q.state \in {{"default"}, {"default", "special"}}
      /\ q.stepValue = p.stepValue \o c /\ q.args = p.args
  BY <1>2, <1>5 DEF ReadsPlain
<1> HIDE DEF p, q
<1>7. Accepted(q)
  BY <1>6 DEF Accepted
<1>8. q.stepValue = v
  <2> DEFINE L == Len(v)
  <2>1. L \in Nat /\ v \in Seq(Chars \cup {newline}) /\ 1 \in 1..(Len(v) + 1) /\ n \in (1 - 1)..Len(v) /\ L \in n..Len(v)
    BY <1>0, <1>1, PlaceholdersFinite DEF Text
  <2> HIDE DEF L
  <2>2. SubSeq(v, 1, n) \o SubSeq(v, n + 1, L) = SubSeq(v, 1, L)
    BY ONLY <2>1, ConcatAdjacentSubSeq
  <2>3. SubSeq(v, 1, Len(v)) = v
    BY <2>1, SubSeqFull
  <2> QED BY <1>2, <1>6, <2>2, <2>3 DEF c, L
<1>9. q.args = args
  BY <1>1, <1>2, <1>6, SubSeqFull
<1> QED BY <1>7, <1>8, <1>9 DEF q, v, args

LEMMA WriteNothing ==
  ASSUME NEW r \in Reading, Cardinality(Placeholders(r.stepValue)) = Len(r.args)
  PROVE  Written(r, 0, r.stepValue, <<>>, 0)
<1> DEFINE v == r.stepValue
           args == r.args
           e == <<>>
<1>1. v \in Text /\ args \in Seq(Arg) /\ Len(args) \in Nat /\ Len(v) \in Nat
  <2>1. v \in Text /\ args \in Seq(Arg)
    BY ReadingFields
  <2> QED BY <2>1, LenProperties DEF Text
<1>2. Cardinality(Placeholders(v)) = Len(args)
  OBVIOUS
<1>3. processStepText(e) = Nothing
  BY ProcessNothing
<1>4. /\ ~Nothing.reserved /\ Nothing.state = {"default"} /\ Nothing.argText = e
      /\ Nothing.stepValue = e /\ Nothing.args = e
  BY DEF Nothing
<1> HIDE DEF v, args
<1>5. SubSeq(v, 1, 0) = e /\ SubSeq(args, 1, 0) = e
  BY <1>1, SubSeqEmpty DEF Text
<1>6. v = e \o SubSeq(v, 0 + 1, Len(v))
  <2>1. v \in Seq(Chars \cup {newline})
    BY <1>1 DEF Text
  <2>2. SubSeq(v, 1, Len(v)) = v /\ 0 + 1 = 1
    BY <2>1, SubSeqFull
  <2>3. e \o v = v
    BY <2>1, ConcatEmptySeq
  <2> QED BY <2>2, <2>3
<1>7. 0 \notin Placeholders(v) /\ PlacesAfter(v, 0) = Placeholders(v)
  <2>1. \A i \in Placeholders(v) : i > 0
    <3>1. \A i \in 1..(Len(v) - 1) : i > 0
      BY <1>1
    <3> QED BY <1>1, <3>1, PlaceholdersFinite
  <2> QED BY <2>1 DEF PlacesAfter
<1>8. Len(args) - 0 = Len(args)
  BY <1>1
<1>9. Closed(e)
  BY DEF Closed, NoPlaceholder, EndsOpen
<1> HIDE DEF e
<1>10. Written(r, 0, v, e, 0)
  BY <1>2, <1>3, <1>4, <1>5, <1>6, <1>7, <1>8, <1>9 DEF Written, v, args
<1> QED BY <1>10 DEF v, e

\* What is written of a clean value is read as the same.
LEMMA WriteAll ==
  ASSUME NEW r \in Reading, Clean(r.stepValue), Cardinality(Placeholders(r.stepValue)) = Len(r.args),
         \A i \in 1..Len(r.args) : Fits(r.args[i]) /\ Placeholders(r.args[i].text) = {}
  PROVE  /\ Accepted(processStepText(formatStep(r))) /\ processStepText(formatStep(r)).stepValue = r.stepValue
         /\ processStepText(formatStep(r)).args = r.args
<1> DEFINE m == Len(r.args)
<1>1. m \in Nat
  <2>1. r.args \in Seq(Arg)
    BY ReadingFields
  <2> QED BY <2>1, LenProperties
<1> HIDE DEF m
<1>2. PICK f : AfterWriting(r, m, f) /\ formatStep(r) = f[m]
  BY <1>1, FormatIs DEF m
<1>3. \A k \in 0..m : f[k] = IF k = 0 THEN r.stepValue ELSE Replaced(f[k - 1], r.args[k])
  BY <1>2 DEF AfterWriting
<1> DEFINE Done(k) == \E o \in Seq(Chars) : \E n \in 0..Len(r.stepValue) : Written(r, k, f[k], o, n)
           T == {k \in 0..m : ~Done(k)}
<1>4. T = {}
  <2> SUFFICES ASSUME T # {} PROVE FALSE
    OBVIOUS
  <2>1. T \in SUBSET Nat
    OBVIOUS
  <2>2. PICK k \in T : \A j \in T : k <= j
    <3> HIDE DEF T
    <3> QED BY <2>1, Smallest
  <2>3. k \in 0..m /\ ~Done(k)
    OBVIOUS
  <2>4. CASE k = 0
    <3>1. f[k] = r.stepValue
      BY <1>3, <2>3, <2>4
    <3>2. Written(r, 0, r.stepValue, <<>>, 0)
      BY WriteNothing
    <3>3. <<>> \in Seq(Chars) /\ 0 \in 0..Len(r.stepValue)
      <4>1. Len(r.stepValue) \in Nat
        BY ReadingFields, LenProperties DEF Text
      <4> QED BY <4>1
    <3> QED BY <2>3, <2>4, <3>1, <3>2, <3>3
  <2>5. CASE k # 0
    <3> DEFINE j == k - 1
    <3>1. j \in Nat /\ j \in 0..m /\ ~(k <= j) /\ j + 1 = k /\ j < m /\ k \in 1..m
      BY <1>1, <2>3, <2>5
    <3>2. f[k] = Replaced(f[j], r.args[k])
      BY <1>3, <2>3, <2>5
    <3>3. Done(j)
      BY <2>2, <3>1
    <3> HIDE DEF j
    <3>4. PICK o \in Seq(Chars) : \E n \in 0..Len(r.stepValue) : Written(r, j, f[j], o, n)
      BY <3>3
    <3>5. PICK n \in 0..Len(r.stepValue) : Written(r, j, f[j], o, n)
      BY <3>4
    <3>6. Fits(r.args[j + 1]) /\ Placeholders(r.args[j + 1].text) = {} /\ j < Len(r.args)
      BY <3>1 DEF m
    <3>7. \E o2 \in Seq(Chars) : \E n2 \in 0..Len(r.stepValue) :
            Written(r, j + 1, Replaced(f[j], r.args[j + 1]), o2, n2)
      BY <3>1, <3>5, <3>6, WriteOne
    <3> QED BY <2>3, <3>1, <3>2, <3>7
  <2> QED BY <2>4, <2>5
<1>5. Done(m)
  <2>1. m \in 0..m
    BY <1>1
  <2> HIDE DEF Done
  <2> QED BY <1>4, <2>1
<1> DEFINE w == f[m]
<1>6. PICK o \in Seq(Chars) : \E n \in 0..Len(r.stepValue) : Written(r, Len(r.args), w, o, n)
  BY <1>5 DEF m
<1>7. PICK n \in 0..Len(r.stepValue) : Written(r, Len(r.args), w, o, n)
  BY <1>6
<1> HIDE DEF w
<1>8. /\ Accepted(processStepText(w)) /\ processStepText(w).stepValue = r.stepValue
      /\ processStepText(w).args = r.args
  BY <1>7, WriteEnd
<1>9. formatStep(r) = w
  BY <1>2 DEF w
<1> QED BY <1>8, <1>9

-----------------------------------------------------------------------------
(* What is true of everything that is read.                                *)

\* The state that an escaped character is read in.
Now(r) == IF r.state = {"escape"} THEN r.lastState ELSE r.state

States == {{"default"}, {"default", "special"}, {"quotes"}, {"quotes", "special"}, {"dynamic"}, {"dynamic", "special"}}

MarkedByColon(r) ==
  /\ {"dynamic", "special"} \subseteq Now(r) => ":" \in ToSet(r.argText)
  /\ \A i \in 1..Len(r.args) : r.args[i].kind = "special" => ":" \in ToSet(r.args[i].text)

ReadInv(r) ==
  /\ r \in Reading /\ Now(r) \in States /\ MarkedByColon(r)
  /\ Len(r.args) <= Cardinality(Placeholders(r.stepValue))

LEMMA MorePlaceholders ==
  ASSUME NEW v \in Text, NEW x \in Letters
  PROVE  /\ Cardinality(Placeholders(v)) \in Nat
         /\ Cardinality(Placeholders(v)) <= Cardinality(Placeholders(Append(v, x)))
<1> DEFINE w == Append(v, x)
<1>1. v \in Seq(Letters) /\ Len(v) \in Nat
  BY LenProperties DEF Text, Letters
<1>2. w \in Seq(Letters) /\ Len(w) = Len(v) + 1 /\ \A i \in 1..Len(v) : w[i] = v[i]
  BY <1>1, AppendProperties
<1> HIDE DEF w
<1>3. w \in Text
  BY <1>2 DEF Text, Letters
<1>4. Placeholders(v) \subseteq Placeholders(w)
  <2> SUFFICES ASSUME NEW i \in Placeholders(v) PROVE i \in Placeholders(w)
    OBVIOUS
  <2>1. i \in 1..(Len(v) - 1) /\ v[i] = LeftBrace /\ v[i + 1] = RightBrace
    BY PlaceholdersAre
  <2>2. i \in 1..Len(v) /\ i + 1 \in 1..Len(v) /\ i \in 1..(Len(w) - 1)
    BY <1>1, <1>2, <2>1
  <2>3. w[i] = LeftBrace /\ w[i + 1] = RightBrace
    BY <1>2, <2>1, <2>2
  <2> QED BY <2>2, <2>3, PlaceholdersAre
<1>5. IsFiniteSet(Placeholders(v)) /\ IsFiniteSet(Placeholders(w))
  BY <1>3, PlaceholdersFinite
<1>6. Cardinality(Placeholders(v)) <= Cardinality(Placeholders(w))
  BY <1>4, <1>5, FS_Subset
<1> QED BY <1>5, <1>6, FS_CardinalityType DEF w

LEMMA OneMorePlaceholder ==
  ASSUME NEW v \in Text
  PROVE  /\ Cardinality(Placeholders(v)) \in Nat /\ Cardinality(Placeholders(v \o Braces)) \in Nat
         /\ Cardinality(Placeholders(v)) + 1 <= Cardinality(Placeholders(v \o Braces))
<1> DEFINE w == v \o Braces
           n == Len(v)
           P == Placeholders(v)
           Q == Placeholders(w)
<1>1. v \in Seq(Letters) /\ n \in Nat /\ Braces \in Seq(Letters)
  <2>1. Chars \subseteq Letters
    BY DEF Letters
  <2> QED BY <2>1, SeqMonotonic, BracesIs, LenProperties DEF Text, Letters
<1>2. w \in Seq(Letters) /\ Len(w) = n + Len(Braces)
        /\ \A i \in 1..(n + Len(Braces)) : w[i] = IF i <= n THEN v[i] ELSE Braces[i - n]
  BY <1>1, ConcatProperties
<1>3. w \in Text
  BY <1>2 DEF Text, Letters
<1>4. P \subseteq 1..(n - 1) /\ IsFiniteSet(P) /\ IsFiniteSet(Q)
  BY <1>3, PlaceholdersFinite
<1>5. \A i \in P : v[i] = LeftBrace /\ v[i + 1] = RightBrace
  BY PlaceholdersAre
<1>6. Q = {i \in 1..(Len(w) - 1) : w[i] = LeftBrace /\ w[i + 1] = RightBrace}
  BY PlaceholdersAre
<1> HIDE DEF w, n, P, Q
<1>7. Len(w) = n + 2 /\ \A i \in 1..(n + 2) : w[i] = IF i <= n THEN v[i] ELSE Braces[i - n]
  BY <1>2, BracesIs
<1>8. P \subseteq Q
  <2> SUFFICES ASSUME NEW i \in P PROVE i \in Q
    OBVIOUS
  <2>1. i \in 1..(n - 1)
    BY <1>4
  <2>2. i <= n /\ i + 1 <= n /\ i \in 1..(n + 2) /\ i + 1 \in 1..(n + 2) /\ i \in 1..((n + 2) - 1)
    BY <1>1, <2>1
  <2>3. w[i] = v[i] /\ w[i + 1] = v[i + 1]
    BY <1>7, <2>2
  <2> QED BY <1>5, <1>6, <1>7, <2>2, <2>3
<1>9. n + 1 \in Q /\ n + 1 \notin P
  <2>1. n + 1 \in 1..(n + 2) /\ (n + 1) + 1 \in 1..(n + 2) /\ ~(n + 1 <= n) /\ ~((n + 1) + 1 <= n)
          /\ (n + 1) - n = 1 /\ ((n + 1) + 1) - n = 2 /\ n + 1 \in 1..((n + 2) - 1) /\ n + 1 \notin 1..(n - 1)
    BY <1>1
  <2>2. w[n + 1] = LeftBrace /\ w[(n + 1) + 1] = RightBrace
    BY <1>7, <2>1, BracesIs
  <2> QED BY <1>4, <1>6, <1>7, <2>1, <2>2
<1>10. Cardinality(P \cup {n + 1}) = Cardinality(P) + 1
  BY <1>4, <1>9, FS_AddElement
<1>11. Cardinality(P \cup {n + 1}) <= Cardinality(Q)
  <2>1. P \cup {n + 1} \in SUBSET Q
    BY <1>8, <1>9
  <2> QED BY <1>4, <2>1, FS_Subset
<1>12. Cardinality(P) \in Nat /\ Cardinality(Q) \in Nat
  BY <1>4, FS_CardinalityType
<1>13. Cardinality(P) + 1 <= Cardinality(Q)
  BY <1>10, <1>11
<1> QED BY <1>12, <1>13 DEF P, Q, w

\* A character that is written keeps the invariant.
LEMMA WrittenKeeps ==
  ASSUME NEW r \in Reading, r.state \in States, NEW x \in Letters,
         {"dynamic", "special"} \subseteq r.state => ":" \in ToSet(r.argText) \/ x = ":",
         \A i \in 1..Len(r.args) : r.args[i].kind = "special" => ":" \in ToSet(r.args[i].text),
         Len(r.args) <= Cardinality(Placeholders(r.stepValue))
  PROVE  ReadInv(WriteRune(r, x))
<1> DEFINE w == WriteRune(r, x)
<1>1. /\ w \in Reading /\ w.state = r.state /\ w.args = r.args
      /\ r.state \cap {"quotes", "dynamic"} # {} => /\ w.argText = Append(r.argText, x)
                                                     /\ w.stepValue = r.stepValue
      /\ r.state \cap {"quotes", "dynamic"} = {} => /\ w.stepValue = Append(r.stepValue, x)
                                                     /\ w.argText = r.argText
  BY WriteRuneDoes DEF Letters
<1> HIDE DEF w
<1>2. Now(w) = r.state
  <2>1. r.state # {"escape"}
    BY DEF States
  <2> QED BY <1>1, <2>1 DEF Now
<1>3. ToSet(Append(r.argText, x)) = ToSet(r.argText) \cup {x}
  <2>1. r.argText \in Seq(Letters)
    BY ReadingFields DEF Text, Letters
  <2> QED BY <2>1, ToSetAppend
<1>4. MarkedByColon(w)
  <2>1. ASSUME {"dynamic", "special"} \subseteq r.state PROVE ":" \in ToSet(w.argText)
    <3>1. r.state \cap {"quotes", "dynamic"} # {}
      BY <2>1
    <3>2. w.argText = Append(r.argText, x)
      BY <1>1, <3>1
    <3> QED BY <1>3, <2>1, <3>2
  <2> QED BY <1>1, <1>2, <2>1 DEF MarkedByColon
<1>5. Len(w.args) <= Cardinality(Placeholders(w.stepValue))
  <2>1. CASE r.state \cap {"quotes", "dynamic"} # {}
    BY <1>1, <2>1
  <2>2. CASE r.state \cap {"quotes", "dynamic"} = {}
    <3> DEFINE a == Cardinality(Placeholders(r.stepValue))
               b == Cardinality(Placeholders(Append(r.stepValue, x)))
               n == Len(r.args)
    <3>1. a \in Nat /\ a <= b
      <4>1. r.stepValue \in Text
        BY ReadingFields
      <4> QED BY <4>1, MorePlaceholders
    <3>2. IsFiniteSet(Placeholders(Append(r.stepValue, x)))
      <4>1. Append(r.stepValue, x) \in Text
        BY ReadingFields, AppendProperties DEF Text, Letters
      <4> QED BY <4>1, PlaceholdersFinite
    <3>3. b \in Nat /\ n \in Nat
      <4>1. r.args \in Seq(Arg)
        BY ReadingFields
      <4> QED BY <3>2, <4>1, FS_CardinalityType, LenProperties
    <3>4. n <= a
      OBVIOUS
    <3> HIDE DEF a, b, n
    <3>5. n <= b
      BY <3>1, <3>3, <3>4
    <3> QED BY <1>1, <2>2, <3>5 DEF n, b
  <2> QED BY <2>1, <2>2
<1>6. ReadInv(w)
  BY <1>1, <1>2, <1>4, <1>5 DEF ReadInv
<1> QED BY <1>6 DEF w

\* A character that is not written as it is.
LEMMA AcceptParamIs ==
  ASSUME NEW r, NEW char \in Chars, "dynamic" \in r.state => "quotes" \notin r.state
  PROVE  \/ char = "<" /\ r.state = {"default"} /\ AcceptParam(r, char) = [r EXCEPT !.state = {"dynamic"}]
         \/ /\ char = ">" /\ "dynamic" \in r.state
            /\ AcceptParam(r, char) = EndParam(r, IF "special" \in r.state THEN "special" ELSE "dynamic")
         \/ char = quotes /\ r.state = {"default"} /\ AcceptParam(r, char) = [r EXCEPT !.state = {"quotes"}]
         \/ char = quotes /\ "quotes" \in r.state /\ AcceptParam(r, char) = EndParam(r, "static")
         \/ r.state = {"default"} /\ AcceptParam(r, char) = [r EXCEPT !.reserved = TRUE]
         \/ AcceptParam(r, char) = WriteRune(r, char)
<1> DEFINE a == [r EXCEPT !.state = {"dynamic"}]
           b == EndParam(r, IF "special" \in r.state THEN "special" ELSE "dynamic")
           c == [r EXCEPT !.state = {"quotes"}]
           d == EndParam(r, "static")
           e == [r EXCEPT !.reserved = TRUE]
           f == WriteRune(r, char)
           braces == {"{", "}"}
<1>1. quotes # "<" /\ quotes # ">" /\ quotes \notin braces /\ "<" \notin braces /\ ">" \notin braces
  BY Zenon DEF quotes
<1>2. AcceptParam(r, char) =
        CASE char = "<" /\ r.state = {"default"} -> a
          [] char = ">" /\ "dynamic" \in r.state -> b
          [] char = quotes /\ r.state = {"default"} -> c
          [] char = quotes /\ "quotes" \in r.state -> d
          [] char \in braces /\ r.state = {"default"} -> e
          [] OTHER -> f
  BY Zenon DEF AcceptParam
<1>3. r.state = {"default"} => "quotes" \notin r.state /\ "dynamic" \notin r.state
  OBVIOUS
<1> HIDE DEF a, b, c, d, e, f, braces
<1>4. CASE char = "<" /\ r.state = {"default"}
  <2>1. AcceptParam(r, char) = a
    BY ONLY <1>1, <1>2, <1>3, <1>4
  <2> QED BY <1>4, <2>1 DEF a
<1>5. CASE char = ">" /\ "dynamic" \in r.state
  <2>1. AcceptParam(r, char) = b
    BY ONLY <1>1, <1>2, <1>3, <1>5
  <2> QED BY <1>5, <2>1 DEF b
<1>6. CASE char = quotes /\ r.state = {"default"}
  <2>1. AcceptParam(r, char) = c
    BY ONLY <1>1, <1>2, <1>3, <1>6
  <2> QED BY <1>6, <2>1 DEF c
<1>7. CASE char = quotes /\ "quotes" \in r.state
  <2>1. AcceptParam(r, char) = d
    BY ONLY <1>1, <1>2, <1>3, <1>7
  <2> QED BY <1>7, <2>1 DEF d
<1>8. CASE char \in braces /\ r.state = {"default"}
  <2>1. AcceptParam(r, char) = e
    BY ONLY <1>1, <1>2, <1>3, <1>8
  <2> QED BY <1>8, <2>1 DEF e
<1>9. CASE /\ ~(char = "<" /\ r.state = {"default"}) /\ ~(char = ">" /\ "dynamic" \in r.state)
           /\ ~(char = quotes /\ r.state = {"default"}) /\ ~(char = quotes /\ "quotes" \in r.state)
           /\ ~(char \in braces /\ r.state = {"default"})
  <2>1. AcceptParam(r, char) = f
    BY ONLY <1>2, <1>9
  <2> QED BY <2>1 DEF f
<1> QED BY <1>4, <1>5, <1>6, <1>7, <1>8, <1>9

\* The end of a parameter keeps the invariant.
LEMMA EndedKeeps ==
  ASSUME NEW r \in Reading, NEW kind \in Kinds, kind = "special" => ":" \in ToSet(r.argText),
         \A i \in 1..Len(r.args) : r.args[i].kind = "special" => ":" \in ToSet(r.args[i].text),
         Len(r.args) <= Cardinality(Placeholders(r.stepValue))
  PROVE  ReadInv(EndParam(r, kind))
<1> DEFINE w == EndParam(r, kind)
           arg == [kind |-> kind, text |-> r.argText]
           n == Len(r.args)
           a == Cardinality(Placeholders(r.stepValue))
           b == Cardinality(Placeholders(r.stepValue \o Braces))
<1>1. /\ w \in Reading /\ w.state = {"default"} /\ w.stepValue = r.stepValue \o Braces
      /\ w.args = Append(r.args, arg)
  BY EndParamDoes
<1>2. r.args \in Seq(Arg) /\ arg \in Arg /\ n \in Nat /\ r.stepValue \in Text
  <2>1. r.args \in Seq(Arg) /\ r.argText \in Text /\ r.stepValue \in Text
    BY ReadingFields
  <2>2. n \in Nat
    BY <2>1, LenProperties
  <2> QED BY <2>1, <2>2 DEF Arg
<1>3. arg.kind = "special" => ":" \in ToSet(arg.text)
  OBVIOUS
<1> HIDE DEF w, arg
<1>4. Len(w.args) = n + 1 /\ w.args[n + 1] = arg /\ \A i \in 1..n : w.args[i] = r.args[i]
  BY <1>1, <1>2, AppendProperties
<1>5. Now(w) = {"default"} /\ Now(w) \in States
  <2>1. {"default"} # {"escape"}
    OBVIOUS
  <2> QED BY <1>1, <2>1 DEF Now, States
<1>6. MarkedByColon(w)
  <2>1. ASSUME NEW i \in 1..Len(w.args), w.args[i].kind = "special" PROVE ":" \in ToSet(w.args[i].text)
    <3>1. i \in 1..n \/ i = n + 1
      BY <1>2, <1>4
    <3>2. CASE i \in 1..n
      BY <1>4, <2>1, <3>2
    <3>3. CASE i = n + 1
      BY <1>3, <1>4, <2>1, <3>3
    <3> QED BY <3>1, <3>2, <3>3
  <2>2. ~({"dynamic", "special"} \subseteq Now(w))
    BY <1>5
  <2> QED BY <2>1, <2>2 DEF MarkedByColon
<1>7. a \in Nat /\ b \in Nat /\ a + 1 <= b
  BY <1>2, OneMorePlaceholder
<1>8. n <= a
  OBVIOUS
<1> HIDE DEF a, b, n
<1>9. n + 1 <= b
  BY <1>2, <1>7, <1>8
<1>10. ReadInv(w)
  BY <1>1, <1>4, <1>5, <1>6, <1>9 DEF ReadInv, b
<1> QED BY <1>10 DEF w

LEMMA ReadStep ==
  ASSUME NEW r, ReadInv(r), NEW char \in Chars PROVE ReadInv(Element(r, char))
<1>1. /\ r \in Reading /\ Now(r) \in States
      /\ {"dynamic", "special"} \subseteq Now(r) => ":" \in ToSet(r.argText)
      /\ \A i \in 1..Len(r.args) : r.args[i].kind = "special" => ":" \in ToSet(r.args[i].text)
      /\ Len(r.args) <= Cardinality(Placeholders(r.stepValue))
  BY DEF ReadInv, MarkedByColon
<1>2. CASE r.reserved
  BY <1>2 DEF Element
<1>3. CASE ~r.reserved /\ r.state = {"escape"}
  <2>1. PICK m \in Reading :
           /\ m.state = r.lastState /\ m.lastState = r.lastState /\ m.stepValue = r.stepValue
           /\ m.argText = r.argText /\ m.args = r.args /\ ~m.reserved
           /\ Unescaped(char) \in Letters /\ Element(r, char) = WriteRune(m, Unescaped(char))
    BY <1>1, <1>3, ElementEscaped DEF Letters
  <2>2. m.state = Now(r)
    BY <1>3, <2>1 DEF Now
  <2> DEFINE x == Unescaped(char)
  <2>3. x \in Letters /\ Element(r, char) = WriteRune(m, x)
    BY <2>1
  <2> HIDE DEF x
  <2>4. /\ m.state \in States
        /\ {"dynamic", "special"} \subseteq m.state => ":" \in ToSet(m.argText) \/ x = ":"
        /\ \A i \in 1..Len(m.args) : m.args[i].kind = "special" => ":" \in ToSet(m.args[i].text)
        /\ Len(m.args) <= Cardinality(Placeholders(m.stepValue))
    BY <1>1, <2>1, <2>2
  <2>5. ReadInv(WriteRune(m, x))
    BY <2>3, <2>4, WrittenKeeps
  <2> QED BY <2>3, <2>5
<1>4. CASE ~r.reserved /\ r.state # {"escape"} /\ char = escape
  <2> DEFINE w == Element(r, escape)
  <2>1. /\ w \in Reading /\ w.state = {"escape"} /\ w.lastState = r.state
        /\ w.stepValue = r.stepValue /\ w.args = r.args /\ w.argText = r.argText
    BY <1>1, <1>4, ElementEscape
  <2> HIDE DEF w
  <2>2. Now(w) = Now(r)
    BY <1>4, <2>1 DEF Now
  <2>3. ReadInv(w)
    BY <1>1, <2>1, <2>2 DEF ReadInv, MarkedByColon
  <2> QED BY <1>4, <2>3 DEF w
<1>5. CASE ~r.reserved /\ r.state # {"escape"} /\ char # escape
  <2> DEFINE m == Marked(r, char)
             w == AcceptParam(m, char)
  <2>1. Element(r, char) = w
    BY <1>1, <1>5, ElementUnescaped
  <2>2. /\ m \in Reading /\ m.state = r.state \cup (IF char = ":" THEN {"special"} ELSE {})
        /\ m.stepValue = r.stepValue /\ m.argText = r.argText /\ m.args = r.args
    BY <1>1, MarkedDoes
  <2>3. Now(r) = r.state
    BY <1>5 DEF Now
  <2> HIDE DEF m
  <2>4. m.state \in States
    <3>1. CASE char = ":"
      <4>1. m.state = r.state \cup {"special"}
        BY <2>2, <3>1
      <4> QED BY <1>1, <2>3, <4>1 DEF States
    <3>2. CASE char # ":"
      BY <1>1, <2>2, <2>3, <3>2
    <3> QED BY <3>1, <3>2
  <2>5. {"dynamic", "special"} \subseteq m.state => ":" \in ToSet(m.argText) \/ char = ":"
    <3>1. CASE char # ":"
      BY <1>1, <2>2, <2>3, <3>1
    <3> QED BY <3>1
  <2>6. /\ \A i \in 1..Len(m.args) : m.args[i].kind = "special" => ":" \in ToSet(m.args[i].text)
        /\ Len(m.args) <= Cardinality(Placeholders(m.stepValue))
    BY <1>1, <2>2
  <2>7. "dynamic" \in m.state => "quotes" \notin m.state
    BY <2>4 DEF States
  <2>8. ReadInv(WriteRune(m, char))
    <3>1. char \in Letters
      BY DEF Letters
    <3> QED BY <2>2, <2>4, <2>5, <2>6, <3>1, WrittenKeeps
  <2>9. ASSUME NEW k \in {"dynamic", "quotes"}, m.state = {"default"} PROVE ReadInv([m EXCEPT !.state = {k}])
    <3> DEFINE u == [m EXCEPT !.state = {k}]
    <3>0. {k} \in SUBSET Modes
      BY DEF Modes
    <3>1. u \in Reading /\ u.state = {k} /\ u.args = m.args /\ u.stepValue = m.stepValue
      BY <2>2, <3>0 DEF Reading
    <3> HIDE DEF u
    <3>2. Now(u) = {k} /\ {k} \in States /\ ~({"dynamic", "special"} \subseteq {k})
      BY <3>1 DEF Now, States
    <3>3. ReadInv(u)
      BY <2>6, <3>1, <3>2 DEF ReadInv, MarkedByColon
    <3> QED BY <3>3 DEF u
  <2>10. ASSUME m.state = {"default"} PROVE ReadInv([m EXCEPT !.reserved = TRUE])
    <3> DEFINE u == [m EXCEPT !.reserved = TRUE]
    <3>1. u \in Reading /\ u.state = m.state /\ u.args = m.args /\ u.stepValue = m.stepValue
      BY <2>2 DEF Reading
    <3> HIDE DEF u
    <3>2. Now(u) = {"default"} /\ Now(u) \in States /\ ~({"dynamic", "special"} \subseteq Now(u))
      BY <2>10, <3>1 DEF Now, States
    <3>3. ReadInv(u)
      BY <2>6, <3>1, <3>2 DEF ReadInv, MarkedByColon
    <3> QED BY <3>3 DEF u
  <2>11. ReadInv(EndParam(m, "static"))
    <3>1. "static" \in Kinds /\ "static" # "special"
      BY DEF Kinds
    <3> QED BY <2>2, <2>6, <3>1, EndedKeeps
  <2>12. ASSUME char = ">", "dynamic" \in m.state
         PROVE  ReadInv(EndParam(m, IF "special" \in m.state THEN "special" ELSE "dynamic"))
    <3> DEFINE kind == IF "special" \in m.state THEN "special" ELSE "dynamic"
    <3>1. kind \in Kinds
      BY DEF Kinds
    <3>2. kind = "special" => ":" \in ToSet(m.argText)
      BY <2>5, <2>12
    <3> HIDE DEF kind
    <3>3. ReadInv(EndParam(m, kind))
      BY <2>2, <2>6, <3>1, <3>2, EndedKeeps
    <3> QED BY <3>3 DEF kind
  <2>13. ReadInv(w)
    BY <2>7, <2>8, <2>9, <2>10, <2>11, <2>12, AcceptParamIs
  <2> QED BY <2>1, <2>13
<1>6. r.reserved \in BOOLEAN
  BY <1>1, ReadingFields
<1> QED BY <1>2, <1>3, <1>4, <1>5, <1>6

LEMMA ReadFirst == ReadInv(Nothing)
<1>1. /\ Nothing \in Reading /\ Nothing.state = {"default"} /\ Nothing.args = <<>> /\ Nothing.stepValue = <<>>
      /\ Nothing.argText = <<>>
  BY NothingRead DEF Nothing
<1>2. Now(Nothing) = {"default"} /\ Now(Nothing) \in States /\ ~({"dynamic", "special"} \subseteq Now(Nothing))
  BY <1>1 DEF Now, States
<1>3. Len(Nothing.args) = 0
  BY <1>1
<1>4. Cardinality(Placeholders(Nothing.stepValue)) \in Nat
  <2>1. Nothing.stepValue \in Text
    BY <1>1 DEF Text
  <2> QED BY <2>1, PlaceholdersFinite, FS_CardinalityType
<1>5. MarkedByColon(Nothing)
  <2>1. \A i \in 1..Len(Nothing.args) : FALSE
    BY <1>3
  <2> QED BY <1>2, <2>1 DEF MarkedByColon
<1> QED BY <1>1, <1>2, <1>3, <1>4, <1>5 DEF ReadInv

\* By counting: as many characters as could be taken for one belong to a placeholder.
LEMMA WritableIsClean ==
  ASSUME NEW r, ReadInv(r), Writable(r)
  PROVE  /\ Clean(r.stepValue) /\ Cardinality(Placeholders(r.stepValue)) = Len(r.args)
         /\ \A i \in 1..Len(r.args) : Fits(r.args[i]) /\ Placeholders(r.args[i].text) = {}
<1> DEFINE v == r.stepValue
           n == Len(r.args)
           P == Placeholders(v)
           Q == {i + 1 : i \in P}
           N == {i \in 1..Len(v) : v[i] \notin Plain}
<1>1. r \in Reading /\ v \in Text /\ r.args \in Seq(Arg) /\ n \in Nat /\ DOMAIN r.args = 1..n
        /\ Len(v) \in Nat /\ DOMAIN v = 1..Len(v)
  <2>1. r \in Reading
    BY DEF ReadInv
  <2>2. v \in Text /\ r.args \in Seq(Arg)
    BY <2>1, ReadingFields
  <2> QED BY <2>1, <2>2, LenProperties DEF Text
<1>2. /\ Cardinality({i \in DOMAIN v : v[i] \notin Plain}) = 2 * n
      /\ \A i \in DOMAIN v : v[i] = ":" => \A j \in P : j < i
      /\ \A i \in DOMAIN r.args :
           /\ Placeholders(r.args[i].text) = {}
           /\ r.args[i].kind # "static" => ">" \notin ToSet(r.args[i].text)
           /\ r.args[i].kind = "dynamic" => ":" \notin ToSet(r.args[i].text)
  BY DEF Writable, Plain
<1>3. n <= Cardinality(P) /\ \A i \in 1..n : r.args[i].kind = "special" => ":" \in ToSet(r.args[i].text)
  BY DEF ReadInv, MarkedByColon
<1> HIDE DEF v, n
<1>4. Cardinality(N) = 2 * n
  <2>1. N = {i \in DOMAIN v : v[i] \notin Plain}
    BY <1>1
  <2> QED BY <1>2, <2>1
<1>5. P \subseteq 1..(Len(v) - 1) /\ P \subseteq Nat /\ IsFiniteSet(P)
        /\ \A i \in P : v[i] = LeftBrace /\ v[i + 1] = RightBrace
  BY <1>1, PlaceholdersFinite, PlaceholdersAre
<1> HIDE DEF P
<1>6. IsFiniteSet(Q) /\ Cardinality(Q) = Cardinality(P)
  <2> DEFINE f == [i \in P |-> i + 1]
  <2>1. f \in [P -> Q]
    OBVIOUS
  <2>2. \A x, y \in P : f[x] = f[y] => x = y
    <3> SUFFICES ASSUME NEW x \in P, NEW y \in P, f[x] = f[y] PROVE x = y
      OBVIOUS
    <3>1. x + 1 = y + 1 /\ x \in Nat /\ y \in Nat
      BY <1>5
    <3> QED BY <3>1
  <2>3. \A t \in Q : \E x \in P : f[x] = t
    OBVIOUS
  <2> HIDE DEF f, Q
  <2> QED BY <1>5, <2>1, <2>2, <2>3, OneToOne
<1>7. P \cap Q = {}
  <2> SUFFICES ASSUME NEW i \in P, i \in Q PROVE FALSE
    OBVIOUS
  <2>1. PICK j \in P : i = j + 1
    OBVIOUS
  <2>2. v[i] = LeftBrace /\ v[i] = RightBrace
    BY <1>5, <2>1
  <2> QED BY <2>2, BracesAre
<1>8. P \cup Q \subseteq N
  <2>1. LeftBrace \notin Plain /\ RightBrace \notin Plain
    BY BracesAre DEF Plain
  <2>2. ASSUME NEW i \in P PROVE i \in N /\ i + 1 \in N
    <3>1. i \in 1..Len(v) /\ i + 1 \in 1..Len(v)
      BY <1>1, <1>5
    <3>2. v[i] \notin Plain /\ v[i + 1] \notin Plain
      BY <1>5, <2>1
    <3> QED BY <3>1, <3>2
  <2> QED BY <2>2
<1>9. IsFiniteSet(N)
  <2>1. IsFiniteSet(1..Len(v))
    BY <1>1, FS_Interval
  <2> QED BY <2>1, FS_Subset
<1> HIDE DEF Q, N
<1>10. IsFiniteSet(P \cup Q) /\ Cardinality(P \cup Q) = Cardinality(P) + Cardinality(P)
  <2>1. Cardinality(P \cup Q) = Cardinality(P) + Cardinality(Q) - Cardinality(P \cap Q) /\ IsFiniteSet(P \cup Q)
    BY <1>5, <1>6, FS_Union
  <2>2. Cardinality(P \cap Q) = 0
    BY <1>7, FS_EmptySet
  <2>3. Cardinality(P) \in Nat
    BY <1>5, FS_CardinalityType
  <2> QED BY <1>6, <2>1, <2>2, <2>3
<1>11. Cardinality(P \cup Q) <= Cardinality(N) /\ (Cardinality(N) = Cardinality(P \cup Q) => N = P \cup Q)
  BY <1>8, <1>9, FS_Subset
<1>12. Cardinality(P) \in Nat
  BY <1>5, FS_CardinalityType
<1>13. Cardinality(P) = n /\ Cardinality(N) = Cardinality(P \cup Q)
  BY <1>1, <1>3, <1>4, <1>10, <1>11, <1>12
<1>14. N = P \cup Q
  BY <1>11, <1>13
<1>15. Clean(v)
  <2> SUFFICES ASSUME NEW i \in 1..Len(v)
               PROVE  /\ v[i] \in Plain \/ i \in P \/ i - 1 \in P
                      /\ v[i] = ":" => \A j \in P : j < i
    BY DEF Clean, P
  <2>1. ASSUME v[i] \notin Plain PROVE i \in P \/ i - 1 \in P
    <3>1. i \in P \cup Q
      BY <1>14, <2>1 DEF N
    <3>2. CASE i \in Q
      <4>1. PICK j \in P : i = j + 1
        BY <3>2 DEF Q
      <4>2. i - 1 = j
        BY <1>5, <4>1
      <4> QED BY <4>2
    <3> QED BY <3>1, <3>2
  <2> QED BY <1>1, <1>2, <2>1
<1>16. \A i \in 1..n : Fits(r.args[i]) /\ Placeholders(r.args[i].text) = {}
  BY <1>1, <1>2, <1>3 DEF Fits
<1> QED BY <1>13, <1>15, <1>16 DEF v, n, P

TextInv == ReadInv(read)

\* What a step consists of is read again from what formatStep writes of it: as the same value,
\* with the same parameters.
THEOREM StepKept == TextSpec => []RoundTrip
<1>1. TextInit => TextInv
  BY ReadFirst DEF TextInit, TextInv
<1>2. TextInv /\ [TextNext]_textVars => TextInv'
  <2> SUFFICES ASSUME ReadInv(read), [TextNext]_textVars PROVE ReadInv(read')
    BY DEF TextInv
  <2>1. CASE TextNext
    <3>1. PICK char \in Chars : read' = Element(read, char)
      BY <2>1 DEF TextNext
    <3> QED BY <3>1, ReadStep
  <2>2. CASE UNCHANGED textVars
    BY <2>2 DEF textVars
  <2> QED BY <2>1, <2>2
<1>3. TextInv => RoundTrip
  <2> SUFFICES ASSUME ReadInv(read), Accepted(read), Writable(read)
               PROVE  LET again == processStepText(formatStep(read))
                      IN  /\ Formats(read) /\ Accepted(again) /\ again.stepValue = read.stepValue
                          /\ again.args = read.args
    BY DEF RoundTrip, TextInv
  <2>1. /\ Clean(read.stepValue) /\ Cardinality(Placeholders(read.stepValue)) = Len(read.args)
        /\ \A i \in 1..Len(read.args) : Fits(read.args[i]) /\ Placeholders(read.args[i].text) = {}
    BY WritableIsClean
  <2>2. read \in Reading
    BY DEF ReadInv
  <2>3. /\ Accepted(processStepText(formatStep(read))) /\ processStepText(formatStep(read)).stepValue = read.stepValue
        /\ processStepText(formatStep(read)).args = read.args
    BY <2>1, <2>2, WriteAll
  <2> QED BY <2>1, <2>3 DEF Formats
<1> QED BY <1>1, <1>2, <1>3, PTL DEF TextSpec
=============================================================================

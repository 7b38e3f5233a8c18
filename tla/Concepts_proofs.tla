---------------------------- MODULE Concepts_proofs ----------------------------
(***************************************************************************)
(* Theorems about Concepts, ScenarioItems and Arguments for any names, any *)
(* steps, any number of lines and any nesting: references become their     *)
(* concepts, what is accepted is finite, and a file is parsed into what    *)
(* was written in it; the steps of a scenario are executed one after the   *)
(* other as they are written, and its time is that of the steps; where the *)
(* uses of concepts agree, the steps have the arguments that are written.  *)
(***************************************************************************)
EXTENDS Concepts, ScenarioItems, Arguments, FiniteSetTheorems, SequenceTheorems,
        WellFoundedInduction, TLAPS

Values == Names \cup PlainSteps

\* A concept as it is parsed, and as it is in the dictionary.
Written == [value : Names, steps : Seq(Values)]
Object == [value : Values, into : Nat]
Defined == [value : Names, steps : Seq(Object)]

-----------------------------------------------------------------------------
(* The dictionary.                                                         *)

DictType(dict) ==
  /\ dict.defs \in Seq(Defined)
  /\ dict = [defs |-> dict.defs, conceptsMap |-> dict.conceptsMap,
             constructionMap |-> dict.constructionMap]

\* Every concept is found by its value, and by no other.
ConceptsFound(dict) ==
  /\ \A v \in DOMAIN dict.conceptsMap :
       dict.conceptsMap[v] \in 1..Len(dict.defs) /\ dict.defs[dict.conceptsMap[v]].value = v
  /\ \A d \in 1..Len(dict.defs) :
       /\ dict.defs[d].value \in DOMAIN dict.conceptsMap
       /\ dict.conceptsMap[dict.defs[d].value] = d

\* A place is the heading of a concept or a step in it, where its value is.
IsPlace(dict, v, at) ==
  /\ at = <<at[1], at[2]>> /\ at[1] \in 1..Len(dict.defs)
  /\ \/ at[2] = 0 /\ dict.defs[at[1]].value = v
     \/ /\ at[2] \in 1..Len(dict.defs[at[1]].steps)
        /\ dict.defs[at[1]].steps[at[2]].value = v

\* constructionMap has a place for every value, and no step with it comes before.
FirstPlaces(dict) ==
  /\ \A v \in DOMAIN dict.constructionMap : IsPlace(dict, v, dict.constructionMap[v])
  /\ \A d \in 1..Len(dict.defs) :
       /\ dict.defs[d].value \in DOMAIN dict.constructionMap
       /\ \A i \in 1..Len(dict.defs[d].steps) :
            LET v == dict.defs[d].steps[i].value
            IN  /\ v \in DOMAIN dict.constructionMap
                /\ ~Earlier(<<d, i>>, dict.constructionMap[v])

\* A step expands to the concept with its value, and to no other.
IntoOwn(dict) ==
  \A d \in 1..Len(dict.defs) : \A i \in 1..Len(dict.defs[d].steps) :
    LET step == dict.defs[d].steps[i]
    IN  /\ step.into # 0 => step.into \in 1..Len(dict.defs) /\ dict.defs[step.into].value = step.value
        /\ dict.defs[d].value # step.value

\* A step with the value of an earlier concept, or the first of a later one.
Expanded(dict) ==
  \A e, d \in 1..Len(dict.defs) : \A i \in 1..Len(dict.defs[d].steps) :
    /\ dict.defs[d].steps[i].value = dict.defs[e].value
    /\ d > e \/ dict.constructionMap[dict.defs[e].value] = <<d, i>>
    => dict.defs[d].steps[i].into = e

DictInv(dict) ==
  DictType(dict) /\ ConceptsFound(dict) /\ FirstPlaces(dict) /\ IntoOwn(dict) /\ Expanded(dict)

LEMMA DefinedParts ==
  ASSUME NEW dict, DictType(dict)
  PROVE  /\ Len(dict.defs) \in Nat /\ DOMAIN dict.defs = 1..Len(dict.defs)
         /\ \A d \in 1..Len(dict.defs) :
              /\ dict.defs[d] \in Defined
              /\ dict.defs[d] = [value |-> dict.defs[d].value, steps |-> dict.defs[d].steps]
              /\ dict.defs[d].value \in Names
              /\ Len(dict.defs[d].steps) \in Nat
              /\ DOMAIN dict.defs[d].steps = 1..Len(dict.defs[d].steps)
              /\ \A i \in 1..Len(dict.defs[d].steps) :
                   /\ dict.defs[d].steps[i] \in Object
                   /\ dict.defs[d].steps[i]
                        = [value |-> dict.defs[d].steps[i].value, into |-> dict.defs[d].steps[i].into]
                   /\ dict.defs[d].steps[i].value \in Values
                   /\ dict.defs[d].steps[i].into \in Nat
<1>1. dict.defs \in Seq(Defined)
  BY DEF DictType
<1>2. Len(dict.defs) \in Nat /\ DOMAIN dict.defs = 1..Len(dict.defs)
  BY <1>1
<1>3. \A d \in 1..Len(dict.defs) : dict.defs[d] \in Defined
  BY <1>1, ElementOfSeq
<1>4. ASSUME NEW d \in 1..Len(dict.defs)
      PROVE  /\ dict.defs[d] \in Defined
             /\ dict.defs[d] = [value |-> dict.defs[d].value, steps |-> dict.defs[d].steps]
             /\ dict.defs[d].value \in Names
             /\ dict.defs[d].steps \in Seq(Object)
  BY <1>3 DEF Defined
<1>5. ASSUME NEW d \in 1..Len(dict.defs), NEW i \in 1..Len(dict.defs[d].steps)
      PROVE  /\ dict.defs[d].steps[i] \in Object
             /\ dict.defs[d].steps[i]
                  = [value |-> dict.defs[d].steps[i].value, into |-> dict.defs[d].steps[i].into]
             /\ dict.defs[d].steps[i].value \in Values
             /\ dict.defs[d].steps[i].into \in Nat
  <2>1. dict.defs[d].steps[i] \in Object
    BY <1>4, ElementOfSeq
  <2> QED BY <2>1 DEF Object
<1>6. ASSUME NEW d \in 1..Len(dict.defs)
      PROVE  Len(dict.defs[d].steps) \in Nat /\ DOMAIN dict.defs[d].steps = 1..Len(dict.defs[d].steps)
  BY <1>4, LenProperties
<1> QED BY <1>2, <1>4, <1>5, <1>6

LEMMA WrittenParts ==
  ASSUME NEW c \in Written
  PROVE  /\ c = [value |-> c.value, steps |-> c.steps]
         /\ c.value \in Names
         /\ Len(c.steps) \in Nat /\ DOMAIN c.steps = 1..Len(c.steps)
         /\ \A i \in 1..Len(c.steps) : c.steps[i] \in Values
<1>1. c = [value |-> c.value, steps |-> c.steps] /\ c.value \in Names /\ c.steps \in Seq(Values)
  BY DEF Written
<1> QED BY <1>1, LenProperties, ElementOfSeq

\* A value is in no step yet, or first in one.
FirstInStep(dict, v) ==
  v \in DOMAIN dict.constructionMap =>
    LET at == dict.constructionMap[v]
    IN  at = <<at[1], at[2]>> /\ at[1] \in 1..Len(dict.defs)
        /\ at[2] \in 1..Len(dict.defs[at[1]].steps)

\* The first step with value v becomes concept n, if there is one and it is none yet.
Updated(dict, v, n, result) ==
  /\ result \in Seq(Defined) /\ Len(result) = Len(dict.defs)
  /\ \A d \in 1..Len(dict.defs) :
       /\ result[d].value = dict.defs[d].value
       /\ Len(result[d].steps) = Len(dict.defs[d].steps)
       /\ \A i \in 1..Len(dict.defs[d].steps) :
            /\ result[d].steps[i].value = dict.defs[d].steps[i].value
            /\ result[d].steps[i].into
                 = IF /\ v \in DOMAIN dict.constructionMap
                      /\ dict.constructionMap[v] = <<d, i>>
                      /\ dict.defs[d].steps[i].into = 0 THEN n
                   ELSE dict.defs[d].steps[i].into

LEMMA UpdatedStep ==
  ASSUME NEW dict, DictType(dict), NEW v, NEW n \in Nat, FirstInStep(dict, v)
  PROVE  Updated(dict, v, n, UpdateStep(dict, v, n))
<1> DEFINE defs == dict.defs
<1>0. defs \in Seq(Defined)
  BY DEF DictType
<1>1. CASE v \notin DOMAIN dict.constructionMap
  BY <1>0, <1>1 DEF UpdateStep, Updated
<1>2. CASE v \in DOMAIN dict.constructionMap
  <2> DEFINE at == dict.constructionMap[v]
  <2>1. PICK a \in 1..Len(defs) : at = <<a, at[2]>> /\ at[1] = a /\ at[2] \in 1..Len(defs[a].steps)
    BY <1>2 DEF FirstInStep
  <2>b. PICK b \in 1..Len(defs[a].steps) : at = <<a, b>> /\ at[2] = b
    BY <2>1
  <2> DEFINE old == defs[a].steps[b]
             x == [old EXCEPT !.into = IF @ = 0 THEN n ELSE @]
             steps == [defs[a].steps EXCEPT ![b] = x]
             y == [defs[a] EXCEPT !.steps = steps]
             new == [defs EXCEPT ![a] = y]
  <2>2. UpdateStep(dict, v, n) = new
    BY <1>2, <2>1, <2>b DEF UpdateStep
  <2>3. /\ old \in Object /\ old = [value |-> old.value, into |-> old.into]
        /\ old.value \in Values /\ old.into \in Nat
        /\ defs[a].steps \in Seq(Object) /\ defs[a].value \in Names
        /\ defs[a] = [value |-> defs[a].value, steps |-> defs[a].steps]
    <3>1. defs[a] \in Defined
      BY <1>0, ElementOfSeq
    <3>2. /\ defs[a].steps \in Seq(Object) /\ defs[a].value \in Names
          /\ defs[a] = [value |-> defs[a].value, steps |-> defs[a].steps]
      BY <3>1 DEF Defined
    <3>3. old \in Object
      BY <3>2, ElementOfSeq
    <3> HIDE DEF old
    <3>4. old = [value |-> old.value, into |-> old.into] /\ old.value \in Values /\ old.into \in Nat
      BY <3>3 DEF Object
    <3> QED BY <3>2, <3>3, <3>4
  <2>4. x \in Object /\ x.value = old.value /\ x.into = IF old.into = 0 THEN n ELSE old.into
    <3> HIDE DEF old
    <3> QED BY <2>3 DEF Object
  <2>5. /\ steps \in Seq(Object) /\ Len(steps) = Len(defs[a].steps)
        /\ \A j \in 1..Len(defs[a].steps) : steps[j] = IF j = b THEN x ELSE defs[a].steps[j]
    <3> HIDE DEF x
    <3> QED BY <2>3, <2>4, ExceptSeq
  <2>6. y \in Defined /\ y.value = defs[a].value /\ y.steps = steps
    <3> HIDE DEF steps
    <3> QED BY <2>3, <2>5 DEF Defined
  <2>7. /\ new \in Seq(Defined) /\ Len(new) = Len(defs)
        /\ \A d \in 1..Len(defs) : new[d] = IF d = a THEN y ELSE defs[d]
    <3> HIDE DEF y
    <3> QED BY <1>0, <2>6, ExceptSeq
  <2> HIDE DEF y, steps, x, new
  <2>8. ASSUME NEW d \in 1..Len(defs)
        PROVE  /\ new[d].value = defs[d].value
               /\ Len(new[d].steps) = Len(defs[d].steps)
    BY <2>7, <2>6, <2>5
  <2>9. ASSUME NEW d \in 1..Len(defs), NEW i \in 1..Len(defs[d].steps)
        PROVE  /\ new[d].steps[i].value = defs[d].steps[i].value
               /\ new[d].steps[i].into
                    = IF dict.constructionMap[v] = <<d, i>> /\ defs[d].steps[i].into = 0 THEN n
                      ELSE defs[d].steps[i].into
    <3>1. CASE d = a /\ i = b
      BY <3>1, <2>b, <2>4, <2>5, <2>6, <2>7
    <3>2. CASE d = a /\ i # b
      BY <3>2, <2>b, <2>4, <2>5, <2>6, <2>7
    <3>3. CASE d # a
      BY <3>3, <2>b, <2>7
    <3> QED BY <3>1, <3>2, <3>3
  <2> QED BY <1>2, <2>2, <2>7, <2>8, <2>9 DEF Updated
<1> QED BY <1>1, <1>2

\* Every set of numbers that is not empty has a least one.
LEMMA Smallest ==
  ASSUME NEW T \in SUBSET Nat, T # {}
  PROVE  \E x \in T : \A y \in T : x <= y
<1> DEFINE R == {ss \in Nat \X Nat : ss[1] < ss[2]}
<1>1. IsWellFoundedOn(R, Nat)
  BY NatLessThanWellFounded DEF OpToRel
<1>2. \A x, y \in Nat : y < x => <<y, x>> \in R
  OBVIOUS
<1> HIDE DEF R
<1>3. PICK x \in T : \A y \in T : ~(<<y, x>> \in R)
  BY <1>1, WFMin
<1>4. \A y \in T : x <= y
  <2> SUFFICES ASSUME NEW y \in T PROVE x <= y
    OBVIOUS
  <2>1. <<y, x>> \notin R
    BY <1>3
  <2>2. ~(y < x)
    BY <2>1, <1>2
  <2> QED BY <2>2
<1> QED BY <1>4

\* A value that is new is first found at the heading, or at a step with it.
LEMMA PlaceIs ==
  ASSUME NEW c \in Written, NEW v, v = c.value \/ \E i \in 1..Len(c.steps) : c.steps[i] = v
  PROVE  /\ v = c.value => Place(c, v) = 0
         /\ v # c.value => /\ Place(c, v) \in 1..Len(c.steps) /\ c.steps[Place(c, v)] = v
                           /\ \A i \in 1..Len(c.steps) : c.steps[i] = v => Place(c, v) <= i
<1>1. CASE v = c.value
  BY <1>1 DEF Place
<1>2. CASE v # c.value
  <2> DEFINE T == {i \in DOMAIN c.steps : c.steps[i] = v}
  <2>1. T \in SUBSET Nat /\ T # {} /\ DOMAIN c.steps = 1..Len(c.steps)
    BY <1>2, WrittenParts
  <2>2. Place(c, v) = Min(T)
    BY <1>2 DEF Place
  <2>3. \A i : i \in T <=> i \in 1..Len(c.steps) /\ c.steps[i] = v
    BY <2>1
  <2> HIDE DEF T
  <2>4. \E x \in T : \A y \in T : x <= y
    BY <2>1, Smallest
  <2>5. Min(T) \in T /\ \A y \in T : Min(T) <= y
    BY <2>4 DEF Min
  <2> QED BY <1>2, <2>2, <2>3, <2>5
<1> QED BY <1>1, <1>2

\* What a dictionary of n concepts is when concept c has been added.
Added(dict, c, n, new) ==
  /\ DictType(new) /\ Len(new.defs) = n + 1
  /\ \A d \in 1..n :
       /\ new.defs[d].value = dict.defs[d].value
       /\ Len(new.defs[d].steps) = Len(dict.defs[d].steps)
       /\ \A i \in 1..Len(dict.defs[d].steps) :
            /\ new.defs[d].steps[i].value = dict.defs[d].steps[i].value
            /\ new.defs[d].steps[i].into
                 = IF /\ c.value \in DOMAIN dict.constructionMap
                      /\ dict.constructionMap[c.value] = <<d, i>>
                      /\ dict.defs[d].steps[i].into = 0 THEN n + 1
                   ELSE dict.defs[d].steps[i].into
  /\ new.defs[n + 1].value = c.value
  /\ Len(new.defs[n + 1].steps) = Len(c.steps)
  /\ \A i \in 1..Len(c.steps) :
       /\ new.defs[n + 1].steps[i].value = c.steps[i]
       /\ new.defs[n + 1].steps[i].into
            = IF Defines(dict, c.steps[i]) THEN dict.conceptsMap[c.steps[i]] ELSE 0
  /\ DOMAIN new.conceptsMap = DOMAIN dict.conceptsMap \cup {c.value}
  /\ \A v \in DOMAIN new.conceptsMap :
       new.conceptsMap[v] = IF v = c.value THEN n + 1 ELSE dict.conceptsMap[v]
  /\ DOMAIN new.constructionMap
       = DOMAIN dict.constructionMap \cup {c.value}
         \cup {c.steps[i] : i \in {j \in 1..Len(c.steps) : ~Defines(dict, c.steps[j])}}
  /\ \A v \in DOMAIN new.constructionMap :
       new.constructionMap[v] = IF v \in DOMAIN dict.constructionMap
                                THEN dict.constructionMap[v] ELSE <<n + 1, Place(c, v)>>

LEMMA Replaced ==
  ASSUME NEW dict, DictInv(dict), NEW c \in Written, ~Defines(dict, c.value),
         NEW n, n = Len(dict.defs), NEW new, new = ReplaceNestedConceptSteps(dict, c)
  PROVE  Added(dict, c, n, new)
<1>0. /\ n \in Nat /\ c.value \in Names /\ Len(c.steps) \in Nat /\ DOMAIN c.steps = 1..Len(c.steps)
      /\ \A i \in 1..Len(c.steps) : c.steps[i] \in Values
      /\ DictType(dict)
  BY DefinedParts, WrittenParts DEF DictInv
<1> DEFINE plain == {i \in DOMAIN c.steps : ~Defines(dict, c.steps[i])}
           seen == DOMAIN dict.constructionMap
           steps == [i \in DOMAIN c.steps |->
                      [value |-> c.steps[i],
                       into |-> IF i \in plain THEN 0 ELSE dict.conceptsMap[c.steps[i]]]]
           def == [value |-> c.value, steps |-> steps]
           old == UpdateStep(dict, c.value, n + 1)
           map1 == [v \in DOMAIN dict.conceptsMap \cup {c.value} |->
                      IF v = c.value THEN n + 1 ELSE dict.conceptsMap[v]]
           map2 == [v \in seen \cup {c.value} \cup {c.steps[i] : i \in plain} |->
                      IF v \in seen THEN dict.constructionMap[v] ELSE <<n + 1, Place(c, v)>>]
<1>1. new = [defs |-> Append(old, def), conceptsMap |-> map1, constructionMap |-> map2]
  <2>1. new = [dict EXCEPT !.defs = Append(old, def), !.conceptsMap = map1, !.constructionMap = map2]
    BY DEF ReplaceNestedConceptSteps
  <2>2. dict = [defs |-> dict.defs, conceptsMap |-> dict.conceptsMap,
                constructionMap |-> dict.constructionMap]
    BY <1>0 DEF DictType
  <2> HIDE DEF old, def, map1, map2
  <2> QED BY <2>1, <2>2
<1>2. \A i \in 1..Len(c.steps) :
        /\ i \in plain <=> ~Defines(dict, c.steps[i])
        /\ Defines(dict, c.steps[i]) => dict.conceptsMap[c.steps[i]] \in Nat
  BY <1>0 DEF DictInv, ConceptsFound, Defines
<1>3. /\ steps \in Seq(Object) /\ Len(steps) = Len(c.steps)
      /\ \A i \in 1..Len(c.steps) :
           /\ steps[i].value = c.steps[i]
           /\ steps[i].into = IF Defines(dict, c.steps[i]) THEN dict.conceptsMap[c.steps[i]] ELSE 0
  <2> HIDE DEF plain
  <2>1. ASSUME NEW i \in 1..Len(c.steps)
        PROVE  /\ steps[i] \in Object /\ steps[i].value = c.steps[i]
               /\ steps[i].into = IF Defines(dict, c.steps[i]) THEN dict.conceptsMap[c.steps[i]] ELSE 0
    BY <1>0, <1>2 DEF Object
  <2>2. DOMAIN steps = 1..Len(c.steps) /\ steps = [i \in 1..Len(c.steps) |-> steps[i]]
    BY <1>0
  <2> HIDE DEF steps
  <2>3. steps \in [1..Len(c.steps) -> Object]
    BY <2>1, <2>2
  <2>4. steps \in Seq(Object)
    BY <2>3, <1>0
  <2>5. Len(steps) = Len(c.steps)
    BY <2>4, <2>2, <1>0
  <2> QED BY <2>1, <2>4, <2>5
<1>4. def \in Defined /\ def.value = c.value /\ def.steps = steps
  <2> HIDE DEF steps
  <2> QED BY <1>0, <1>3 DEF Defined
<1>5. FirstInStep(dict, c.value)
  <2> SUFFICES ASSUME NEW at, c.value \in seen, at = dict.constructionMap[c.value]
               PROVE  at = <<at[1], at[2]>> /\ at[1] \in 1..Len(dict.defs)
                      /\ at[2] \in 1..Len(dict.defs[at[1]].steps)
    BY DEF FirstInStep
  <2>1. IsPlace(dict, c.value, at)
    BY DEF DictInv, FirstPlaces
  <2>2. \A d \in 1..Len(dict.defs) : dict.defs[d].value # c.value
    BY DEF DictInv, ConceptsFound, Defines
  <2> QED BY <2>1, <2>2 DEF IsPlace
<1>6. Updated(dict, c.value, n + 1, old)
  <2>1. n + 1 \in Nat
    BY <1>0
  <2> QED BY <1>0, <1>5, <2>1, UpdatedStep
<1> HIDE DEF old
<1>6a. old \in Seq(Defined) /\ Len(old) = n
  BY <1>6 DEF Updated
<1> HIDE DEF def, steps
<1>7. /\ Append(old, def) \in Seq(Defined) /\ Len(Append(old, def)) = n + 1
      /\ \A d \in 1..n : Append(old, def)[d] = old[d]
      /\ Append(old, def)[n + 1] = def
  BY <1>0, <1>4, <1>6a, AppendProperties
<1>8. new.defs = Append(old, def) /\ new.conceptsMap = map1 /\ new.constructionMap = map2
  BY <1>1
<1>9. DictType(new)
  BY <1>1, <1>7, <1>8 DEF DictType
<1>10. Len(new.defs) = n + 1 /\ new.defs[n + 1] = def /\ \A d \in 1..n : new.defs[d] = old[d]
  BY <1>7, <1>8
<1>11. /\ DOMAIN new.conceptsMap = DOMAIN dict.conceptsMap \cup {c.value}
       /\ \A v \in DOMAIN new.conceptsMap :
            new.conceptsMap[v] = IF v = c.value THEN n + 1 ELSE dict.conceptsMap[v]
  BY <1>8
<1>12. /\ DOMAIN new.constructionMap
            = DOMAIN dict.constructionMap \cup {c.value}
              \cup {c.steps[i] : i \in {j \in 1..Len(c.steps) : ~Defines(dict, c.steps[j])}}
       /\ \A v \in DOMAIN new.constructionMap :
            new.constructionMap[v] = IF v \in DOMAIN dict.constructionMap
                                     THEN dict.constructionMap[v] ELSE <<n + 1, Place(c, v)>>
  <2>1. plain = {j \in 1..Len(c.steps) : ~Defines(dict, c.steps[j])}
    BY <1>0
  <2> HIDE DEF plain
  <2> QED BY <1>8, <2>1
<1>13. \A i \in 1..Len(c.steps) :
         /\ new.defs[n + 1].steps[i].value = c.steps[i]
         /\ new.defs[n + 1].steps[i].into
              = IF Defines(dict, c.steps[i]) THEN dict.conceptsMap[c.steps[i]] ELSE 0
  BY <1>10, <1>4, <1>3
<1>14. new.defs[n + 1].value = c.value /\ Len(new.defs[n + 1].steps) = Len(c.steps)
  BY <1>10, <1>4, <1>3
<1>15. \A d \in 1..n :
         /\ new.defs[d].value = dict.defs[d].value
         /\ Len(new.defs[d].steps) = Len(dict.defs[d].steps)
         /\ \A i \in 1..Len(dict.defs[d].steps) :
              /\ new.defs[d].steps[i].value = dict.defs[d].steps[i].value
              /\ new.defs[d].steps[i].into
                   = IF /\ c.value \in DOMAIN dict.constructionMap
                        /\ dict.constructionMap[c.value] = <<d, i>>
                        /\ dict.defs[d].steps[i].into = 0 THEN n + 1
                     ELSE dict.defs[d].steps[i].into
  <2> SUFFICES ASSUME NEW d \in 1..n
               PROVE  /\ new.defs[d].value = dict.defs[d].value
                      /\ Len(new.defs[d].steps) = Len(dict.defs[d].steps)
                      /\ \A i \in 1..Len(dict.defs[d].steps) :
                           /\ new.defs[d].steps[i].value = dict.defs[d].steps[i].value
                           /\ new.defs[d].steps[i].into
                                = IF /\ c.value \in DOMAIN dict.constructionMap
                                     /\ dict.constructionMap[c.value] = <<d, i>>
                                     /\ dict.defs[d].steps[i].into = 0 THEN n + 1
                                  ELSE dict.defs[d].steps[i].into
    OBVIOUS
  <2>1. new.defs[d] = old[d]
    BY <1>10
  <2>2. d \in 1..Len(dict.defs)
    OBVIOUS
  <2>3. /\ old[d].value = dict.defs[d].value
        /\ Len(old[d].steps) = Len(dict.defs[d].steps)
        /\ \A i \in 1..Len(dict.defs[d].steps) :
             /\ old[d].steps[i].value = dict.defs[d].steps[i].value
             /\ old[d].steps[i].into
                  = IF /\ c.value \in DOMAIN dict.constructionMap
                       /\ dict.constructionMap[c.value] = <<d, i>>
                       /\ dict.defs[d].steps[i].into = 0 THEN n + 1
                    ELSE dict.defs[d].steps[i].into
    BY <1>6, <2>2 DEF Updated
  <2> QED BY <2>1, <2>3, Zenon
<1> QED BY <1>9, <1>10, <1>11, <1>12, <1>13, <1>14, <1>15 DEF Added

\* A concept that is added does not disturb the dictionary.
LEMMA AddedKeepsFound ==
  ASSUME NEW dict, DictInv(dict), NEW c \in Written, ~Defines(dict, c.value),
         NEW n \in Nat, n = Len(dict.defs), NEW new, Added(dict, c, n, new)
  PROVE  ConceptsFound(new)
<1>1. \A v \in DOMAIN dict.conceptsMap :
        dict.conceptsMap[v] \in 1..n /\ dict.defs[dict.conceptsMap[v]].value = v /\ v # c.value
  BY DEF DictInv, ConceptsFound, Defines
<1>2. \A d \in 1..n : /\ dict.defs[d].value \in DOMAIN dict.conceptsMap
                      /\ dict.conceptsMap[dict.defs[d].value] = d
  BY DEF DictInv, ConceptsFound
<1>3. /\ Len(new.defs) = n + 1 /\ new.defs[n + 1].value = c.value
      /\ \A d \in 1..n : new.defs[d].value = dict.defs[d].value
      /\ DOMAIN new.conceptsMap = DOMAIN dict.conceptsMap \cup {c.value}
      /\ \A v \in DOMAIN new.conceptsMap :
           new.conceptsMap[v] = IF v = c.value THEN n + 1 ELSE dict.conceptsMap[v]
  BY DEF Added
<1>4. ASSUME NEW v \in DOMAIN new.conceptsMap
      PROVE  new.conceptsMap[v] \in 1..(n + 1) /\ new.defs[new.conceptsMap[v]].value = v
  <2>1. CASE v = c.value
    BY <2>1, <1>3
  <2>2. CASE v # c.value
    <3>1. v \in DOMAIN dict.conceptsMap /\ new.conceptsMap[v] = dict.conceptsMap[v]
      BY <2>2, <1>3
    <3> QED BY <3>1, <1>1, <1>3
  <2> QED BY <2>1, <2>2
<1>5. ASSUME NEW d \in 1..(n + 1)
      PROVE  new.defs[d].value \in DOMAIN new.conceptsMap /\ new.conceptsMap[new.defs[d].value] = d
  <2>1. CASE d = n + 1
    BY <2>1, <1>3
  <2>2. CASE d \in 1..n
    <3>1. new.defs[d].value = dict.defs[d].value /\ dict.defs[d].value \in DOMAIN dict.conceptsMap
      BY <2>2, <1>2, <1>3
    <3> QED BY <3>1, <2>2, <1>1, <1>2, <1>3
  <2> QED BY <2>1, <2>2
<1> QED BY <1>3, <1>4, <1>5 DEF ConceptsFound

LEMMA AddedKeepsFirst ==
  ASSUME NEW dict, DictInv(dict), NEW c \in Written, ~Defines(dict, c.value),
         \A i \in 1..Len(c.steps) : c.steps[i] # c.value,
         NEW n \in Nat, n = Len(dict.defs), NEW new, Added(dict, c, n, new)
  PROVE  FirstPlaces(new)
<1>1. /\ Len(new.defs) = n + 1 /\ new.defs[n + 1].value = c.value
      /\ Len(new.defs[n + 1].steps) = Len(c.steps)
      /\ \A i \in 1..Len(c.steps) : new.defs[n + 1].steps[i].value = c.steps[i]
      /\ \A d \in 1..n : /\ new.defs[d].value = dict.defs[d].value
                         /\ Len(new.defs[d].steps) = Len(dict.defs[d].steps)
                         /\ \A i \in 1..Len(dict.defs[d].steps) :
                              new.defs[d].steps[i].value = dict.defs[d].steps[i].value
  BY DEF Added
<1> DEFINE seen == DOMAIN dict.constructionMap
           more == {c.steps[i] : i \in {j \in 1..Len(c.steps) : ~Defines(dict, c.steps[j])}}
<1>2. /\ DOMAIN new.constructionMap = seen \cup {c.value} \cup more
      /\ \A v \in DOMAIN new.constructionMap :
           new.constructionMap[v] = IF v \in seen THEN dict.constructionMap[v]
                                    ELSE <<n + 1, Place(c, v)>>
  BY DEF Added
<1>3. \A v \in more : v \in {c.steps[i] : i \in 1..Len(c.steps)} /\ v # c.value
  OBVIOUS
<1>4. \A i \in 1..Len(c.steps) : c.steps[i] \in more \/ Defines(dict, c.steps[i])
  OBVIOUS
<1>5. \A v : Defines(dict, v) => v \in seen
  BY DEF DictInv, ConceptsFound, FirstPlaces, Defines
<1>6. \A v \in seen : IsPlace(dict, v, dict.constructionMap[v])
  BY DEF DictInv, FirstPlaces
<1>7. Len(c.steps) \in Nat /\ \A d \in 1..n : Len(dict.defs[d].steps) \in Nat
  BY WrittenParts, DefinedParts DEF DictInv
<1> HIDE DEF seen, more
<1>8. ASSUME NEW v \in DOMAIN new.constructionMap
      PROVE  IsPlace(new, v, new.constructionMap[v])
  <2>1. CASE v \in seen
    <3>1. PICK at : at = new.constructionMap[v] /\ at = dict.constructionMap[v]
      BY <2>1, <1>2
    <3>2. /\ at = <<at[1], at[2]>> /\ at[1] \in 1..n
          /\ \/ at[2] = 0 /\ dict.defs[at[1]].value = v
             \/ /\ at[2] \in 1..Len(dict.defs[at[1]].steps)
                /\ dict.defs[at[1]].steps[at[2]].value = v
      BY <2>1, <3>1, <1>6 DEF IsPlace
    <3>3. at[1] \in 1..Len(new.defs)
      BY <3>2, <1>1
    <3>4. /\ new.defs[at[1]].value = dict.defs[at[1]].value
          /\ Len(new.defs[at[1]].steps) = Len(dict.defs[at[1]].steps)
          /\ at[2] \in 1..Len(dict.defs[at[1]].steps) =>
               new.defs[at[1]].steps[at[2]].value = dict.defs[at[1]].steps[at[2]].value
      BY <3>2, <1>1
    <3>5. IsPlace(new, v, at)
      BY <3>2, <3>3, <3>4 DEF IsPlace
    <3> QED BY <3>1, <3>5
  <2>2. CASE v \notin seen
    <3>1. new.constructionMap[v] = <<n + 1, Place(c, v)>> /\ (v = c.value \/ v \in more)
      BY <2>2, <1>2
    <3>2. v = c.value \/ \E i \in 1..Len(c.steps) : c.steps[i] = v
      BY <3>1, <1>3
    <3>3. \/ v = c.value /\ Place(c, v) = 0
          \/ v # c.value /\ Place(c, v) \in 1..Len(c.steps) /\ c.steps[Place(c, v)] = v
      BY <3>2, PlaceIs
    <3> QED BY <3>1, <3>3, <1>1 DEF IsPlace
  <2> QED BY <2>1, <2>2
<1>9. ASSUME NEW d \in 1..(n + 1) PROVE new.defs[d].value \in DOMAIN new.constructionMap
  <2>1. CASE d = n + 1
    BY <2>1, <1>1, <1>2
  <2>2. CASE d \in 1..n
    <3>1. new.defs[d].value = dict.defs[d].value
      BY <2>2, <1>1
    <3>2. dict.defs[d].value \in seen
      BY <2>2 DEF seen, DictInv, FirstPlaces
    <3> QED BY <3>1, <3>2, <1>2
  <2> QED BY <2>1, <2>2
<1>10. ASSUME NEW d \in 1..(n + 1), NEW i \in 1..Len(new.defs[d].steps)
       PROVE  /\ new.defs[d].steps[i].value \in DOMAIN new.constructionMap
              /\ ~Earlier(<<d, i>>, new.constructionMap[new.defs[d].steps[i].value])
  <2>1. CASE d \in 1..n
    <3>1. Len(new.defs[d].steps) = Len(dict.defs[d].steps)
      BY <2>1, <1>1
    <3>2. i \in 1..Len(dict.defs[d].steps)
      BY <3>1
    <3>3. new.defs[d].steps[i].value = dict.defs[d].steps[i].value
      BY <2>1, <3>2, <1>1
    <3>4. /\ dict.defs[d].steps[i].value \in seen
          /\ ~Earlier(<<d, i>>, dict.constructionMap[dict.defs[d].steps[i].value])
      BY <2>1, <3>2 DEF seen, DictInv, FirstPlaces
    <3> QED BY <3>3, <3>4, <1>2
  <2>2. CASE d = n + 1
    <3>a. Len(new.defs[d].steps) = Len(c.steps)
      BY <2>2, <1>1
    <3>b. i \in 1..Len(c.steps)
      BY <3>a
    <3>c. new.defs[d].steps[i].value = c.steps[i]
      BY <2>2, <3>b, <1>1
    <3>1. PICK v : v = c.steps[i] /\ v # c.value /\ (v \in more \/ Defines(dict, v))
      BY <3>b, <1>4
    <3>2. v \in DOMAIN new.constructionMap
      BY <3>1, <1>2, <1>5
    <3>3. CASE v \in seen
      <4>1. PICK at : at = new.constructionMap[v] /\ at = dict.constructionMap[v]
        BY <3>2, <3>3, <1>2
      <4>2. at[1] \in 1..n
        BY <3>3, <4>1, <1>6 DEF IsPlace
      <4>3. ~Earlier(<<d, i>>, at)
        BY <4>2, <2>2 DEF Earlier
      <4> QED BY <3>1, <3>c, <3>2, <4>1, <4>3
    <3>4. CASE v \notin seen
      <4>1. new.constructionMap[v] = <<n + 1, Place(c, v)>>
        BY <3>2, <3>4, <1>2
      <4>2. Place(c, v) \in 1..Len(c.steps) /\ Place(c, v) <= i
        BY <3>1, <3>b, PlaceIs
      <4> DEFINE p == Place(c, v)
      <4> HIDE DEF p
      <4>3. ~Earlier(<<d, i>>, <<n + 1, p>>)
        BY <2>2, <4>2, <3>b, <1>7 DEF Earlier, p
      <4> QED BY <3>1, <3>c, <3>2, <4>1, <4>3 DEF p
    <3> QED BY <3>1, <3>c, <3>3, <3>4
  <2> QED BY <2>1, <2>2
<1> QED BY <1>1, <1>8, <1>9, <1>10 DEF FirstPlaces

LEMMA AddedKeepsInto ==
  ASSUME NEW dict, DictInv(dict), NEW c \in Written, ~Defines(dict, c.value),
         \A i \in 1..Len(c.steps) : c.steps[i] # c.value,
         NEW n \in Nat, n = Len(dict.defs), NEW new, Added(dict, c, n, new)
  PROVE  IntoOwn(new) /\ Expanded(new)
<1>1. /\ Len(new.defs) = n + 1 /\ new.defs[n + 1].value = c.value
      /\ Len(new.defs[n + 1].steps) = Len(c.steps)
      /\ \A i \in 1..Len(c.steps) :
           /\ new.defs[n + 1].steps[i].value = c.steps[i]
           /\ new.defs[n + 1].steps[i].into
                = IF Defines(dict, c.steps[i]) THEN dict.conceptsMap[c.steps[i]] ELSE 0
      /\ \A d \in 1..n : /\ new.defs[d].value = dict.defs[d].value
                         /\ Len(new.defs[d].steps) = Len(dict.defs[d].steps)
  BY DEF Added
<1>2. ASSUME NEW d \in 1..n, NEW i \in 1..Len(dict.defs[d].steps)
      PROVE  /\ new.defs[d].steps[i].value = dict.defs[d].steps[i].value
             /\ new.defs[d].steps[i].into
                  = IF /\ c.value \in DOMAIN dict.constructionMap
                       /\ dict.constructionMap[c.value] = <<d, i>>
                       /\ dict.defs[d].steps[i].into = 0 THEN n + 1
                    ELSE dict.defs[d].steps[i].into
  BY DEF Added
<1>3. \A d \in 1..n : dict.defs[d].value # c.value
  BY DEF DictInv, ConceptsFound, Defines
<1>4. ASSUME NEW d \in 1..n, NEW i \in 1..Len(dict.defs[d].steps)
      PROVE  /\ dict.defs[d].steps[i].into # 0 =>
                  /\ dict.defs[d].steps[i].into \in 1..n
                  /\ dict.defs[dict.defs[d].steps[i].into].value = dict.defs[d].steps[i].value
             /\ dict.defs[d].value # dict.defs[d].steps[i].value
             /\ dict.defs[d].steps[i].into \in Nat
  BY DefinedParts DEF DictInv, IntoOwn
<1>5. \A v : Defines(dict, v) => dict.conceptsMap[v] \in 1..n /\ dict.defs[dict.conceptsMap[v]].value = v
  BY DEF DictInv, ConceptsFound, Defines
<1>6. c.value \in DOMAIN dict.constructionMap => IsPlace(dict, c.value, dict.constructionMap[c.value])
  BY DEF DictInv, FirstPlaces
<1>7. Len(c.steps) \in Nat /\ \A d \in 1..n : Len(dict.defs[d].steps) \in Nat
  BY WrittenParts, DefinedParts DEF DictInv
<1>8. \A d \in 1..n : dict.conceptsMap[dict.defs[d].value] = d /\ Defines(dict, dict.defs[d].value)
  BY DEF DictInv, ConceptsFound, Defines
<1>9. ASSUME NEW d \in 1..(n + 1), NEW i \in 1..Len(new.defs[d].steps)
      PROVE  /\ new.defs[d].steps[i].into # 0 =>
                  /\ new.defs[d].steps[i].into \in 1..(n + 1)
                  /\ new.defs[new.defs[d].steps[i].into].value = new.defs[d].steps[i].value
             /\ new.defs[d].value # new.defs[d].steps[i].value
  <2>1. CASE d = n + 1
    <3>1. i \in 1..Len(c.steps)
      BY <2>1, <1>1
    <3>2. new.defs[d].steps[i].value = c.steps[i] /\ new.defs[d].value = c.value
      BY <2>1, <3>1, <1>1
    <3>3. new.defs[d].steps[i].into = IF Defines(dict, c.steps[i]) THEN dict.conceptsMap[c.steps[i]] ELSE 0
      BY <2>1, <3>1, <1>1
    <3>4. CASE Defines(dict, c.steps[i])
      <4>1. PICK x \in 1..n : x = dict.conceptsMap[c.steps[i]] /\ dict.defs[x].value = c.steps[i]
        BY <3>4, <1>5
      <4>2. new.defs[x].value = c.steps[i]
        BY <4>1, <1>1
      <4> QED BY <4>1, <4>2, <3>1, <3>2, <3>3, <3>4
    <3>5. CASE ~Defines(dict, c.steps[i])
      BY <3>1, <3>2, <3>3, <3>5
    <3> QED BY <3>4, <3>5
  <2>2. CASE d \in 1..n
    <3>1. new.defs[d].value = dict.defs[d].value /\ Len(new.defs[d].steps) = Len(dict.defs[d].steps)
      BY <2>2, <1>1
    <3>2. i \in 1..Len(dict.defs[d].steps)
      BY <3>1
    <3>3. new.defs[d].steps[i].value = dict.defs[d].steps[i].value
      BY <2>2, <3>2, <1>2
    <3>4. CASE /\ c.value \in DOMAIN dict.constructionMap
               /\ dict.constructionMap[c.value] = <<d, i>>
               /\ dict.defs[d].steps[i].into = 0
      <4>1. new.defs[d].steps[i].into = n + 1
        BY <2>2, <3>2, <3>4, <1>2
      <4>2. dict.defs[d].steps[i].value = c.value
        BY <3>4, <1>6, <1>3, <2>2, <3>2 DEF IsPlace
      <4>3. dict.defs[d].value # dict.defs[d].steps[i].value
        BY <2>2, <3>2, <1>4
      <4>4. new.defs[n + 1].value = new.defs[d].steps[i].value
        BY <4>2, <3>3, <1>1
      <4>5. new.defs[d].value # new.defs[d].steps[i].value
        BY <4>3, <3>1, <3>3
      <4> QED BY <4>1, <4>4, <4>5
    <3>5. CASE ~(/\ c.value \in DOMAIN dict.constructionMap
                 /\ dict.constructionMap[c.value] = <<d, i>>
                 /\ dict.defs[d].steps[i].into = 0)
      <4>1. new.defs[d].steps[i].into = dict.defs[d].steps[i].into
        BY <2>2, <3>2, <3>5, <1>2
      <4>2. /\ dict.defs[d].steps[i].into # 0 =>
                 /\ dict.defs[d].steps[i].into \in 1..n
                 /\ dict.defs[dict.defs[d].steps[i].into].value = dict.defs[d].steps[i].value
            /\ dict.defs[d].value # dict.defs[d].steps[i].value
        BY <3>2, <2>2, <1>4
      <4>3. CASE dict.defs[d].steps[i].into = 0
        BY <4>1, <4>2, <4>3, <3>1, <3>3
      <4>4. CASE dict.defs[d].steps[i].into # 0
        <5>1. PICK x \in 1..n : x = dict.defs[d].steps[i].into /\ dict.defs[x].value = dict.defs[d].steps[i].value
          BY <4>2, <4>4
        <5>2. new.defs[x].value = dict.defs[x].value
          BY <1>1
        <5>3. new.defs[d].steps[i].into = x
          BY <5>1, <4>1
        <5>4. new.defs[x].value = new.defs[d].steps[i].value
          BY <5>1, <5>2, <3>3
        <5>5. new.defs[d].value # new.defs[d].steps[i].value
          BY <4>2, <3>1, <3>3
        <5> QED BY <5>3, <5>4, <5>5
      <4> QED BY <4>3, <4>4
    <3> QED BY <3>4, <3>5
  <2> QED BY <2>1, <2>2
<1>10. IntoOwn(new)
  <2>1. Len(new.defs) = n + 1
    BY <1>1
  <2> QED BY <2>1, <1>9 DEF IntoOwn
<1>11. ASSUME NEW e \in 1..(n + 1), NEW d \in 1..(n + 1), NEW i \in 1..Len(new.defs[d].steps),
              new.defs[d].steps[i].value = new.defs[e].value,
              d > e \/ new.constructionMap[new.defs[e].value] = <<d, i>>
       PROVE  new.defs[d].steps[i].into = e
  <2>1. CASE d = n + 1
    <3>1. i \in 1..Len(c.steps)
      BY <2>1, <1>1
    <3>2. new.defs[d].steps[i].value = c.steps[i] /\ new.defs[d].value = c.value /\ c.steps[i] # c.value
      BY <2>1, <3>1, <1>1
    <3>3. e \in 1..n /\ dict.defs[e].value = c.steps[i]
      <4>1. e # n + 1
        BY <3>2, <1>11, <1>1
      <4>2. e \in 1..n
        BY <4>1
      <4>3. new.defs[e].value = dict.defs[e].value
        BY <4>2, <1>1
      <4>4. c.steps[i] = new.defs[e].value
        BY <3>2, <1>11
      <4> QED BY <4>2, <4>3, <4>4
    <3>4. new.defs[d].steps[i].into = dict.conceptsMap[c.steps[i]]
      BY <2>1, <3>1, <3>3, <1>1, <1>8
    <3> QED BY <3>3, <3>4, <1>8
  <2>2. CASE d \in 1..n
    <3>1. Len(new.defs[d].steps) = Len(dict.defs[d].steps)
      BY <2>2, <1>1
    <3>2. i \in 1..Len(dict.defs[d].steps)
      BY <3>1
    <3>3. new.defs[d].steps[i].value = dict.defs[d].steps[i].value
      BY <2>2, <3>2, <1>2
    <3>4. CASE e = n + 1
      <4>1. dict.defs[d].steps[i].value = c.value /\ new.constructionMap[c.value] = <<d, i>>
        BY <2>2, <3>3, <3>4, <1>1, <1>11
      <4>2. c.value \in DOMAIN dict.constructionMap
        BY <4>1, <2>2, <3>2 DEF DictInv, FirstPlaces
      <4>3. dict.constructionMap[c.value] = <<d, i>>
        BY <4>1, <4>2 DEF Added
      <4>4. dict.defs[d].steps[i].into = 0
        <5> SUFFICES ASSUME dict.defs[d].steps[i].into # 0 PROVE FALSE
          OBVIOUS
        <5>1. /\ dict.defs[d].steps[i].into \in 1..n
              /\ dict.defs[dict.defs[d].steps[i].into].value = dict.defs[d].steps[i].value
          BY <2>2, <3>2, <1>4
        <5> QED BY <5>1, <4>1, <1>3
      <4> QED BY <4>2, <4>3, <4>4, <2>2, <3>2, <3>4, <1>2
    <3>5. CASE e \in 1..n
      <4>1. new.defs[e].value = dict.defs[e].value
        BY <3>5, <1>1
      <4>2. dict.defs[e].value \in DOMAIN dict.constructionMap
        BY <3>5 DEF DictInv, FirstPlaces
      <4>3. new.constructionMap[dict.defs[e].value] = dict.constructionMap[dict.defs[e].value]
        BY <4>2 DEF Added
      <4>4. d > e \/ dict.constructionMap[dict.defs[e].value] = <<d, i>>
        BY <4>1, <4>3, <1>11
      <4>5. dict.defs[d].steps[i].value = dict.defs[e].value
        BY <4>1, <3>3, <1>11
      <4>6. dict.defs[d].steps[i].into = e
        BY <4>4, <4>5, <2>2, <3>2, <3>5 DEF DictInv, Expanded
      <4>7. dict.defs[d].steps[i].into # 0
        BY <4>6, <3>5
      <4> QED BY <4>6, <4>7, <2>2, <3>2, <1>2
    <3> QED BY <3>4, <3>5
  <2> QED BY <2>1, <2>2
<1>12. Expanded(new)
  <2>1. Len(new.defs) = n + 1
    BY <1>1
  <2>2. \A e, d \in 1..(n + 1) : \A i \in 1..Len(new.defs[d].steps) :
          new.defs[d].steps[i].value = new.defs[e].value
          /\ (d > e \/ new.constructionMap[new.defs[e].value] = <<d, i>>)
            => new.defs[d].steps[i].into = e
    BY <1>11
  <2> QED BY <2>1, <2>2 DEF Expanded
<1> QED BY <1>10, <1>12

LEMMA AddedKeeps ==
  ASSUME NEW dict, DictInv(dict), NEW c \in Written, ~Defines(dict, c.value),
         \A i \in 1..Len(c.steps) : c.steps[i] # c.value
  PROVE  DictInv(ReplaceNestedConceptSteps(dict, c))
<1>1. PICK n \in Nat : n = Len(dict.defs)
  BY DefinedParts DEF DictInv
<1>2. PICK new : new = ReplaceNestedConceptSteps(dict, c)
  OBVIOUS
<1>3. Added(dict, c, n, new)
  BY <1>1, <1>2, Replaced
<1>4. ConceptsFound(new) /\ FirstPlaces(new) /\ IntoOwn(new) /\ Expanded(new)
  BY <1>1, <1>3, AddedKeepsFound, AddedKeepsFirst, AddedKeepsInto
<1>5. DictType(new)
  BY <1>3 DEF Added
<1> QED BY <1>2, <1>4, <1>5 DEF DictInv

LEMMA NothingDefined == DictInv(NoConcepts)
<1>1. NoConcepts.defs = <<>> /\ NoConcepts.conceptsMap = <<>> /\ NoConcepts.constructionMap = <<>>
  BY DEF NoConcepts
<1>2. <<>> \in Seq(Defined) /\ Len(NoConcepts.defs) = 0
  BY <1>1
<1>3. DictType(NoConcepts)
  BY <1>1, <1>2 DEF DictType, NoConcepts
<1>4. /\ \A v : v \notin DOMAIN NoConcepts.conceptsMap /\ v \notin DOMAIN NoConcepts.constructionMap
      /\ \A d : d \notin 1..Len(NoConcepts.defs)
  BY <1>1, <1>2
<1> QED BY <1>3, <1>4 DEF DictInv, ConceptsFound, FirstPlaces, IntoOwn, Expanded

-----------------------------------------------------------------------------
(* What waits to be added.                                                 *)

\* No concept calls itself.
Proper(written) == \A k \in 1..Len(written) : \A i \in 1..Len(written[k].steps) :
                     written[k].steps[i] # written[k].value

FileInv ==
  /\ concepts \in Seq(Written) /\ Proper(concepts)
  /\ current \in Seq(Written) /\ Proper(current) /\ Len(current) <= 1
  /\ scopes \in SUBSET {"concept", "step"}
  /\ phase # "adding" => /\ "concept" \in scopes <=> current # <<>>
                         /\ "step" \in scopes => "concept" \in scopes

DictionaryInv == FileInv /\ DictInv(dictionary)

LEMMA Joined ==
  ASSUME NEW s \in Seq(Written), Proper(s), NEW t \in Seq(Written), Proper(t)
  PROVE  s \o t \in Seq(Written) /\ Proper(s \o t)
<1>1. /\ s \o t \in Seq(Written) /\ Len(s \o t) = Len(s) + Len(t)
      /\ \A i \in 1..(Len(s) + Len(t)) : (s \o t)[i] = IF i <= Len(s) THEN s[i] ELSE t[i - Len(s)]
      /\ Len(s) \in Nat /\ Len(t) \in Nat
  BY ConcatProperties, LenProperties
<1>2. ASSUME NEW k \in 1..Len(s \o t), NEW i \in 1..Len((s \o t)[k].steps)
      PROVE  (s \o t)[k].steps[i] # (s \o t)[k].value
  <2>1. CASE k <= Len(s)
    <3>1. k \in 1..Len(s) /\ (s \o t)[k] = s[k]
      BY <1>1, <2>1
    <3> QED BY <3>1 DEF Proper
  <2>2. CASE k > Len(s)
    <3>1. k - Len(s) \in 1..Len(t) /\ (s \o t)[k] = t[k - Len(s)]
      BY <1>1, <2>2
    <3> QED BY <3>1 DEF Proper
  <2> QED BY <1>1, <2>1, <2>2
<1> QED BY <1>1, <1>2 DEF Proper

LEMMA Emptied ==
  ASSUME NewFile, phase' # "adding" PROVE FileInv'
<1>1. /\ concepts' = <<>> /\ current' = <<>> /\ scopes' = {}
  BY DEF NewFile
<1>2. <<>> \in Seq(Written) /\ Len(<<>>) = 0
  OBVIOUS
<1>3. Proper(<<>>)
  BY <1>2 DEF Proper
<1> QED BY <1>1, <1>2, <1>3 DEF FileInv, Proper

LEMMA NextFileKeeps ==
  ASSUME NEW fails, NextFile(fails) PROVE FileInv'
<1>1. NewFile /\ phase' # "adding"
  BY DEF NextFile
<1> QED BY <1>1, Emptied

\* What a step adds to the concept that is being read.
LEMMA StepAdded ==
  ASSUME current \in Seq(Written), Len(current) \in Nat \ {0}, NEW value \in Values,
         NEW new, new = [current EXCEPT ![1].steps = Append(@, value)]
  PROVE  /\ new \in Seq(Written) /\ Len(new) = Len(current)
         /\ new[1].value = current[1].value /\ new[1].steps = Append(current[1].steps, value)
         /\ current[1] \in Written /\ new[1] \in Written
<1>1. PICK c \in Written : c = current[1]
  BY ElementOfSeq
<1>2. c = [value |-> c.value, steps |-> c.steps] /\ c.value \in Names /\ c.steps \in Seq(Values)
  BY DEF Written
<1> DEFINE y == [c EXCEPT !.steps = Append(@, value)]
           more == Append(c.steps, value)
<1>3. more \in Seq(Values)
  BY <1>2
<1>4. y = [value |-> c.value, steps |-> more]
  <2> HIDE DEF more
  <2>1. y = [c EXCEPT !.steps = more]
    BY DEF more
  <2> HIDE DEF y
  <2> QED BY <1>2, <2>1
<1>5. new = [current EXCEPT ![1] = y]
  BY <1>1
<1> HIDE DEF y, more
<1>6. y \in Written /\ y.value = c.value /\ y.steps = more
  BY <1>2, <1>3, <1>4 DEF Written
<1>7. new \in Seq(Written) /\ Len(new) = Len(current) /\ new[1] = y
  <2>1. 1 \in 1..Len(current)
    OBVIOUS
  <2>a. current \in Seq(Written) /\ y \in Written
    BY <1>6
  <2>2. /\ [current EXCEPT ![1] = y] \in Seq(Written)
        /\ Len([current EXCEPT ![1] = y]) = Len(current)
        /\ \A j \in 1..Len(current) : [current EXCEPT ![1] = y][j] = IF j = 1 THEN y ELSE current[j]
    BY <2>a, <2>1, ExceptSeq
  <2> QED BY <1>5, <2>1, <2>2
<1>8. more = Append(current[1].steps, value) /\ c.value = current[1].value
  BY <1>1 DEF more
<1> QED BY <1>1, <1>6, <1>7, <1>8

LEMMA FileStep ==
  ASSUME FileInv, [ConceptsNext]_conceptVars PROVE FileInv'
<1>1. ASSUME NEW value \in Names, NEW endsTable \in BOOLEAN, ConceptHeading(value, endsTable) PROVE FileInv'
  <2> DEFINE new == [value |-> value, steps |-> <<>>]
  <2>1. new \in Written /\ new.steps = <<>>
    BY DEF Written
  <2>2. /\ current' = <<new>> /\ concepts' = Finished /\ scopes' = scopes \cup {"concept"}
    BY <1>1 DEF ConceptHeading
  <2> HIDE DEF new
  <2>3. <<new>> \in Seq(Written) /\ Len(<<new>>) = 1 /\ <<new>>[1] = new
    BY <2>1
  <2>4. Proper(<<new>>)
    <3>1. Len(new.steps) = 0
      BY <2>1
    <3> QED BY <2>3, <3>1 DEF Proper
  <2>5. Finished \in Seq(Written) /\ Proper(Finished)
    BY Joined DEF Finished, FileInv
  <2>6. /\ concepts' \in Seq(Written) /\ Proper(concepts')
        /\ current' \in Seq(Written) /\ Proper(current') /\ Len(current') = 1 /\ current' # <<>>
    BY <2>2, <2>3, <2>4, <2>5
  <2>7. scopes' \in SUBSET {"concept", "step"} /\ "concept" \in scopes'
    BY <2>2 DEF FileInv
  <2> QED BY <2>6, <2>7 DEF FileInv, Proper
<1>2. ASSUME NEW value \in Names \cup PlainSteps, ConceptStep(value) PROVE FileInv'
  <2>1. /\ "concept" \in scopes /\ ~CallsItself(value) /\ phase = "reading" /\ UNCHANGED <<phase, concepts>>
        /\ current' = [current EXCEPT ![1].steps = Append(@, value)]
        /\ scopes' = scopes \cup {"step"}
    BY <1>2 DEF ConceptStep, Line
  <2>2. current # <<>> /\ current \in Seq(Written) /\ Proper(current) /\ Len(current) <= 1
    BY <2>1 DEF FileInv
  <2>3. Len(current) \in Nat \ {0}
    BY <2>2
  <2>4. value \in Values
    BY DEF Values
  <2>5. /\ current' \in Seq(Written) /\ Len(current') = Len(current)
        /\ current'[1].value = current[1].value /\ current'[1].steps = Append(current[1].steps, value)
        /\ current[1] \in Written
    BY <2>1, <2>2, <2>3, <2>4, StepAdded
  <2>6. current[1].steps \in Seq(Values)
    BY <2>5 DEF Written
  <2>7. ASSUME NEW i \in 1..Len(current'[1].steps) PROVE current'[1].steps[i] # current'[1].value
    <3>1. /\ Len(current'[1].steps) = Len(current[1].steps) + 1
          /\ \A j \in 1..Len(current[1].steps) : current'[1].steps[j] = current[1].steps[j]
          /\ current'[1].steps[Len(current[1].steps) + 1] = value
          /\ Len(current[1].steps) \in Nat
      BY <2>5, <2>6, AppendProperties
    <3>2. current[1].value # value
      BY <2>1, <2>2 DEF CallsItself
    <3>3. \A j \in 1..Len(current[1].steps) : current[1].steps[j] # current[1].value
      BY <2>2, <2>3 DEF Proper
    <3> QED BY <3>1, <3>2, <3>3, <2>5
  <2>8. \A k \in 1..Len(current') : k = 1
    BY <2>2, <2>3, <2>5
  <2>9. Proper(current')
    BY <2>7, <2>8 DEF Proper
  <2>10. current' # <<>> /\ Len(current') <= 1
    <3>1. Len(<<>>) = 0
      OBVIOUS
    <3> QED BY <3>1, <2>2, <2>3, <2>5
  <2> QED BY <2>1, <2>5, <2>9, <2>10 DEF FileInv, Proper
<1>3. CASE Comment \/ TableLine
  BY <1>3 DEF Comment, TableLine, Line, FileInv, Proper
<1>4. ASSUME NEW value \in Names \cup PlainSteps, RejectStep(value) PROVE FileInv'
  BY <1>4, NextFileKeeps DEF RejectStep, RejectLine, RejectFile
<1>5. CASE RejectTable \/ RejectText \/ RejectWithoutStep
  BY <1>5, NextFileKeeps DEF RejectTable, RejectText, RejectWithoutStep, RejectLine, RejectFile
<1>6. CASE EndFile
  <2>1. /\ concepts' = concepts \o current /\ current' = <<>> /\ scopes' = scopes /\ phase' = "adding"
    BY <1>6 DEF EndFile
  <2>2. concepts \o current \in Seq(Written) /\ Proper(concepts \o current)
    BY Joined DEF FileInv
  <2>3. <<>> \in Seq(Written) /\ Len(<<>>) = 0
    OBVIOUS
  <2>4. Proper(<<>>)
    BY <2>3 DEF Proper
  <2> QED BY <2>1, <2>2, <2>3, <2>4 DEF FileInv, Proper
<1>7. CASE AddConcept
  <2>1. /\ concepts # <<>> /\ phase = "adding" /\ concepts' = Tail(concepts)
        /\ UNCHANGED <<current, scopes, phase>>
    BY <1>7 DEF AddConcept, Adding
  <2>2. concepts \in Seq(Written) /\ Proper(concepts)
    BY DEF FileInv
  <2>3. /\ Tail(concepts) \in Seq(Written) /\ Len(Tail(concepts)) = Len(concepts) - 1
        /\ \A i \in 1..Len(Tail(concepts)) : Tail(concepts)[i] = concepts[i + 1]
        /\ Len(concepts) \in Nat
    BY <2>1, <2>2, HeadTailProperties, LenProperties
  <2>4. Proper(Tail(concepts))
    BY <2>2, <2>3 DEF Proper
  <2> QED BY <2>1, <2>3, <2>4 DEF FileInv, Proper
<1>8. CASE DuplicateConcept \/ ValidateConcepts
  BY <1>8, NextFileKeeps DEF DuplicateConcept, ValidateConcepts
<1>9. CASE Ready
  BY <1>9 DEF Ready, file, FileInv, Proper
<1>10. CASE UNCHANGED conceptVars
  BY <1>10 DEF conceptVars, file, FileInv, Proper
<1> QED BY <1>1, <1>2, <1>3, <1>4, <1>5, <1>6, <1>7, <1>8, <1>9, <1>10 DEF ConceptsNext

\* Only add changes the dictionary.
LEMMA DictionaryKept ==
  ASSUME [ConceptsNext]_conceptVars, ~AddConcept PROVE UNCHANGED dictionary
BY DEF ConceptsNext, conceptVars, ConceptHeading, ConceptStep, Comment, TableLine, Line, RejectStep,
       RejectTable, RejectText, RejectWithoutStep, RejectLine, RejectFile, EndFile, DuplicateConcept,
       ValidateConcepts, Ready

LEMMA DictionaryStep ==
  ASSUME DictionaryInv, [ConceptsNext]_conceptVars PROVE DictionaryInv'
<1>1. FileInv'
  BY FileStep DEF DictionaryInv
<1>2. CASE AddConcept
  <2>1. /\ concepts # <<>> /\ dictionary' = ReplaceNestedConceptSteps(dictionary, Head(concepts))
        /\ ~Defines(dictionary, Head(concepts).value)
    BY <1>2 DEF AddConcept, Adding
  <2>2. concepts \in Seq(Written) /\ Proper(concepts) /\ DictInv(dictionary)
    BY DEF DictionaryInv, FileInv
  <2>3. Head(concepts) \in Written /\ Head(concepts) = concepts[1] /\ 1 \in 1..Len(concepts)
    BY <2>1, <2>2
  <2>4. \A i \in 1..Len(Head(concepts).steps) : Head(concepts).steps[i] # Head(concepts).value
    BY <2>2, <2>3 DEF Proper
  <2>5. DictInv(ReplaceNestedConceptSteps(dictionary, Head(concepts)))
    BY <2>1, <2>2, <2>3, <2>4, AddedKeeps
  <2> QED BY <1>1, <2>1, <2>5 DEF DictionaryInv
<1>3. CASE ~AddConcept
  <2>1. dictionary' = dictionary
    BY <1>3, DictionaryKept
  <2> QED BY <1>1, <2>1 DEF DictionaryInv
<1> QED BY <1>2, <1>3

LEMMA DictionaryStart ==
  ASSUME ConceptsInit PROVE DictionaryInv
<1>1. concepts = <<>> /\ current = <<>> /\ scopes = {} /\ dictionary = NoConcepts
  BY DEF ConceptsInit
<1>2. <<>> \in Seq(Written) /\ Len(<<>>) = 0
  OBVIOUS
<1>3. Proper(<<>>)
  BY <1>2 DEF Proper
<1> QED BY <1>1, <1>2, <1>3, NothingDefined DEF DictionaryInv, FileInv, Proper

LEMMA DictionaryAlways == ConceptsSpec => []DictionaryInv
<1>1. ConceptsInit => DictionaryInv
  BY DictionaryStart
<1>2. DictionaryInv /\ [ConceptsNext]_conceptVars => DictionaryInv'
  BY DictionaryStep
<1> QED BY <1>1, <1>2, PTL DEF ConceptsSpec

LEMMA FirstIsPlace ==
  ASSUME NEW dict, DictInv(dict), NEW e \in 1..Len(dict.defs),
         NEW d \in 1..Len(dict.defs), NEW i \in 1..Len(dict.defs[d].steps),
         dict.defs[d].steps[i].value = dict.defs[e].value,
         \A a \in 1..Len(dict.defs) : \A b \in 1..Len(dict.defs[a].steps) :
           dict.defs[a].steps[b].value = dict.defs[e].value => ~Earlier(<<a, b>>, <<d, i>>)
  PROVE  d > e \/ dict.constructionMap[dict.defs[e].value] = <<d, i>>
<1> DEFINE v == dict.defs[e].value
<1>1. PICK at : at = dict.constructionMap[v]
  OBVIOUS
<1>2. IsPlace(dict, v, at) /\ ~Earlier(<<d, i>>, at)
  BY <1>1 DEF DictInv, FirstPlaces
<1>3. dict.defs[d].value # v
  <2>1. IntoOwn(dict)
    BY DEF DictInv
  <2> QED BY <2>1 DEF IntoOwn
<1>4. Len(dict.defs) \in Nat /\ \A k \in 1..Len(dict.defs) : Len(dict.defs[k].steps) \in Nat
  BY DefinedParts DEF DictInv
<1>5. at = <<at[1], at[2]>> /\ at[1] \in 1..Len(dict.defs)
  BY <1>2 DEF IsPlace
<1>6. CASE at[2] = 0 /\ dict.defs[at[1]].value = v
  <2>1. at[1] = e
    BY <1>5, <1>6 DEF DictInv, ConceptsFound
  <2>2. d # e
    BY <1>3
  <2>3. ~(d < at[1])
    BY <1>2 DEF Earlier
  <2> QED BY <2>1, <2>2, <2>3, <1>4
<1>7. CASE at[2] \in 1..Len(dict.defs[at[1]].steps) /\ dict.defs[at[1]].steps[at[2]].value = v
  <2>1. PICK a \in 1..Len(dict.defs) : a = at[1]
    BY <1>5
  <2>2. PICK b \in 1..Len(dict.defs[a].steps) : b = at[2] /\ dict.defs[a].steps[b].value = v
    BY <1>7, <2>1
  <2>3. ~Earlier(<<a, b>>, <<d, i>>) /\ ~Earlier(<<d, i>>, <<a, b>>)
    BY <2>1, <2>2, <1>2, <1>5
  <2>4. a \in Int /\ b \in Int /\ d \in Int /\ i \in Int
    BY <1>4
  <2>5. a = d /\ b = i
    BY <2>3, <2>4 DEF Earlier
  <2> QED BY <1>1, <1>5, <2>1, <2>2, <2>5
<1> QED BY <1>2, <1>6, <1>7 DEF IsPlace

LEMMA References2 ==
  ASSUME DictInv(dictionary) PROVE ReferencesExpand
<1> DEFINE defs == dictionary.defs
<1>1. Defs = 1..Len(defs) /\ \A d \in 1..Len(defs) : DOMAIN defs[d].steps = 1..Len(defs[d].steps)
  BY DefinedParts DEF Defs, DictInv
<1>2. ASSUME NEW v, NEW at
      PROVE  at \in References(v) <=>
               \E d \in 1..Len(defs) : \E i \in 1..Len(defs[d].steps) :
                 at = <<d, i>> /\ defs[d].steps[i].value = v
  <2>1. at \in References(v) <=>
          /\ \E d \in Defs : \E i \in DOMAIN defs[d].steps : at = <<d, i>>
          /\ defs[at[1]].steps[at[2]].value = v
    BY DEF References
  <2> QED BY <1>1, <2>1
<1>3. ASSUME NEW d \in Defs, NEW i \in DOMAIN defs[d].steps, Into(<<d, i>>) # 0
      PROVE  defs[Into(<<d, i>>)].value = defs[d].steps[i].value
  <2>1. Into(<<d, i>>) = defs[d].steps[i].into
    BY DEF Into
  <2>2. d \in 1..Len(defs) /\ i \in 1..Len(defs[d].steps)
    BY <1>1
  <2>3. defs[d].steps[i].into # 0 => defs[defs[d].steps[i].into].value = defs[d].steps[i].value
    BY <2>2 DEF DictInv, IntoOwn
  <2> QED BY <1>3, <2>1, <2>3
<1>4. ASSUME NEW e \in Defs, NEW at \in References(defs[e].value),
             at[1] > e \/ \A other \in References(defs[e].value) : ~Earlier(other, at)
      PROVE  Into(at) = e
  <2>1. PICK d \in 1..Len(defs) : \E i \in 1..Len(defs[d].steps) :
               at = <<d, i>> /\ defs[d].steps[i].value = defs[e].value
    BY <1>2
  <2>2. PICK i \in 1..Len(defs[d].steps) : at = <<d, i>> /\ defs[d].steps[i].value = defs[e].value
    BY <2>1
  <2>3. d > e \/ dictionary.constructionMap[defs[e].value] = <<d, i>>
    <3>1. CASE d > e
      BY <3>1
    <3>2. CASE \A other \in References(defs[e].value) : ~Earlier(other, <<d, i>>)
      <4>1. \A a \in 1..Len(defs) : \A b \in 1..Len(defs[a].steps) :
              defs[a].steps[b].value = defs[e].value => ~Earlier(<<a, b>>, <<d, i>>)
        BY <1>2, <3>2
      <4>2. e \in 1..Len(defs) /\ defs[d].steps[i].value = defs[e].value
        BY <1>1, <2>2
      <4> QED BY <4>1, <4>2, FirstIsPlace
    <3> QED BY <1>4, <2>2, <3>1, <3>2
  <2>4. defs[d].steps[i].into = e
    <3>1. e \in 1..Len(defs)
      BY <1>1
    <3>2. defs[d].steps[i].value = defs[e].value
      BY <2>2
    <3>3. Expanded(dictionary)
      BY DEF DictInv
    <3> QED BY <2>3, <3>1, <3>2, <3>3 DEF Expanded
  <2> QED BY <2>2, <2>4 DEF Into
<1> QED BY <1>3, <1>4 DEF ReferencesExpand

\* Whatever concepts are read, in whatever order, of any number of files: a step that
\* refers to a concept expands to that concept if it comes after it, or if it is the first
\* to refer to it, and to nothing else.  The places in constructionMap are what makes it
\* inductive: each is the first of its value.
THEOREM StepsExpand == ConceptsSpec => []ReferencesExpand
<1>1. DictionaryInv => ReferencesExpand
  BY References2 DEF DictionaryInv
<1> QED BY <1>1, DictionaryAlways, PTL

-----------------------------------------------------------------------------
(* Circles.                                                                *)

\* Of a dictionary that is not circular no concept is reached from itself.
LEMMA NotReached ==
  ASSUME NEW dict, DictInv(dict), ~Circular(dict), NEW d \in DOMAIN dict.defs
  PROVE  ~Reaches(dict, d, d)
<1> DEFINE From(x) == x = d \/ Reaches(dict, d, x)
           S == {y \in DOMAIN dict.defs : \E x \in DOMAIN dict.defs : From(x) /\ Expands(dict, x, y)}
<1>1. ASSUME NEW x \in DOMAIN dict.defs, NEW y \in DOMAIN dict.defs, From(x), Expands(dict, x, y)
      PROVE  Reaches(dict, d, y)
  <2> SUFFICES ASSUME NEW reached \in SUBSET DOMAIN dict.defs,
                      \A a \in {d} \cup reached : \A b \in DOMAIN dict.defs :
                        Expands(dict, a, b) => b \in reached
               PROVE  y \in reached
    BY DEF Reaches
  <2>1. x = d \/ x \in reached
    BY <1>1 DEF Reaches
  <2> QED BY <1>1, <2>1
<1>2. \A a \in {d} \cup S : \A b \in DOMAIN dict.defs : Expands(dict, a, b) => b \in S
  <2> SUFFICES ASSUME NEW a \in {d} \cup S, NEW b \in DOMAIN dict.defs, Expands(dict, a, b)
               PROVE  b \in S
    OBVIOUS
  <2>1. a \in DOMAIN dict.defs /\ From(a)
    BY <1>1
  <2> QED BY <2>1
<1> SUFFICES ASSUME Reaches(dict, d, d) PROVE FALSE
  OBVIOUS
<1>3. S \in SUBSET DOMAIN dict.defs
  OBVIOUS
<1>4. d \in S
  <2> HIDE DEF S
  <2> QED BY <1>2, <1>3 DEF Reaches
<1>5. PICK x \in DOMAIN dict.defs : From(x) /\ Expands(dict, x, d)
  BY <1>4
<1>6. Mentions(dict, x, d)
  <2>1. DOMAIN dict.defs = 1..Len(dict.defs)
        /\ \A k \in 1..Len(dict.defs) : DOMAIN dict.defs[k].steps = 1..Len(dict.defs[k].steps)
    BY DefinedParts DEF DictInv
  <2>2. PICK i \in 1..Len(dict.defs[x].steps) : dict.defs[x].steps[i].into = d
    BY <1>5, <2>1 DEF Expands
  <2>3. d # 0
    BY <2>1
  <2>4. dict.defs[d].value = dict.defs[x].steps[i].value
    BY <2>1, <2>2, <2>3 DEF DictInv, IntoOwn
  <2> QED BY <2>1, <2>2, <2>4 DEF Mentions
<1>7. Circular(dict)
  BY <1>5, <1>6 DEF Circular
<1> QED BY <1>7

FiniteInv ==
  /\ DictionaryInv
  /\ strict /\ phase \notin {"adding", "rejected"} => ~Circular(dictionary)

LEMMA FiniteStep ==
  ASSUME FiniteInv, [ConceptsNext]_conceptVars PROVE FiniteInv'
<1>1. DictionaryInv'
  BY DictionaryStep DEF FiniteInv
<1>2. CASE AddConcept
  <2>1. phase' = "adding"
    BY <1>2 DEF AddConcept, Adding
  <2> QED BY <1>1, <2>1 DEF FiniteInv
<1>3. CASE ValidateConcepts
  <2>1. /\ phase' = IF Circular(dictionary) /\ strict THEN "rejected" ELSE "reading"
        /\ dictionary' = dictionary /\ strict' = strict
    BY <1>3 DEF ValidateConcepts, NextFile
  <2> QED BY <1>1, <2>1 DEF FiniteInv
<1>4. CASE DuplicateConcept
  <2>1. /\ phase' = IF strict THEN "rejected" ELSE "reading"
        /\ strict' = strict
    BY <1>4 DEF DuplicateConcept, NextFile
  <2> QED BY <1>1, <2>1 DEF FiniteInv
<1>5. CASE EndFile
  <2>1. phase' = "adding"
    BY <1>5 DEF EndFile
  <2> QED BY <1>1, <2>1 DEF FiniteInv
<1>6. CASE ~AddConcept /\ ~ValidateConcepts /\ ~DuplicateConcept /\ ~EndFile
  <2>1. dictionary' = dictionary
    BY <1>6, DictionaryKept
  <2>2. strict' = strict /\ (phase' \notin {"adding", "rejected"} => phase \notin {"adding", "rejected"})
    BY <1>6 DEF ConceptsNext, conceptVars, ConceptHeading, ConceptStep, Comment, TableLine, Line, RejectStep,
         RejectTable, RejectText, RejectWithoutStep, RejectLine, RejectFile, Ready, NextFile
  <2> QED BY <1>1, <2>1, <2>2 DEF FiniteInv
<1> QED BY <1>2, <1>3, <1>4, <1>5, <1>6

\* Whatever files are read for an execution, and wherever a circle would be closed: when
\* they are accepted no concept expands to itself.  The check of each file looks at
\* everything a concept mentions, and what a step expands to it mentions.
THEOREM AcceptedFinite == ConceptsSpec => []AcceptedIsFinite
<1>1. ConceptsInit => FiniteInv
  <2> SUFFICES ASSUME ConceptsInit PROVE FiniteInv
    OBVIOUS
  <2>1. DictionaryInv
    BY DictionaryStart
  <2>2. dictionary.defs = <<>>
    BY DEF ConceptsInit, NoConcepts
  <2>3. ~Circular(dictionary)
    BY <2>2 DEF Circular
  <2> QED BY <2>1, <2>3 DEF FiniteInv
<1>2. FiniteInv /\ [ConceptsNext]_conceptVars => FiniteInv'
  BY FiniteStep
<1>3. FiniteInv => AcceptedIsFinite
  BY NotReached DEF FiniteInv, DictionaryInv, AcceptedIsFinite, Defs
<1> QED BY <1>1, <1>2, <1>3, PTL DEF ConceptsSpec

-----------------------------------------------------------------------------
(* What is parsed.                                                         *)

ReadLine == [kind : {"heading", "step", "comment", "table"}, value : Values \cup {""}]

RankOf(S, n) == Cardinality({m \in S : m <= n})

\* Headings, StepsBelow and ConceptsAsWritten, of any lines and any concepts.
HeadingsOf(ls) == {n \in DOMAIN ls : ls[n].kind = "heading"}

StepLines(ls, n) == {m \in DOMAIN ls : /\ m > n /\ ls[m].kind = "step"
                                       /\ \A k \in (n + 1)..m : ls[k].kind # "heading"}

Below(ls, n) == {<<m, ls[m].value>> : m \in StepLines(ls, n)}

\* Concept c is what was written below heading n.
IsOf(c, ls, n) ==
  /\ c.value = ls[n].value
  /\ IsFiniteSet(StepLines(ls, n)) /\ Cardinality(StepLines(ls, n)) = Len(c.steps)
  /\ IsFiniteSet(Below(ls, n)) /\ Cardinality(Below(ls, n)) = Len(c.steps)
  /\ \A m \in StepLines(ls, n) : c.steps[RankOf(StepLines(ls, n), m)] = ls[m].value

Parsed(ls, parsed) ==
  /\ Len(parsed) = Cardinality(HeadingsOf(ls))
  /\ \A n \in HeadingsOf(ls) : IsOf(parsed[RankOf(HeadingsOf(ls), n)], ls, n)

\* Numbers are ranked in their order, and a greater one does not change their ranks.
LEMMA Ranked ==
  ASSUME NEW N \in Nat, NEW S \in SUBSET (1..N)
  PROVE  /\ IsFiniteSet(S) /\ Cardinality(S) \in Nat
         /\ \A n \in S : RankOf(S, n) \in 1..Cardinality(S)
         /\ \A n, m \in S : n < m => RankOf(S, n) < Cardinality(S)
         /\ \A n \in S : (\A m \in S : m <= n) => RankOf(S, n) = Cardinality(S)
<1>1. IsFiniteSet(S)
  <2>1. IsFiniteSet(1..N)
    BY FS_Interval
  <2> QED BY <2>1, FS_Subset
<1>2. Cardinality(S) \in Nat
  BY <1>1, FS_CardinalityType
<1>3. ASSUME NEW n \in S
      PROVE  /\ RankOf(S, n) \in 1..Cardinality(S)
             /\ \A m \in S : n < m => RankOf(S, n) < Cardinality(S)
             /\ (\A m \in S : m <= n) => RankOf(S, n) = Cardinality(S)
  <2> DEFINE T == {m \in S : m <= n}
  <2>1. T \in SUBSET S /\ n \in T
    OBVIOUS
  <2>2. RankOf(S, n) = Cardinality(T)
    BY DEF RankOf
  <2>3. \A m \in S : n < m => m \notin T
    OBVIOUS
  <2>4. (\A m \in S : m <= n) => T = S
    OBVIOUS
  <2> HIDE DEF T
  <2>5. /\ IsFiniteSet(T) /\ Cardinality(T) <= Cardinality(S)
        /\ Cardinality(S) = Cardinality(T) => S = T
    BY <1>1, <2>1, FS_Subset
  <2>6. Cardinality(T) \in Nat /\ Cardinality(T) # 0
    BY <2>1, <2>5, FS_CardinalityType, FS_EmptySet
  <2> QED BY <1>2, <2>1, <2>2, <2>3, <2>4, <2>5, <2>6
<1> QED BY <1>1, <1>2, <1>3

LEMMA RankedMore ==
  ASSUME NEW N \in Nat, NEW S \in SUBSET (1..N)
  PROVE  /\ \A n \in S : RankOf(S \cup {N + 1}, n) = RankOf(S, n)
         /\ RankOf(S \cup {N + 1}, N + 1) = Cardinality(S) + 1
         /\ IsFiniteSet(S \cup {N + 1}) /\ Cardinality(S \cup {N + 1}) = Cardinality(S) + 1
<1>1. \A n \in S : {m \in S \cup {N + 1} : m <= n} = {m \in S : m <= n}
  OBVIOUS
<1>2. {m \in S \cup {N + 1} : m <= N + 1} = S \cup {N + 1}
  <2>1. \A m \in S \cup {N + 1} : m <= N + 1
    OBVIOUS
  <2> QED BY <2>1
<1>3. N + 1 \notin S /\ IsFiniteSet(S)
  <2>1. IsFiniteSet(S)
    BY Ranked
  <2>2. N + 1 \notin 1..N
    OBVIOUS
  <2> QED BY <2>1, <2>2
<1>4. IsFiniteSet(S \cup {N + 1}) /\ Cardinality(S \cup {N + 1}) = Cardinality(S) + 1
  BY <1>3, FS_AddElement
<1> QED BY <1>1, <1>2, <1>4 DEF RankOf

\* A line more.
LEMMA LineAdded ==
  ASSUME NEW ls \in Seq(ReadLine), NEW line \in ReadLine, NEW N, N = Len(ls),
         NEW more, more = Append(ls, line)
  PROVE  /\ N \in Nat /\ DOMAIN ls = 1..N /\ DOMAIN more = 1..(N + 1) /\ more \in Seq(ReadLine)
         /\ \A i \in 1..N : more[i] = ls[i]
         /\ more[N + 1] = line
         /\ HeadingsOf(ls) \in SUBSET (1..N)
         /\ \A n : StepLines(ls, n) \in SUBSET (1..N)
<1>1. /\ N \in Nat /\ DOMAIN ls = 1..N /\ DOMAIN more = 1..(N + 1) /\ more \in Seq(ReadLine)
      /\ \A i \in 1..N : more[i] = ls[i]
      /\ more[N + 1] = line
  BY AppendProperties
<1> QED BY <1>1 DEF HeadingsOf, StepLines

\* The line after these does not come below heading n.
NothingBelow(ls, line, n) ==
  line.kind # "step" \/ \E k \in (n + 1)..Len(ls) : ls[k].kind = "heading"

\* Such a line changes nothing of what is below it.
LEMMA NotBelow ==
  ASSUME NEW ls \in Seq(ReadLine), NEW line \in ReadLine, NEW n \in 1..Len(ls),
         NothingBelow(ls, line, n)
  PROVE  /\ StepLines(Append(ls, line), n) = StepLines(ls, n)
         /\ Below(Append(ls, line), n) = Below(ls, n)
<1>0. PICK N, more : N = Len(ls) /\ more = Append(ls, line)
  OBVIOUS
<1>1. /\ N \in Nat /\ DOMAIN ls = 1..N /\ DOMAIN more = 1..(N + 1)
      /\ \A i \in 1..N : more[i] = ls[i]
      /\ more[N + 1] = line
      /\ n \in 1..N
  BY <1>0, LineAdded
<1>2. ASSUME NEW m PROVE m \in StepLines(more, n) <=> m \in StepLines(ls, n)
  <2>1. m \in StepLines(ls, n) <=> /\ m \in 1..N /\ m > n /\ ls[m].kind = "step"
                                   /\ \A k \in (n + 1)..m : ls[k].kind # "heading"
    BY <1>1 DEF StepLines
  <2>2. m \in StepLines(more, n) <=> /\ m \in 1..(N + 1) /\ m > n /\ more[m].kind = "step"
                                     /\ \A k \in (n + 1)..m : more[k].kind # "heading"
    BY <1>1 DEF StepLines
  <2>3. CASE m \in 1..N
    <3>1. more[m] = ls[m] /\ \A k \in (n + 1)..m : more[k] = ls[k]
      BY <1>1, <2>3
    <3>2. m \in 1..(N + 1)
      BY <1>1, <2>3
    <3> QED BY <2>1, <2>2, <2>3, <3>1, <3>2
  <2>4. CASE m = N + 1
    <3>1. m \notin 1..N
      BY <1>1, <2>4
    <3>2. CASE line.kind # "step"
      BY <1>1, <2>1, <2>2, <2>4, <3>1, <3>2
    <3>3. CASE \E k \in (n + 1)..N : ls[k].kind = "heading"
      <4>1. PICK k \in (n + 1)..N : ls[k].kind = "heading"
        BY <3>3
      <4>2. k \in (n + 1)..m /\ more[k] = ls[k]
        BY <1>1, <2>4, <4>1
      <4> QED BY <2>1, <2>2, <3>1, <4>1, <4>2
    <3> QED BY <1>0, <3>2, <3>3 DEF NothingBelow
  <2>5. CASE m \notin 1..(N + 1)
    <3>1. m \notin 1..N
      BY <1>1, <2>5
    <3> QED BY <2>1, <2>2, <2>5, <3>1
  <2> QED BY <1>1, <2>3, <2>4, <2>5
<1>3. StepLines(more, n) = StepLines(ls, n)
  BY <1>2
<1>4. \A m \in StepLines(ls, n) : more[m].value = ls[m].value
  BY <1>1 DEF StepLines
<1> QED BY <1>0, <1>3, <1>4 DEF Below

\* A concept stays what was written when nothing is added below its heading.
LEMMA StillOf ==
  ASSUME NEW ls \in Seq(ReadLine), NEW line \in ReadLine, NEW n \in 1..Len(ls),
         NothingBelow(ls, line, n), NEW c, IsOf(c, ls, n)
  PROVE  IsOf(c, Append(ls, line), n)
<1> DEFINE more == Append(ls, line)
<1>1. StepLines(more, n) = StepLines(ls, n) /\ Below(more, n) = Below(ls, n)
  BY NotBelow
<1>2. more[n] = ls[n] /\ \A m \in StepLines(ls, n) : more[m] = ls[m]
  <2> DEFINE N == Len(ls)
  <2>1. /\ \A i \in 1..N : more[i] = ls[i]
        /\ \A k : StepLines(ls, k) \in SUBSET (1..N)
    <3>1. DOMAIN ls = 1..N
      BY LineAdded
    <3>2. \A k : StepLines(ls, k) \in SUBSET (1..N)
      BY <3>1 DEF StepLines
    <3>3. \A i \in 1..N : more[i] = ls[i]
      BY LineAdded
    <3> QED BY <3>2, <3>3
  <2> QED BY <2>1
<1> HIDE DEF more
<1>3. IsOf(c, more, n)
  BY <1>1, <1>2 DEF IsOf
<1> QED BY <1>3 DEF more

\* A heading begins a concept.
LEMMA HeadingParsed ==
  ASSUME NEW ls \in Seq(ReadLine), NEW line \in ReadLine, line.kind = "heading",
         NEW old \in Seq(Written), Parsed(ls, old), NEW c \in Written, c.value = line.value, c.steps = <<>>
  PROVE  Parsed(Append(ls, line), Append(old, c))
<1>1. PICK N, more : N = Len(ls) /\ more = Append(ls, line)
  OBVIOUS
<1>2. /\ N \in Nat /\ DOMAIN ls = 1..N /\ DOMAIN more = 1..(N + 1)
      /\ \A i \in 1..N : more[i] = ls[i]
      /\ more[N + 1] = line
      /\ HeadingsOf(ls) \in SUBSET (1..N)
  BY <1>1, LineAdded
<1> DEFINE H == HeadingsOf(ls)
<1>3. HeadingsOf(more) = H \cup {N + 1}
  BY <1>2 DEF HeadingsOf
<1>4. /\ Len(old) = Cardinality(H) /\ Len(old) \in Nat
      /\ Append(old, c) \in Seq(Written) /\ Len(Append(old, c)) = Len(old) + 1
      /\ \A i \in 1..Len(old) : Append(old, c)[i] = old[i]
      /\ Append(old, c)[Len(old) + 1] = c
  BY AppendProperties DEF Parsed
<1>5. H \in SUBSET (1..N)
  BY <1>2
<1> HIDE DEF H
<1>6. /\ \A n \in H : RankOf(H \cup {N + 1}, n) = RankOf(H, n)
      /\ RankOf(H \cup {N + 1}, N + 1) = Cardinality(H) + 1
      /\ Cardinality(H \cup {N + 1}) = Cardinality(H) + 1
  BY <1>2, <1>5, RankedMore
<1>7. \A n \in H : RankOf(H, n) \in 1..Cardinality(H)
  BY <1>2, <1>5, Ranked
<1>8. ASSUME NEW n \in H
      PROVE  IsOf(Append(old, c)[RankOf(H \cup {N + 1}, n)], more, n)
  <2>1. NothingBelow(ls, line, n)
    BY DEF NothingBelow
  <2>2. IsOf(old[RankOf(H, n)], ls, n)
    BY DEF Parsed, H
  <2>3. IsOf(old[RankOf(H, n)], more, n)
    BY <1>1, <1>5, <2>1, <2>2, StillOf
  <2> QED BY <2>3, <1>4, <1>6, <1>7
<1>9. IsOf(c, more, N + 1)
  <2>1. \A m : m \notin StepLines(more, N + 1)
    BY <1>2 DEF StepLines
  <2>2. StepLines(more, N + 1) = {} /\ Below(more, N + 1) = {}
    BY <2>1 DEF Below
  <2>3. Len(c.steps) = 0
    OBVIOUS
  <2>4. IsFiniteSet({}) /\ Cardinality({}) = 0
    BY FS_EmptySet
  <2> QED BY <2>1, <2>2, <2>3, <2>4, <1>2 DEF IsOf
<1>10. IsOf(Append(old, c)[RankOf(H \cup {N + 1}, N + 1)], more, N + 1)
  BY <1>9, <1>4, <1>6
<1> QED BY <1>1, <1>3, <1>4, <1>6, <1>8, <1>10 DEF Parsed

\* A comment or a table changes no concept.
LEMMA OtherParsed ==
  ASSUME NEW ls \in Seq(ReadLine), NEW line \in ReadLine, line.kind \notin {"heading", "step"},
         NEW old, Parsed(ls, old)
  PROVE  Parsed(Append(ls, line), old)
<1>1. PICK N, more : N = Len(ls) /\ more = Append(ls, line)
  OBVIOUS
<1>2. /\ N \in Nat /\ DOMAIN ls = 1..N /\ DOMAIN more = 1..(N + 1)
      /\ \A i \in 1..N : more[i] = ls[i]
      /\ more[N + 1] = line
      /\ HeadingsOf(ls) \in SUBSET (1..N)
  BY <1>1, LineAdded
<1>3. HeadingsOf(more) = HeadingsOf(ls)
  BY <1>2 DEF HeadingsOf
<1>4. ASSUME NEW n \in HeadingsOf(ls), NEW c, IsOf(c, ls, n) PROVE IsOf(c, more, n)
  <2>1. NothingBelow(ls, line, n)
    BY DEF NothingBelow
  <2> QED BY <1>1, <1>2, <1>4, <2>1, StillOf
<1> QED BY <1>1, <1>3, <1>4 DEF Parsed

\* A step belongs to the last heading.
LEMMA StepParsed ==
  ASSUME NEW ls \in Seq(ReadLine), NEW line \in ReadLine, line.kind = "step", line.value \in Values,
         NEW old \in Seq(Written), Parsed(ls, old), Len(old) \in Nat \ {0},
         NEW new \in Seq(Written), Len(new) = Len(old),
         \A i \in 1..Len(old) : i # Len(old) => new[i] = old[i],
         new[Len(old)].value = old[Len(old)].value,
         new[Len(old)].steps = Append(old[Len(old)].steps, line.value)
  PROVE  Parsed(Append(ls, line), new)
<1>1. PICK N, more : N = Len(ls) /\ more = Append(ls, line)
  OBVIOUS
<1>2. /\ N \in Nat /\ DOMAIN ls = 1..N /\ DOMAIN more = 1..(N + 1)
      /\ \A i \in 1..N : more[i] = ls[i]
      /\ more[N + 1] = line
      /\ HeadingsOf(ls) \in SUBSET (1..N)
  BY <1>1, LineAdded
<1>2a. \A n : StepLines(ls, n) \in SUBSET (1..N)
  BY <1>2 DEF StepLines
<1> DEFINE H == HeadingsOf(ls)
<1>3. HeadingsOf(more) = H
  BY <1>2 DEF HeadingsOf
<1>4. Len(old) = Cardinality(H) /\ \A n \in H : IsOf(old[RankOf(H, n)], ls, n)
  BY DEF Parsed
<1>5. H \in SUBSET (1..N) /\ \A n \in H : ls[n].kind = "heading"
  BY <1>2 DEF HeadingsOf
<1>6. \A n \in 1..N : ls[n].kind = "heading" => n \in H
  BY <1>2 DEF HeadingsOf
<1> HIDE DEF H
<1>7. /\ \A n \in H : RankOf(H, n) \in 1..Cardinality(H)
      /\ \A n, m \in H : n < m => RankOf(H, n) < Cardinality(H)
      /\ \A n \in H : (\A m \in H : m <= n) => RankOf(H, n) = Cardinality(H)
  BY <1>2, <1>5, Ranked
<1>8. ASSUME NEW n \in H PROVE IsOf(new[RankOf(H, n)], more, n)
  <2>1. CASE \E m \in H : n < m
    <3>1. PICK m \in H : n < m
      BY <2>1
    <3>2. m \in (n + 1)..Len(ls) /\ ls[m].kind = "heading"
      <4>1. N \in Nat /\ N = Len(ls)
        BY <1>1, <1>2
      <4>2. m \in 1..N /\ n \in 1..N /\ ls[m].kind = "heading"
        BY <1>5
      <4> QED BY <3>1, <4>1, <4>2
    <3>3. NothingBelow(ls, line, n)
      BY <3>2 DEF NothingBelow
    <3>4. IsOf(old[RankOf(H, n)], more, n)
      BY <1>1, <1>4, <1>5, <3>3, StillOf
    <3>5. RankOf(H, n) \in 1..Len(old) /\ RankOf(H, n) # Len(old)
      BY <1>4, <1>7, <3>1
    <3> QED BY <3>4, <3>5
  <2>2. CASE \A m \in H : m <= n
    <3> DEFINE S == StepLines(ls, n)
               B == Below(ls, n)
               r == Len(old)
    <3>1. RankOf(H, n) = r
      BY <1>4, <1>7, <2>2
    <3>2. IsOf(old[r], ls, n)
      BY <1>4, <3>1
    <3>3. StepLines(more, n) = S \cup {N + 1}
      <4>1. ASSUME NEW m PROVE m \in StepLines(more, n) <=> m \in S \/ m = N + 1
        <5>1. m \in S <=> /\ m \in 1..N /\ m > n /\ ls[m].kind = "step"
                          /\ \A k \in (n + 1)..m : ls[k].kind # "heading"
          BY <1>2 DEF StepLines
        <5>2. m \in StepLines(more, n) <=> /\ m \in 1..(N + 1) /\ m > n /\ more[m].kind = "step"
                                           /\ \A k \in (n + 1)..m : more[k].kind # "heading"
          BY <1>2 DEF StepLines
        <5>3. CASE m \in 1..N
          <6>1. more[m] = ls[m] /\ (\A k \in (n + 1)..m : more[k] = ls[k]) /\ m \in 1..(N + 1) /\ m # N + 1
            BY <1>2, <1>5, <5>3
          <6> QED BY <5>1, <5>2, <5>3, <6>1
        <5>4. CASE m = N + 1
          <6>1. m \in 1..(N + 1) /\ m > n /\ more[m].kind = "step"
            BY <1>2, <1>5, <5>4
          <6>2. ASSUME NEW k \in (n + 1)..m PROVE more[k].kind # "heading"
            <7>1. CASE k = N + 1
              BY <1>2, <7>1
            <7>2. CASE k # N + 1
              <8>1. k \in 1..N /\ k > n
                BY <1>2, <1>5, <5>4, <7>2
              <8>2. k \notin H
                BY <2>2, <8>1, <1>5
              <8> QED BY <1>2, <1>6, <8>1, <8>2
            <7> QED BY <7>1, <7>2
          <6> QED BY <5>2, <5>4, <6>1, <6>2
        <5>5. CASE m \notin 1..(N + 1)
          <6>1. m \notin 1..N /\ m # N + 1
            BY <1>2, <5>5
          <6> QED BY <5>1, <5>2, <5>5, <6>1
        <5> QED BY <1>2, <5>3, <5>4, <5>5
      <4> QED BY <4>1
    <3>4. S \in SUBSET (1..N)
      BY <1>2a
    <3>5. \A m \in S : more[m].value = ls[m].value
      BY <1>2, <3>4
    <3>6. more[N + 1].value = line.value /\ more[n].value = ls[n].value
      BY <1>2, <1>5
    <3>7. Below(more, n) = B \cup {<<N + 1, line.value>>}
      <4> HIDE DEF S
      <4>1. Below(more, n) = {<<m, more[m].value>> : m \in S \cup {N + 1}}
        BY <3>3 DEF Below
      <4>2. B = {<<m, ls[m].value>> : m \in S}
        BY DEF Below, S
      <4> HIDE DEF B
      <4> QED BY <4>1, <4>2, <3>5, <3>6
    <3>8. <<N + 1, line.value>> \notin B
      <4>1. N + 1 \notin S
        BY <1>2, <3>4
      <4> QED BY <4>1 DEF Below
    <3>9. /\ old[r].value = ls[n].value
          /\ IsFiniteSet(S) /\ Cardinality(S) = Len(old[r].steps)
          /\ IsFiniteSet(B) /\ Cardinality(B) = Len(old[r].steps)
          /\ \A m \in S : old[r].steps[RankOf(S, m)] = ls[m].value
      BY <3>2 DEF IsOf
    <3>10. old[r].steps \in Seq(Values) /\ r \in 1..Len(old)
      <4>1. r \in 1..Len(old)
        OBVIOUS
      <4>2. old[r] \in Written
        BY <4>1, ElementOfSeq
      <4> QED BY <4>1, <4>2 DEF Written
    <3> HIDE DEF S, B, r
    <3>11. /\ Len(new[r].steps) = Len(old[r].steps) + 1 /\ Len(old[r].steps) \in Nat
           /\ \A i \in 1..Len(old[r].steps) : new[r].steps[i] = old[r].steps[i]
           /\ new[r].steps[Len(old[r].steps) + 1] = line.value
           /\ new[r].value = old[r].value
      <4>1. new[r].steps = Append(old[r].steps, line.value) /\ new[r].value = old[r].value
        BY DEF r
      <4> QED BY <4>1, <3>10, AppendProperties
    <3>12. /\ \A m \in S : RankOf(S \cup {N + 1}, m) = RankOf(S, m)
           /\ RankOf(S \cup {N + 1}, N + 1) = Cardinality(S) + 1
           /\ IsFiniteSet(S \cup {N + 1}) /\ Cardinality(S \cup {N + 1}) = Cardinality(S) + 1
      BY <1>2, <3>4, RankedMore
    <3>13. \A m \in S : RankOf(S, m) \in 1..Cardinality(S)
      BY <1>2, <3>4, Ranked
    <3>14. /\ IsFiniteSet(B \cup {<<N + 1, line.value>>})
           /\ Cardinality(B \cup {<<N + 1, line.value>>}) = Cardinality(B) + 1
      BY <3>8, <3>9, FS_AddElement
    <3>15. ASSUME NEW m \in S \cup {N + 1}
           PROVE  new[r].steps[RankOf(S \cup {N + 1}, m)] = more[m].value
      <4>1. CASE m = N + 1
        BY <4>1, <3>6, <3>9, <3>11, <3>12
      <4>2. CASE m \in S
        BY <4>2, <3>5, <3>9, <3>11, <3>12, <3>13
      <4> QED BY <4>1, <4>2
    <3>16. IsOf(new[r], more, n)
      BY <3>3, <3>6, <3>7, <3>9, <3>11, <3>12, <3>14, <3>15 DEF IsOf
    <3> QED BY <3>1, <3>16
  <2>3. \A m \in H : m \in Int
    <3>1. N \in Nat /\ H \in SUBSET (1..N)
      BY <1>2, <1>5
    <3> QED BY <3>1
  <2>4. n \in Int
    BY <2>3
  <2> QED BY <2>1, <2>2, <2>3, <2>4
<1> QED BY <1>1, <1>3, <1>4, <1>8 DEF Parsed

ParsedInv ==
  /\ FileInv
  /\ lines \in Seq(ReadLine)
  /\ phase = "reading" => Parsed(lines, concepts \o current)

LEMMA NothingParsed ==
  ASSUME NewFile PROVE lines' \in Seq(ReadLine) /\ Parsed(lines', concepts' \o current')
<1>1. lines' = <<>> /\ concepts' \o current' = <<>>
  BY DEF NewFile
<1>2. Len(<<>>) = 0 /\ <<>> \in Seq(ReadLine)
  OBVIOUS
<1>3. \A n : n \notin HeadingsOf(<<>>)
  BY DEF HeadingsOf
<1>4. HeadingsOf(<<>>) = {}
  BY <1>3
<1>5. Cardinality({}) = 0
  BY FS_EmptySet
<1> QED BY <1>1, <1>2, <1>4, <1>5 DEF Parsed

\* A line that is read.
LEMMA LineRead ==
  ASSUME NEW kind \in {"heading", "step", "comment", "table"}, NEW value \in Values \cup {""},
         Line(kind, value), lines \in Seq(ReadLine)
  PROVE  /\ [kind |-> kind, value |-> value] \in ReadLine
         /\ lines' = Append(lines, [kind |-> kind, value |-> value])
         /\ lines' \in Seq(ReadLine) /\ phase = "reading"
<1>1. /\ lines' = Append(lines, [kind |-> kind, value |-> value]) /\ phase = "reading"
  BY DEF Line
<1>2. [kind |-> kind, value |-> value] \in ReadLine
  BY DEF ReadLine
<1> HIDE DEF ReadLine
<1>3. lines' \in Seq(ReadLine)
  BY <1>1, <1>2, AppendProperties
<1> QED BY <1>1, <1>2, <1>3

LEMMA ParsedStep ==
  ASSUME ParsedInv, [ConceptsNext]_conceptVars PROVE ParsedInv'
<1>1. FileInv /\ FileInv' /\ lines \in Seq(ReadLine)
  BY FileStep DEF ParsedInv
<1> DEFINE old == concepts \o current
<1>2. concepts \in Seq(Written) /\ current \in Seq(Written) /\ old \in Seq(Written)
  BY <1>1, ConcatProperties DEF FileInv
<1>3. ASSUME NEW value \in Names, NEW endsTable \in BOOLEAN, ConceptHeading(value, endsTable)
      PROVE  ParsedInv'
  <2> DEFINE new == [value |-> value, steps |-> <<>>]
             line == [kind |-> "heading", value |-> value]
  <2>1. /\ current' = <<new>> /\ concepts' = Finished /\ Line("heading", value)
    BY <1>3 DEF ConceptHeading
  <2>2. value \in Values \cup {""}
    BY DEF Values
  <2>3. line \in ReadLine /\ lines' = Append(lines, line) /\ lines' \in Seq(ReadLine) /\ phase = "reading"
    BY <1>1, <2>1, <2>2, LineRead
  <2>4. Finished = old
    <3>1. CASE scopes \cap {"concept", "step"} # {}
      BY <3>1 DEF Finished
    <3>2. CASE scopes \cap {"concept", "step"} = {}
      <4>1. current = <<>>
        BY <1>1, <2>3, <3>2 DEF FileInv
      <4>2. concepts \o <<>> = concepts
        BY <1>2, ConcatEmptySeq
      <4> QED BY <3>2, <4>1, <4>2 DEF Finished
    <3> QED BY <3>1, <3>2
  <2>5. new \in Written /\ new.steps = <<>> /\ new.value = line.value
    BY DEF Written
  <2>6. line.kind = "heading"
    OBVIOUS
  <2> HIDE DEF new, line, old
  <2>7. Parsed(lines, old)
    BY <2>3 DEF ParsedInv, old
  <2>8. Parsed(Append(lines, line), Append(old, new))
    BY <1>1, <1>2, <2>3, <2>5, <2>6, <2>7, HeadingParsed
  <2>9. Append(old, new) = old \o <<new>>
    BY <1>2, <2>5
  <2> QED BY <1>1, <2>1, <2>3, <2>4, <2>8, <2>9 DEF ParsedInv
<1>4. ASSUME NEW value \in Names \cup PlainSteps, ConceptStep(value) PROVE ParsedInv'
  <2> DEFINE line == [kind |-> "step", value |-> value]
             new == concepts' \o current'
  <2>1. /\ current' = [current EXCEPT ![1].steps = Append(@, value)] /\ concepts' = concepts
        /\ Line("step", value) /\ "concept" \in scopes
    BY <1>4 DEF ConceptStep
  <2>2. value \in Values /\ value \in Values \cup {""}
    BY DEF Values
  <2>3. line \in ReadLine /\ lines' = Append(lines, line) /\ lines' \in Seq(ReadLine) /\ phase = "reading"
    BY <1>1, <2>1, <2>2, LineRead
  <2>4. current # <<>> /\ Len(current) <= 1 /\ Len(current) \in Nat \ {0}
    BY <1>1, <1>2, <2>1, <2>3 DEF FileInv
  <2>5. /\ current' \in Seq(Written) /\ Len(current') = Len(current)
        /\ current'[1].value = current[1].value /\ current'[1].steps = Append(current[1].steps, value)
    BY <1>2, <2>1, <2>2, <2>4, StepAdded
  <2>6. line.kind = "step" /\ line.value = value
    OBVIOUS
  <2> HIDE DEF line
  <2>7. /\ Len(concepts) \in Nat /\ Len(old) = Len(concepts) + Len(current)
        /\ \A i \in 1..(Len(concepts) + Len(current)) :
             old[i] = IF i <= Len(concepts) THEN concepts[i] ELSE current[i - Len(concepts)]
    BY <1>2, ConcatProperties
  <2>8. /\ new \in Seq(Written) /\ Len(new) = Len(concepts) + Len(current')
        /\ \A i \in 1..(Len(concepts) + Len(current')) :
             new[i] = IF i <= Len(concepts) THEN concepts[i] ELSE current'[i - Len(concepts)]
    <3>1. concepts \in Seq(Written) /\ current' \in Seq(Written) /\ concepts' = concepts
      BY <1>2, <2>1, <2>5
    <3> DEFINE later == current'
    <3> HIDE DEF later
    <3>2. later \in Seq(Written)
      BY <3>1 DEF later
    <3>3. /\ concepts \o later \in Seq(Written) /\ Len(concepts \o later) = Len(concepts) + Len(later)
          /\ \A i \in 1..(Len(concepts) + Len(later)) :
               (concepts \o later)[i] = IF i <= Len(concepts) THEN concepts[i] ELSE later[i - Len(concepts)]
      BY <3>1, <3>2, ConcatProperties
    <3>4. new = concepts \o later
      BY <3>1 DEF later
    <3> QED BY <3>3, <3>4 DEF later
  <2>9. Parsed(lines, old)
    BY <2>3 DEF ParsedInv
  <2> HIDE DEF old, new
  <2>10. PICK r \in Nat \ {0} : r = Len(concepts) + 1 /\ r = Len(old) /\ r = Len(new) /\ r - Len(concepts) = 1
    BY <2>4, <2>5, <2>7, <2>8
  <2>11. /\ \A i \in 1..r : i # r => new[i] = old[i]
         /\ new[r] = current'[1] /\ old[r] = current[1]
    BY <2>4, <2>5, <2>7, <2>8, <2>10
  <2>12. /\ Len(old) \in Nat \ {0} /\ Len(new) = Len(old)
         /\ \A i \in 1..Len(old) : i # Len(old) => new[i] = old[i]
         /\ new[Len(old)].value = old[Len(old)].value
         /\ new[Len(old)].steps = Append(old[Len(old)].steps, line.value)
    BY <2>5, <2>6, <2>10, <2>11
  <2>13. Parsed(Append(lines, line), new)
    BY <1>1, <1>2, <2>2, <2>3, <2>6, <2>8, <2>9, <2>12, StepParsed
  <2> QED BY <1>1, <2>3, <2>13 DEF ParsedInv, new
<1>5. ASSUME NEW kind \in {"comment", "table"}, Line(kind, ""), UNCHANGED <<concepts, current>>
      PROVE  ParsedInv'
  <2> DEFINE line == [kind |-> kind, value |-> ""]
  <2>1. "" \in Values \cup {""}
    OBVIOUS
  <2>2. line \in ReadLine /\ lines' = Append(lines, line) /\ lines' \in Seq(ReadLine) /\ phase = "reading"
    BY <1>1, <1>5, <2>1, LineRead
  <2>3. line.kind \notin {"heading", "step"}
    OBVIOUS
  <2> HIDE DEF line, old
  <2>4. Parsed(lines, old)
    BY <2>2 DEF ParsedInv, old
  <2>5. Parsed(Append(lines, line), old)
    BY <1>1, <2>2, <2>3, <2>4, OtherParsed
  <2>6. concepts' \o current' = old
    BY <1>5 DEF old
  <2> QED BY <1>1, <2>2, <2>5, <2>6 DEF ParsedInv
<1>6. ASSUME NEW fails, NextFile(fails) PROVE ParsedInv'
  BY <1>1, <1>6, NothingParsed DEF NextFile, ParsedInv
<1>7. CASE EndFile \/ AddConcept \/ Ready
  <2>1. lines' = lines /\ phase' # "reading"
    BY <1>7 DEF EndFile, AddConcept, Adding, Ready, file
  <2> QED BY <1>1, <2>1 DEF ParsedInv
<1>8. CASE UNCHANGED conceptVars
  BY <1>8, <1>1 DEF conceptVars, file, ParsedInv
<1>9. CASE Comment \/ TableLine
  BY <1>5, <1>9 DEF Comment, TableLine
<1>10. ASSUME NEW value \in Names \cup PlainSteps, RejectStep(value) PROVE ParsedInv'
  BY <1>6, <1>10 DEF RejectStep, RejectLine, RejectFile
<1>11. CASE RejectTable \/ RejectText \/ RejectWithoutStep
  BY <1>6, <1>11 DEF RejectTable, RejectText, RejectWithoutStep, RejectLine, RejectFile
<1>12. CASE DuplicateConcept \/ ValidateConcepts
  BY <1>6, <1>12 DEF DuplicateConcept, ValidateConcepts
<1> QED BY <1>3, <1>4, <1>7, <1>8, <1>9, <1>10, <1>11, <1>12 DEF ConceptsNext

\* The finite sets of Parsed are those of the property.
LEMMA ParsedAsWritten ==
  ASSUME ParsedInv PROVE ConceptsAsWritten
<1> SUFFICES ASSUME phase = "reading", NEW parsed, parsed = concepts \o current
             PROVE  /\ Len(parsed) = Cardinality(Headings)
                    /\ \A n \in Headings :
                         LET c == parsed[RankOf(Headings, n)]
                             below == StepsBelow(n)
                         IN  /\ c.value = lines[n].value
                             /\ Len(c.steps) = Cardinality(below)
                             /\ \A s \in below : c.steps[RankOf({t[1] : t \in below}, s[1])] = s[2]
  BY DEF ConceptsAsWritten, RankOf
<1>1. Headings = HeadingsOf(lines)
  BY DEF Headings, HeadingsOf
<1>2. Parsed(lines, parsed)
  BY DEF ParsedInv
<1>3. ASSUME NEW n \in Headings
      PROVE  LET c == parsed[RankOf(Headings, n)]
                 below == StepsBelow(n)
             IN  /\ c.value = lines[n].value
                 /\ Len(c.steps) = Cardinality(below)
                 /\ \A s \in below : c.steps[RankOf({t[1] : t \in below}, s[1])] = s[2]
  <2> DEFINE c == parsed[RankOf(Headings, n)]
  <2>1. IsOf(c, lines, n)
    BY <1>1, <1>2 DEF Parsed
  <2>2. StepsBelow(n) = Below(lines, n)
    BY DEF StepsBelow, Below, StepLines
  <2>3. {t[1] : t \in Below(lines, n)} = StepLines(lines, n)
    <3> DEFINE S == StepLines(lines, n)
               B == Below(lines, n)
    <3>1. \A t \in B : t[1] \in S
      BY DEF Below
    <3>2. \A m \in S : <<m, lines[m].value>> \in B
      BY DEF Below
    <3>3. ASSUME NEW m \in S PROVE m \in {t[1] : t \in B}
      <4>1. <<m, lines[m].value>> \in B /\ <<m, lines[m].value>>[1] = m
        BY <3>2
      <4> HIDE DEF B
      <4> QED BY <4>1
    <3> HIDE DEF B, S
    <3>4. {t[1] : t \in B} = S
      BY <3>1, <3>3
    <3> QED BY <3>4 DEF B, S
  <2>4. ASSUME NEW s \in Below(lines, n)
        PROVE  c.steps[RankOf(StepLines(lines, n), s[1])] = s[2]
    <3>1. PICK m \in StepLines(lines, n) : s = <<m, lines[m].value>>
      BY DEF Below
    <3> QED BY <2>1, <3>1 DEF IsOf
  <2> HIDE DEF c
  <2>5. c.value = lines[n].value /\ Len(c.steps) = Cardinality(Below(lines, n))
    BY <2>1 DEF IsOf
  <2>6. \A s \in Below(lines, n) : c.steps[RankOf({t[1] : t \in Below(lines, n)}, s[1])] = s[2]
    BY <2>3, <2>4
  <2>7. /\ c.value = lines[n].value
        /\ Len(c.steps) = Cardinality(StepsBelow(n))
        /\ \A s \in StepsBelow(n) : c.steps[RankOf({t[1] : t \in StepsBelow(n)}, s[1])] = s[2]
    BY <2>2, <2>5, <2>6
  <2> QED BY <2>7 DEF c
<1>4. Len(parsed) = Cardinality(Headings)
  BY <1>1, <1>2 DEF Parsed
<1> QED BY <1>3, <1>4

\* Whatever lines a file has: each heading is a concept, in order, with the steps below it
\* and no others, although a concept is taken over when the next heading comes, by states
\* that say what some concept above had.
THEOREM ParsedWritten == ConceptsSpec => []ConceptsAsWritten
<1>1. ConceptsInit => ParsedInv
  <2> SUFFICES ASSUME ConceptsInit PROVE ParsedInv
    OBVIOUS
  <2>1. FileInv
    BY DictionaryStart DEF DictionaryInv
  <2>2. lines = <<>> /\ concepts \o current = <<>>
    BY DEF ConceptsInit
  <2>3. Len(<<>>) = 0 /\ <<>> \in Seq(ReadLine)
    OBVIOUS
  <2>4. HeadingsOf(<<>>) = {}
    BY DEF HeadingsOf
  <2>5. Cardinality({}) = 0
    BY FS_EmptySet
  <2> QED BY <2>1, <2>2, <2>3, <2>4, <2>5 DEF ParsedInv, Parsed
<1>2. ParsedInv /\ [ConceptsNext]_conceptVars => ParsedInv'
  BY ParsedStep
<1>3. ParsedInv => ConceptsAsWritten
  BY ParsedAsWritten
<1> QED BY <1>1, <1>2, <1>3, PTL DEF ConceptsSpec
-----------------------------------------------------------------------------
(* Recursive functions.                                                    *)

\* Every set of elements of S has one with no other below it.
Minimal(S, R) == \A T \in SUBSET S : T # {} => \E x \in T : \A y \in T : <<y, x>> \notin R

\* What E makes of an element and a function depends on what the function has below it.
DependsBelow(S, R, V, E) ==
  \A x \in S : \A f, g \in [S -> V] :
    (\A y \in S : <<y, x>> \in R => f[y] = g[y]) => E[<<x, f>>] = E[<<x, g>>]

\* f is as E says on D, which has whatever is below its elements.
SolvesOn(S, R, V, E, D, f) ==
  /\ f \in [S -> V]
  /\ \A x \in D : f[x] = E[<<x, f>>]
  /\ \A x \in D : \A y \in S : <<y, x>> \in R => y \in D

LEMMA SolutionsAgree ==
  ASSUME NEW S, NEW R, NEW V, NEW E, Minimal(S, R), DependsBelow(S, R, V, E),
         NEW C \in SUBSET S, NEW f, SolvesOn(S, R, V, E, C, f),
         NEW D \in SUBSET S, NEW g, SolvesOn(S, R, V, E, D, g)
  PROVE  \A x \in C \cap D : f[x] = g[x]
<1> DEFINE T == {x \in C \cap D : f[x] # g[x]}
<1> SUFFICES ASSUME T # {} PROVE FALSE
  OBVIOUS
<1>1. T \in SUBSET S
  OBVIOUS
<1>2. PICK x \in T : \A y \in T : <<y, x>> \notin R
  <2> HIDE DEF T
  <2> QED BY <1>1 DEF Minimal
<1>3. \A y \in S : <<y, x>> \in R => f[y] = g[y]
  BY <1>2 DEF SolvesOn
<1>4. E[<<x, f>>] = E[<<x, g>>]
  <2>1. x \in S /\ f \in [S -> V] /\ g \in [S -> V]
    BY <1>1, <1>2 DEF SolvesOn
  <2> QED BY <2>1, <1>3 DEF DependsBelow
<1> QED BY <1>2, <1>4 DEF SolvesOn

Recursive(S, R, V, E) ==
  /\ E \in [S \X [S -> V] -> V] /\ V # {}
  /\ Minimal(S, R) /\ DependsBelow(S, R, V, E)

Solves(S, V, E, f) == f \in [S -> V] /\ \A x \in S : f[x] = E[<<x, f>>]

\* Where nothing goes down forever, a recursive definition defines a function.
LEMMA Recursion ==
  ASSUME NEW S, NEW R, NEW V, NEW E, Recursive(S, R, V, E)
  PROVE  \E f : Solves(S, V, E, f)
<1>0. E \in [S \X [S -> V] -> V] /\ V # {} /\ Minimal(S, R) /\ DependsBelow(S, R, V, E)
  BY DEF Recursive
<1> DEFINE Is(x, v) == \E D \in SUBSET S : \E f : SolvesOn(S, R, V, E, D, f) /\ x \in D /\ v = f[x]
           D0 == {x \in S : \E v \in V : Is(x, v)}
           h == [x \in S |-> IF x \in D0 THEN CHOOSE v \in V : Is(x, v) ELSE CHOOSE v \in V : TRUE]
<1>1. \A x \in D0 : Is(x, h[x])
  <2>1. \A x \in D0 : \E v \in V : Is(x, v)
    OBVIOUS
  <2>2. \A x \in D0 : h[x] = CHOOSE v \in V : Is(x, v)
    OBVIOUS
  <2> HIDE DEF Is, D0, h
  <2> QED BY <2>1, <2>2
<1>2. h \in [S -> V]
  <2>1. \A x \in S : (IF x \in D0 THEN CHOOSE v \in V : Is(x, v) ELSE CHOOSE v \in V : TRUE) \in V
    <3>1. \A x \in D0 : \E v \in V : Is(x, v)
      OBVIOUS
    <3> HIDE DEF Is, D0
    <3> QED BY <3>1, <1>0
  <2> HIDE DEF D0, Is
  <2> QED BY <2>1
<1>3. ASSUME NEW D \in SUBSET S, NEW f, SolvesOn(S, R, V, E, D, f)
      PROVE  D \in SUBSET D0 /\ \A x \in D : h[x] = f[x]
  <2>1. \A x \in D : f[x] \in V /\ Is(x, f[x])
    BY <1>3 DEF SolvesOn
  <2>2. D \in SUBSET D0
    BY <2>1
  <2>3. ASSUME NEW x \in D PROVE h[x] = f[x]
    <3>0. PICK C \in SUBSET S : \E g : SolvesOn(S, R, V, E, C, g) /\ x \in C /\ h[x] = g[x]
      BY <1>1, <2>2
    <3>1. PICK g : SolvesOn(S, R, V, E, C, g) /\ x \in C /\ h[x] = g[x]
      BY <3>0
    <3> HIDE DEF h, D0, Is
    <3>2. \A z \in D \cap C : f[z] = g[z]
      <4>1. SolvesOn(S, R, V, E, C, g)
        BY <3>1
      <4> QED BY ONLY <1>0, D \in SUBSET S, C \in SUBSET S, <1>3, <4>1, SolutionsAgree
    <3> QED BY <3>1, <3>2
  <2> QED BY <2>2, <2>3
<1>4. SolvesOn(S, R, V, E, D0, h)
  <2>1. ASSUME NEW x \in D0
        PROVE  h[x] = E[<<x, h>>] /\ \A y \in S : <<y, x>> \in R => y \in D0
    <3>0. PICK D \in SUBSET S : \E f : SolvesOn(S, R, V, E, D, f) /\ x \in D
      BY <1>1
    <3>1. PICK f : SolvesOn(S, R, V, E, D, f) /\ x \in D
      BY <3>0
    <3>2. D \in SUBSET D0 /\ \A y \in D : h[y] = f[y]
      BY <1>3, <3>1
    <3> HIDE DEF h, D0, Is
    <3>3. \A y \in S : <<y, x>> \in R => y \in D /\ f[y] = h[y]
      BY <3>1, <3>2 DEF SolvesOn
    <3>4. E[<<x, f>>] = E[<<x, h>>]
      BY <3>1, <3>3, <1>0, <1>2 DEF SolvesOn, DependsBelow
    <3> QED BY <3>1, <3>2, <3>3, <3>4 DEF SolvesOn
  <2> HIDE DEF h, D0, Is
  <2> QED BY <2>1, <1>2 DEF SolvesOn
<1>5. D0 = S
  <2> SUFFICES ASSUME S \ D0 # {} PROVE FALSE
    OBVIOUS
  <2>1. PICK x \in S \ D0 : \A y \in S \ D0 : <<y, x>> \notin R
    <3> HIDE DEF h, D0, Is
    <3>1. S \ D0 \in SUBSET S
      OBVIOUS
    <3> QED BY <1>0, <3>1 DEF Minimal
  <2> DEFINE k == [h EXCEPT ![x] = E[<<x, h>>]]
             D1 == D0 \cup {x}
  <2>2. D1 \in SUBSET S
    OBVIOUS
  <2>3. SolvesOn(S, R, V, E, D1, k)
    <3> HIDE DEF h, D0, Is
    <3>1. <<x, h>> \in S \X [S -> V]
      BY <1>2
    <3>2. E[<<x, h>>] \in V
      BY <1>0, <3>1
    <3>3. k \in [S -> V]
      BY <3>2, <1>2
    <3>4. \A y \in S \ {x} : k[y] = h[y]
      BY <1>2
    <3>5. k[x] = E[<<x, h>>]
      BY <1>2
    <3> HIDE DEF k
    <3>6. \A y \in D1 : \A z \in S : <<z, y>> \in R => z \in D0
      BY <1>4, <2>1 DEF SolvesOn
    <3>7. ASSUME NEW y \in D1 PROVE k[y] = E[<<y, k>>]
      <4>1. \A z \in S : <<z, y>> \in R => h[z] = k[z]
        BY <3>4, <3>6, <2>1
      <4>2. y \in S
        BY <2>2
      <4>3. E[<<y, h>>] = E[<<y, k>>]
        BY <4>1, <4>2, <3>3, <1>0, <1>2 DEF DependsBelow
      <4>4. k[y] = E[<<y, h>>]
        BY <3>4, <3>5, <1>4, <4>2 DEF SolvesOn
      <4> QED BY <4>3, <4>4
    <3> QED BY <3>3, <3>6, <3>7 DEF SolvesOn
  <2>4. x \in D0
    <3> HIDE DEF h, D0, Is, k
    <3>1. D1 \in SUBSET D0
      BY <1>3, <2>2, <2>3
    <3> QED BY <3>1
  <2> QED BY <2>1, <2>4
<1> HIDE DEF h, D0, Is
<1>6. Solves(S, V, E, h)
  BY <1>4, <1>5, <1>2 DEF SolvesOn, Solves
<1> QED BY <1>6
-----------------------------------------------------------------------------
(* Sums.                                                                   *)

\* Of finite sets, one has fewest elements.
LEMMA FewestElements ==
  ASSUME NEW C, C # {}, \A s \in C : IsFiniteSet(s)
  PROVE  \E s \in C : \A t \in C : Cardinality(s) <= Cardinality(t)
<1> DEFINE T == {Cardinality(s) : s \in C}
<1>1. T \in SUBSET Nat /\ T # {}
  BY FS_CardinalityType
<1>2. PICK n \in T : \A m \in T : n <= m
  <2> HIDE DEF T
  <2> QED BY <1>1, Smallest
<1>3. PICK s \in C : n = Cardinality(s)
  BY <1>2
<1>4. \A t \in C : Cardinality(t) \in T
  OBVIOUS
<1> HIDE DEF T
<1> QED BY <1>2, <1>3, <1>4

\* As MapThenSumSet takes the elements one by one.
Pick(s) == CHOOSE x \in s : TRUE

Summing(g, S, f) ==
  g = [s \in SUBSET S |-> IF s = {} THEN 0 ELSE f[Pick(s)] + g[s \ {Pick(s)}]]

SumOf(f, S) == (CHOOSE g : Summing(g, S, f))[S]

\* One element less.
LEMMA WithoutOne ==
  ASSUME NEW s, IsFiniteSet(s), NEW x \in s
  PROVE  IsFiniteSet(s \ {x}) /\ Cardinality(s \ {x}) \in Nat /\ ~(Cardinality(s) <= Cardinality(s \ {x}))
<1>1. IsFiniteSet(s \ {x}) /\ Cardinality(s \ {x}) = Cardinality(s) - 1
  BY FS_RemoveElement
<1>2. Cardinality(s) \in Nat /\ Cardinality(s \ {x}) \in Nat
  BY <1>1, FS_CardinalityType
<1> QED BY <1>1, <1>2

LEMMA SummingExists ==
  ASSUME NEW S, IsFiniteSet(S), NEW f, \A x \in S : f[x] \in Nat
  PROVE  \E g \in [SUBSET S -> Nat] : Summing(g, S, f)
<1> DEFINE R == {p \in (SUBSET S) \X (SUBSET S) : \E x \in p[2] : p[1] = p[2] \ {x}}
           E == [p \in (SUBSET S) \X [SUBSET S -> Nat] |->
                   IF p[1] = {} THEN 0 ELSE f[Pick(p[1])] + p[2][p[1] \ {Pick(p[1])}]]
<1>1. \A s \in SUBSET S : s # {} => Pick(s) \in s /\ s \ {Pick(s)} \in SUBSET S /\ f[Pick(s)] \in Nat
  BY DEF Pick
<1>2. E \in [(SUBSET S) \X [SUBSET S -> Nat] -> Nat]
  <2>1. ASSUME NEW p \in (SUBSET S) \X [SUBSET S -> Nat]
        PROVE  (IF p[1] = {} THEN 0 ELSE f[Pick(p[1])] + p[2][p[1] \ {Pick(p[1])}]) \in Nat
    BY <1>1
  <2> QED BY <2>1
<1>3. \A s, t \in SUBSET S : <<t, s>> \in R <=> \E x \in s : t = s \ {x}
  OBVIOUS
<1>4. \A s \in SUBSET S : \A g \in [SUBSET S -> Nat] :
        E[<<s, g>>] = IF s = {} THEN 0 ELSE f[Pick(s)] + g[s \ {Pick(s)}]
  OBVIOUS
<1> HIDE DEF R, E
<1>5. Minimal(SUBSET S, R)
  <2> SUFFICES ASSUME NEW T \in SUBSET SUBSET S, T # {}
               PROVE  \E s \in T : \A t \in T : <<t, s>> \notin R
    BY DEF Minimal
  <2>1. \A s \in T : IsFiniteSet(s)
    BY FS_Subset
  <2>2. PICK s \in T : \A t \in T : Cardinality(s) <= Cardinality(t)
    BY <2>1, FewestElements
  <2>3. ASSUME NEW t \in T, <<t, s>> \in R PROVE FALSE
    <3>1. PICK x \in s : t = s \ {x}
      BY <1>3, <2>3
    <3>2. IsFiniteSet(s)
      BY <2>1
    <3>3. ~(Cardinality(s) <= Cardinality(s \ {x}))
      BY <3>2, WithoutOne
    <3> QED BY <2>2, <3>1, <3>3
  <2> QED BY <2>3
<1>6. DependsBelow(SUBSET S, R, Nat, E)
  <2> SUFFICES ASSUME NEW s \in SUBSET S, NEW g \in [SUBSET S -> Nat], NEW h \in [SUBSET S -> Nat],
                      \A t \in SUBSET S : <<t, s>> \in R => g[t] = h[t]
               PROVE  E[<<s, g>>] = E[<<s, h>>]
    BY DEF DependsBelow
  <2>1. CASE s = {}
    BY <2>1, <1>4
  <2>2. CASE s # {}
    <3>1. <<s \ {Pick(s)}, s>> \in R /\ s \ {Pick(s)} \in SUBSET S
      BY <2>2, <1>1, <1>3
    <3>2. g[s \ {Pick(s)}] = h[s \ {Pick(s)}]
      BY <3>1
    <3> QED BY <3>2, <1>4, <2>2
  <2> QED BY <2>1, <2>2
<1>7. Recursive(SUBSET S, R, Nat, E)
  BY <1>2, <1>5, <1>6 DEF Recursive
<1>10. PICK g : Solves(SUBSET S, Nat, E, g)
  BY <1>7, Recursion
<1>11. g \in [SUBSET S -> Nat] /\ \A s \in SUBSET S : g[s] = E[<<s, g>>]
  BY <1>10 DEF Solves
<1>8. \A s \in SUBSET S : g[s] = IF s = {} THEN 0 ELSE f[Pick(s)] + g[s \ {Pick(s)}]
  BY <1>4, <1>11
<1>9. g = [s \in SUBSET S |-> IF s = {} THEN 0 ELSE f[Pick(s)] + g[s \ {Pick(s)}]]
  BY <1>8, <1>11
<1> QED BY <1>9, <1>11 DEF Summing

Agree(f, g, S) == \A x \in S : f[x] = g[x]

\* Two ways to sum up agree where what is summed does.
LEMMA SummingAgree ==
  ASSUME NEW S, NEW T, NEW U, U \in SUBSET S, U \in SUBSET T, IsFiniteSet(U),
         NEW f, NEW g, Summing(g, S, f), NEW e, NEW h, Summing(h, T, e),
         Agree(f, e, U)
  PROVE  g[U] = h[U]
<1> DEFINE C == {s \in SUBSET U : g[s] # h[s]}
<1> SUFFICES ASSUME C # {} PROVE FALSE
  OBVIOUS
<1>1. \A s \in C : IsFiniteSet(s)
  BY FS_Subset
<1>2. PICK s \in C : \A t \in C : Cardinality(s) <= Cardinality(t)
  <2> HIDE DEF C
  <2> QED BY <1>1, FewestElements
<1>3. s \in SUBSET U /\ g[s] # h[s] /\ s \in SUBSET S /\ s \in SUBSET T
  BY <1>2
<1>4. /\ g[s] = IF s = {} THEN 0 ELSE f[Pick(s)] + g[s \ {Pick(s)}]
      /\ h[s] = IF s = {} THEN 0 ELSE e[Pick(s)] + h[s \ {Pick(s)}]
  BY <1>3 DEF Summing
<1>5. s # {}
  BY <1>3, <1>4
<1>6. Pick(s) \in s
  BY <1>5 DEF Pick
<1>7. ~(Cardinality(s) <= Cardinality(s \ {Pick(s)}))
  BY <1>1, <1>2, <1>6, WithoutOne
<1>8. g[s \ {Pick(s)}] = h[s \ {Pick(s)}]
  <2>1. s \ {Pick(s)} \notin C
    <3> HIDE DEF C
    <3> QED BY <1>2, <1>7
  <2> QED BY <2>1, <1>3
<1>9. f[Pick(s)] = e[Pick(s)]
  BY <1>3, <1>6 DEF Agree
<1> QED BY <1>3, <1>4, <1>5, <1>8, <1>9

LEMMA SumEmpty == ASSUME NEW f PROVE SumOf(f, {}) = 0
<1>1. IsFiniteSet({})
  BY FS_EmptySet
<1>2. \E g : Summing(g, {}, f)
  BY <1>1, SummingExists
<1> DEFINE g == CHOOSE g0 : Summing(g0, {}, f)
<1>3. Summing(g, {}, f)
  BY <1>2
<1> HIDE DEF g
<1>4. g[{}] = 0
  BY <1>3 DEF Summing
<1> QED BY <1>4 DEF SumOf, g

\* g has the sums of all subsets of S.
SumsUp(g, S, f) ==
  g \in [SUBSET S -> Nat] /\ Summing(g, S, f) /\ \A s \in SUBSET S : SumOf(f, s) = g[s]

\* What the sum of a set is: that of one who has summed up all its subsets.
LEMMA SumIs ==
  ASSUME NEW S, IsFiniteSet(S), NEW f, \A x \in S : f[x] \in Nat
  PROVE  \E g : SumsUp(g, S, f)
<1>1. PICK g \in [SUBSET S -> Nat] : Summing(g, S, f)
  BY SummingExists
<1>2. ASSUME NEW s \in SUBSET S PROVE SumOf(f, s) = g[s]
  <2>1. IsFiniteSet(s)
    BY FS_Subset
  <2>2. \A x \in s : f[x] \in Nat
    OBVIOUS
  <2>3. \E h : Summing(h, s, f)
    BY <2>1, <2>2, SummingExists
  <2> DEFINE h == CHOOSE h0 : Summing(h0, s, f)
  <2>4. Summing(h, s, f)
    BY <2>3
  <2>5. h[s] = SumOf(f, s)
    BY DEF SumOf
  <2> HIDE DEF h
  <2>6. s \in SUBSET s /\ s \in SUBSET S
    OBVIOUS
  <2>7. Agree(f, f, s)
    BY DEF Agree
  <2>8. h[s] = g[s]
    BY ONLY <2>1, <2>4, <2>6, <2>7, <1>1, SummingAgree
  <2> QED BY <2>5, <2>8
<1>3. SumsUp(g, S, f)
  BY <1>1, <1>2 DEF SumsUp
<1> QED BY <1>3

LEMMA SumNat ==
  ASSUME NEW S, IsFiniteSet(S), NEW f, \A x \in S : f[x] \in Nat
  PROVE  SumOf(f, S) \in Nat
<1>1. PICK g : SumsUp(g, S, f)
  BY SumIs
<1>2. S \in SUBSET S
  OBVIOUS
<1>3. SumOf(f, S) = g[S] /\ g[S] \in Nat
  BY <1>1, <1>2 DEF SumsUp
<1> QED BY <1>3

LEMMA SumPick ==
  ASSUME NEW S, IsFiniteSet(S), NEW f, \A x \in S : f[x] \in Nat, S # {}
  PROVE  SumOf(f, S) = f[Pick(S)] + SumOf(f, S \ {Pick(S)})
<1>1. PICK g : SumsUp(g, S, f)
  BY SumIs
<1>2. S \in SUBSET S /\ S \ {Pick(S)} \in SUBSET S
  OBVIOUS
<1>3. g[S] = f[Pick(S)] + g[S \ {Pick(S)}]
  BY <1>1, <1>2 DEF SumsUp, Summing
<1> QED BY <1>1, <1>2, <1>3 DEF SumsUp

\* Any element can be taken first.
LEMMA SumWithout ==
  ASSUME NEW S, IsFiniteSet(S), NEW f, \A x \in S : f[x] \in Nat, NEW x \in S
  PROVE  SumOf(f, S) = f[x] + SumOf(f, S \ {x})
<1> DEFINE Good(s) == \A y \in s : SumOf(f, s) = f[y] + SumOf(f, s \ {y})
           C == {s \in SUBSET S : ~Good(s)}
<1>0. S \in SUBSET S
  OBVIOUS
<1> SUFFICES ASSUME C # {} PROVE FALSE
  BY <1>0
<1>1. \A s \in SUBSET S : IsFiniteSet(s) /\ (\A y \in s : f[y] \in Nat) /\ SumOf(f, s) \in Nat
  <2> SUFFICES ASSUME NEW s \in SUBSET S
               PROVE  IsFiniteSet(s) /\ (\A y \in s : f[y] \in Nat) /\ SumOf(f, s) \in Nat
    OBVIOUS
  <2>1. IsFiniteSet(s) /\ \A y \in s : f[y] \in Nat
    BY FS_Subset
  <2> QED BY <2>1, SumNat
<1>2. PICK s \in C : \A t \in C : Cardinality(s) <= Cardinality(t)
  <2>1. \A t \in C : IsFiniteSet(t)
    BY <1>1
  <2> HIDE DEF C
  <2> QED BY <2>1, FewestElements
<1>3. s \in SUBSET S /\ ~Good(s)
  BY <1>2
<1>4. PICK y \in s : SumOf(f, s) # f[y] + SumOf(f, s \ {y})
  BY <1>3
<1> DEFINE p == Pick(s)
<1>5. p \in s
  BY <1>4 DEF Pick
<1>6. SumOf(f, s) = f[p] + SumOf(f, s \ {p})
  BY <1>1, <1>3, <1>4, SumPick
<1> HIDE DEF p
<1>7. p # y
  BY <1>4, <1>6
<1>8. ASSUME NEW z \in s PROVE Good(s \ {z})
  <2>1. ~(Cardinality(s) <= Cardinality(s \ {z}))
    BY <1>1, <1>3, WithoutOne
  <2>2. s \ {z} \notin C
    <3> HIDE DEF C
    <3> QED BY <1>2, <2>1
  <2>3. s \ {z} \in SUBSET S
    BY <1>3
  <2> QED BY <2>2, <2>3
<1>9. SumOf(f, s \ {p}) = f[y] + SumOf(f, (s \ {p}) \ {y})
  <2>1. y \in s \ {p}
    BY <1>7
  <2> QED BY <1>5, <1>8, <2>1
<1>10. SumOf(f, s \ {y}) = f[p] + SumOf(f, (s \ {y}) \ {p})
  <2>1. p \in s \ {y}
    BY <1>5, <1>7
  <2> QED BY <1>8, <2>1
<1>11. (s \ {p}) \ {y} = (s \ {y}) \ {p}
  OBVIOUS
<1>12. f[p] \in Nat /\ f[y] \in Nat /\ SumOf(f, (s \ {y}) \ {p}) \in Nat
  <2>1. (s \ {y}) \ {p} \in SUBSET S
    BY <1>3
  <2> QED BY <2>1, <1>1, <1>3, <1>5
<1> HIDE DEF C, Good
<1> QED BY <1>4, <1>6, <1>9, <1>10, <1>11, <1>12

LEMMA SumWith ==
  ASSUME NEW S, IsFiniteSet(S), NEW f, \A x \in S : f[x] \in Nat, NEW y, y \notin S, f[y] \in Nat
  PROVE  SumOf(f, S \cup {y}) = f[y] + SumOf(f, S)
<1>1. IsFiniteSet(S \cup {y}) /\ (\A x \in S \cup {y} : f[x] \in Nat) /\ y \in S \cup {y}
  BY FS_AddElement
<1>2. SumOf(f, S \cup {y}) = f[y] + SumOf(f, (S \cup {y}) \ {y})
  BY <1>1, SumWithout
<1>3. (S \cup {y}) \ {y} = S
  OBVIOUS
<1> QED BY <1>2, <1>3

\* Sums of functions that agree.
LEMMA SumSame ==
  ASSUME NEW S, IsFiniteSet(S), NEW f, NEW g, \A x \in S : f[x] \in Nat /\ f[x] = g[x]
  PROVE  SumOf(f, S) = SumOf(g, S)
<1>1. PICK a : SumsUp(a, S, f)
  BY SumIs
<1>2. PICK b : SumsUp(b, S, g)
  <2>1. \A x \in S : g[x] \in Nat
    OBVIOUS
  <2> QED BY <2>1, SumIs
<1>3. S \in SUBSET S
  OBVIOUS
<1>4. a[S] = b[S]
  <2>1. Summing(a, S, f) /\ Summing(b, S, g)
    BY <1>1, <1>2 DEF SumsUp
  <2>2. Agree(f, g, S)
    BY DEF Agree
  <2> QED BY ONLY <1>3, <2>1, <2>2, IsFiniteSet(S), SummingAgree
<1> QED BY <1>1, <1>2, <1>3, <1>4 DEF SumsUp

LEMMA SumZero ==
  ASSUME NEW S, IsFiniteSet(S), NEW f, \A x \in S : f[x] = 0
  PROVE  SumOf(f, S) = 0
<1>1. PICK g : SumsUp(g, S, f)
  BY SumIs
<1> DEFINE C == {s \in SUBSET S : g[s] # 0}
<1>2. S \in SUBSET S
  OBVIOUS
<1> SUFFICES ASSUME C # {} PROVE FALSE
  BY <1>1, <1>2 DEF SumsUp
<1>3. PICK s \in C : \A t \in C : Cardinality(s) <= Cardinality(t)
  <2>1. \A t \in C : IsFiniteSet(t)
    BY FS_Subset
  <2> HIDE DEF C
  <2> QED BY <2>1, FewestElements
<1>4. s \in SUBSET S /\ g[s] # 0 /\ IsFiniteSet(s)
  BY <1>3, FS_Subset
<1>5. g[s] = IF s = {} THEN 0 ELSE f[Pick(s)] + g[s \ {Pick(s)}]
  BY <1>1, <1>4 DEF SumsUp, Summing
<1>6. Pick(s) \in s
  BY <1>4, <1>5 DEF Pick
<1>7. s \ {Pick(s)} \notin C
  <2>1. ~(Cardinality(s) <= Cardinality(s \ {Pick(s)}))
    BY <1>4, <1>6, WithoutOne
  <2> HIDE DEF C
  <2> QED BY <1>3, <2>1
<1>8. g[s \ {Pick(s)}] = 0
  BY <1>7, <1>4
<1>9. f[Pick(s)] = 0
  BY <1>4, <1>6
<1> QED BY <1>4, <1>5, <1>6, <1>8, <1>9

\* Two sets that have nothing in common.
LEMMA SumUnion ==
  ASSUME NEW S, IsFiniteSet(S), NEW T, IsFiniteSet(T), S \cap T = {},
         NEW f, \A x \in S \cup T : f[x] \in Nat
  PROVE  SumOf(f, S \cup T) = SumOf(f, S) + SumOf(f, T)
<1> DEFINE Good(s) == SumOf(f, S \cup s) = SumOf(f, S) + SumOf(f, s)
           C == {s \in SUBSET T : ~Good(s)}
<1>0. T \in SUBSET T
  OBVIOUS
<1> SUFFICES ASSUME C # {} PROVE FALSE
  BY <1>0
<1>1. \A s \in SUBSET T : IsFiniteSet(s) /\ SumOf(f, s) \in Nat
  <2> SUFFICES ASSUME NEW s \in SUBSET T PROVE IsFiniteSet(s) /\ SumOf(f, s) \in Nat
    OBVIOUS
  <2>1. IsFiniteSet(s) /\ \A y \in s : f[y] \in Nat
    BY FS_Subset
  <2> QED BY <2>1, SumNat
<1>2. SumOf(f, S) \in Nat
  BY SumNat
<1>3. PICK s \in C : \A t \in C : Cardinality(s) <= Cardinality(t)
  <2>1. \A t \in C : IsFiniteSet(t)
    BY <1>1
  <2> HIDE DEF C
  <2> QED BY <2>1, FewestElements
<1>4. s \in SUBSET T /\ ~Good(s) /\ IsFiniteSet(s)
  BY <1>1, <1>3
<1>5. s # {}
  <2>1. SumOf(f, {}) = 0 /\ S \cup {} = S
    BY SumEmpty
  <2>2. Good({})
    BY <2>1, <1>2
  <2> QED BY <2>2, <1>4
<1>6. PICK x \in s : TRUE
  BY <1>5
<1>7. Good(s \ {x})
  <2>1. ~(Cardinality(s) <= Cardinality(s \ {x}))
    BY <1>4, WithoutOne
  <2>2. s \ {x} \notin C
    <3> HIDE DEF C
    <3> QED BY <1>3, <2>1
  <2> QED BY <2>2, <1>4
<1>8. SumOf(f, s) = f[x] + SumOf(f, s \ {x})
  <2>1. \A y \in s : f[y] \in Nat
    BY <1>4
  <2> QED BY <1>4, <2>1, SumWithout
<1>9. SumOf(f, S \cup s) = f[x] + SumOf(f, S \cup (s \ {x}))
  <2>1. IsFiniteSet(S \cup s)
    BY <1>4, FS_Union
  <2>2. \A y \in S \cup s : f[y] \in Nat
    BY <1>4
  <2>3. SumOf(f, S \cup s) = f[x] + SumOf(f, (S \cup s) \ {x})
    BY <2>1, <2>2, SumWithout
  <2>4. (S \cup s) \ {x} = S \cup (s \ {x})
    BY <1>4
  <2> QED BY <2>3, <2>4
<1>10. f[x] \in Nat /\ SumOf(f, s \ {x}) \in Nat
  BY <1>1, <1>4
<1> HIDE DEF C
<1> QED BY <1>2, <1>4, <1>7, <1>8, <1>9, <1>10
-----------------------------------------------------------------------------
(* Sequences of sequences.                                                 *)

\* FlattenSeq takes the last of these.
Flattening(f, ss) == f = [i \in 1..Len(ss) |-> IF i = 1 THEN ss[i] ELSE f[i - 1] \o ss[i]]

LEMMA FlatteningExists ==
  ASSUME NEW A, NEW ss \in Seq(Seq(A))
  PROVE  \E f : Flattening(f, ss)
<1> DEFINE S == 1..Len(ss)
           R == {p \in S \X S : p[1] = p[2] - 1}
           E == [p \in S \X [S -> Seq(A)] |->
                   IF p[1] = 1 THEN ss[p[1]] ELSE p[2][p[1] - 1] \o ss[p[1]]]
<1>1. \A i \in S : ss[i] \in Seq(A) /\ i \in Nat /\ (i # 1 => i - 1 \in S /\ i - 1 # i /\ <<i - 1, i>> \in R)
  BY ElementOfSeq, LenProperties
<1>2. E \in [S \X [S -> Seq(A)] -> Seq(A)]
  <2>1. ASSUME NEW p \in S \X [S -> Seq(A)]
        PROVE  (IF p[1] = 1 THEN ss[p[1]] ELSE p[2][p[1] - 1] \o ss[p[1]]) \in Seq(A)
    <3>1. p[1] \in S /\ p[2] \in [S -> Seq(A)]
      OBVIOUS
    <3>2. ss[p[1]] \in Seq(A)
      BY <1>1, <3>1
    <3>3. CASE p[1] # 1
      <4>1. p[2][p[1] - 1] \in Seq(A)
        BY <1>1, <3>1, <3>3
      <4>2. p[2][p[1] - 1] \o ss[p[1]] \in Seq(A)
        BY <3>2, <4>1, ConcatProperties
      <4> QED BY <3>3, <4>2
    <3> QED BY <3>2, <3>3
  <2> HIDE DEF S
  <2> QED BY <2>1
<1>3. \A i \in S : \A f \in [S -> Seq(A)] : E[<<i, f>>] = IF i = 1 THEN ss[i] ELSE f[i - 1] \o ss[i]
  OBVIOUS
<1>4. Minimal(S, R)
  <2> SUFFICES ASSUME NEW T \in SUBSET S, T # {}
               PROVE  \E i \in T : \A j \in T : <<j, i>> \notin R
    BY DEF Minimal
  <2>1. T \in SUBSET Nat
    OBVIOUS
  <2>2. PICK i \in T : \A j \in T : i <= j
    BY <2>1, Smallest
  <2>3. ASSUME NEW j \in T PROVE <<j, i>> \notin R
    BY <2>1, <2>2
  <2> QED BY <2>3
<1>5. DependsBelow(S, R, Seq(A), E)
  <2> SUFFICES ASSUME NEW i \in S, NEW f \in [S -> Seq(A)], NEW g \in [S -> Seq(A)],
                      \A j \in S : <<j, i>> \in R => f[j] = g[j]
               PROVE  E[<<i, f>>] = E[<<i, g>>]
    BY DEF DependsBelow
  <2>1. i # 1 => f[i - 1] = g[i - 1]
    BY <1>1
  <2> HIDE DEF E, S, R
  <2>2. /\ E[<<i, f>>] = IF i = 1 THEN ss[i] ELSE f[i - 1] \o ss[i]
        /\ E[<<i, g>>] = IF i = 1 THEN ss[i] ELSE g[i - 1] \o ss[i]
    BY <1>3
  <2>3. CASE i = 1
    BY <2>2, <2>3
  <2>4. CASE i # 1
    BY <2>1, <2>2, <2>4
  <2> QED BY <2>3, <2>4
<1>6. Recursive(S, R, Seq(A), E)
  <2>1. Seq(A) # {}
    <3>1. <<>> \in Seq(A)
      OBVIOUS
    <3> QED BY <3>1
  <2> HIDE DEF E, S, R
  <2> QED BY <1>2, <1>4, <1>5, <2>1 DEF Recursive
<1>7. PICK f : Solves(S, Seq(A), E, f)
  <2> HIDE DEF E, S, R
  <2> QED BY <1>6, Recursion
<1>8. f \in [S -> Seq(A)] /\ \A i \in S : f[i] = IF i = 1 THEN ss[i] ELSE f[i - 1] \o ss[i]
  <2> HIDE DEF E, S, R
  <2> QED BY <1>3, <1>7 DEF Solves
<1>9. f = [i \in S |-> IF i = 1 THEN ss[i] ELSE f[i - 1] \o ss[i]]
  <2> HIDE DEF S
  <2> QED BY <1>8
<1> QED BY <1>9 DEF Flattening

\* p has what the first sequences of ss come to, for any number of them.
IsParts(p, ss, A) ==
  /\ p \in [0..Len(ss) -> Seq(A)] /\ p[0] = <<>> /\ p[Len(ss)] = FlattenSeq(ss)
  /\ \A k \in 1..Len(ss) : p[k] = p[k - 1] \o ss[k]

LEMMA PartsExist ==
  ASSUME NEW A, NEW ss \in Seq(Seq(A))
  PROVE  \E p : IsParts(p, ss, A)
<1> DEFINE n == Len(ss)
           F == CHOOSE f : f = [i \in 1..Len(ss) |-> IF i = 1 THEN ss[i] ELSE f[i - 1] \o ss[i]]
           p == [k \in 0..n |-> IF k = 0 THEN <<>> ELSE F[k]]
<1>1. n \in Nat /\ \A i \in 1..n : ss[i] \in Seq(A)
  BY ElementOfSeq, LenProperties
<1>2. FlattenSeq(ss) = IF n = 0 THEN ss ELSE F[n]
  BY DEF FlattenSeq
<1>3. \A i \in 1..n : F[i] = IF i = 1 THEN ss[i] ELSE F[i - 1] \o ss[i]
  <2>1. \E f : f = [i \in 1..Len(ss) |-> IF i = 1 THEN ss[i] ELSE f[i - 1] \o ss[i]]
    BY FlatteningExists DEF Flattening
  <2>2. F = [i \in 1..Len(ss) |-> IF i = 1 THEN ss[i] ELSE F[i - 1] \o ss[i]]
    BY <2>1
  <2> HIDE DEF F
  <2> QED BY <2>2
<1> HIDE DEF F
<1>4. \A k \in 1..n : F[k] \in Seq(A)
  <2> DEFINE T == {k \in 1..n : F[k] \notin Seq(A)}
  <2> SUFFICES ASSUME T # {} PROVE FALSE
    OBVIOUS
  <2>1. T \in SUBSET Nat
    OBVIOUS
  <2>2. PICK k \in T : \A m \in T : k <= m
    <3> HIDE DEF T
    <3> QED BY <2>1, Smallest
  <2>3. CASE k = 1
    BY <2>2, <2>3, <1>1, <1>3
  <2>4. CASE k # 1
    <3>1. k - 1 \in 1..n /\ ~(k <= k - 1)
      BY <2>2, <2>4, <1>1
    <3>2. F[k - 1] \in Seq(A)
      BY <2>2, <3>1
    <3>3. ss[k] \in Seq(A) /\ F[k] = F[k - 1] \o ss[k]
      BY <1>1, <1>3, <2>2, <2>4
    <3>4. F[k - 1] \o ss[k] \in Seq(A)
      BY <3>2, <3>3, ConcatProperties
    <3> QED BY <2>2, <3>3, <3>4
  <2> QED BY <2>3, <2>4
<1>5. p \in [0..n -> Seq(A)]
  <2>1. ASSUME NEW k \in 0..n PROVE (IF k = 0 THEN <<>> ELSE F[k]) \in Seq(A)
    <3>1. k # 0 => k \in 1..n
      BY <1>1
    <3> QED BY <3>1, <1>4
  <2> HIDE DEF n
  <2> QED BY <2>1
<1>6. p[0] = <<>> /\ p[n] = FlattenSeq(ss)
  <2>1. CASE n = 0
    <3>1. ss = <<>>
      BY <2>1, EmptySeq
    <3> QED BY <2>1, <3>1, <1>2
  <2>2. CASE n # 0
    BY <2>2, <1>1, <1>2
  <2> QED BY <2>1, <2>2
<1>7. ASSUME NEW k \in 1..n PROVE p[k] = p[k - 1] \o ss[k]
  <2>1. k \in Nat /\ k # 0 /\ k \in 0..n /\ k - 1 \in 0..n
    BY <1>1
  <2>2. p[k] = F[k]
    BY <2>1
  <2>3. CASE k = 1
    <3>1. p[k - 1] = <<>> /\ F[k] = ss[k]
      BY <2>3, <1>1, <1>3
    <3>2. <<>> \o ss[k] = ss[k]
      BY <1>1, ConcatEmptySeq
    <3> HIDE DEF p
    <3> QED BY <2>2, <3>1, <3>2
  <2>4. CASE k # 1
    <3>1. p[k - 1] = F[k - 1]
      BY <2>1, <2>4
    <3> QED BY <2>2, <2>4, <3>1, <1>3
  <2> QED BY <2>3, <2>4
<1> HIDE DEF p
<1>8. IsParts(p, ss, A)
  BY <1>5, <1>6, <1>7 DEF IsParts
<1> QED BY <1>8

\* all begins with s.
Continues(all, s, A) == \E rest \in Seq(A) : all = s \o rest

\* What comes after the first sequences.
LEMMA PartsRest ==
  ASSUME NEW A, NEW ss \in Seq(Seq(A)), NEW p, IsParts(p, ss, A), NEW k \in 0..Len(ss)
  PROVE  Continues(FlattenSeq(ss), p[k], A)
<1> DEFINE n == Len(ss)
           Good(d) == \E rest \in Seq(A) : FlattenSeq(ss) = p[n - d] \o rest
           T == {d \in 0..n : ~Good(d)}
<1>1. n \in Nat /\ \A i \in 1..n : ss[i] \in Seq(A)
  BY ElementOfSeq, LenProperties
<1>2. T = {}
  <2> SUFFICES ASSUME T # {} PROVE FALSE
    OBVIOUS
  <2>1. T \in SUBSET Nat
    OBVIOUS
  <2>2. PICK d \in T : \A m \in T : d <= m
    <3> HIDE DEF T
    <3> QED BY <2>1, Smallest
  <2>3. d \in 0..n /\ d \in Nat /\ ~Good(d)
    <3> HIDE DEF Good
    <3> QED BY <2>2
  <2>4. CASE d = 0
    <3>1. n - d = n /\ n \in 0..n
      BY <2>4, <1>1
    <3>2. p[n] \in Seq(A) /\ FlattenSeq(ss) = p[n]
      BY <3>1 DEF IsParts
    <3>3. p[n] \o <<>> = p[n] /\ <<>> \in Seq(A)
      BY <3>2, ConcatEmptySeq
    <3> QED BY <2>3, <3>1, <3>2, <3>3
  <2>5. CASE d # 0
    <3>1. d - 1 \in 0..n /\ ~(d <= d - 1)
      BY <2>3, <2>5, <1>1
    <3>2. d - 1 \notin T
      <4> HIDE DEF T
      <4> QED BY <2>2, <3>1
    <3>3. PICK rest \in Seq(A) : FlattenSeq(ss) = p[n - (d - 1)] \o rest
      BY <3>1, <3>2
    <3> DEFINE m == n - (d - 1)
    <3>4. m \in 1..n /\ m - 1 = n - d /\ n - d \in 0..n
      BY <2>3, <2>5, <1>1
    <3>5. p[m] = p[n - d] \o ss[m] /\ p[n - d] \in Seq(A) /\ ss[m] \in Seq(A)
      BY <3>4, <1>1 DEF IsParts
    <3> HIDE DEF m
    <3>9. p[n - d] \in Seq(A) /\ ss[m] \in Seq(A) /\ rest \in Seq(A)
      BY <3>3, <3>5
    <3>6. (p[n - d] \o ss[m]) \o rest = p[n - d] \o (ss[m] \o rest)
      <4> DEFINE a == p[n - d]
                 b == ss[m]
      <4>1. a \in Seq(A) /\ b \in Seq(A) /\ rest \in Seq(A)
        BY <3>9
      <4> HIDE DEF a, b
      <4>2. (a \o b) \o rest = a \o (b \o rest)
        BY ONLY <4>1, ConcatAssociative, SMTT(30)
      <4> QED BY <4>2 DEF a, b
    <3>7. ss[m] \o rest \in Seq(A)
      BY <3>5, ConcatProperties
    <3>8. FlattenSeq(ss) = p[n - d] \o (ss[m] \o rest)
      BY <3>3, <3>5, <3>6 DEF m
    <3> QED BY <2>3, <3>7, <3>8
  <2> QED BY <2>4, <2>5
<1>3. n - k \in 0..n /\ n - (n - k) = k
  BY <1>1
<1>4. n - k \notin T
  BY <1>2
<1>5. Good(n - k)
  <2> HIDE DEF n, Good
  <2> QED BY <1>3, <1>4
<1>6. \E rest \in Seq(A) : FlattenSeq(ss) = p[k] \o rest
  <2>1. \E rest \in Seq(A) : FlattenSeq(ss) = p[n - (n - k)] \o rest
    BY <1>5
  <2> HIDE DEF n
  <2> QED BY <1>3, <2>1
<1> QED BY <1>6 DEF Continues
-----------------------------------------------------------------------------
(* The steps under items.                                                  *)

\* What StepsUnder makes of an item, f having the steps under others.
UnderBy(item, f) ==
  IF Kind[item] = "step" THEN <<item>>
  ELSE FlattenSeq([i \in DOMAIN Steps[item] |-> f[Steps[item][i]]])

LEMMA StepsTyped ==
  ASSUME NEW item \in Item
  PROVE  /\ Steps[item] \in Seq(Item) /\ Len(Steps[item]) \in Nat /\ DOMAIN Steps[item] = 1..Len(Steps[item])
         /\ \A k \in 1..Len(Steps[item]) : Steps[item][k] \in Item
<1>1. Steps[item] \in Seq(Item)
  BY ItemAssumption
<1> QED BY <1>1, ElementOfSeq, LenProperties

LEMMA UnderTyped ==
  ASSUME NEW item \in Item, NEW f, \A k \in DOMAIN Steps[item] : f[Steps[item][k]] \in Seq(Item)
  PROVE  UnderBy(item, f) \in Seq(Item)
<1> DEFINE ss == [i \in DOMAIN Steps[item] |-> f[Steps[item][i]]]
<1>1. Steps[item] \in Seq(Item) /\ Len(Steps[item]) \in Nat /\ DOMAIN Steps[item] = 1..Len(Steps[item])
  BY StepsTyped
<1>2. ss \in [1..Len(Steps[item]) -> Seq(Item)]
  BY <1>1
<1>3. ss \in Seq(Seq(Item))
  BY <1>1, <1>2
<1> HIDE DEF ss
<1>4. PICK p : IsParts(p, ss, Item)
  BY <1>3, PartsExist
<1>5. FlattenSeq(ss) \in Seq(Item)
  <2>1. Len(ss) \in 0..Len(ss)
    BY <1>3, LenProperties
  <2> QED BY <1>4, <2>1 DEF IsParts
<1>6. <<item>> \in Seq(Item)
  OBVIOUS
<1> QED BY <1>5, <1>6 DEF UnderBy, ss

LEMMA UnderSame ==
  ASSUME NEW item \in Item, NEW f, NEW g, \A k \in DOMAIN Steps[item] : f[Steps[item][k]] = g[Steps[item][k]]
  PROVE  UnderBy(item, f) = UnderBy(item, g)
<1>1. [i \in DOMAIN Steps[item] |-> f[Steps[item][i]]] = [i \in DOMAIN Steps[item] |-> g[Steps[item][i]]]
  OBVIOUS
<1> QED BY <1>1 DEF UnderBy

LEMMA StepsUnderIs ==
  StepsUnder \in [Item -> Seq(Item)] /\ \A item \in Item : StepsUnder[item] = UnderBy(item, StepsUnder)
<1> DEFINE R == {p \in Item \X Item : \E k \in DOMAIN Steps[p[2]] : p[1] = Steps[p[2]][k]}
           E == [p \in Item \X [Item -> Seq(Item)] |-> UnderBy(p[1], p[2])]
<1>1. \A c, i \in Item : <<c, i>> \in R <=> \E k \in DOMAIN Steps[i] : c = Steps[i][k]
  OBVIOUS
<1>2. E \in [Item \X [Item -> Seq(Item)] -> Seq(Item)]
  <2>1. ASSUME NEW p \in Item \X [Item -> Seq(Item)] PROVE UnderBy(p[1], p[2]) \in Seq(Item)
    <3>1. p[1] \in Item /\ p[2] \in [Item -> Seq(Item)]
      OBVIOUS
    <3>2. \A k \in DOMAIN Steps[p[1]] : p[2][Steps[p[1]][k]] \in Seq(Item)
      BY <3>1, StepsTyped
    <3> QED BY <3>1, <3>2, UnderTyped
  <2> QED BY <2>1
<1>3. \A i \in Item : \A f \in [Item -> Seq(Item)] : E[<<i, f>>] = UnderBy(i, f)
  OBVIOUS
<1> HIDE DEF R, E
<1>4. Minimal(Item, R)
  <2> SUFFICES ASSUME NEW T \in SUBSET Item, T # {} PROVE \E i \in T : \A j \in T : <<j, i>> \notin R
    BY DEF Minimal
  <2>1. PICK i \in T : \A k \in DOMAIN Steps[i] : Steps[i][k] \notin T
    BY NestingAssumption
  <2> QED BY <1>1, <2>1
<1>5. DependsBelow(Item, R, Seq(Item), E)
  <2> SUFFICES ASSUME NEW i \in Item, NEW f \in [Item -> Seq(Item)], NEW g \in [Item -> Seq(Item)],
                      \A j \in Item : <<j, i>> \in R => f[j] = g[j]
               PROVE  E[<<i, f>>] = E[<<i, g>>]
    BY DEF DependsBelow
  <2>1. \A k \in DOMAIN Steps[i] : f[Steps[i][k]] = g[Steps[i][k]]
    BY <1>1, StepsTyped
  <2>2. UnderBy(i, f) = UnderBy(i, g)
    BY <2>1, UnderSame
  <2> QED BY <1>3, <2>2
<1>6. Recursive(Item, R, Seq(Item), E)
  <2>1. Seq(Item) # {}
    <3>1. <<>> \in Seq(Item)
      OBVIOUS
    <3> QED BY <3>1
  <2> QED BY <1>2, <1>4, <1>5, <2>1 DEF Recursive
<1>7. PICK f : Solves(Item, Seq(Item), E, f)
  BY <1>6, Recursion
<1>8. f = [i \in Item |-> UnderBy(i, f)]
  BY <1>3, <1>7 DEF Solves
<1>9. StepsUnder = [i \in Item |-> UnderBy(i, StepsUnder)]
  <2>1. \E g : g = [item \in Item |->
                 IF Kind[item] = "step" THEN <<item>>
                 ELSE FlattenSeq([i \in DOMAIN Steps[item] |-> g[Steps[item][i]]])]
    BY <1>8 DEF UnderBy
  <2>2. StepsUnder = CHOOSE g : g = [item \in Item |->
                 IF Kind[item] = "step" THEN <<item>>
                 ELSE FlattenSeq([i \in DOMAIN Steps[item] |-> g[Steps[item][i]]])]
    BY DEF StepsUnder
  <2>3. StepsUnder = [item \in Item |->
                 IF Kind[item] = "step" THEN <<item>>
                 ELSE FlattenSeq([i \in DOMAIN Steps[item] |-> StepsUnder[Steps[item][i]]])]
    BY <2>1, <2>2
  <2> QED BY <2>3 DEF UnderBy
<1>10. \A i \in Item : StepsUnder[i] = UnderBy(i, StepsUnder)
  BY <1>9
<1>11. \A i \in Item : StepsUnder[i] \in Seq(Item)
  <2> DEFINE T == {i \in Item : StepsUnder[i] \notin Seq(Item)}
  <2> SUFFICES ASSUME T # {} PROVE FALSE
    OBVIOUS
  <2>1. PICK i \in T : \A k \in DOMAIN Steps[i] : Steps[i][k] \notin T
    <3>1. T \in SUBSET Item
      OBVIOUS
    <3> HIDE DEF T
    <3> QED BY <3>1, NestingAssumption
  <2>2. \A k \in DOMAIN Steps[i] : StepsUnder[Steps[i][k]] \in Seq(Item)
    BY <2>1, StepsTyped
  <2>3. UnderBy(i, StepsUnder) \in Seq(Item)
    BY <2>2, UnderTyped
  <2> QED BY <2>1, <2>3, <1>10
<1>12. StepsUnder \in [Item -> Seq(Item)]
  BY <1>9, <1>11
<1> QED BY <1>10, <1>12
-----------------------------------------------------------------------------
(* Scenarios: what the variables are.                                      *)

Result == [failed : BOOLEAN, time : Nat]
Frame == [concept : Item \cup {None}, next : Nat]
Top == Contexts \o Items

ScenarioType ==
  /\ pc \in {"before", "items", "after", "done"}
  /\ frames \in Seq(Frame) /\ Len(frames) > 0
  /\ failure \in BOOLEAN
  /\ objectOf \in [Item -> Item \cup {None}]
  /\ object \in [Item -> Result]
  /\ scenario \in Result
  /\ ran \in Seq(Item)
  /\ took \in [Item \cup {None} -> Nat]

LEMMA TopTyped ==
  Top \in Seq(Item) /\ Len(Top) \in Nat /\ DOMAIN Top = 1..Len(Top) /\ \A n \in 1..Len(Top) : Top[n] \in Item
<1>1. Top \in Seq(Item)
  BY ItemAssumption, ConcatProperties DEF Top
<1> QED BY <1>1, ElementOfSeq, LenProperties

LEMMA FrameItems ==
  ASSUME NEW f \in Frame
  PROVE  /\ ItemsOf(f) \in Seq(Item) /\ Len(ItemsOf(f)) \in Nat /\ DOMAIN ItemsOf(f) = 1..Len(ItemsOf(f))
         /\ \A n \in 1..Len(ItemsOf(f)) : ItemsOf(f)[n] \in Item
<1>1. CASE f.concept = None
  BY <1>1, TopTyped DEF ItemsOf, Top
<1>2. CASE f.concept # None
  <2>1. f.concept \in Item
    BY <1>2 DEF Frame
  <2>2. ItemsOf(f) = Steps[f.concept]
    BY <1>2 DEF ItemsOf
  <2> QED BY <2>1, <2>2, StepsTyped
<1> QED BY <1>1, <1>2

LEMMA ResultTyped ==
  ASSUME NEW i \in Item, NEW of \in [Item -> Item \cup {None}], NEW obj \in [Item -> Result]
  PROVE  ResultOf(i, of, obj) \in Result
<1>1. Nothing \in Result
  BY DEF Nothing, Result
<1>2. of[i] # None => obj[of[i]] \in Result
  <2>1. of[i] \in Item \cup {None}
    OBVIOUS
  <2> HIDE DEF Result
  <2> QED BY <2>1
<1> HIDE DEF Result
<1> QED BY <1>1, <1>2 DEF ResultOf

\* The times of a sequence of items, by position.
TimesOf(items, of, obj) == [k \in DOMAIN items |-> ResultOf(items[k], of, obj).time]

LEMMA TimeIs ==
  ASSUME NEW items \in Seq(Item), NEW of \in [Item -> Item \cup {None}], NEW obj \in [Item -> Result]
  PROVE  /\ DOMAIN items = 1..Len(items) /\ IsFiniteSet(DOMAIN items)
         /\ \A k \in DOMAIN items : TimesOf(items, of, obj)[k] = ResultOf(items[k], of, obj).time
         /\ \A k \in DOMAIN items : TimesOf(items, of, obj)[k] \in Nat
         /\ TimeOf(items, of, obj) = SumOf(TimesOf(items, of, obj), DOMAIN items)
         /\ TimeOf(items, of, obj) \in Nat
<1> DEFINE D == DOMAIN items
           f == TimesOf(items, of, obj)
<1>1. Len(items) \in Nat /\ D = 1..Len(items) /\ \A k \in D : items[k] \in Item
  BY ElementOfSeq, LenProperties
<1>2. IsFiniteSet(D)
  BY <1>1, FS_Interval
<1>3. \A k \in D : f[k] = ResultOf(items[k], of, obj).time
  BY DEF TimesOf
<1>4. \A k \in D : f[k] \in Nat
  <2> SUFFICES ASSUME NEW k \in D PROVE f[k] \in Nat
    OBVIOUS
  <2>1. ResultOf(items[k], of, obj) \in Result
    BY <1>1, ResultTyped
  <2> QED BY <2>1, <1>3 DEF Result
<1> HIDE DEF f
<1> DEFINE Way(g) == g = [s \in SUBSET DOMAIN items |->
                           IF s = {} THEN 0
                           ELSE ResultOf(items[Pick(s)], of, obj).time + g[s \ {Pick(s)}]]
           h == CHOOSE g : g = [s \in SUBSET DOMAIN items |->
                           IF s = {} THEN 0
                           ELSE ResultOf(items[Pick(s)], of, obj).time + g[s \ {Pick(s)}]]
<1>5. TimeOf(items, of, obj) = h[D]
  BY DEF TimeOf, MapThenSumSet, MapThenFoldSet, Pick
<1>6. \A s \in SUBSET D : s # {} => f[Pick(s)] = ResultOf(items[Pick(s)], of, obj).time
  <2>1. \A s \in SUBSET D : s # {} => Pick(s) \in D
    BY DEF Pick
  <2> QED BY <2>1, <1>3
<1>7. ASSUME NEW g PROVE Way(g) <=> Summing(g, D, f)
  <2>1. [s \in SUBSET D |-> IF s = {} THEN 0 ELSE f[Pick(s)] + g[s \ {Pick(s)}]]
        = [s \in SUBSET D |-> IF s = {} THEN 0 ELSE ResultOf(items[Pick(s)], of, obj).time + g[s \ {Pick(s)}]]
    BY <1>6
  <2> QED BY <2>1 DEF Summing
<1>8. PICK g : SumsUp(g, D, f)
  BY <1>2, <1>4, SumIs
<1>9. Way(g)
  BY <1>7, <1>8 DEF SumsUp
<1>10. Way(h)
  BY <1>9
<1>11. Summing(h, D, f)
  <2> HIDE DEF h, Way
  <2> QED BY <1>7, <1>10
<1>12. h[D] = g[D]
  <2>1. D \in SUBSET D /\ Agree(f, f, D) /\ Summing(g, D, f)
    BY <1>8 DEF Agree, SumsUp
  <2> HIDE DEF h, D
  <2> QED BY ONLY <2>1, <1>2, <1>11, SummingAgree
<1>13. g[D] = SumOf(f, D) /\ g[D] \in Nat
  <2>1. D \in SUBSET D
    OBVIOUS
  <2> HIDE DEF D
  <2> QED BY <2>1, <1>8 DEF SumsUp
<1> HIDE DEF h
<1> QED BY <1>1, <1>2, <1>3, <1>4, <1>5, <1>12, <1>13 DEF f

\* What setExecutionResultForConcept leaves.
LEMMA ConceptResult ==
  ASSUME NEW c \in Item, NEW of \in [Item -> Item \cup {None}], NEW obj \in [Item -> Result]
  PROVE  /\ SetExecutionResultForConcept(c, of, obj).of \in [Item -> Item \cup {None}]
         /\ SetExecutionResultForConcept(c, of, obj).obj \in [Item -> Result]
         /\ \A i \in Item : SetExecutionResultForConcept(c, of, obj).obj[i].failed => \E j \in Item : obj[j].failed
<1> DEFINE steps == Steps[c]
           failing == {i \in DOMAIN steps : ResultOf(steps[i], of, obj).failed}
           new == SetExecutionResultForConcept(c, of, obj)
<1>1. steps \in Seq(Item) /\ Len(steps) \in Nat /\ DOMAIN steps = 1..Len(steps) /\ \A k \in 1..Len(steps) : steps[k] \in Item
  BY StepsTyped
<1>2. CASE failing = {}
  <2> DEFINE x == [failed |-> FALSE, time |-> TimeOf(steps, of, obj)]
  <2>1. new = [of |-> [of EXCEPT ![c] = c], obj |-> [obj EXCEPT ![c] = x]]
    BY <1>2 DEF SetExecutionResultForConcept
  <2>2. x \in Result /\ ~x.failed
    BY <1>1, TimeIs DEF Result
  <2> HIDE DEF x, new
  <2>3. new.of = [of EXCEPT ![c] = c] /\ new.obj = [obj EXCEPT ![c] = x]
    BY <2>1
  <2>4. new.of \in [Item -> Item \cup {None}]
    BY <2>3
  <2>5. new.obj \in [Item -> Result]
    <3> HIDE DEF Result
    <3> QED BY <2>2, <2>3
  <2>6. \A i \in Item : new.obj[i].failed => \E j \in Item : obj[j].failed
    <3> HIDE DEF Result
    <3>1. \A i \in Item : new.obj[i] = IF i = c THEN x ELSE obj[i]
      BY <2>3
    <3> QED BY <2>2, <3>1
  <2> QED BY <2>4, <2>5, <2>6 DEF new
<1>3. CASE failing # {}
  <2> DEFINE first == Min(failing)
             shared == of[steps[first]]
             t == TimeOf(SubSeq(steps, 1, first), of, obj)
  <2>1. first \in failing
    <3>1. failing \in SUBSET Nat
      BY <1>1
    <3>2. PICK m \in failing : \A k \in failing : m <= k
      <4> HIDE DEF failing
      <4> QED BY <1>3, <3>1, Smallest
    <3> HIDE DEF failing
    <3> QED BY <3>2 DEF Min
  <2> HIDE DEF first
  <2>2. first \in 1..Len(steps) /\ ResultOf(steps[first], of, obj).failed
    BY <1>1, <2>1
  <2>3. shared \in Item /\ obj[shared].failed
    <3>1. steps[first] \in Item
      BY <1>1, <2>2
    <3>2. shared # None
      BY <2>2 DEF ResultOf, Nothing
    <3> QED BY <2>2, <3>1, <3>2 DEF ResultOf
  <2>4. t \in Nat
    <3>1. SubSeq(steps, 1, first) \in Seq(Item)
      BY <1>1, <2>2, SubSeqProperties
    <3> QED BY <3>1, TimeIs
  <2>5. new = [of |-> [of EXCEPT ![c] = shared], obj |-> [obj EXCEPT ![shared].time = t]]
    BY <1>3 DEF SetExecutionResultForConcept, first
  <2> HIDE DEF new, t, shared, failing
  <2>6. new.of = [of EXCEPT ![c] = shared] /\ new.obj = [obj EXCEPT ![shared].time = t]
    BY <2>5
  <2>7. new.of \in [Item -> Item \cup {None}]
    BY <2>3, <2>6
  <2>8. /\ \A i \in Item : i # shared => new.obj[i] = obj[i]
        /\ new.obj[shared] = [obj[shared] EXCEPT !.time = t]
        /\ new.obj = [i \in Item |-> new.obj[i]]
    BY <2>3, <2>6
  <2>9. obj[shared] \in Result
    BY <2>3
  <2>10. [obj[shared] EXCEPT !.time = t] \in Result /\ [obj[shared] EXCEPT !.time = t].failed = obj[shared].failed
    BY <2>4, <2>9 DEF Result
  <2>11. new.obj \in [Item -> Result]
    <3>1. \A i \in Item : new.obj[i] \in Result
      <4> HIDE DEF Result
      <4> QED BY <2>8, <2>10
    <3> HIDE DEF Result
    <3> QED BY <2>8, <3>1
  <2> QED BY <2>3, <2>7, <2>11 DEF new
<1> QED BY <1>2, <1>3
\* The loops under way: each is through the concept its caller is at.
FramesInv ==
  /\ frames[1].concept = None
  /\ \A k \in 1..Len(frames) : frames[k].next > 0
  /\ \A k \in 1..Len(frames) : k > 1 =>
       /\ frames[k - 1].next <= Len(ItemsOf(frames[k - 1]))
       /\ frames[k].concept = Current(frames[k - 1]) /\ Kind[frames[k].concept] = "concept"
  /\ \A k \in 1..Len(frames) : frames[k].next <= Len(ItemsOf(frames[k])) + 1
  /\ pc # "items" => Len(frames) = 1

\* A failure is noticed at once, and never forgotten.
FailureInv ==
  /\ (\E i \in Item : object[i].failed) => failure
  /\ pc = "before" => ~failure /\ ~scenario.failed /\ ran = <<>> /\ frames[1].next = 1
  /\ pc = "items" => ~scenario.failed
  /\ pc \in {"after", "done"} => (failure => scenario.failed)

LEMMA LastFrame ==
  ASSUME NEW fs \in Seq(Frame), Len(fs) > 0
  PROVE  /\ Last(fs) = fs[Len(fs)] /\ Last(fs) \in Frame /\ Len(fs) \in 1..Len(fs)
         /\ Front(fs) \in Seq(Frame) /\ Len(Front(fs)) = Len(fs) - 1
         /\ \A k \in 1..(Len(fs) - 1) : Front(fs)[k] = fs[k]
<1>1. Len(fs) \in Nat /\ Len(fs) \in 1..Len(fs)
  BY LenProperties
<1>2. Last(fs) = fs[Len(fs)] /\ fs[Len(fs)] \in Frame
  BY <1>1, ElementOfSeq DEF Last
<1>3. Front(fs) = SubSeq(fs, 1, Len(fs) - 1)
  BY DEF Front
<1>4. 1 \in 1..(Len(fs) + 1) /\ Len(fs) - 1 \in 0..Len(fs) /\ Len(fs) - 1 \in (1 - 1)..Len(fs)
  BY <1>1
<1>5. /\ Front(fs) \in Seq(Frame) /\ Len(Front(fs)) = Len(fs) - 1
      /\ \A k \in 1..(Len(fs) - 1) : Front(fs)[k] = fs[k]
  <2> DEFINE m == Len(fs) - 1
  <2>1. m \in Nat /\ m \in Int /\ 1 \in Int /\ m <= Len(fs)
    BY <1>1
  <2>2. \A i \in 1..m : fs[i] \in Frame
    <3> HIDE DEF Frame
    <3> QED BY <1>1, ElementOfSeq
  <2>3. Front(fs) = SubSeq(fs, 1, m)
    BY <1>3
  <2> HIDE DEF Frame, m
  <2>4. /\ SubSeq(fs, 1, m) \in Seq(Frame)
        /\ Len(SubSeq(fs, 1, m)) = IF 1 <= m THEN m - 1 + 1 ELSE 0
        /\ \A i \in 1..(m - 1 + 1) : SubSeq(fs, 1, m)[i] = fs[1 + i - 1]
    BY <2>1, <2>2, SubSeqProperties
  <2>5. m - 1 + 1 = m /\ (\A i \in 1..m : 1 + i - 1 = i) /\ (~(1 <= m) => m = 0)
    BY <2>1
  <2>6. Len(SubSeq(fs, 1, m)) = m /\ \A i \in 1..m : SubSeq(fs, 1, m)[i] = fs[i]
    BY <2>4, <2>5
  <2> QED BY <2>3, <2>4, <2>6 DEF m
<1> QED BY <1>1, <1>2, <1>5

LEMMA Advanced ==
  ASSUME NEW f \in Frame
  PROVE  Advance(f) \in Frame /\ Advance(f).concept = f.concept /\ Advance(f).next = f.next + 1
BY DEF Advance, Frame

LEMMA ItemsSame ==
  ASSUME NEW f, NEW g, f.concept = g.concept
  PROVE  ItemsOf(f) = ItemsOf(g)
BY DEF ItemsOf

\* What ItemReturns leaves.
Returned(fs, failed, obj) ==
  /\ frames' \in Seq(Frame) /\ Len(frames') = Len(fs)
  /\ \A k \in 1..(Len(fs) - 1) : frames'[k] = fs[k]
  /\ frames'[Len(fs)] = Advance(fs[Len(fs)])
  /\ failure' = failed
  /\ objectOf' \in [Item -> Item \cup {None}] /\ object' \in [Item -> Result]
  /\ \A i \in Item : object'[i].failed => \E j \in Item : obj[j].failed

LEMMA ItemReturned ==
  ASSUME NEW fs \in Seq(Frame), Len(fs) > 0, NEW failed \in BOOLEAN,
         NEW of \in [Item -> Item \cup {None}], NEW obj \in [Item -> Result],
         ItemReturns(fs, failed, of, obj)
  PROVE  Returned(fs, failed, obj)
<1> DEFINE frame == Last(fs)
           new == SetExecutionResultForConcept(frame.concept, of, obj)
<1>1. /\ frames' = Append(Front(fs), Advance(frame))
      /\ failure' = failed
      /\ objectOf' = IF frame.concept = None THEN of ELSE new.of
      /\ object' = IF frame.concept = None THEN obj ELSE new.obj
  BY DEF ItemReturns
<1>2. /\ frame = fs[Len(fs)] /\ frame \in Frame /\ Len(fs) \in 1..Len(fs)
      /\ Front(fs) \in Seq(Frame) /\ Len(Front(fs)) = Len(fs) - 1
      /\ \A k \in 1..(Len(fs) - 1) : Front(fs)[k] = fs[k]
  BY LastFrame
<1>3. Advance(frame) \in Frame
  BY <1>2, Advanced
<1> HIDE DEF frame, new
<1>4. /\ frames' \in Seq(Frame) /\ Len(frames') = Len(fs)
      /\ \A k \in 1..(Len(fs) - 1) : frames'[k] = fs[k]
      /\ frames'[Len(fs)] = Advance(fs[Len(fs)])
  <2> DEFINE front == Front(fs)
             last == Advance(frame)
  <2>1. front \in Seq(Frame) /\ last \in Frame
    BY <1>2, <1>3
  <2>2. Len(front) = Len(fs) - 1 /\ Len(fs) \in Nat
    BY <1>2
  <2>3. frames' = Append(front, last)
    BY <1>1
  <2>4. last = Advance(fs[Len(fs)])
    BY <1>2
  <2>5. \A k \in 1..(Len(fs) - 1) : front[k] = fs[k]
    BY <1>2
  <2> HIDE DEF front, last, Frame
  <2>6. /\ Append(front, last) \in Seq(Frame) /\ Len(Append(front, last)) = Len(front) + 1
        /\ \A i \in 1..Len(front) : Append(front, last)[i] = front[i]
        /\ Append(front, last)[Len(front) + 1] = last
    BY <2>1, AppendProperties
  <2>7. Len(front) + 1 = Len(fs)
    BY <2>2
  <2> QED BY <2>2, <2>3, <2>4, <2>5, <2>6, <2>7
<1>5. CASE frame.concept = None
  BY <1>1, <1>4, <1>5 DEF Returned
<1>6. CASE frame.concept # None
  <2>1. frame.concept \in Item
    BY <1>2, <1>6 DEF Frame
  <2>2. /\ new.of \in [Item -> Item \cup {None}] /\ new.obj \in [Item -> Result]
        /\ \A i \in Item : new.obj[i].failed => \E j \in Item : obj[j].failed
    BY <2>1, ConceptResult DEF new
  <2> QED BY <1>1, <1>4, <1>6, <2>2 DEF Returned
<1> QED BY <1>5, <1>6

\* The frames of before with the last one advanced.
LEMMA FramesAdvanced ==
  ASSUME NEW n \in Nat \ {0}, Len(frames') = n, n <= Len(frames), ScenarioType, FramesInv,
         frames' \in Seq(Frame),
         \A k \in 1..(n - 1) : frames'[k] = frames[k],
         frames'[n] = Advance(frames[n]),
         frames[n].next <= Len(ItemsOf(frames[n])), pc' = "items"
  PROVE  FramesInv'
<1>1. \A k \in 1..n : /\ frames[k] \in Frame /\ frames'[k].concept = frames[k].concept
                      /\ ItemsOf(frames'[k]) = ItemsOf(frames[k])
  <2> SUFFICES ASSUME NEW k \in 1..n
               PROVE  /\ frames[k] \in Frame /\ frames'[k].concept = frames[k].concept
                      /\ ItemsOf(frames'[k]) = ItemsOf(frames[k])
    OBVIOUS
  <2>1. frames[k] \in Frame
    <3> HIDE DEF Frame
    <3> QED BY ElementOfSeq, LenProperties DEF ScenarioType
  <2>2. frames'[k].concept = frames[k].concept
    <3>1. CASE k = n
      BY <2>1, <3>1, Advanced
    <3>2. CASE k # n
      BY <3>2
    <3> QED BY <3>1, <3>2
  <2> QED BY <2>1, <2>2, ItemsSame
<1>2. frames[n].next \in Nat /\ frames'[n].next = frames[n].next + 1 /\ n \in 1..Len(frames)
  <2>1. frames[n] \in Frame
    BY <1>1
  <2> QED BY <2>1, Advanced, LenProperties DEF Frame, ScenarioType
<1>3. \A k \in 1..n : k \in 1..Len(frames)
  BY LenProperties DEF ScenarioType
<1>4. frames'[1].concept = None
  BY <1>1 DEF FramesInv
<1>5. ASSUME NEW k \in 1..n PROVE frames'[k].next > 0 /\ frames'[k].next <= Len(ItemsOf(frames'[k])) + 1
  <2>1. CASE k = n
    <3>1. Len(ItemsOf(frames[n])) \in Nat
      BY <1>1, FrameItems
    <3> QED BY <2>1, <3>1, <1>1, <1>2
  <2>2. CASE k # n
    <3>1. frames'[k] = frames[k]
      BY <2>2
    <3> QED BY <3>1, <1>3 DEF FramesInv
  <2> QED BY <2>1, <2>2
<1>6. ASSUME NEW k \in 1..n, k > 1
      PROVE  /\ frames'[k - 1].next <= Len(ItemsOf(frames'[k - 1]))
             /\ frames'[k].concept = Current(frames'[k - 1]) /\ Kind[frames'[k].concept] = "concept"
  <2>1. k - 1 \in 1..(n - 1) /\ k \in 1..Len(frames)
    BY <1>3, <1>6
  <2>2. frames'[k - 1] = frames[k - 1]
    BY <2>1
  <2>3. /\ frames[k - 1].next <= Len(ItemsOf(frames[k - 1]))
        /\ frames[k].concept = Current(frames[k - 1]) /\ Kind[frames[k].concept] = "concept"
    BY <2>1, <1>6 DEF FramesInv
  <2> QED BY <2>2, <2>3, <1>1
<1> QED BY <1>4, <1>5, <1>6 DEF FramesInv
ScenarioInv == ScenarioType /\ FramesInv /\ FailureInv

LEMMA RepliesTyped ==
  /\ \A reply \in Reply : reply \in Result
  /\ Nothing \in Result
<1>1. Times \in SUBSET Nat
  BY ItemAssumption
<1> QED BY <1>1 DEF Reply, Result, Nothing

\* Where the innermost loop may go on.
LEMMA AtItem ==
  ASSUME ScenarioInv, NEW kind, At(kind)
  PROVE  /\ pc = "items" /\ ~failure /\ Len(frames) \in Nat \ {0}
         /\ Last(frames) = frames[Len(frames)] /\ Last(frames) \in Frame
         /\ frames[Len(frames)].next <= Len(ItemsOf(frames[Len(frames)])) /\ frames[Len(frames)].next > 0
         /\ frames[Len(frames)].next \in 1..Len(ItemsOf(frames[Len(frames)]))
         /\ Current(Last(frames)) \in Item /\ Kind[Current(Last(frames))] = kind
<1>1. pc = "items" /\ ~failure /\ ~Through(Last(frames)) /\ Kind[Current(Last(frames))] = kind
  BY DEF At
<1>2. frames \in Seq(Frame) /\ Len(frames) > 0 /\ Len(frames) \in Nat
  BY LenProperties DEF ScenarioInv, ScenarioType
<1>3. Last(frames) = frames[Len(frames)] /\ Last(frames) \in Frame /\ Len(frames) \in 1..Len(frames)
  BY <1>2, LastFrame
<1> DEFINE f == Last(frames)
<1>4. f.next \in Nat /\ f.next > 0
  BY <1>3 DEF ScenarioInv, FramesInv, Frame
<1>5. Len(ItemsOf(f)) \in Nat /\ \A n \in 1..Len(ItemsOf(f)) : ItemsOf(f)[n] \in Item
  BY <1>3, FrameItems
<1>6. f.next <= Len(ItemsOf(f)) /\ f.next \in 1..Len(ItemsOf(f))
  BY <1>1, <1>4, <1>5 DEF Through
<1>7. Current(f) \in Item
  BY <1>5, <1>6 DEF Current
<1> QED BY <1>1, <1>2, <1>3, <1>4, <1>6, <1>7

LEMMA BeforeHookKeeps ==
  ASSUME ScenarioInv, NEW reply \in Reply, ExecuteBeforeScenarioHook(reply)
  PROVE  ScenarioInv'
<1>1. reply \in Result
  BY RepliesTyped
<1>2. reply.failed \in BOOLEAN /\ reply.time \in Nat
  BY <1>1 DEF Result
<1>3. /\ pc = "before" /\ scenario' = reply /\ pc' = IF reply.failed THEN "after" ELSE "items"
      /\ took' = [took EXCEPT ![None] = reply.time]
      /\ UNCHANGED <<frames, failure, objectOf, object, ran>>
  BY DEF ExecuteBeforeScenarioHook
<1>4. took' \in [Item \cup {None} -> Nat]
  BY <1>2, <1>3 DEF ScenarioInv, ScenarioType
<1>5. ScenarioType'
  <2> HIDE DEF Result, Frame
  <2> QED BY <1>1, <1>3, <1>4 DEF ScenarioInv, ScenarioType
<1>6. FramesInv'
  BY <1>3 DEF ScenarioInv, FramesInv
<1>7. FailureInv'
  BY <1>2, <1>3 DEF ScenarioInv, FailureInv
<1> QED BY <1>5, <1>6, <1>7 DEF ScenarioInv

LEMMA AfterHookKeeps ==
  ASSUME ScenarioInv, NEW reply \in Reply, ExecuteAfterScenarioHook(reply)
  PROVE  ScenarioInv'
<1>1. reply \in Result
  BY RepliesTyped
<1>2. reply.failed \in BOOLEAN /\ reply.time \in Nat /\ scenario.failed \in BOOLEAN /\ scenario.time \in Nat
  BY <1>1 DEF Result, ScenarioInv, ScenarioType
<1>3. /\ pc = "after" /\ pc' = "done"
      /\ scenario' = [failed |-> scenario.failed \/ reply.failed,
                      time   |-> scenario.time + reply.time + TimeOf(Contexts \o Items, objectOf, object)]
      /\ took' = [took EXCEPT ![None] = @ + reply.time]
      /\ UNCHANGED <<frames, failure, objectOf, object, ran>>
  BY DEF ExecuteAfterScenarioHook
<1>4. took' \in [Item \cup {None} -> Nat]
  BY <1>2, <1>3 DEF ScenarioInv, ScenarioType
<1>5. TimeOf(Contexts \o Items, objectOf, object) \in Nat
  <2>1. Contexts \o Items \in Seq(Item)
    BY TopTyped DEF Top
  <2> QED BY <2>1, TimeIs DEF ScenarioInv, ScenarioType
<1>6. scenario' \in Result /\ (scenario.failed => scenario'.failed)
  BY <1>2, <1>3, <1>5 DEF Result
<1>7. ScenarioType'
  <2> HIDE DEF Result, Frame
  <2> QED BY <1>3, <1>4, <1>6 DEF ScenarioInv, ScenarioType
<1>8. FramesInv'
  BY <1>3 DEF ScenarioInv, FramesInv
<1>9. FailureInv'
  BY <1>3, <1>6 DEF ScenarioInv, FailureInv
<1> QED BY <1>7, <1>8, <1>9 DEF ScenarioInv

LEMMA LeaveItemsKeeps ==
  ASSUME ScenarioInv, LeaveItems
  PROVE  ScenarioInv' /\ pc' = "after" /\ scenario'.failed = failure
<1>1. /\ pc = "items" /\ Len(frames) = 1 /\ pc' = "after"
      /\ scenario' = [scenario EXCEPT !.failed = failure]
      /\ UNCHANGED <<frames, failure, objectOf, object, ran, took>>
  BY DEF LeaveItems
<1>2. scenario' \in Result /\ scenario'.failed = failure
  <2>1. scenario \in Result /\ failure \in BOOLEAN
    BY DEF ScenarioInv, ScenarioType
  <2> QED BY <1>1, <2>1 DEF Result
<1>3. ScenarioType'
  <2> HIDE DEF Result, Frame
  <2> QED BY <1>1, <1>2 DEF ScenarioInv, ScenarioType
<1>4. FramesInv'
  BY <1>1 DEF ScenarioInv, FramesInv
<1>5. FailureInv'
  BY <1>1, <1>2 DEF ScenarioInv, FailureInv
<1> QED BY <1>1, <1>2, <1>3, <1>4, <1>5 DEF ScenarioInv

LEMMA ExecuteStepKeeps ==
  ASSUME ScenarioInv, NEW before \in Reply, NEW after \in Reply, NEW body \in Reply \cup {Nothing},
         ExecuteStep(before, body, after)
  PROVE  /\ ScenarioInv' /\ pc' = pc /\ scenario' = scenario
         /\ ran' = Append(ran, Current(Last(frames)))
         /\ Len(frames') = Len(frames) /\ frames'[Len(frames)] = Advance(frames[Len(frames)])
         /\ \A k \in 1..(Len(frames) - 1) : frames'[k] = frames[k]
<1> DEFINE step == Current(Last(frames))
           result == StepResult(before, body, after)
           of == [objectOf EXCEPT ![step] = step]
           obj == [object EXCEPT ![step] = result]
<1>1. /\ At("step") /\ ItemReturns(frames, result.failed, of, obj)
      /\ ran' = Append(ran, step) /\ pc' = pc /\ scenario' = scenario
      /\ took' = [took EXCEPT ![step] = before.time + body.time + after.time]
  BY DEF ExecuteStep
<1>2. before \in Result /\ body \in Result /\ after \in Result
  BY RepliesTyped
<1>3. result \in Result /\ before.time + body.time + after.time \in Nat
  BY <1>2 DEF Result, StepResult
<1>4. step \in Item
  BY <1>1, AtItem
<1>5. /\ pc = "items" /\ ~failure /\ Len(frames) \in Nat \ {0}
      /\ frames[Len(frames)].next <= Len(ItemsOf(frames[Len(frames)]))
  BY <1>1, AtItem
<1> HIDE DEF step, result
<1>6. of \in [Item -> Item \cup {None}] /\ obj \in [Item -> Result]
  <2> HIDE DEF Result
  <2> QED BY <1>3, <1>4 DEF ScenarioInv, ScenarioType
<1>7. \A i \in Item : obj[i].failed => result.failed
  <2>1. \A i \in Item : ~object[i].failed
    BY <1>5 DEF ScenarioInv, FailureInv
  <2>2. \A i \in Item : obj[i] = IF i = step THEN result ELSE object[i]
    <3> HIDE DEF Result
    <3> QED BY <1>4 DEF ScenarioInv, ScenarioType
  <2> QED BY <2>1, <2>2
<1> HIDE DEF of, obj
<1>8. Returned(frames, result.failed, obj)
  <2>1. frames \in Seq(Frame) /\ Len(frames) > 0
    BY DEF ScenarioInv, ScenarioType
  <2>2. result.failed \in BOOLEAN
    BY <1>3 DEF Result
  <2> QED BY <1>1, <1>6, <2>1, <2>2, ItemReturned
<1>9. ScenarioType'
  <2>1. took' \in [Item \cup {None} -> Nat]
    BY <1>1, <1>3, <1>4 DEF ScenarioInv, ScenarioType
  <2>2. ran' \in Seq(Item)
    BY <1>1, <1>4, AppendProperties DEF ScenarioInv, ScenarioType
  <2>3. failure' \in BOOLEAN
    BY <1>3, <1>8 DEF Returned, Result
  <2> HIDE DEF Result, Frame
  <2> QED BY <1>1, <1>5, <1>8, <2>1, <2>2, <2>3 DEF ScenarioInv, ScenarioType, Returned
<1>10. FramesInv'
  <2>1. ScenarioType /\ FramesInv
    BY DEF ScenarioInv
  <2>2. /\ Len(frames') = Len(frames) /\ frames' \in Seq(Frame) /\ frames'[Len(frames)] = Advance(frames[Len(frames)])
        /\ \A k \in 1..(Len(frames) - 1) : frames'[k] = frames[k]
    BY <1>8 DEF Returned
  <2>3. pc' = "items" /\ Len(frames) <= Len(frames)
    BY <1>1, <1>5
  <2> QED BY <1>5, <2>1, <2>2, <2>3, FramesAdvanced
<1>11. FailureInv'
  BY <1>1, <1>5, <1>7, <1>8 DEF ScenarioInv, FailureInv, Returned
<1> QED BY <1>1, <1>8, <1>9, <1>10, <1>11 DEF ScenarioInv, Returned, step

LEMMA SkipItemKeeps ==
  ASSUME ScenarioInv, SkipItem
  PROVE  /\ ScenarioInv' /\ pc' = pc /\ failure' = FALSE /\ UNCHANGED <<scenario, ran>>
         /\ Len(frames') = Len(frames) /\ frames'[Len(frames)] = Advance(frames[Len(frames)])
         /\ \A k \in 1..(Len(frames) - 1) : frames'[k] = frames[k]
<1>1. At("other") /\ ItemReturns(frames, FALSE, objectOf, object) /\ UNCHANGED <<pc, scenario, ran, took>>
  BY DEF SkipItem
<1>2. /\ pc = "items" /\ ~failure /\ Len(frames) \in Nat \ {0}
      /\ frames[Len(frames)].next <= Len(ItemsOf(frames[Len(frames)]))
  BY <1>1, AtItem
<1>3. Returned(frames, FALSE, object)
  <2>1. frames \in Seq(Frame) /\ Len(frames) > 0 /\ objectOf \in [Item -> Item \cup {None}] /\ object \in [Item -> Result]
    BY DEF ScenarioInv, ScenarioType
  <2>2. FALSE \in BOOLEAN
    OBVIOUS
  <2> QED BY <1>1, <2>1, <2>2, ItemReturned
<1>4. \A i \in Item : ~object[i].failed
  BY <1>2 DEF ScenarioInv, FailureInv
<1>5. ScenarioType'
  <2> HIDE DEF Result, Frame
  <2> QED BY <1>1, <1>3, <1>2 DEF ScenarioInv, ScenarioType, Returned
<1>6. FramesInv'
  <2>1. ScenarioType /\ FramesInv
    BY DEF ScenarioInv
  <2>2. /\ Len(frames') = Len(frames) /\ frames' \in Seq(Frame) /\ frames'[Len(frames)] = Advance(frames[Len(frames)])
        /\ \A k \in 1..(Len(frames) - 1) : frames'[k] = frames[k]
    BY <1>3 DEF Returned
  <2>3. pc' = "items" /\ Len(frames) <= Len(frames)
    BY <1>1, <1>2
  <2> QED BY <1>2, <2>1, <2>2, <2>3, FramesAdvanced
<1>7. FailureInv'
  BY <1>1, <1>2, <1>3, <1>4 DEF ScenarioInv, FailureInv, Returned
<1> QED BY <1>1, <1>3, <1>5, <1>6, <1>7 DEF ScenarioInv, Returned

LEMMA EnterConceptKeeps ==
  ASSUME ScenarioInv, EnterConcept
  PROVE  /\ ScenarioInv' /\ UNCHANGED <<pc, failure, scenario, ran>>
         /\ Len(frames') = Len(frames) + 1
         /\ frames'[Len(frames) + 1] = [concept |-> Current(Last(frames)), next |-> 1]
         /\ \A k \in 1..Len(frames) : frames'[k] = frames[k]
<1> DEFINE new == [concept |-> Current(Last(frames)), next |-> 1]
           n == Len(frames)
<1>1. At("concept") /\ frames' = Append(frames, new) /\ UNCHANGED <<pc, failure, objectOf, object, scenario, ran, took>>
  BY DEF EnterConcept
<1>2. /\ pc = "items" /\ n \in Nat \ {0} /\ Last(frames) = frames[n] /\ Last(frames) \in Frame
      /\ frames[n].next <= Len(ItemsOf(frames[n]))
      /\ Current(Last(frames)) \in Item /\ Kind[Current(Last(frames))] = "concept"
  BY <1>1, AtItem
<1>3. new \in Frame /\ new.concept = Current(frames[n]) /\ new.next = 1
  BY <1>2 DEF Frame
<1>4. frames \in Seq(Frame)
  BY DEF ScenarioInv, ScenarioType
<1>5. frames' \in Seq(Frame) /\ Len(frames') = n + 1 /\ frames'[n + 1] = new /\ \A k \in 1..n : frames'[k] = frames[k]
  <2> HIDE DEF Frame, new
  <2> QED BY <1>1, <1>3, <1>4, AppendProperties
<1>6. ScenarioType'
  <2> HIDE DEF Result, Frame
  <2> QED BY <1>1, <1>2, <1>5 DEF ScenarioInv, ScenarioType
<1>7. Len(ItemsOf(new)) \in Nat
  BY <1>3, FrameItems
<1> HIDE DEF new
<1>8. FramesInv'
  <2>1. frames'[1] = frames[1]
    BY <1>2, <1>5
  <2>2. ASSUME NEW k \in 1..(n + 1) PROVE frames'[k].next > 0 /\ frames'[k].next <= Len(ItemsOf(frames'[k])) + 1
    <3>1. CASE k = n + 1
      BY <3>1, <1>3, <1>5, <1>7
    <3>2. CASE k # n + 1
      <4>1. k \in 1..n
        BY <3>2, <1>2
      <4> QED BY <4>1, <1>5 DEF ScenarioInv, FramesInv
    <3> QED BY <3>1, <3>2
  <2>3. ASSUME NEW k \in 1..(n + 1), k > 1
        PROVE  /\ frames'[k - 1].next <= Len(ItemsOf(frames'[k - 1]))
               /\ frames'[k].concept = Current(frames'[k - 1]) /\ Kind[frames'[k].concept] = "concept"
    <3>1. k - 1 \in 1..n
      BY <1>2, <2>3
    <3>2. frames'[k - 1] = frames[k - 1]
      BY <3>1, <1>5
    <3>3. CASE k = n + 1
      <4>1. k - 1 = n /\ frames'[k] = new
        BY <3>3, <1>2, <1>5
      <4> QED BY <4>1, <3>2, <1>2, <1>3
    <3>4. CASE k # n + 1
      <4>1. k \in 1..n /\ frames'[k] = frames[k]
        BY <3>4, <1>2, <1>5
      <4> QED BY <4>1, <3>2, <2>3 DEF ScenarioInv, FramesInv
    <3> QED BY <3>3, <3>4
  <2>4. frames'[1].concept = None
    BY <2>1 DEF ScenarioInv, FramesInv
  <2>5. pc' = "items"
    BY <1>1, <1>2
  <2> QED BY <1>5, <2>2, <2>3, <2>4, <2>5 DEF FramesInv
<1>9. FailureInv'
  BY <1>1, <1>2 DEF ScenarioInv, FailureInv
<1> QED BY <1>1, <1>5, <1>6, <1>8, <1>9 DEF ScenarioInv, new

LEMMA LeaveConceptKeeps ==
  ASSUME ScenarioInv, LeaveConcept
  PROVE  /\ ScenarioInv' /\ pc = "items" /\ pc' = pc /\ UNCHANGED <<scenario, ran>> /\ failure' = failure
         /\ Len(frames) > 1 /\ Len(frames') = Len(frames) - 1
         /\ failure \/ Through(frames[Len(frames)])
         /\ frames'[Len(frames) - 1] = Advance(frames[Len(frames) - 1])
         /\ \A k \in 1..(Len(frames) - 2) : frames'[k] = frames[k]
<1> DEFINE n == Len(frames)
           fs == Front(frames)
           failed == failure \/ ResultOf(Last(frames).concept, objectOf, object).failed
<1>1. /\ pc = "items" /\ n > 1 /\ (failure \/ Through(Last(frames)))
      /\ ItemReturns(fs, failed, objectOf, object) /\ UNCHANGED <<pc, scenario, ran, took>>
  BY DEF LeaveConcept
<1>2. frames \in Seq(Frame) /\ n \in Nat /\ objectOf \in [Item -> Item \cup {None}] /\ object \in [Item -> Result] /\ failure \in BOOLEAN
  BY LenProperties DEF ScenarioInv, ScenarioType
<1>3. /\ Last(frames) = frames[n] /\ Last(frames) \in Frame /\ fs \in Seq(Frame) /\ Len(fs) = n - 1
      /\ \A k \in 1..(n - 1) : fs[k] = frames[k]
  BY <1>1, <1>2, LastFrame
<1>4. n \in 1..n /\ n - 1 \in 1..n /\ n - 1 \in Nat \ {0} /\ n - 1 <= n
  <2>1. n > 1 /\ n \in Nat
    BY <1>1, <1>2
  <2> HIDE DEF n
  <2> QED BY <2>1
<1>5. Last(frames).concept \in Item /\ frames[n - 1].next <= Len(ItemsOf(frames[n - 1]))
  <2>1. /\ frames[n - 1].next <= Len(ItemsOf(frames[n - 1]))
        /\ frames[n].concept = Current(frames[n - 1])
    BY <1>1, <1>4 DEF ScenarioInv, FramesInv
  <2>2. frames[n - 1] \in Frame /\ frames[n - 1].next > 0
    <3>1. frames[n - 1] \in Frame
      <4> HIDE DEF Frame
      <4> QED BY <1>2, <1>4, ElementOfSeq
    <3> QED BY <3>1, <1>4 DEF ScenarioInv, FramesInv
  <2>3. Len(ItemsOf(frames[n - 1])) \in Nat /\ \A k \in 1..Len(ItemsOf(frames[n - 1])) : ItemsOf(frames[n - 1])[k] \in Item
    BY <2>2, FrameItems
  <2>4. frames[n - 1].next \in 1..Len(ItemsOf(frames[n - 1]))
    BY <2>1, <2>2, <2>3 DEF Frame
  <2> QED BY <2>1, <2>3, <2>4, <1>3 DEF Current
<1>6. failed = failure
  <2>1. ResultOf(Last(frames).concept, objectOf, object).failed => \E i \in Item : object[i].failed
    <3>1. objectOf[Last(frames).concept] \in Item \cup {None}
      BY <1>2, <1>5
    <3> HIDE DEF Result
    <3> QED BY <3>1 DEF ResultOf, Nothing
  <2>2. ResultOf(Last(frames).concept, objectOf, object).failed \in BOOLEAN
    <3>1. ResultOf(Last(frames).concept, objectOf, object) \in Result
      BY <1>2, <1>5, ResultTyped
    <3> QED BY <3>1 DEF Result
  <2> QED BY <1>2, <2>1, <2>2 DEF ScenarioInv, FailureInv
<1> HIDE DEF failed
<1>7. Returned(fs, failed, object)
  <2>1. Len(fs) > 0 /\ failed \in BOOLEAN
    BY <1>1, <1>2, <1>3, <1>6
  <2> HIDE DEF fs
  <2> QED BY <1>1, <1>2, <1>3, <2>1, ItemReturned
<1>8. /\ frames' \in Seq(Frame) /\ Len(frames') = n - 1
      /\ frames'[n - 1] = Advance(frames[n - 1])
      /\ \A k \in 1..(n - 2) : frames'[k] = frames[k]
  <2>1. n - 1 \in 1..(n - 1) /\ \A k \in 1..(n - 2) : k \in 1..((n - 1) - 1) /\ k \in 1..(n - 1)
    BY <1>4
  <2> HIDE DEF fs, n
  <2> QED BY <1>3, <1>7, <2>1 DEF Returned
<1>9. ScenarioType'
  <2>1. Len(frames') > 0
    BY <1>4, <1>8
  <2> HIDE DEF Result, Frame
  <2> QED BY <1>1, <1>2, <1>6, <1>7, <1>8, <2>1 DEF ScenarioInv, ScenarioType, Returned
<1>10. FramesInv'
  <2>1. ScenarioType /\ FramesInv /\ pc' = "items"
    BY <1>1 DEF ScenarioInv
  <2>2. \A k \in 1..((n - 1) - 1) : frames'[k] = frames[k]
    BY <1>4, <1>8
  <2> DEFINE m == n - 1
  <2>3. /\ m \in Nat \ {0} /\ Len(frames') = m /\ m <= Len(frames)
        /\ (\A k \in 1..(m - 1) : frames'[k] = frames[k]) /\ frames'[m] = Advance(frames[m])
        /\ frames[m].next <= Len(ItemsOf(frames[m]))
    BY <1>4, <1>5, <1>8, <2>2
  <2> HIDE DEF m
  <2> QED BY <1>8, <2>1, <2>3, FramesAdvanced
<1>11. FailureInv'
  BY <1>1, <1>6, <1>7 DEF ScenarioInv, FailureInv, Returned
<1> QED BY <1>1, <1>3, <1>6, <1>7, <1>8, <1>9, <1>10, <1>11 DEF ScenarioInv, Returned
-----------------------------------------------------------------------------
(* Scenarios: the steps that have run.                                     *)

\* Per item, the steps under it; the steps under the first items, for any number.
StepsOfEach(items) == [k \in DOMAIN items |-> StepsUnder[items[k]]]
Parts(items) == CHOOSE p : IsParts(p, StepsOfEach(items), Item)

\* The steps under what a loop has passed, and under all it goes through.
Passed(f) == Parts(ItemsOf(f))[f.next - 1]
WholeOf(f) == FlattenSeq(StepsOfEach(ItemsOf(f)))

LEMMA ExpandedParts ==
  ASSUME NEW items \in Seq(Item)
  PROVE  /\ StepsOfEach(items) \in Seq(Seq(Item)) /\ Len(StepsOfEach(items)) = Len(items) /\ Len(items) \in Nat
         /\ IsParts(Parts(items), StepsOfEach(items), Item)
         /\ \A k \in 1..Len(items) : items[k] \in Item /\ StepsOfEach(items)[k] = StepsUnder[items[k]]
         /\ \A k \in 1..Len(items) : StepsUnder[items[k]] \in Seq(Item)
<1>1. Len(items) \in Nat /\ DOMAIN items = 1..Len(items) /\ \A k \in 1..Len(items) : items[k] \in Item
  BY ElementOfSeq, LenProperties
<1>2. StepsOfEach(items) \in [1..Len(items) -> Seq(Item)]
  BY <1>1, StepsUnderIs DEF StepsOfEach
<1>3. StepsOfEach(items) \in Seq(Seq(Item)) /\ Len(StepsOfEach(items)) = Len(items)
  BY <1>1, <1>2
<1>4. \E p : IsParts(p, StepsOfEach(items), Item)
  BY <1>3, PartsExist
<1>5. IsParts(Parts(items), StepsOfEach(items), Item)
  BY <1>4 DEF Parts
<1>6. \A k \in 1..Len(items) : StepsOfEach(items)[k] = StepsUnder[items[k]]
  BY <1>1 DEF StepsOfEach
<1>7. \A k \in 1..Len(items) : StepsUnder[items[k]] \in Seq(Item)
  BY <1>1, StepsUnderIs
<1> QED BY <1>1, <1>3, <1>5, <1>6, <1>7

\* What a loop passes when it advances, and what is left.
LEMMA PassedFacts ==
  ASSUME NEW f \in Frame, f.next > 0, f.next <= Len(ItemsOf(f)) + 1
  PROVE  /\ Passed(f) \in Seq(Item) /\ WholeOf(f) \in Seq(Item)
         /\ f.next = 1 => Passed(f) = <<>>
         /\ Through(f) => Passed(f) = WholeOf(f)
         /\ ~Through(f) =>
              /\ StepsUnder[Current(f)] \in Seq(Item)
              /\ Passed(Advance(f)) = Passed(f) \o StepsUnder[Current(f)]
              /\ Continues(WholeOf(f), Passed(f) \o StepsUnder[Current(f)], Item)
<1> DEFINE items == ItemsOf(f)
           n == Len(items)
           ss == StepsOfEach(items)
           p == Parts(items)
<1>1. items \in Seq(Item) /\ n \in Nat /\ f.next \in Nat
  BY FrameItems DEF Frame
<1>2. /\ ss \in Seq(Seq(Item)) /\ Len(ss) = n /\ IsParts(p, ss, Item)
      /\ \A k \in 1..n : ss[k] = StepsUnder[items[k]] /\ StepsUnder[items[k]] \in Seq(Item)
  BY <1>1, ExpandedParts
<1>3. Passed(f) = p[f.next - 1] /\ WholeOf(f) = FlattenSeq(ss)
  BY DEF Passed, WholeOf
<1>4. Advance(f).next = f.next + 1 /\ ItemsOf(Advance(f)) = items
  BY Advanced, ItemsSame
<1>5. Passed(Advance(f)) = p[(f.next + 1) - 1]
  BY <1>4 DEF Passed
<1>6. Current(f) = items[f.next] /\ (Through(f) <=> f.next > n)
  BY DEF Current, Through
<1> HIDE DEF items, ss, p
<1>7. /\ p \in [0..n -> Seq(Item)] /\ p[0] = <<>> /\ p[n] = FlattenSeq(ss)
      /\ \A k \in 1..n : p[k] = p[k - 1] \o ss[k]
  BY <1>2 DEF IsParts
<1> HIDE DEF n
<1>8. f.next - 1 \in 0..n /\ n \in 0..n /\ (f.next = 1 => f.next - 1 = 0) /\ (f.next > n => f.next - 1 = n)
  <2>1. f.next > 0 /\ f.next <= n + 1
    BY DEF n, items
  <2> QED BY <1>1, <2>1
<1>9. Passed(f) \in Seq(Item) /\ WholeOf(f) \in Seq(Item)
  BY <1>3, <1>7, <1>8
<1>10. f.next = 1 => Passed(f) = <<>>
  BY <1>3, <1>7, <1>8
<1>11. Through(f) => Passed(f) = WholeOf(f)
  BY <1>3, <1>6, <1>7, <1>8
<1>12. ASSUME ~Through(f)
       PROVE  /\ StepsUnder[Current(f)] \in Seq(Item)
              /\ Passed(Advance(f)) = Passed(f) \o StepsUnder[Current(f)]
              /\ Continues(WholeOf(f), Passed(f) \o StepsUnder[Current(f)], Item)
  <2>1. f.next \in 1..n /\ f.next \in 0..n /\ (f.next + 1) - 1 = f.next
    BY <1>12, <1>1, <1>6
  <2>2. ss[f.next] = StepsUnder[Current(f)] /\ StepsUnder[Current(f)] \in Seq(Item)
    BY <1>2, <1>6, <2>1
  <2>3. p[f.next] = Passed(f) \o StepsUnder[Current(f)]
    BY <1>3, <1>7, <2>1, <2>2
  <2>4. Passed(Advance(f)) = p[f.next]
    BY <1>5, <2>1
  <2>5. f.next \in 0..Len(ss)
    BY <1>2, <2>1
  <2>6. Continues(FlattenSeq(ss), p[f.next], Item)
    BY <1>2, <2>5, PartsRest
  <2>7. Continues(WholeOf(f), Passed(f) \o StepsUnder[Current(f)], Item)
    BY <1>3, <2>3, <2>6
  <2> QED BY <2>2, <2>3, <2>4, <2>7
<1> QED BY <1>9, <1>10, <1>11, <1>12

LEMMA KindsUnder ==
  ASSUME NEW i \in Item
  PROVE  /\ Kind[i] = "step" => StepsUnder[i] = <<i>>
         /\ Kind[i] = "concept" => StepsUnder[i] = FlattenSeq(StepsOfEach(Steps[i]))
         /\ Kind[i] = "other" => StepsUnder[i] = <<>>
<1>1. StepsUnder[i] = UnderBy(i, StepsUnder)
  BY StepsUnderIs
<1>2. Kind[i] # "step" => StepsUnder[i] = FlattenSeq(StepsOfEach(Steps[i]))
  BY <1>1 DEF UnderBy, StepsOfEach
<1>3. Kind[i] = "step" => StepsUnder[i] = <<i>>
  BY <1>1 DEF UnderBy
<1>4. ASSUME Kind[i] = "other" PROVE StepsUnder[i] = <<>>
  <2>1. Steps[i] = <<>>
    <3>1. Kind[i] # "concept"
      BY <1>4
    <3> QED BY <3>1, ItemAssumption
  <2>2. <<>> \in Seq(Item) /\ Len(<<>>) = 0
    OBVIOUS
  <2>3. FlattenSeq(StepsOfEach(<<>>)) = Parts(<<>>)[0] /\ Parts(<<>>)[0] = <<>>
    BY <2>2, ExpandedParts DEF IsParts
  <2> QED BY <1>2, <1>4, <2>1, <2>3
<1> QED BY <1>2, <1>3, <1>4

\* What has run before each loop under way; what it is through comes after that.
Positions(fs, done, earlier) ==
  /\ \A k \in 1..Len(fs) : earlier[k] \in Seq(Item)
  /\ earlier[1] = <<>>
  /\ \A k \in 1..Len(fs) : k > 1 => earlier[k] = earlier[k - 1] \o Passed(fs[k - 1])
  /\ \A k \in 1..Len(fs) : Continues(AllSteps, earlier[k] \o WholeOf(fs[k]), Item)
  /\ done = earlier[Len(fs)] \o Passed(fs[Len(fs)])

\* While nothing has failed, what has run is what the loops have passed; a scenario
\* that has not failed has run everything.
RanInv ==
  /\ pc \in {"before", "items"} /\ ~failure => \E earlier : Positions(frames, ran, earlier)
  /\ pc \in {"after", "done"} => scenario.failed \/ ran = AllSteps

LEMMA AllStepsIs == AllSteps = FlattenSeq(StepsOfEach(Top)) /\ AllSteps \in Seq(Item)
<1>1. AllSteps = FlattenSeq(StepsOfEach(Top))
  BY DEF AllSteps, StepsOfEach, Top
<1>2. IsParts(Parts(Top), StepsOfEach(Top), Item) /\ Len(StepsOfEach(Top)) = Len(Top) /\ Len(Top) \in Nat
  BY TopTyped, ExpandedParts
<1>3. Len(Top) \in 0..Len(Top)
  BY <1>2
<1>4. FlattenSeq(StepsOfEach(Top)) \in Seq(Item)
  BY <1>2, <1>3 DEF IsParts
<1> QED BY <1>1, <1>4

LEMMA FrameFacts ==
  ASSUME ScenarioInv, NEW k \in 1..Len(frames)
  PROVE  frames[k] \in Frame /\ frames[k].next > 0 /\ frames[k].next <= Len(ItemsOf(frames[k])) + 1
<1>1. frames[k] \in Frame
  <2> HIDE DEF Frame
  <2> QED BY ElementOfSeq DEF ScenarioInv, ScenarioType
<1> QED BY <1>1 DEF ScenarioInv, FramesInv

LEMMA Associates ==
  ASSUME NEW s \in Seq(Item), NEW t \in Seq(Item), NEW u \in Seq(Item)
  PROVE  (s \o t) \o u = s \o (t \o u)
BY ConcatAssociative

\* A loop's own steps are in order in the whole.
LEMMA InWhole ==
  ASSUME NEW a \in Seq(Item), NEW whole, NEW b \in Seq(Item), NEW c \in Seq(Item),
         Continues(whole, b \o c, Item), NEW all, Continues(all, a \o whole, Item)
  PROVE  Continues(all, (a \o b) \o c, Item)
<1>1. PICK d \in Seq(Item) : whole = (b \o c) \o d
  BY DEF Continues
<1>2. PICK e \in Seq(Item) : all = (a \o whole) \o e
  BY DEF Continues
<1>3. /\ a \in Seq(Item) /\ b \in Seq(Item) /\ c \in Seq(Item) /\ d \in Seq(Item) /\ e \in Seq(Item)
      /\ b \o c \in Seq(Item) /\ d \o e \in Seq(Item) /\ a \o b \in Seq(Item)
  BY ConcatProperties
<1>4. (a \o b) \o c \in Seq(Item)
  BY <1>3, ConcatProperties
<1>5. (a \o (b \o c)) \o d = a \o ((b \o c) \o d)
  <2> DEFINE bc == b \o c
  <2>1. a \in Seq(Item) /\ bc \in Seq(Item) /\ d \in Seq(Item)
    BY <1>3
  <2> HIDE DEF bc
  <2>2. (a \o bc) \o d = a \o (bc \o d)
    BY ONLY <2>1, Associates, ZenonT(30)
  <2> QED BY <2>2 DEF bc
<1>6. (a \o b) \o c = a \o (b \o c)
  BY ONLY <1>3, Associates
<1>7. (((a \o b) \o c) \o d) \o e = ((a \o b) \o c) \o (d \o e)
  <2> DEFINE abc == (a \o b) \o c
  <2>1. abc \in Seq(Item) /\ d \in Seq(Item) /\ e \in Seq(Item)
    BY <1>3, <1>4
  <2> HIDE DEF abc
  <2>2. (abc \o d) \o e = abc \o (d \o e)
    BY ONLY <2>1, Associates, SMTT(30)
  <2> QED BY <2>2 DEF abc
<1>8. all = ((a \o b) \o c) \o (d \o e)
  BY <1>1, <1>2, <1>5, <1>6, <1>7
<1> QED BY <1>3, <1>8 DEF Continues

\* What comes next: the steps under the item that a loop is at.
LEMMA NextSteps ==
  ASSUME ScenarioInv, NEW done, NEW earlier, Positions(frames, done, earlier),
         NEW k \in 1..Len(frames), ~Through(frames[k])
  PROVE  Continues(AllSteps, (earlier[k] \o Passed(frames[k])) \o StepsUnder[Current(frames[k])], Item)
<1> DEFINE f == frames[k]
<1>1. f \in Frame /\ f.next > 0 /\ f.next <= Len(ItemsOf(f)) + 1
  BY FrameFacts
<1> HIDE DEF f
<1>2. Passed(f) \in Seq(Item) /\ WholeOf(f) \in Seq(Item)
  BY <1>1, PassedFacts
<1>3. ~Through(f)
  BY DEF f
<1>4. StepsUnder[Current(f)] \in Seq(Item)
  BY <1>1, <1>3, PassedFacts
<1>5. Continues(WholeOf(f), Passed(f) \o StepsUnder[Current(f)], Item)
  BY <1>1, <1>3, PassedFacts
<1>6. Continues(AllSteps, earlier[k] \o WholeOf(f), Item)
  BY DEF Positions, f
<1>7. earlier[k] \in Seq(Item)
  BY DEF Positions
<1> DEFINE a == earlier[k]
           b == Passed(f)
           c == StepsUnder[Current(f)]
           whole == WholeOf(f)
           all == AllSteps
<1>8. /\ a \in Seq(Item) /\ b \in Seq(Item) /\ c \in Seq(Item)
      /\ Continues(whole, b \o c, Item) /\ Continues(all, a \o whole, Item)
  BY <1>2, <1>4, <1>5, <1>6, <1>7
<1> HIDE DEF a, b, c, whole, all
<1>9. Continues(all, (a \o b) \o c, Item)
  BY ONLY <1>8, InWhole
<1> QED BY <1>9 DEF a, b, c, all, f
\* The innermost loop passes an item.
LEMMA PositionsPass ==
  ASSUME ScenarioInv, NEW done, NEW earlier, Positions(frames, done, earlier),
         ~Through(frames[Len(frames)]), NEW fs, Len(fs) = Len(frames),
         \A k \in 1..(Len(frames) - 1) : fs[k] = frames[k],
         fs[Len(frames)] = Advance(frames[Len(frames)])
  PROVE  Positions(fs, done \o StepsUnder[Current(frames[Len(frames)])], earlier)
<1> DEFINE n == Len(frames)
           f == frames[n]
           new == StepsUnder[Current(f)]
<1>1. n \in 1..n /\ n \in Nat
  BY LenProperties DEF ScenarioInv, ScenarioType
<1>2. f \in Frame /\ f.next > 0 /\ f.next <= Len(ItemsOf(f)) + 1
  BY <1>1, FrameFacts
<1>3. Advance(f).concept = f.concept /\ ItemsOf(Advance(f)) = ItemsOf(f)
  BY <1>2, Advanced, ItemsSame
<1>4. WholeOf(Advance(f)) = WholeOf(f)
  BY <1>3 DEF WholeOf
<1>5. new \in Seq(Item) /\ Passed(f) \in Seq(Item) /\ Passed(Advance(f)) = Passed(f) \o new
  BY <1>2, PassedFacts
<1>6. earlier[n] \in Seq(Item)
  BY <1>1 DEF Positions
<1>7. done = earlier[n] \o Passed(f)
  BY DEF Positions
<1> HIDE DEF new
<1>8. (earlier[n] \o Passed(f)) \o new = earlier[n] \o (Passed(f) \o new)
  <2> DEFINE a == earlier[n]
             b == Passed(f)
  <2>1. a \in Seq(Item) /\ b \in Seq(Item) /\ new \in Seq(Item)
    BY <1>5, <1>6
  <2> HIDE DEF a, b
  <2>2. (a \o b) \o new = a \o (b \o new)
    BY ONLY <2>1, Associates
  <2> QED BY <2>2 DEF a, b
<1>9. done \o new = earlier[n] \o Passed(fs[n])
  BY <1>5, <1>7, <1>8
<1>10. ASSUME NEW k \in 1..n PROVE Continues(AllSteps, earlier[k] \o WholeOf(fs[k]), Item)
  <2>1. WholeOf(fs[k]) = WholeOf(frames[k])
    <3>1. CASE k = n
      BY <3>1, <1>4
    <3>2. CASE k # n
      <4>1. fs[k] = frames[k]
        BY <3>2, <1>1
      <4> QED BY <4>1
    <3> QED BY <3>1, <3>2
  <2> QED BY <2>1 DEF Positions
<1>11. ASSUME NEW k \in 1..n, k > 1 PROVE earlier[k] = earlier[k - 1] \o Passed(fs[k - 1])
  <2>1. k - 1 \in 1..(n - 1)
    BY <1>1, <1>11
  <2>2. fs[k - 1] = frames[k - 1]
    BY <2>1
  <2> QED BY <2>2, <1>11 DEF Positions
<1>12. Len(fs) = n
  OBVIOUS
<1>13. earlier[1] = <<>> /\ \A k \in 1..n : earlier[k] \in Seq(Item)
  BY DEF Positions
<1> HIDE DEF n
<1> QED BY <1>9, <1>10, <1>11, <1>12, <1>13 DEF Positions, new

\* The items of a loop that is not the scenario's.
LEMMA InnerItems ==
  ASSUME ScenarioInv, NEW k \in 1..Len(frames), k > 1
  PROVE  /\ frames[k].concept \in Item /\ frames[k].concept = Current(frames[k - 1])
         /\ ~Through(frames[k - 1]) /\ k - 1 \in 1..Len(frames)
         /\ WholeOf(frames[k]) = StepsUnder[Current(frames[k - 1])]
<1>1. k - 1 \in 1..Len(frames)
  OBVIOUS
<1>2. /\ frames[k - 1].next <= Len(ItemsOf(frames[k - 1])) /\ frames[k].concept = Current(frames[k - 1])
      /\ Kind[frames[k].concept] = "concept"
  BY DEF ScenarioInv, FramesInv
<1>3. frames[k - 1] \in Frame /\ frames[k - 1].next > 0
  BY <1>1, FrameFacts
<1>4. ~Through(frames[k - 1]) /\ Current(frames[k - 1]) \in Item
  <2>1. Len(ItemsOf(frames[k - 1])) \in Nat /\ \A n \in 1..Len(ItemsOf(frames[k - 1])) : ItemsOf(frames[k - 1])[n] \in Item
    BY <1>3, FrameItems
  <2>2. frames[k - 1].next \in 1..Len(ItemsOf(frames[k - 1]))
    BY <1>2, <1>3, <2>1 DEF Frame
  <2> QED BY <2>1, <2>2 DEF Through, Current
<1>5. frames[k].concept # None
  BY <1>2, <1>4, ItemAssumption
<1>6. ItemsOf(frames[k]) = Steps[frames[k].concept]
  BY <1>5 DEF ItemsOf
<1>7. WholeOf(frames[k]) = StepsUnder[frames[k].concept]
  BY <1>2, <1>4, <1>6, KindsUnder DEF WholeOf
<1> QED BY <1>1, <1>2, <1>4, <1>7

\* A loop that is through is left.
LEMMA PositionsLeave ==
  ASSUME ScenarioInv, NEW done, NEW earlier, Positions(frames, done, earlier),
         Len(frames) > 1, Through(frames[Len(frames)]), NEW fs, Len(fs) = Len(frames) - 1,
         \A k \in 1..(Len(frames) - 2) : fs[k] = frames[k],
         fs[Len(frames) - 1] = Advance(frames[Len(frames) - 1])
  PROVE  Positions(fs, done, earlier)
<1> DEFINE n == Len(frames)
           m == n - 1
           f == frames[n]
           g == frames[m]
           new == StepsUnder[Current(g)]
<1>1. n \in Nat /\ n \in 1..n /\ m \in 1..n /\ m \in Nat /\ m \in 1..m /\ \A k \in 1..m : k \in 1..n
  BY LenProperties DEF ScenarioInv, ScenarioType
<1>2. f \in Frame /\ f.next > 0 /\ f.next <= Len(ItemsOf(f)) + 1 /\ g \in Frame /\ g.next > 0 /\ g.next <= Len(ItemsOf(g)) + 1
  BY <1>1, FrameFacts
<1>3. ~Through(g) /\ WholeOf(f) = new
  BY <1>1, InnerItems
<1>4. Passed(f) = WholeOf(f) /\ Passed(g) \in Seq(Item) /\ new \in Seq(Item) /\ Passed(Advance(g)) = Passed(g) \o new
  BY <1>2, <1>3, PassedFacts
<1>5. WholeOf(Advance(g)) = WholeOf(g)
  BY <1>2, Advanced, ItemsSame DEF WholeOf
<1>6. earlier[n] = earlier[m] \o Passed(g) /\ earlier[m] \in Seq(Item) /\ done = earlier[n] \o Passed(f)
  BY <1>1 DEF Positions
<1> HIDE DEF new
<1>7. (earlier[m] \o Passed(g)) \o new = earlier[m] \o (Passed(g) \o new)
  <2> DEFINE a == earlier[m]
             b == Passed(g)
  <2>1. a \in Seq(Item) /\ b \in Seq(Item) /\ new \in Seq(Item)
    BY <1>4, <1>6
  <2> HIDE DEF a, b
  <2>2. (a \o b) \o new = a \o (b \o new)
    BY ONLY <2>1, Associates
  <2> QED BY <2>2 DEF a, b
<1>8. fs[m] = Advance(g)
  OBVIOUS
<1>9. done = earlier[m] \o Passed(fs[m])
  BY <1>3, <1>4, <1>6, <1>7, <1>8
<1>10. ASSUME NEW k \in 1..m PROVE Continues(AllSteps, earlier[k] \o WholeOf(fs[k]), Item)
  <2>1. WholeOf(fs[k]) = WholeOf(frames[k])
    <3>1. CASE k = m
      BY <3>1, <1>5, <1>8
    <3>2. CASE k # m
      <4>1. k \in 1..(n - 2)
        BY <3>2, <1>1
      <4>2. fs[k] = frames[k]
        BY <4>1
      <4> QED BY <4>2
    <3> QED BY <3>1, <3>2
  <2>2. Continues(AllSteps, earlier[k] \o WholeOf(frames[k]), Item)
    BY <1>1 DEF Positions
  <2> QED BY <2>1, <2>2
<1>11. ASSUME NEW k \in 1..m, k > 1 PROVE earlier[k] = earlier[k - 1] \o Passed(fs[k - 1])
  <2>1. k - 1 \in 1..(n - 2) /\ k \in 1..n
    BY <1>1, <1>11
  <2>2. fs[k - 1] = frames[k - 1]
    BY <2>1
  <2> QED BY <2>1, <2>2, <1>11 DEF Positions
<1>12. Len(fs) = m
  OBVIOUS
<1>13. earlier[1] = <<>> /\ \A k \in 1..m : earlier[k] \in Seq(Item)
  BY <1>1 DEF Positions
<1> HIDE DEF n, m
<1> QED BY <1>9, <1>10, <1>11, <1>12, <1>13 DEF Positions

\* A concept is entered.
LEMMA PositionsEnter ==
  ASSUME ScenarioInv, NEW done, NEW earlier, Positions(frames, done, earlier),
         ~Through(frames[Len(frames)]), Kind[Current(frames[Len(frames)])] = "concept",
         NEW fs, Len(fs) = Len(frames) + 1, \A k \in 1..Len(frames) : fs[k] = frames[k],
         NEW new \in Frame, fs[Len(frames) + 1] = new, new.concept = Current(frames[Len(frames)]), new.next = 1
  PROVE  \E later : Positions(fs, done, later)
<1> DEFINE n == Len(frames)
           f == frames[n]
           later == [k \in 1..(n + 1) |-> IF k = n + 1 THEN done ELSE earlier[k]]
<1>1. n \in 1..n /\ n \in Nat /\ n + 1 \in 1..(n + 1) /\ (\A k \in 1..n : k \in 1..(n + 1) /\ k # n + 1) /\ 1 \in 1..n
  BY LenProperties DEF ScenarioInv, ScenarioType
<1>2. f \in Frame /\ f.next > 0 /\ f.next <= Len(ItemsOf(f)) + 1
  BY <1>1, FrameFacts
<1>3. Current(f) \in Item
  <2>1. Len(ItemsOf(f)) \in Nat /\ \A k \in 1..Len(ItemsOf(f)) : ItemsOf(f)[k] \in Item
    BY <1>2, FrameItems
  <2>2. f.next \in 1..Len(ItemsOf(f))
    BY <1>2, <2>1 DEF Through, Frame
  <2> QED BY <2>1, <2>2 DEF Current
<1>4. WholeOf(new) = StepsUnder[Current(f)]
  <2>1. new.concept # None
    BY <1>3, ItemAssumption
  <2>2. ItemsOf(new) = Steps[Current(f)]
    BY <2>1 DEF ItemsOf
  <2> QED BY <2>2, <1>3, KindsUnder DEF WholeOf
<1>5. Passed(new) = <<>>
  <2>1. Len(ItemsOf(new)) \in Nat
    BY FrameItems
  <2>2. new.next > 0 /\ new.next <= Len(ItemsOf(new)) + 1
    BY <2>1
  <2> QED BY <2>2, PassedFacts
<1>6. earlier[n] \in Seq(Item) /\ Passed(f) \in Seq(Item) /\ done = earlier[n] \o Passed(f)
  BY <1>1, <1>2, PassedFacts DEF Positions
<1>7. done \in Seq(Item)
  <2> DEFINE a == earlier[n]
             b == Passed(f)
  <2>1. a \in Seq(Item) /\ b \in Seq(Item) /\ done = a \o b
    BY <1>6
  <2> HIDE DEF a, b
  <2> QED BY <2>1, ConcatProperties
<1>8. done \o <<>> = done
  BY <1>7, ConcatEmptySeq
<1>9. Continues(AllSteps, done \o WholeOf(new), Item)
  <2>1. Continues(AllSteps, (earlier[n] \o Passed(f)) \o StepsUnder[Current(f)], Item)
    BY <1>1, NextSteps
  <2> QED BY <2>1, <1>4, <1>6
<1>10. (\A k \in 1..n : later[k] = earlier[k] /\ fs[k] = frames[k]) /\ later[n + 1] = done /\ fs[n + 1] = new /\ Len(fs) = n + 1
  BY <1>1
<1>14. \A k \in 1..(n + 1) : k = n + 1 \/ k \in 1..n
  BY <1>1
<1> HIDE DEF later
<1>11. \A k \in 1..(n + 1) : later[k] \in Seq(Item) /\ Continues(AllSteps, later[k] \o WholeOf(fs[k]), Item)
  <2> SUFFICES ASSUME NEW k \in 1..(n + 1)
               PROVE  later[k] \in Seq(Item) /\ Continues(AllSteps, later[k] \o WholeOf(fs[k]), Item)
    OBVIOUS
  <2>1. CASE k = n + 1
    BY <2>1, <1>7, <1>9, <1>10
  <2>2. CASE k # n + 1
    <3>1. k \in 1..n
      BY <2>2, <1>14
    <3> QED BY <3>1, <1>10 DEF Positions
  <2> QED BY <2>1, <2>2
<1>12. ASSUME NEW k \in 1..(n + 1), k > 1 PROVE later[k] = later[k - 1] \o Passed(fs[k - 1])
  <2>1. k - 1 \in 1..n
    BY <1>1, <1>12
  <2>2. later[k - 1] = earlier[k - 1] /\ fs[k - 1] = frames[k - 1]
    BY <2>1, <1>10
  <2>3. CASE k = n + 1
    <3>1. k - 1 = n /\ later[k] = done
      BY <2>3, <1>1, <1>10
    <3> QED BY <2>2, <3>1, <1>6
  <2>4. CASE k # n + 1
    <3>1. k \in 1..n
      BY <2>4, <1>14
    <3>2. later[k] = earlier[k] /\ earlier[k] = earlier[k - 1] \o Passed(frames[k - 1])
      BY <3>1, <1>10, <1>12 DEF Positions
    <3> QED BY <2>2, <3>2
  <2> QED BY <2>3, <2>4
<1>13. later[1] = <<>>
  BY <1>1, <1>10 DEF Positions
<1>15. done = later[n + 1] \o Passed(fs[n + 1])
  BY <1>5, <1>8, <1>10
<1>16. Len(fs) = n + 1
  OBVIOUS
<1> HIDE DEF n
<1>17. Positions(fs, done, later)
  BY <1>11, <1>12, <1>13, <1>15, <1>16 DEF Positions
<1> QED BY <1>17
LEMMA ScenarioStart ==
  ASSUME Init
  PROVE  ScenarioInv /\ RanInv
<1> DEFINE f == [concept |-> None, next |-> 1]
           earlier == [k \in 1..1 |-> <<>>]
<1>1. /\ pc = "before" /\ frames = <<f>> /\ failure = FALSE /\ ran = <<>>
      /\ objectOf = [i \in Item |-> None] /\ object = [i \in Item |-> Nothing]
      /\ scenario = Nothing /\ took = [i \in Item \cup {None} |-> 0]
  BY DEF Init
<1>2. f \in Frame /\ f.concept = None /\ f.next = 1
  BY DEF Frame
<1>3. Nothing \in Result /\ ~Nothing.failed
  BY DEF Nothing, Result
<1> HIDE DEF f
<1>4. frames \in Seq(Frame) /\ Len(frames) = 1 /\ frames[1] = f
  <2> HIDE DEF Frame
  <2> QED BY <1>1, <1>2
<1>5. ScenarioType
  <2> HIDE DEF Result, Frame
  <2>1. objectOf \in [Item -> Item \cup {None}]
    BY <1>1
  <2>2. object \in [Item -> Result]
    BY <1>1, <1>3
  <2>3. took \in [Item \cup {None} -> Nat]
    <3>1. 0 \in Nat
      OBVIOUS
    <3> QED BY <1>1, <3>1
  <2>4. ran \in Seq(Item) /\ frames \in Seq(Frame) /\ Len(frames) > 0
    BY <1>1, <1>4
  <2>5. failure \in BOOLEAN /\ scenario \in Result /\ pc \in {"before", "items", "after", "done"}
    BY <1>1, <1>3
  <2> QED BY <2>1, <2>2, <2>3, <2>4, <2>5 DEF ScenarioType
<1>6. Len(ItemsOf(f)) \in Nat
  BY <1>2, FrameItems
<1>7. FramesInv
  BY <1>1, <1>2, <1>4, <1>6 DEF FramesInv
<1>8. FailureInv
  <2> HIDE DEF Result
  <2> QED BY <1>1, <1>2, <1>3, <1>4 DEF FailureInv
<1>9. Passed(f) = <<>> /\ WholeOf(f) = AllSteps /\ AllSteps \in Seq(Item)
  <2>1. f.next > 0 /\ f.next <= Len(ItemsOf(f)) + 1
    BY <1>2, <1>6
  <2>2. ItemsOf(f) = Top
    BY <1>2 DEF ItemsOf, Top
  <2> QED BY <1>2, <2>1, <2>2, PassedFacts, AllStepsIs DEF WholeOf
<1>10. Continues(AllSteps, <<>> \o AllSteps, Item)
  <2>1. <<>> \o AllSteps = AllSteps /\ AllSteps \o <<>> = AllSteps /\ <<>> \in Seq(Item)
    BY <1>9, ConcatEmptySeq
  <2> QED BY <2>1 DEF Continues
<1>11. <<>> \in Seq(Item) /\ <<>> \o <<>> = <<>>
  OBVIOUS
<1>12. earlier[1] = <<>> /\ \A k \in 1..1 : k = 1
  OBVIOUS
<1> HIDE DEF earlier
<1>13. Positions(frames, ran, earlier)
  <2>1. \A k \in 1..Len(frames) : k = 1
    BY <1>4
  <2>2. \A k \in 1..Len(frames) : earlier[k] \in Seq(Item)
    BY <2>1, <1>11, <1>12
  <2>3. \A k \in 1..Len(frames) : k > 1 => earlier[k] = earlier[k - 1] \o Passed(frames[k - 1])
    BY <2>1
  <2>4. \A k \in 1..Len(frames) : Continues(AllSteps, earlier[k] \o WholeOf(frames[k]), Item)
    <3> SUFFICES ASSUME NEW k \in 1..Len(frames)
                 PROVE  Continues(AllSteps, earlier[k] \o WholeOf(frames[k]), Item)
      OBVIOUS
    <3>1. earlier[k] = <<>> /\ WholeOf(frames[k]) = AllSteps
      BY <2>1, <1>4, <1>9, <1>12
    <3> QED BY <3>1, <1>10
  <2>5. ran = earlier[Len(frames)] \o Passed(frames[Len(frames)])
    <3>1. earlier[Len(frames)] = <<>> /\ Passed(frames[Len(frames)]) = <<>>
      BY <1>4, <1>9, <1>12
    <3> QED BY <3>1, <1>1, <1>11
  <2> QED BY <2>2, <2>3, <2>4, <2>5, <1>12 DEF Positions
<1>14. RanInv
  BY <1>1, <1>13 DEF RanInv
<1> QED BY <1>5, <1>7, <1>8, <1>14 DEF ScenarioInv

\* What the next step to run is.
LEMMA StepIsNext ==
  ASSUME ScenarioInv, RanInv, At("step")
  PROVE  /\ Len(ran) \in Nat /\ Len(ran) < Len(AllSteps) /\ AllSteps[Len(ran) + 1] = Current(Last(frames))
         /\ \E earlier : /\ Positions(frames, ran, earlier)
                         /\ StepsUnder[Current(frames[Len(frames)])] = <<Current(Last(frames))>>
<1> DEFINE n == Len(frames)
           step == Current(frames[n])
<1>1. /\ pc = "items" /\ ~failure /\ n \in Nat \ {0} /\ Last(frames) = frames[n] /\ Last(frames) \in Frame
      /\ frames[n].next <= Len(ItemsOf(frames[n]))
      /\ step \in Item /\ Kind[step] = "step"
  BY AtItem
<1>2. PICK earlier : Positions(frames, ran, earlier)
  BY <1>1 DEF RanInv
<1>3. StepsUnder[step] = <<step>>
  BY <1>1, KindsUnder
<1>4. n \in 1..n /\ ~Through(frames[n])
  <2>1. n \in 1..n
    BY <1>1
  <2>2. Len(ItemsOf(frames[n])) \in Nat /\ frames[n].next \in Nat
    BY <1>1, FrameItems DEF Frame
  <2> QED BY <2>1, <2>2, <1>1 DEF Through
<1>5. Continues(AllSteps, (earlier[n] \o Passed(frames[n])) \o StepsUnder[step], Item)
  BY <1>2, <1>4, NextSteps
<1>6. ran = earlier[n] \o Passed(frames[n])
  BY <1>2 DEF Positions
<1> HIDE DEF step
<1>7. Continues(AllSteps, ran \o <<step>>, Item)
  BY <1>3, <1>5, <1>6
<1>8. PICK rest \in Seq(Item) : AllSteps = (ran \o <<step>>) \o rest
  BY <1>7 DEF Continues
<1>9. Len(ran) < Len(AllSteps) /\ AllSteps[Len(ran) + 1] = step /\ Len(ran) \in Nat
  <2>1. ran \in Seq(Item) /\ <<step>> \in Seq(Item) /\ Len(<<step>>) = 1 /\ <<step>>[1] = step
    BY <1>1 DEF ScenarioInv, ScenarioType
  <2> DEFINE one == <<step>>
             both == ran \o one
  <2> HIDE DEF one
  <2>2. /\ both \in Seq(Item) /\ Len(both) = Len(ran) + 1
        /\ both[Len(ran) + 1] = step /\ Len(ran) \in Nat
    <3>1. ran \in Seq(Item) /\ one \in Seq(Item) /\ Len(one) = 1 /\ one[1] = step /\ Len(ran) \in Nat
      BY <2>1, LenProperties DEF one
    <3>2. /\ ran \o one \in Seq(Item) /\ Len(ran \o one) = Len(ran) + Len(one)
          /\ \A i \in 1..(Len(ran) + Len(one)) : (ran \o one)[i] = IF i <= Len(ran) THEN ran[i] ELSE one[i - Len(ran)]
      BY <3>1, ConcatProperties
    <3>3. Len(ran) + 1 \in 1..(Len(ran) + Len(one)) /\ ~(Len(ran) + 1 <= Len(ran)) /\ (Len(ran) + 1) - Len(ran) = 1
      BY <3>1
    <3> QED BY <3>1, <3>2, <3>3
  <2>3. AllSteps = both \o rest /\ rest \in Seq(Item)
    BY <1>8 DEF one
  <2> HIDE DEF both
  <2>4. /\ Len(both \o rest) = Len(both) + Len(rest) /\ Len(rest) \in Nat
        /\ \A i \in 1..(Len(both) + Len(rest)) : (both \o rest)[i] = IF i <= Len(both) THEN both[i] ELSE rest[i - Len(both)]
    BY <2>2, <2>3, ConcatProperties, LenProperties
  <2>5. Len(ran) + 1 \in 1..(Len(both) + Len(rest)) /\ Len(ran) + 1 <= Len(both)
    BY <2>2, <2>4
  <2>6. (both \o rest)[Len(ran) + 1] = step
    BY <2>2, <2>4, <2>5
  <2>7. Len(ran) < Len(both \o rest)
    BY <2>2, <2>4
  <2> QED BY <2>2, <2>3, <2>6, <2>7
<1>10. StepsUnder[Current(frames[n])] = <<Current(Last(frames))>> /\ step = Current(Last(frames))
  BY <1>1, <1>3 DEF step
<1> QED BY <1>2, <1>9, <1>10

LEMMA RanStep ==
  ASSUME ScenarioInv, RanInv, Next
  PROVE  ScenarioInv' /\ RanInv'
<1> DEFINE n == Len(frames)
<1>0. frames \in Seq(Frame) /\ n \in Nat \ {0}
  BY LenProperties DEF ScenarioInv, ScenarioType
<1>1. ASSUME NEW reply \in Reply, ExecuteBeforeScenarioHook(reply) PROVE ScenarioInv' /\ RanInv'
  <2>1. ScenarioInv'
    BY <1>1, BeforeHookKeeps
  <2>2. /\ pc = "before" /\ scenario' = reply /\ pc' = IF reply.failed THEN "after" ELSE "items"
        /\ UNCHANGED <<frames, failure, ran>>
    BY <1>1 DEF ExecuteBeforeScenarioHook
  <2>3. reply.failed \in BOOLEAN
    BY DEF Reply
  <2>4. ~failure
    BY <2>2 DEF ScenarioInv, FailureInv
  <2>5. PICK earlier : Positions(frames, ran, earlier)
    BY <2>2, <2>4 DEF RanInv
  <2>6. Positions(frames', ran', earlier)
    BY <2>2, <2>5
  <2> QED BY <2>1, <2>2, <2>3, <2>6 DEF RanInv
<1>2. ASSUME NEW reply \in Reply, ExecuteAfterScenarioHook(reply) PROVE ScenarioInv' /\ RanInv'
  <2>1. ScenarioInv'
    BY <1>2, AfterHookKeeps
  <2>2. /\ pc = "after" /\ pc' = "done" /\ ran' = ran /\ scenario'.failed = (scenario.failed \/ reply.failed)
    BY <1>2 DEF ExecuteAfterScenarioHook
  <2> QED BY <2>1, <2>2 DEF RanInv
<1>3. ASSUME NEW before \in Reply, NEW after \in Reply, NEW body \in Reply \cup {Nothing},
             ExecuteStep(before, body, after)
      PROVE  ScenarioInv' /\ RanInv'
  <2>1. /\ ScenarioInv' /\ pc' = pc
        /\ ran' = Append(ran, Current(Last(frames)))
        /\ Len(frames') = n /\ frames'[n] = Advance(frames[n])
        /\ \A k \in 1..(n - 1) : frames'[k] = frames[k]
    BY <1>3, ExecuteStepKeeps
  <2>2. At("step")
    BY <1>3 DEF ExecuteStep
  <2>3. PICK earlier : /\ Positions(frames, ran, earlier)
                       /\ StepsUnder[Current(frames[n])] = <<Current(Last(frames))>>
    BY <2>2, StepIsNext
  <2>4. ~Through(frames[n]) /\ Last(frames) = frames[n] /\ pc = "items"
    BY <1>0, <2>2, LastFrame DEF At
  <2>5. Positions(frames, ran, earlier)
    BY <2>3
  <2>6. Positions(frames', ran \o StepsUnder[Current(frames[n])], earlier)
    BY <2>1, <2>4, <2>5, PositionsPass
  <2>7. ran \o <<Current(Last(frames))>> = Append(ran, Current(Last(frames)))
    <3>1. ran \in Seq(Item) /\ Current(Last(frames)) \in Item
      BY <2>2, AtItem DEF ScenarioInv, ScenarioType
    <3> DEFINE x == Current(Last(frames))
    <3>2. x \in Item
      BY <3>1
    <3> HIDE DEF x
    <3>3. ran \o <<x>> = Append(ran, x)
      BY <3>1, <3>2, AppendIsConcat
    <3> QED BY <3>3 DEF x
  <2>8. Positions(frames', ran', earlier)
    BY <2>1, <2>3, <2>6, <2>7
  <2> QED BY <2>1, <2>4, <2>8 DEF RanInv
<1>4. CASE SkipItem
  <2>1. /\ ScenarioInv' /\ pc' = pc /\ ran' = ran
        /\ Len(frames') = n /\ frames'[n] = Advance(frames[n])
        /\ \A k \in 1..(n - 1) : frames'[k] = frames[k]
    BY <1>4, SkipItemKeeps
  <2>2. At("other")
    BY <1>4 DEF SkipItem
  <2>3. ~Through(frames[n]) /\ Last(frames) = frames[n] /\ pc = "items" /\ ~failure
    BY <1>0, <2>2, LastFrame DEF At
  <2>4. StepsUnder[Current(frames[n])] = <<>>
    <3>1. Current(frames[n]) \in Item /\ Kind[Current(frames[n])] = "other"
      BY <2>2, <2>3, AtItem
    <3> QED BY <3>1, KindsUnder
  <2>5. PICK earlier : Positions(frames, ran, earlier)
    BY <2>3 DEF RanInv
  <2>6. Positions(frames', ran \o StepsUnder[Current(frames[n])], earlier)
    BY <2>1, <2>3, <2>5, PositionsPass
  <2>7. ran \o <<>> = ran
    BY ConcatEmptySeq DEF ScenarioInv, ScenarioType
  <2>8. Positions(frames', ran', earlier)
    BY <2>1, <2>4, <2>6, <2>7
  <2> QED BY <2>1, <2>3, <2>8 DEF RanInv
<1>5. CASE EnterConcept
  <2> DEFINE new == [concept |-> Current(Last(frames)), next |-> 1]
  <2>1. /\ ScenarioInv' /\ UNCHANGED <<pc, failure, ran>>
        /\ Len(frames') = n + 1 /\ frames'[n + 1] = new
        /\ \A k \in 1..n : frames'[k] = frames[k]
    BY <1>5, EnterConceptKeeps
  <2>2. At("concept")
    BY <1>5 DEF EnterConcept
  <2>3. ~Through(frames[n]) /\ Last(frames) = frames[n] /\ pc = "items" /\ ~failure
    BY <1>0, <2>2, LastFrame DEF At
  <2>4. Current(frames[n]) \in Item /\ Kind[Current(frames[n])] = "concept"
    BY <2>2, <2>3, AtItem
  <2>5. new \in Frame /\ new.concept = Current(frames[n]) /\ new.next = 1
    BY <2>3, <2>4 DEF Frame
  <2>6. PICK earlier : Positions(frames, ran, earlier)
    BY <2>3 DEF RanInv
  <2> HIDE DEF new, Frame
  <2>7. \E later : Positions(frames', ran, later)
    BY <2>1, <2>3, <2>4, <2>5, <2>6, PositionsEnter
  <2>8. \E later : Positions(frames', ran', later)
    BY <2>1, <2>7
  <2> QED BY <2>1, <2>3, <2>8 DEF RanInv
<1>6. CASE LeaveConcept
  <2>1. /\ ScenarioInv' /\ pc = "items" /\ pc' = pc /\ ran' = ran /\ failure' = failure
        /\ n > 1 /\ Len(frames') = n - 1
        /\ failure \/ Through(frames[n])
        /\ frames'[n - 1] = Advance(frames[n - 1])
        /\ \A k \in 1..(n - 2) : frames'[k] = frames[k]
    BY <1>6, LeaveConceptKeeps
  <2>2. ASSUME ~failure PROVE \E earlier : Positions(frames', ran', earlier)
    <3>1. PICK earlier : Positions(frames, ran, earlier)
      BY <2>1, <2>2 DEF RanInv
    <3>2. Through(frames[n])
      BY <2>1, <2>2
    <3>3. Positions(frames', ran, earlier)
      BY <2>1, <3>1, <3>2, PositionsLeave
    <3>4. Positions(frames', ran', earlier)
      BY <3>3, <2>1
    <3> QED BY <3>4
  <2> QED BY <2>1, <2>2 DEF RanInv
<1>7. CASE LeaveItems
  <2>1. ScenarioInv' /\ pc' = "after" /\ scenario'.failed = failure
    BY <1>7, LeaveItemsKeeps
  <2>2. pc = "items" /\ n = 1 /\ (failure \/ Through(frames[1])) /\ ran' = ran
    BY <1>7 DEF LeaveItems
  <2>3. ASSUME ~failure PROVE ran = AllSteps
    <3>1. PICK earlier : Positions(frames, ran, earlier)
      BY <2>2, <2>3 DEF RanInv
    <3>2. frames[1] \in Frame /\ frames[1].next > 0 /\ frames[1].next <= Len(ItemsOf(frames[1])) + 1 /\ 1 \in 1..Len(frames)
      BY <2>2, FrameFacts
    <3>3. Passed(frames[1]) = WholeOf(frames[1])
      BY <2>2, <2>3, <3>2, PassedFacts
    <3>4. WholeOf(frames[1]) = AllSteps /\ AllSteps \in Seq(Item)
      <4>1. ItemsOf(frames[1]) = Top
        BY DEF ScenarioInv, FramesInv, ItemsOf, Top
      <4> QED BY <4>1, AllStepsIs DEF WholeOf
    <3>5. ran = <<>> \o Passed(frames[1])
      BY <2>2, <3>1 DEF Positions
    <3>6. <<>> \o AllSteps = AllSteps
      BY <3>4, ConcatEmptySeq
    <3> QED BY <3>3, <3>4, <3>5, <3>6
  <2> QED BY <2>1, <2>2, <2>3 DEF RanInv
<1> QED BY <1>1, <1>2, <1>3, <1>4, <1>5, <1>6, <1>7 DEF Next

LEMMA RanStutter ==
  ASSUME ScenarioInv, RanInv, UNCHANGED vars
  PROVE  ScenarioInv' /\ RanInv'
<1>1. ScenarioType' /\ FramesInv' /\ FailureInv'
  BY DEF ScenarioInv, ScenarioType, FramesInv, FailureInv, vars
<1>2. RanInv'
  BY DEF RanInv, vars
<1> QED BY <1>1, <1>2 DEF ScenarioInv

LEMMA RanAlways == Spec => [](ScenarioInv /\ RanInv)
<1>1. Init => ScenarioInv /\ RanInv
  BY ScenarioStart
<1>2. ScenarioInv /\ RanInv /\ [Next]_vars => (ScenarioInv /\ RanInv)'
  BY RanStep, RanStutter
<1> QED BY <1>1, <1>2, PTL DEF Spec

\* executeScenario keeps every variable in its type: the frames are loops over items,
\* results are at items or nowhere, execution times are natural numbers.
THEOREM ScenarioTyped == Spec => []ScenarioType
<1>1. ScenarioInv => ScenarioType
  BY DEF ScenarioInv
<1> QED BY <1>1, RanAlways, PTL

LEMMA SequenceStep ==
  ASSUME ScenarioInv, RanInv, [Next]_vars
  PROVE  [Sequence!SequenceNext]_(Sequence!sequenceVars)
<1> USE DEF Sequence!sequenceVars
<1>0. failure \in BOOLEAN /\ scenario.failed \in BOOLEAN
  BY DEF ScenarioInv, ScenarioType, Result
<1>1. ASSUME NEW reply \in Reply, ExecuteBeforeScenarioHook(reply)
      PROVE  [Sequence!SequenceNext]_(Sequence!sequenceVars)
  <2>1. /\ pc = "before" /\ scenario' = reply /\ pc' = IF reply.failed THEN "after" ELSE "items"
        /\ UNCHANGED <<failure, ran>>
    BY <1>1 DEF ExecuteBeforeScenarioHook
  <2>2. ~failure /\ ~scenario.failed /\ ran = <<>>
    BY <2>1 DEF ScenarioInv, FailureInv
  <2>3. CASE reply.failed
    <3>1. Sequence!Bar
      BY <2>1, <2>2, <2>3 DEF Sequence!Bar
    <3> QED BY <3>1 DEF Sequence!SequenceNext
  <2>4. CASE ~reply.failed
    BY <2>1, <2>2, <2>4
  <2> QED BY <2>3, <2>4
<1>2. ASSUME NEW reply \in Reply, ExecuteAfterScenarioHook(reply)
      PROVE  [Sequence!SequenceNext]_(Sequence!sequenceVars)
  <2>1. /\ pc = "after" /\ pc' = "done" /\ UNCHANGED <<failure, ran>>
        /\ scenario'.failed = (scenario.failed \/ reply.failed)
    BY <1>2 DEF ExecuteAfterScenarioHook
  <2>2. scenario.failed \/ ran = AllSteps
    BY <2>1 DEF RanInv
  <2>3. reply.failed \in BOOLEAN
    BY DEF Reply
  <2>4. Sequence!Close(reply.failed)
    BY <1>0, <2>1, <2>2, <2>3 DEF Sequence!Close
  <2> QED BY <2>3, <2>4 DEF Sequence!SequenceNext
<1>3. ASSUME NEW before \in Reply, NEW after \in Reply, NEW body \in Reply \cup {Nothing},
             ExecuteStep(before, body, after)
      PROVE  [Sequence!SequenceNext]_(Sequence!sequenceVars)
  <2>1. /\ ScenarioInv' /\ pc' = pc /\ scenario' = scenario
        /\ ran' = Append(ran, Current(Last(frames)))
    BY <1>3, ExecuteStepKeeps
  <2>2. At("step")
    BY <1>3 DEF ExecuteStep
  <2>3. pc = "items" /\ ~failure /\ ~scenario.failed
    BY <2>2 DEF At, ScenarioInv, FailureInv
  <2>4. Len(ran) < Len(AllSteps) /\ AllSteps[Len(ran) + 1] = Current(Last(frames))
    BY <2>2, StepIsNext
  <2>5. failure' \in BOOLEAN
    BY <2>1 DEF ScenarioInv, ScenarioType
  <2>6. Sequence!Run(failure')
    BY <2>1, <2>3, <2>4, <2>5 DEF Sequence!Run
  <2> QED BY <2>5, <2>6 DEF Sequence!SequenceNext
<1>4. CASE SkipItem
  <2>1. pc' = pc /\ failure' = FALSE /\ UNCHANGED <<scenario, ran>>
    BY <1>4, SkipItemKeeps
  <2>2. ~failure
    BY <1>4 DEF SkipItem, At
  <2>3. failure' = failure
    BY <1>0, <2>1, <2>2
  <2> QED BY <2>1, <2>3
<1>5. CASE EnterConcept
  BY <1>5 DEF EnterConcept
<1>6. CASE LeaveConcept
  <2>1. pc' = pc /\ UNCHANGED <<scenario, ran>> /\ failure' = failure
    BY <1>6, LeaveConceptKeeps
  <2> QED BY <2>1
<1>7. CASE LeaveItems
  <2>1. pc = "items" /\ pc' = "after" /\ UNCHANGED <<failure, ran>> /\ scenario'.failed = failure
    BY <1>7, LeaveItemsKeeps DEF LeaveItems
  <2>2. ~scenario.failed
    BY <2>1 DEF ScenarioInv, FailureInv
  <2>3. (failure' \/ scenario'.failed) = (failure \/ scenario.failed)
    BY <1>0, <2>1, <2>2
  <2> QED BY <2>1, <2>3
<1>8. CASE UNCHANGED vars
  BY <1>8 DEF vars
<1> QED BY <1>1, <1>2, <1>3, <1>4, <1>5, <1>6, <1>7, <1>8 DEF Next

\* executeScenario with everything below it, concepts in concepts and the first failure
\* that ends them all, runs the scenario's steps in their order, none after one that
\* failed, and leaves none out of a scenario that passed: it implements StepSequence.
THEOREM StepsRefined == Spec => StepsInSequence
<1>1. Init => Sequence!SequenceInit
  BY DEF Init, Nothing, Sequence!SequenceInit
<1>2. ScenarioInv /\ RanInv /\ [Next]_vars => [Sequence!SequenceNext]_(Sequence!sequenceVars)
  BY SequenceStep
<1> QED BY <1>1, <1>2, RanAlways, PTL DEF Spec, StepsInSequence, Sequence!SequenceSpec
-----------------------------------------------------------------------------
(* Scenarios: the times.                                                   *)

\* The time every item has, by the result object it points to.
TimesAt(of, obj) == [i \in Item |-> ResultOf(i, of, obj).time]

PassedItems(f) == {ItemsOf(f)[j] : j \in 1..(f.next - 1)}
PassedUpTo(fs, m) == UNION {PassedItems(fs[k]) : k \in 1..m}
StackUpTo(fs, m) == {fs[k].concept : k \in 1..m}

\* Items nothing has been done with.
Untouched(fs, m, of, tk) == {i \in Item : of[i] = None /\ tk[i] = 0 /\ i \notin StackUpTo(fs, m)}

\* The first m loops: each goes through the concept its caller is at, no two through the same.
Chain(fs, m) ==
  /\ fs \in Seq(Frame) /\ m \in 1..Len(fs) /\ fs[1].concept = None
  /\ \A k \in 1..m : fs[k] \in Frame /\ fs[k].next \in 1..(Len(ItemsOf(fs[k])) + 1)
  /\ \A k \in 1..m : k > 1 => /\ fs[k - 1].next <= Len(ItemsOf(fs[k - 1]))
                              /\ fs[k].concept \in Item /\ fs[k].concept = Current(fs[k - 1])
  /\ \A k, l \in 1..m : fs[k].concept = fs[l].concept => k = l

\* While nothing has failed, no result object is shared, what is ahead is untouched and
\* a concept has the time of what has been passed in it.
Clean(fs, m, of, obj, tk) ==
  /\ \A i \in Item : of[i] \in {None, i}
  /\ \A i \in Untouched(fs, m, of, tk) : \A k \in DOMAIN Steps[i] : Steps[i][k] \in Untouched(fs, m, of, tk)
  /\ \A k \in 1..m : \A j \in 1..Len(ItemsOf(fs[k])) :
       j > fs[k].next => ItemsOf(fs[k])[j] \in Untouched(fs, m, of, tk)
  /\ \A k \in 1..m : k > 1 /\ fs[k].next > 1 =>
       /\ of[fs[k].concept] = fs[k].concept
       /\ TimesAt(of, obj)[fs[k].concept] = SumOf(TimesAt(of, obj), PassedItems(fs[k]))

\* The innermost loop is about to take its next item; the time of what the loops have
\* passed is what was reported.
Going(fs, of, obj, tk) ==
  /\ Chain(fs, Len(fs)) /\ Clean(fs, Len(fs), of, obj, tk)
  /\ fs[Len(fs)].next <= Len(ItemsOf(fs[Len(fs)])) =>
       Current(fs[Len(fs)]) \in Untouched(fs, Len(fs), of, tk)
  /\ SumOf(TimesAt(of, obj), PassedUpTo(fs, Len(fs))) = SumOf(tk, Item)

\* Loop m is at an item that has run, and has not taken its result in.
Returning(fs, m, of, obj, tk) ==
  /\ Chain(fs, m) /\ fs[m].next <= Len(ItemsOf(fs[m])) /\ Clean(fs, m, of, obj, tk)
  /\ SumOf(TimesAt(of, obj), PassedUpTo(fs, m) \cup {Current(fs[m])}) = SumOf(tk, Item)

\* s is the only failed object.
OneFailed(s, obj) == s \in Item /\ obj[s].failed /\ \A i \in Item : obj[i].failed => i = s

\* The item loop m is at has failed: it points to the one failed object, nothing passed does.
Failing(fs, m, of, obj, tk) ==
  /\ Chain(fs, m) /\ fs[m].next <= Len(ItemsOf(fs[m]))
  /\ \E s \in Item : /\ of[Current(fs[m])] = s /\ OneFailed(s, obj)
                     /\ \A i \in PassedUpTo(fs, m) : of[i] # s
  /\ \A j \in 1..Len(Top) : j > fs[1].next => of[Top[j]] = None
  /\ SumOf(TimesAt(of, obj), PassedUpTo(fs, m) \cup {Current(fs[m])}) = SumOf(tk, Item)

\* The first loop has everything: what it has not passed has no time.
Accounted(fs, of, obj, tk) ==
  /\ Len(fs) = 1 /\ Chain(fs, 1)
  /\ \A j \in 1..Len(Top) : j >= fs[1].next => of[Top[j]] = None
  /\ SumOf(TimesAt(of, obj), PassedItems(fs[1])) = SumOf(tk, Item)

TimeInv ==
  /\ pc # "done" => scenario.time = took[None]
  /\ pc \in {"before", "items"} /\ ~failure => Going(frames, objectOf, object, took)
  /\ pc = "items" /\ failure =>
       \/ Accounted(frames, objectOf, object, took)
       \/ Len(frames) > 1 /\ Failing(frames, Len(frames) - 1, objectOf, object, took)
  /\ pc = "after" => TimeOf(Top, objectOf, object) = SumOf(took, Item)
  /\ pc = "done" => scenario.time = SumOf(took, DOMAIN took)

ImageOf(h, S) == {h[x] : x \in S}

\* g is f after h, which gives no element twice.
Carries(h, S, f, g) ==
  /\ \A x, y \in S : h[x] = h[y] => x = y
  /\ \A x \in S : f[h[x]] \in Nat /\ g[x] = f[h[x]]

\* A sum over an image.
LEMMA SumImage ==
  ASSUME NEW S, IsFiniteSet(S), NEW h, NEW f, NEW g, Carries(h, S, f, g)
  PROVE  SumOf(g, S) = SumOf(f, ImageOf(h, S))
<1> USE DEF Carries
<1> DEFINE Of(s) == {h[x] : x \in s}
           Good(s) == IsFiniteSet(Of(s)) /\ SumOf(g, s) = SumOf(f, Of(s))
           C == {s \in SUBSET S : ~Good(s)}
<1>0. S \in SUBSET S
  OBVIOUS
<1> SUFFICES ASSUME C # {} PROVE FALSE
  BY <1>0 DEF ImageOf
<1>1. \A s \in C : IsFiniteSet(s)
  BY FS_Subset
<1>2. PICK s \in C : \A t \in C : Cardinality(s) <= Cardinality(t)
  <2> HIDE DEF C
  <2> QED BY <1>1, FewestElements
<1>3. s \in SUBSET S /\ ~Good(s) /\ IsFiniteSet(s)
  BY <1>1, <1>2
<1>4. CASE s = {}
  <2>1. Of({}) = {}
    OBVIOUS
  <2>2. IsFiniteSet({}) /\ SumOf(g, {}) = 0 /\ SumOf(f, {}) = 0
    BY FS_EmptySet, SumEmpty
  <2> HIDE DEF Of
  <2> QED BY <1>3, <1>4, <2>1, <2>2
<1>5. CASE s # {}
  <2>1. PICK x \in s : TRUE
    BY <1>5
  <2> DEFINE t == s \ {x}
  <2>2. IsFiniteSet(t) /\ Cardinality(t) \in Nat /\ ~(Cardinality(s) <= Cardinality(t)) /\ t \in SUBSET S
    BY <1>3, WithoutOne
  <2>3. Good(t)
    <3> HIDE DEF Good, t
    <3> QED BY <1>2, <2>2
  <2>4. SumOf(g, s) = g[x] + SumOf(g, t)
    <3>1. \A y \in s : g[y] \in Nat
      BY <1>3
    <3> QED BY <1>3, <3>1, SumWithout
  <2>5. h[x] \notin Of(t) /\ Of(s) = Of(t) \cup {h[x]}
    BY <1>3
  <2>6. \A y \in Of(t) : f[y] \in Nat
    BY <1>3
  <2>7. f[h[x]] \in Nat /\ g[x] = f[h[x]]
    BY <1>3
  <2> HIDE DEF t
  <2>8. IsFiniteSet(Of(t)) /\ SumOf(g, t) = SumOf(f, Of(t))
    BY <2>3
  <2> HIDE DEF Of
  <2>9. SumOf(f, Of(t) \cup {h[x]}) = f[h[x]] + SumOf(f, Of(t))
    BY <2>5, <2>6, <2>7, <2>8, SumWith
  <2>10. IsFiniteSet(Of(t) \cup {h[x]})
    BY <2>8, FS_AddElement
  <2> QED BY <1>3, <2>4, <2>5, <2>7, <2>8, <2>9, <2>10
<1> QED BY <1>4, <1>5

\* No item is in two places.
LEMMA Places ==
  ASSUME NEW f \in Frame, NEW g \in Frame, NEW j \in 1..Len(ItemsOf(f)), NEW l \in 1..Len(ItemsOf(g)),
         ItemsOf(f)[j] = ItemsOf(g)[l]
  PROVE  f.concept = g.concept /\ j = l
<1>1. /\ \A a, b \in Item : \A p \in DOMAIN Steps[a], q \in DOMAIN Steps[b] :
           Steps[a][p] = Steps[b][q] => a = b /\ p = q
      /\ \A p, q \in DOMAIN Top : Top[p] = Top[q] => p = q
      /\ \A p \in DOMAIN Top : \A a \in Item : \A q \in DOMAIN Steps[a] : Steps[a][q] # Top[p]
  BY PlaceAssumption DEF Top
<1>2. j \in DOMAIN ItemsOf(f) /\ l \in DOMAIN ItemsOf(g)
  BY FrameItems
<1>3. \A h \in {f, g} : \/ h.concept = None /\ ItemsOf(h) = Top
                        \/ h.concept \in Item /\ ItemsOf(h) = Steps[h.concept]
  BY DEF Frame, ItemsOf, Top
<1>4. CASE f.concept = None
  BY <1>1, <1>2, <1>3, <1>4, ItemAssumption
<1>5. CASE f.concept # None
  BY <1>1, <1>2, <1>3, <1>5, ItemAssumption
<1> QED BY <1>4, <1>5

LEMMA TimesTyped ==
  ASSUME NEW of \in [Item -> Item \cup {None}], NEW obj \in [Item -> Result]
  PROVE  /\ TimesAt(of, obj) \in [Item -> Nat]
         /\ \A i \in Item : TimesAt(of, obj)[i] = ResultOf(i, of, obj).time
         /\ \A i \in Item : of[i] = None => TimesAt(of, obj)[i] = 0
         /\ \A i \in Item : of[i] # None => TimesAt(of, obj)[i] = obj[of[i]].time
<1>1. \A i \in Item : ResultOf(i, of, obj) \in Result
  BY ResultTyped
<1>2. \A i \in Item : ResultOf(i, of, obj).time \in Nat
  BY <1>1 DEF Result
<1>3. \A i \in Item : /\ of[i] = None => ResultOf(i, of, obj).time = 0
                      /\ of[i] # None => ResultOf(i, of, obj).time = obj[of[i]].time
  BY DEF ResultOf, Nothing
<1> QED BY <1>2, <1>3 DEF TimesAt

\* The time of different items is the sum over them.
LEMMA TimeOfSet ==
  ASSUME NEW items \in Seq(Item), \A j, l \in 1..Len(items) : items[j] = items[l] => j = l,
         NEW of \in [Item -> Item \cup {None}], NEW obj \in [Item -> Result]
  PROVE  TimeOf(items, of, obj) = SumOf(TimesAt(of, obj), {items[j] : j \in 1..Len(items)})
<1> DEFINE D == DOMAIN items
           g == TimesOf(items, of, obj)
           f == TimesAt(of, obj)
<1>1. /\ D = 1..Len(items) /\ IsFiniteSet(D) /\ TimeOf(items, of, obj) = SumOf(g, D)
      /\ \A k \in D : g[k] = ResultOf(items[k], of, obj).time /\ g[k] \in Nat
  BY TimeIs
<1>2. \A k \in D : items[k] \in Item
  OBVIOUS
<1>3. \A k \in D : g[k] = f[items[k]] /\ f[items[k]] \in Nat
  BY <1>1, <1>2, TimesTyped
<1>4. \A j, l \in D : items[j] = items[l] => j = l
  BY <1>1
<1> HIDE DEF g, f, D
<1>5. Carries(items, D, f, g)
  BY <1>3, <1>4 DEF Carries
<1>6. SumOf(g, D) = SumOf(f, ImageOf(items, D))
  BY <1>1, <1>5, SumImage
<1>7. ImageOf(items, D) = {items[j] : j \in 1..Len(items)}
  BY <1>1 DEF ImageOf
<1> QED BY <1>1, <1>6, <1>7 DEF f

\* The first items of a loop.
FirstItems(f, n) == {ItemsOf(f)[j] : j \in 1..n}

LEMMA TimeOfFirst ==
  ASSUME NEW f \in Frame, NEW n \in 1..Len(ItemsOf(f)),
         NEW of \in [Item -> Item \cup {None}], NEW obj \in [Item -> Result]
  PROVE  TimeOf(SubSeq(ItemsOf(f), 1, n), of, obj) = SumOf(TimesAt(of, obj), FirstItems(f, n))
<1> DEFINE s == ItemsOf(f)
           t == SubSeq(s, 1, n)
<1>1. s \in Seq(Item) /\ Len(s) \in Nat /\ \A k \in 1..Len(s) : s[k] \in Item
  BY FrameItems
<1>2. \A j, l \in 1..Len(s) : s[j] = s[l] => j = l
  BY Places
<1> HIDE DEF s
<1>3. t \in Seq(Item) /\ Len(t) = n /\ \A j \in 1..n : t[j] = s[j]
  <2>1. n \in Int /\ 1 \in Int /\ \A i \in 1..n : s[i] \in Item
    BY <1>1 DEF s
  <2>2. /\ SubSeq(s, 1, n) \in Seq(Item)
        /\ Len(SubSeq(s, 1, n)) = IF 1 <= n THEN n - 1 + 1 ELSE 0
        /\ \A i \in 1..(n - 1 + 1) : SubSeq(s, 1, n)[i] = s[1 + i - 1]
    BY <1>1, <2>1, SubSeqProperties
  <2> QED BY <2>1, <2>2 DEF s
<1> HIDE DEF t
<1>4. \A j, l \in 1..Len(t) : t[j] = t[l] => j = l
  BY <1>1, <1>2, <1>3 DEF s
<1>5. TimeOf(t, of, obj) = SumOf(TimesAt(of, obj), {t[j] : j \in 1..Len(t)})
  BY <1>3, <1>4, TimeOfSet
<1>6. {t[j] : j \in 1..Len(t)} = FirstItems(f, n)
  BY <1>3 DEF FirstItems, s
<1> QED BY <1>5, <1>6 DEF t, s

LEMMA TimeOfAll ==
  ASSUME NEW f \in Frame, NEW of \in [Item -> Item \cup {None}], NEW obj \in [Item -> Result]
  PROVE  TimeOf(ItemsOf(f), of, obj) = SumOf(TimesAt(of, obj), FirstItems(f, Len(ItemsOf(f))))
<1> DEFINE s == ItemsOf(f)
<1>1. s \in Seq(Item)
  BY FrameItems
<1>2. \A j, l \in 1..Len(s) : s[j] = s[l] => j = l
  BY Places
<1> HIDE DEF s
<1>3. TimeOf(s, of, obj) = SumOf(TimesAt(of, obj), {s[j] : j \in 1..Len(s)})
  BY <1>1, <1>2, TimeOfSet
<1> QED BY <1>3 DEF s, FirstItems

LEMMA ChainTyped ==
  ASSUME NEW fs, NEW m, Chain(fs, m)
  PROVE  /\ m \in Nat \ {0} /\ m <= Len(fs) /\ 1 \in 1..m
         /\ \A k \in 1..m : /\ fs[k] \in Frame /\ fs[k].next \in Nat \ {0} /\ k \in Nat
                            /\ Len(ItemsOf(fs[k])) \in Nat /\ DOMAIN ItemsOf(fs[k]) = 1..Len(ItemsOf(fs[k]))
                            /\ \A j \in 1..Len(ItemsOf(fs[k])) : ItemsOf(fs[k])[j] \in Item
                            /\ PassedItems(fs[k]) \in SUBSET Item /\ IsFiniteSet(PassedItems(fs[k]))
         /\ PassedUpTo(fs, m) \in SUBSET Item /\ IsFiniteSet(PassedUpTo(fs, m))
<1>1. m \in Nat \ {0} /\ m <= Len(fs) /\ 1 \in 1..m
  BY LenProperties DEF Chain
<1>2. IsFiniteSet(Item)
  BY PlaceAssumption
<1>3. ASSUME NEW k \in 1..m
      PROVE  /\ fs[k] \in Frame /\ fs[k].next \in Nat \ {0} /\ k \in Nat
             /\ Len(ItemsOf(fs[k])) \in Nat /\ DOMAIN ItemsOf(fs[k]) = 1..Len(ItemsOf(fs[k]))
             /\ \A j \in 1..Len(ItemsOf(fs[k])) : ItemsOf(fs[k])[j] \in Item
             /\ PassedItems(fs[k]) \in SUBSET Item /\ IsFiniteSet(PassedItems(fs[k]))
  <2>1. fs[k] \in Frame /\ fs[k].next \in 1..(Len(ItemsOf(fs[k])) + 1)
    BY DEF Chain
  <2>2. /\ Len(ItemsOf(fs[k])) \in Nat /\ DOMAIN ItemsOf(fs[k]) = 1..Len(ItemsOf(fs[k]))
        /\ \A j \in 1..Len(ItemsOf(fs[k])) : ItemsOf(fs[k])[j] \in Item
    BY <2>1, FrameItems
  <2>3. PassedItems(fs[k]) \in SUBSET Item
    BY <2>1, <2>2 DEF PassedItems
  <2>4. IsFiniteSet(PassedItems(fs[k]))
    BY <1>2, <2>3, FS_Subset
  <2> QED BY <2>1, <2>2, <2>3, <2>4
<1>4. PassedUpTo(fs, m) \in SUBSET Item
  BY <1>3 DEF PassedUpTo
<1>5. IsFiniteSet(PassedUpTo(fs, m))
  BY <1>2, <1>4, FS_Subset
<1> QED BY <1>1, <1>3, <1>4, <1>5

\* The items of a loop that is under way are its concept's, and that of the others' only where it is.
LEMMA AtConcept ==
  ASSUME NEW fs, NEW m, Chain(fs, m), NEW k \in 1..m, NEW l \in 1..m, NEW j \in 1..Len(ItemsOf(fs[k])),
         ItemsOf(fs[k])[j] = fs[l].concept
  PROVE  l = k + 1 /\ j = fs[k].next
<1>1. ItemsOf(fs[k])[j] \in Item /\ fs[k] \in Frame /\ m \in Nat
  BY ChainTyped
<1>2. l # 1
  BY <1>1, ItemAssumption DEF Chain
<1>3. l > 1 /\ l - 1 \in 1..m
  BY <1>1, <1>2
<1>4. fs[l - 1].next <= Len(ItemsOf(fs[l - 1])) /\ fs[l].concept = Current(fs[l - 1])
  BY <1>3 DEF Chain
<1>5. fs[l - 1].next \in 1..Len(ItemsOf(fs[l - 1])) /\ fs[l - 1] \in Frame
  BY <1>3, <1>4, ChainTyped
<1>6. ItemsOf(fs[k])[j] = ItemsOf(fs[l - 1])[fs[l - 1].next]
  BY <1>4 DEF Current
<1>7. fs[k].concept = fs[l - 1].concept /\ j = fs[l - 1].next
  BY <1>1, <1>5, <1>6, Places
<1>8. k = l - 1
  BY <1>3, <1>7 DEF Chain
<1> QED BY <1>3, <1>7, <1>8

LEMMA NotPassed ==
  ASSUME NEW fs, NEW m, Chain(fs, m), NEW k \in 1..m, NEW j \in 1..Len(ItemsOf(fs[k])), j >= fs[k].next
  PROVE  ItemsOf(fs[k])[j] \notin PassedUpTo(fs, m)
<1> SUFFICES ASSUME NEW l \in 1..m, NEW p \in 1..(fs[l].next - 1), ItemsOf(fs[k])[j] = ItemsOf(fs[l])[p]
             PROVE  FALSE
  BY DEF PassedUpTo, PassedItems
<1>1. fs[k] \in Frame /\ fs[l] \in Frame
  BY ChainTyped
<1>2. p \in 1..Len(ItemsOf(fs[l]))
  <2>1. fs[l].next \in 1..(Len(ItemsOf(fs[l])) + 1) /\ Len(ItemsOf(fs[l])) \in Nat
    BY ChainTyped DEF Chain
  <2> QED BY <2>1
<1>3. fs[k].concept = fs[l].concept /\ j = p
  BY <1>1, <1>2, Places
<1>4. k = l
  BY <1>3 DEF Chain
<1>5. fs[l].next \in Nat /\ j \in Nat
  BY ChainTyped
<1> QED BY <1>3, <1>4, <1>5

LEMMA ConceptNotPassed ==
  ASSUME NEW fs, NEW m, Chain(fs, m), NEW l \in 1..m
  PROVE  fs[l].concept \notin PassedUpTo(fs, m)
<1> SUFFICES ASSUME NEW k \in 1..m, NEW p \in 1..(fs[k].next - 1), fs[l].concept = ItemsOf(fs[k])[p]
             PROVE  FALSE
  BY DEF PassedUpTo, PassedItems
<1>1. fs[k].next \in 1..(Len(ItemsOf(fs[k])) + 1) /\ Len(ItemsOf(fs[k])) \in Nat
  BY ChainTyped DEF Chain
<1>2. p \in 1..Len(ItemsOf(fs[k])) /\ p # fs[k].next
  BY <1>1
<1> QED BY <1>2, AtConcept

\* What a loop has before it is none of the concepts the loops are through.
LEMMA NotOnStack ==
  ASSUME NEW fs, NEW m, Chain(fs, m), NEW k \in 1..m, NEW j \in 1..Len(ItemsOf(fs[k])),
         j > fs[k].next \/ k = m
  PROVE  ItemsOf(fs[k])[j] \notin StackUpTo(fs, m)
<1> SUFFICES ASSUME NEW l \in 1..m, ItemsOf(fs[k])[j] = fs[l].concept
             PROVE  FALSE
  BY DEF StackUpTo
<1>1. l = k + 1 /\ j = fs[k].next
  BY AtConcept
<1>2. m \in Nat /\ fs[k].next \in Nat
  BY ChainTyped
<1> QED BY <1>1, <1>2

LEMMA ChainShorter ==
  ASSUME NEW fs, NEW m, Chain(fs, m), m > 1
  PROVE  /\ Chain(fs, m - 1) /\ fs[m - 1].next <= Len(ItemsOf(fs[m - 1]))
         /\ fs[m].concept = Current(fs[m - 1]) /\ fs[m].concept \in Item
         /\ PassedUpTo(fs, m) = PassedUpTo(fs, m - 1) \cup PassedItems(fs[m])
         /\ StackUpTo(fs, m) = StackUpTo(fs, m - 1) \cup {fs[m].concept}
<1>1. m \in Nat \ {0} /\ m - 1 \in 1..Len(fs) /\ m \in 1..m
  BY LenProperties DEF Chain
<1>2. 1..m = 1..(m - 1) \cup {m}
  BY <1>1
<1>3. Chain(fs, m - 1)
  BY <1>1, <1>2 DEF Chain
<1>4. PassedUpTo(fs, m) = PassedUpTo(fs, m - 1) \cup PassedItems(fs[m])
  BY <1>2 DEF PassedUpTo
<1>5. StackUpTo(fs, m) = StackUpTo(fs, m - 1) \cup {fs[m].concept}
  BY <1>2 DEF StackUpTo
<1>6. fs[m - 1].next <= Len(ItemsOf(fs[m - 1])) /\ fs[m].concept = Current(fs[m - 1]) /\ fs[m].concept \in Item
  BY <1>1 DEF Chain
<1> QED BY <1>3, <1>4, <1>5, <1>6

\* Different loops pass different items.
LEMMA PassedApart ==
  ASSUME NEW fs, NEW m, Chain(fs, m), m > 1
  PROVE  PassedUpTo(fs, m - 1) \cap PassedItems(fs[m]) = {}
<1> SUFFICES ASSUME NEW k \in 1..(m - 1), NEW p \in 1..(fs[k].next - 1), NEW j \in 1..(fs[m].next - 1),
                    ItemsOf(fs[k])[p] = ItemsOf(fs[m])[j]
             PROVE  FALSE
  BY DEF PassedUpTo, PassedItems
<1>1. m \in Nat /\ m \in 1..m /\ k \in 1..m /\ k # m
  BY ChainTyped
<1>2. \A l \in 1..m : /\ fs[l] \in Frame /\ fs[l].next \in 1..(Len(ItemsOf(fs[l])) + 1)
                       /\ Len(ItemsOf(fs[l])) \in Nat
  BY ChainTyped DEF Chain
<1>3. p \in 1..Len(ItemsOf(fs[k])) /\ j \in 1..Len(ItemsOf(fs[m]))
  BY <1>1, <1>2
<1>4. fs[k].concept = fs[m].concept
  BY <1>1, <1>2, <1>3, Places
<1> QED BY <1>1, <1>4 DEF Chain

\* gs is what is left of fs when loop m has gone on.
GoneOn(fs, gs, m) ==
  /\ gs \in Seq(Frame) /\ Len(gs) = m
  /\ \A k \in 1..(m - 1) : gs[k] = fs[k]
  /\ gs[m] = Advance(fs[m])

LEMMA ChainGoesOn ==
  ASSUME NEW fs, NEW m, Chain(fs, m), fs[m].next <= Len(ItemsOf(fs[m])), NEW gs, GoneOn(fs, gs, m)
  PROVE  /\ Chain(gs, m)
         /\ \A k \in 1..m : gs[k].concept = fs[k].concept /\ ItemsOf(gs[k]) = ItemsOf(fs[k])
         /\ gs[m].next = fs[m].next + 1
         /\ StackUpTo(gs, m) = StackUpTo(fs, m)
         /\ PassedItems(gs[m]) = PassedItems(fs[m]) \cup {Current(fs[m])}
         /\ PassedItems(gs[m]) = FirstItems(fs[m], fs[m].next)
         /\ PassedUpTo(gs, m) = PassedUpTo(fs, m) \cup {Current(fs[m])}
<1>1. m \in Nat \ {0} /\ m \in 1..m /\ 1 \in 1..m
  BY ChainTyped
<1>2. fs[m] \in Frame /\ fs[m].next \in Nat \ {0} /\ Len(ItemsOf(fs[m])) \in Nat
  BY <1>1, ChainTyped
<1>3. /\ gs[m] \in Frame /\ gs[m].concept = fs[m].concept /\ gs[m].next = fs[m].next + 1
  BY <1>2, Advanced DEF GoneOn
<1>4. ASSUME NEW k \in 1..m
      PROVE  /\ gs[k].concept = fs[k].concept /\ ItemsOf(gs[k]) = ItemsOf(fs[k])
             /\ k # m => gs[k] = fs[k]
             /\ gs[k] \in Frame /\ gs[k].next \in 1..(Len(ItemsOf(gs[k])) + 1)
  <2>1. k # m => gs[k] = fs[k]
    BY <1>1 DEF GoneOn
  <2>2. gs[k].concept = fs[k].concept
    BY <1>3, <2>1
  <2>3. ItemsOf(gs[k]) = ItemsOf(fs[k])
    BY <2>2, ItemsSame
  <2>4. fs[k] \in Frame /\ fs[k].next \in 1..(Len(ItemsOf(fs[k])) + 1)
    BY DEF Chain
  <2>5. gs[k] \in Frame /\ gs[k].next \in 1..(Len(ItemsOf(gs[k])) + 1)
    BY <1>2, <1>3, <2>1, <2>3, <2>4
  <2> QED BY <2>1, <2>2, <2>3, <2>5
<1>5. ASSUME NEW k \in 1..m, k > 1
      PROVE  /\ gs[k - 1].next <= Len(ItemsOf(gs[k - 1]))
             /\ gs[k].concept \in Item /\ gs[k].concept = Current(gs[k - 1])
  <2>1. k - 1 \in 1..m /\ k - 1 # m
    BY <1>1, <1>5
  <2>2. gs[k - 1] = fs[k - 1] /\ gs[k].concept = fs[k].concept
    BY <1>4, <2>1
  <2> QED BY <1>5, <2>2 DEF Chain
<1>6. Chain(gs, m)
  <2>1. gs[1].concept = None
    BY <1>1, <1>4 DEF Chain
  <2>2. \A k, l \in 1..m : gs[k].concept = gs[l].concept => k = l
    BY <1>4 DEF Chain
  <2>3. gs \in Seq(Frame) /\ m \in 1..Len(gs)
    BY <1>1 DEF GoneOn
  <2> QED BY <1>4, <1>5, <2>1, <2>2, <2>3 DEF Chain
<1>7. StackUpTo(gs, m) = StackUpTo(fs, m)
  BY <1>4 DEF StackUpTo
<1>8. /\ PassedItems(gs[m]) = PassedItems(fs[m]) \cup {Current(fs[m])}
      /\ PassedItems(gs[m]) = FirstItems(fs[m], fs[m].next)
  <2>1. ItemsOf(gs[m]) = ItemsOf(fs[m])
    BY <1>1, <1>4
  <2>2. gs[m].next - 1 = fs[m].next /\ 1..fs[m].next = 1..(fs[m].next - 1) \cup {fs[m].next}
    BY <1>2, <1>3
  <2> QED BY <2>1, <2>2 DEF PassedItems, Current, FirstItems
<1>9. PassedUpTo(gs, m) = PassedUpTo(fs, m) \cup {Current(fs[m])}
  <2>1. \A k \in 1..m : k # m => PassedItems(gs[k]) = PassedItems(fs[k])
    BY <1>4
  <2> QED BY <1>1, <1>8, <2>1 DEF PassedUpTo
<1> QED BY <1>3, <1>4, <1>6, <1>7, <1>8, <1>9

NoneFailed(obj) == \A i \in Item : ~obj[i].failed

\* r is c's result.
HasResult(c, r, of, obj, of2, obj2) ==
  of2 = [of EXCEPT ![c] = c] /\ obj2 = [obj EXCEPT ![c] = r]

\* A concept none of whose items failed.
LEMMA ConceptPasses ==
  ASSUME NEW c \in Item, NEW of \in [Item -> Item \cup {None}], NEW obj \in [Item -> Result],
         NoneFailed(obj), NEW of2, NEW obj2,
         of2 = SetExecutionResultForConcept(c, of, obj).of,
         obj2 = SetExecutionResultForConcept(c, of, obj).obj
  PROVE  HasResult(c, [failed |-> FALSE, time |-> TimeOf(Steps[c], of, obj)], of, obj, of2, obj2)
<1> USE DEF NoneFailed, HasResult
<1>1. \A k \in DOMAIN Steps[c] : ~ResultOf(Steps[c][k], of, obj).failed
  <2> SUFFICES ASSUME NEW k \in DOMAIN Steps[c] PROVE ~ResultOf(Steps[c][k], of, obj).failed
    OBVIOUS
  <2>1. Steps[c][k] \in Item
    BY StepsTyped
  <2>2. of[Steps[c][k]] # None => of[Steps[c][k]] \in Item
    BY <2>1
  <2> QED BY <2>2 DEF ResultOf, Nothing
<1>2. {k \in DOMAIN Steps[c] : ResultOf(Steps[c][k], of, obj).failed} = {}
  BY <1>1
<1> QED BY <1>2 DEF SetExecutionResultForConcept

\* Item p is the first that points to s.
FirstWith(s, p, items, of) ==
  p \in 1..Len(items) /\ of[items[p]] = s /\ \A q \in 1..(p - 1) : of[items[q]] # s

\* c points to s, which has time t.
HasShared(c, s, t, of, obj, of2, obj2) ==
  of2 = [of EXCEPT ![c] = s] /\ obj2 = [obj EXCEPT ![s].time = t]

\* A concept of whose items p is the first that failed.
LEMMA ConceptFails ==
  ASSUME NEW c \in Item, NEW of \in [Item -> Item \cup {None}], NEW obj \in [Item -> Result],
         NEW s, OneFailed(s, obj), NEW p, FirstWith(s, p, Steps[c], of), NEW of2, NEW obj2,
         of2 = SetExecutionResultForConcept(c, of, obj).of,
         obj2 = SetExecutionResultForConcept(c, of, obj).obj
  PROVE  HasShared(c, s, TimeOf(SubSeq(Steps[c], 1, p), of, obj), of, obj, of2, obj2)
<1> USE DEF OneFailed, FirstWith
<1> DEFINE failing == {k \in DOMAIN Steps[c] : ResultOf(Steps[c][k], of, obj).failed}
<1>1. /\ DOMAIN Steps[c] = 1..Len(Steps[c]) /\ Len(Steps[c]) \in Nat
      /\ \A k \in 1..Len(Steps[c]) : Steps[c][k] \in Item
  BY StepsTyped
<1>2. p \in failing
  <2>1. of[Steps[c][p]] # None
    BY ItemAssumption
  <2> QED BY <1>1, <2>1 DEF ResultOf
<1>3. \A q \in failing : p <= q
  <2> SUFFICES ASSUME NEW q \in 1..Len(Steps[c]), ResultOf(Steps[c][q], of, obj).failed, ~(p <= q)
               PROVE  FALSE
    BY <1>1
  <2>1. q \in 1..(p - 1) /\ Steps[c][q] \in Item
    BY <1>1
  <2>2. of[Steps[c][q]] # None
    BY DEF ResultOf, Nothing
  <2>3. of[Steps[c][q]] \in Item /\ obj[of[Steps[c][q]]].failed
    BY <2>1, <2>2 DEF ResultOf
  <2> QED BY <2>1, <2>3
<1>4. \A q \in failing : q \in Nat
  BY <1>1
<1>5. Min(failing) = p
  <2> HIDE DEF failing
  <2>1. \A x \in failing : (\A y \in failing : x <= y) => x = p
    <3> SUFFICES ASSUME NEW x \in failing, \A y \in failing : x <= y PROVE x = p
      OBVIOUS
    <3>1. x <= p /\ p <= x /\ x \in Nat /\ p \in Nat
      BY <1>2, <1>3, <1>4
    <3> QED BY <3>1
  <2>2. p \in failing /\ \A y \in failing : p <= y
    BY <1>2, <1>3
  <2> QED BY <2>1, <2>2, Zenon DEF Min
<1>6. failing # {}
  BY <1>2
<1>7. of[Steps[c][p]] = s
  OBVIOUS
<1> QED BY <1>5, <1>6, <1>7 DEF SetExecutionResultForConcept, HasShared

\* What ItemReturns makes of the results.
TakesIn(c, of, obj, of2, obj2) ==
  IF c = None THEN of2 = of /\ obj2 = obj
  ELSE /\ of2 = SetExecutionResultForConcept(c, of, obj).of
       /\ obj2 = SetExecutionResultForConcept(c, of, obj).obj

TimesTypes(of, obj, tk) ==
  /\ of \in [Item -> Item \cup {None}] /\ obj \in [Item -> Result] /\ tk \in [Item \cup {None} -> Nat]

\* The items of a concept from some point on, none of which has a time.
LEMMA TimeOfRest ==
  ASSUME NEW f \in Frame, NEW n \in 0..Len(ItemsOf(f)),
         NEW of \in [Item -> Item \cup {None}], NEW obj \in [Item -> Result],
         \A j \in 1..Len(ItemsOf(f)) : j > n => of[ItemsOf(f)[j]] = None
  PROVE  TimeOf(ItemsOf(f), of, obj) = SumOf(TimesAt(of, obj), FirstItems(f, n))
<1> DEFINE t == TimesAt(of, obj)
           l == Len(ItemsOf(f))
           first == FirstItems(f, n)
           rest == {ItemsOf(f)[j] : j \in (n + 1)..l}
<1>1. l \in Nat /\ \A j \in 1..l : ItemsOf(f)[j] \in Item
  BY FrameItems
<1>2. 1..l = 1..n \cup (n + 1)..l /\ n \in Nat
  BY <1>1
<1>3. FirstItems(f, l) = first \cup rest
  BY <1>2 DEF FirstItems
<1>4. first \cap rest = {}
  <2> SUFFICES ASSUME NEW j \in 1..n, NEW k \in (n + 1)..l, ItemsOf(f)[j] = ItemsOf(f)[k] PROVE FALSE
    BY DEF FirstItems
  <2>1. j \in 1..l /\ k \in 1..l /\ j # k
    BY <1>1, <1>2
  <2> QED BY <2>1, Places
<1>5. first \in SUBSET Item /\ rest \in SUBSET Item
  BY <1>1, <1>2 DEF FirstItems
<1>6. IsFiniteSet(first) /\ IsFiniteSet(rest)
  BY <1>5, PlaceAssumption, FS_Subset
<1>7. \A i \in rest : t[i] = 0
  <2> SUFFICES ASSUME NEW j \in (n + 1)..l PROVE t[ItemsOf(f)[j]] = 0
    OBVIOUS
  <2>1. j \in 1..l /\ j > n
    BY <1>1, <1>2
  <2> QED BY <1>1, <2>1, TimesTyped
<1>8. \A i \in first \cup rest : t[i] \in Nat
  BY <1>5, TimesTyped
<1>9. TimeOf(ItemsOf(f), of, obj) = SumOf(t, first \cup rest)
  BY <1>3, TimeOfAll
<1> HIDE DEF t, first, rest
<1>10. SumOf(t, first \cup rest) = SumOf(t, first) + SumOf(t, rest)
  BY <1>4, <1>6, <1>8, SumUnion
<1>11. SumOf(t, rest) = 0
  BY <1>6, <1>7, SumZero
<1>12. SumOf(t, first) \in Nat
  BY <1>6, <1>8, SumNat
<1> QED BY <1>9, <1>10, <1>11, <1>12 DEF t, first

\* An item that has not failed returns.
LEMMA ReturningGoesOn ==
  ASSUME NEW fs, NEW m, NEW of, NEW obj, NEW tk, TimesTypes(of, obj, tk), Returning(fs, m, of, obj, tk), NoneFailed(obj),
         NEW gs, GoneOn(fs, gs, m),
         NEW of2, NEW obj2, TakesIn(fs[m].concept, of, obj, of2, obj2)
  PROVE  Going(gs, of2, obj2, tk)
<1> DEFINE t == TimesAt(of, obj)
           t2 == TimesAt(of2, obj2)
           c == fs[m].concept
           x == Current(fs[m])
<1>1. /\ of \in [Item -> Item \cup {None}] /\ obj \in [Item -> Result] /\ tk \in [Item \cup {None} -> Nat]
      /\ Chain(fs, m) /\ fs[m].next <= Len(ItemsOf(fs[m])) /\ Clean(fs, m, of, obj, tk)
      /\ SumOf(t, PassedUpTo(fs, m) \cup {x}) = SumOf(tk, Item)
  BY DEF TimesTypes, Returning
<1>2. /\ m \in Nat \ {0} /\ m \in 1..m
      /\ fs[m] \in Frame /\ fs[m].next \in 1..Len(ItemsOf(fs[m])) /\ Len(ItemsOf(fs[m])) \in Nat
      /\ x \in Item /\ x = ItemsOf(fs[m])[fs[m].next] /\ fs[m].next \in Nat
  BY <1>1, ChainTyped DEF Current
<1>3. /\ Chain(gs, m) /\ Len(gs) = m
      /\ \A k \in 1..m : gs[k].concept = fs[k].concept /\ ItemsOf(gs[k]) = ItemsOf(fs[k])
      /\ gs[m].next = fs[m].next + 1
      /\ StackUpTo(gs, m) = StackUpTo(fs, m)
      /\ PassedItems(gs[m]) = FirstItems(fs[m], fs[m].next)
      /\ PassedItems(gs[m]) = PassedItems(fs[m]) \cup {x}
      /\ PassedUpTo(gs, m) = PassedUpTo(fs, m) \cup {x}
      /\ \A k \in 1..(m - 1) : gs[k] = fs[k]
  <2>1. Len(gs) = m /\ \A k \in 1..(m - 1) : gs[k] = fs[k]
    BY DEF GoneOn
  <2>2. Chain(fs, m) /\ fs[m].next <= Len(ItemsOf(fs[m])) /\ GoneOn(fs, gs, m)
    BY <1>1
  <2> QED BY ONLY <2>1, <2>2, ChainGoesOn
<1>4. x # c /\ c \notin PassedUpTo(fs, m)
  <2>1. c \notin PassedUpTo(fs, m)
    BY <1>1, <1>2, ConceptNotPassed
  <2>2. x \notin StackUpTo(fs, m)
    BY <1>1, <1>2, NotOnStack
  <2> QED BY <1>2, <2>1, <2>2 DEF StackUpTo
\* Only the concept's result changes.
<1>5. /\ of2 \in [Item -> Item \cup {None}] /\ obj2 \in [Item -> Result]
      /\ \A i \in Item : i # c => of2[i] = of[i] /\ t2[i] = t[i]
      /\ \A i \in Item : of2[i] \in {None, i}
      /\ c \in Item => of2[c] = c /\ t2[c] = TimeOf(Steps[c], of, obj)
  <2>1. \A i \in Item : of[i] \in {None, i}
    BY <1>1 DEF Clean
  <2>2. CASE c = None
    BY <1>1, <2>1, <2>2, ItemAssumption DEF TakesIn
  <2>3. CASE c # None
    <3>1. c \in Item
      BY <1>2, <2>3 DEF Frame
    <3> DEFINE time == TimeOf(Steps[c], of, obj)
               r == [failed |-> FALSE, time |-> time]
    <3>2. Steps[c] \in Seq(Item)
      BY <3>1, StepsTyped
    <3>3. time \in Nat
      BY <1>1, <3>2, TimeIs
    <3>4. r \in Result /\ r.time = time
      BY <3>3 DEF Result
    <3>5. of2 = [of EXCEPT ![c] = c] /\ obj2 = [obj EXCEPT ![c] = r]
      <4>1. /\ of2 = SetExecutionResultForConcept(c, of, obj).of
            /\ obj2 = SetExecutionResultForConcept(c, of, obj).obj
        BY <2>3 DEF TakesIn
      <4>2. of \in [Item -> Item \cup {None}] /\ obj \in [Item -> Result]
        BY <1>1
      <4> HIDE DEF c
      <4>3. HasResult(c, [failed |-> FALSE, time |-> TimeOf(Steps[c], of, obj)], of, obj, of2, obj2)
        BY <3>1, <4>1, <4>2, ConceptPasses
      <4> QED BY <4>3 DEF HasResult, r, time
    <3> HIDE DEF r, time, c, Result
    <3>6. /\ of2 \in [Item -> Item \cup {None}] /\ obj2 \in [Item -> Result]
          /\ \A i \in Item : of2[i] = IF i = c THEN c ELSE of[i]
          /\ \A i \in Item : obj2[i] = IF i = c THEN r ELSE obj[i]
      BY <1>1, <3>1, <3>4, <3>5
    <3>7. \A i \in Item : of2[i] \in {None, i}
      BY <2>1, <3>6
    <3>8. c # None
      BY <2>3
    <3>9. of2[c] = c /\ obj2[c] = r
      BY <3>1, <3>6
    <3>10. t2[c] = time
      BY <3>1, <3>4, <3>6, <3>8, <3>9, TimesTyped
    <3>11. ASSUME NEW i \in Item, i # c PROVE of2[i] = of[i] /\ t2[i] = t[i]
      <4>1. of2[i] = of[i] /\ of[i] \in {None, i} /\ obj2[i] = obj[i]
        BY <3>6, <2>1, <3>11
      <4>2. CASE of[i] = None
        <5>1. t[i] = 0
          BY <4>2, <1>1, TimesTyped
        <5>2. t2[i] = 0
          BY <4>1, <4>2, <3>6, TimesTyped
        <5> QED BY <4>1, <5>1, <5>2
      <4>3. CASE of[i] = i /\ i # None
        <5>1. t[i] = obj[i].time
          BY <4>3, <1>1, TimesTyped
        <5>2. t2[i] = obj2[i].time
          BY <4>1, <4>3, <3>6, TimesTyped
        <5> QED BY <4>1, <5>1, <5>2
      <4> QED BY <4>1, <4>2, <4>3, ItemAssumption
    <3> QED BY <3>1, <3>6, <3>7, <3>9, <3>10, <3>11 DEF time
  <2> QED BY <2>2, <2>3
<1>6. t \in [Item -> Nat] /\ t2 \in [Item -> Nat]
  BY <1>1, <1>5, TimesTyped
<1> HIDE DEF t, t2, c, x
<1>7. Untouched(gs, m, of2, tk) = Untouched(fs, m, of, tk)
  <2>1. c \in StackUpTo(fs, m)
    BY <1>2 DEF StackUpTo, c
  <2> QED BY <2>1, <1>3, <1>5 DEF Untouched
<1>8. \A k \in 1..m : PassedItems(fs[k]) \in SUBSET Item /\ IsFiniteSet(PassedItems(fs[k]))
                      /\ \A i \in PassedItems(fs[k]) : t[i] = t2[i] /\ t[i] \in Nat
  <2>1. \A k \in 1..m : PassedItems(fs[k]) \in SUBSET Item /\ IsFiniteSet(PassedItems(fs[k]))
    BY <1>1, ChainTyped
  <2>2. \A k \in 1..m : c \notin PassedItems(fs[k])
    BY <1>4 DEF PassedUpTo
  <2> QED BY <2>1, <2>2, <1>5, <1>6
<1>9. \A k \in 1..m : \A j \in 1..Len(ItemsOf(gs[k])) :
        j > gs[k].next => ItemsOf(gs[k])[j] \in Untouched(gs, m, of2, tk)
  <2> SUFFICES ASSUME NEW k \in 1..m, NEW j \in 1..Len(ItemsOf(gs[k])), j > gs[k].next
               PROVE  ItemsOf(gs[k])[j] \in Untouched(fs, m, of, tk)
    BY <1>7
  <2>1. ItemsOf(gs[k]) = ItemsOf(fs[k]) /\ fs[k].next \in Nat /\ Len(ItemsOf(fs[k])) \in Nat
    BY <1>1, <1>3, ChainTyped
  <2>2. j > fs[k].next
    BY <1>2, <1>3, <2>1
  <2> QED BY <2>1, <2>2, <1>1 DEF Clean
<1>10. \A k \in 1..m : k > 1 /\ gs[k].next > 1 =>
         of2[gs[k].concept] = gs[k].concept /\ t2[gs[k].concept] = SumOf(t2, PassedItems(gs[k]))
  <2> SUFFICES ASSUME NEW k \in 1..m, k > 1, gs[k].next > 1
               PROVE  of2[fs[k].concept] = fs[k].concept /\ t2[fs[k].concept] = SumOf(t2, PassedItems(gs[k]))
    BY <1>3
  <2>1. fs[k].concept \in Item
    BY <1>1 DEF Chain
  <2>2. CASE k # m
    <3>1. gs[k] = fs[k] /\ fs[k].concept # c
      <4>1. k \in 1..(m - 1)
        BY <1>2, <2>2
      <4>2. fs[k].concept # fs[m].concept
        BY <1>1, <1>2, <2>2 DEF Chain
      <4> QED BY <4>1, <4>2, <1>3 DEF c
    <3>2. of[fs[k].concept] = fs[k].concept /\ t[fs[k].concept] = SumOf(t, PassedItems(fs[k]))
      BY <1>1, <3>1 DEF Clean, t
    <3>3. SumOf(t, PassedItems(fs[k])) = SumOf(t2, PassedItems(fs[k]))
      BY <1>8, SumSame
    <3> QED BY <1>5, <2>1, <3>1, <3>2, <3>3
  <2>3. CASE k = m
    <3>1. c \in Item /\ fs[k].concept = c /\ ItemsOf(fs[m]) = Steps[c]
      BY <2>1, <2>3, ItemAssumption DEF ItemsOf, c
    <3> DEFINE n == fs[m].next
               first == FirstItems(fs[m], n)
    <3>2. n \in 0..Len(ItemsOf(fs[m])) /\ n \in 1..Len(ItemsOf(fs[m]))
      BY <1>2
    <3>3. \A j \in 1..Len(ItemsOf(fs[m])) : j > n => of[ItemsOf(fs[m])[j]] = None
      BY <1>1, <1>2 DEF Clean, Untouched
    <3> HIDE DEF n
    <3>4. TimeOf(ItemsOf(fs[m]), of, obj) = SumOf(TimesAt(of, obj), FirstItems(fs[m], n))
      BY <1>1, <1>2, <3>2, <3>3, TimeOfRest
    <3>5. first \subseteq PassedUpTo(fs, m) \cup {x}
      BY <1>2, <1>3 DEF n, PassedUpTo
    <3>6. first \in SUBSET Item /\ c \notin first /\ IsFiniteSet(first)
      <4>1. PassedUpTo(fs, m) \in SUBSET Item
        BY <1>1, ChainTyped
      <4>2. first \in SUBSET Item /\ c \notin first
        BY <1>2, <1>4, <3>5, <4>1
      <4> QED BY <4>2, PlaceAssumption, FS_Subset
    <3> HIDE DEF first
    <3>7. \A i \in first : t[i] \in Nat /\ t[i] = t2[i]
      BY <1>5, <1>6, <3>6
    <3>8. SumOf(t, first) = SumOf(t2, first)
      BY <3>6, <3>7, SumSame
    <3>9. of2[c] = c /\ t2[c] = SumOf(t, first)
      BY <1>5, <3>1, <3>4 DEF t, first
    <3>10. PassedItems(gs[k]) = first
      BY <1>3, <2>3 DEF first, n
    <3> QED BY <3>1, <3>8, <3>9, <3>10
  <2> QED BY <2>2, <2>3
<1>11. Clean(gs, m, of2, obj2, tk)
  <2>1. \A i \in Untouched(gs, m, of2, tk) : \A k \in DOMAIN Steps[i] : Steps[i][k] \in Untouched(gs, m, of2, tk)
    BY <1>1, <1>7 DEF Clean
  <2> QED BY <1>5, <1>9, <1>10, <2>1 DEF Clean, t2
<1>12. gs[m].next <= Len(ItemsOf(gs[m])) => Current(gs[m]) \in Untouched(gs, m, of2, tk)
  <2> SUFFICES ASSUME gs[m].next <= Len(ItemsOf(gs[m])) PROVE Current(gs[m]) \in Untouched(fs, m, of, tk)
    BY <1>7
  <2>1. ItemsOf(gs[m]) = ItemsOf(fs[m]) /\ gs[m].next \in 1..Len(ItemsOf(fs[m])) /\ gs[m].next > fs[m].next
    BY <1>2, <1>3
  <2>2. ItemsOf(fs[m])[gs[m].next] \in Untouched(fs, m, of, tk)
    BY <1>1, <1>2, <2>1 DEF Clean
  <2> QED BY <2>1, <2>2 DEF Current
<1>13. SumOf(t2, PassedUpTo(gs, m)) = SumOf(tk, Item)
  <2> DEFINE all == PassedUpTo(fs, m) \cup {x}
  <2>1. all \in SUBSET Item /\ c \notin all
    BY <1>1, <1>2, <1>4, ChainTyped
  <2>2. IsFiniteSet(all)
    BY <2>1, PlaceAssumption, FS_Subset
  <2>3. \A i \in all : t[i] \in Nat /\ t[i] = t2[i]
    BY <1>5, <1>6, <2>1
  <2>4. PassedUpTo(gs, m) = all /\ SumOf(t, all) = SumOf(tk, Item)
    BY <1>1, <1>3 DEF t, x
  <2> HIDE DEF all
  <2>5. SumOf(t, all) = SumOf(t2, all)
    BY <2>2, <2>3, SumSame
  <2> QED BY <2>4, <2>5
<1> QED BY <1>3, <1>11, <1>12, <1>13 DEF Going, t2
\* An item that failed is about to return.
LEMMA ReturningFails ==
  ASSUME NEW fs, NEW m, NEW of, NEW obj, NEW tk, TimesTypes(of, obj, tk), Returning(fs, m, of, obj, tk),
         NEW s, OneFailed(s, obj), s = Current(fs[m]), of[s] = s
  PROVE  Failing(fs, m, of, obj, tk)
<1>1. /\ of \in [Item -> Item \cup {None}]
      /\ Chain(fs, m) /\ fs[m].next <= Len(ItemsOf(fs[m])) /\ Clean(fs, m, of, obj, tk)
      /\ SumOf(TimesAt(of, obj), PassedUpTo(fs, m) \cup {Current(fs[m])}) = SumOf(tk, Item)
  BY DEF TimesTypes, Returning
<1>2. m \in 1..m /\ 1 \in 1..m /\ fs[m].next \in 1..Len(ItemsOf(fs[m])) /\ s \in Item
  BY <1>1, ChainTyped DEF OneFailed
<1>3. s \notin PassedUpTo(fs, m) /\ PassedUpTo(fs, m) \in SUBSET Item
  <2>1. fs[m].next >= fs[m].next
    BY <1>2
  <2> QED BY <1>1, <1>2, <2>1, NotPassed, ChainTyped DEF Current
<1>4. \A i \in PassedUpTo(fs, m) : of[i] # s
  <2>1. \A i \in Item : of[i] \in {None, i}
    BY <1>1 DEF Clean
  <2>2. s # None
    BY <1>2, ItemAssumption
  <2> QED BY ONLY <1>3, <2>1, <2>2
<1>5. \A j \in 1..Len(Top) : j > fs[1].next => of[Top[j]] = None
  <2>1. ItemsOf(fs[1]) = Top
    BY <1>1 DEF Chain, ItemsOf, Top
  <2> QED BY <1>1, <1>2, <2>1 DEF Clean, Untouched
<1> QED BY <1>1, <1>2, <1>4, <1>5 DEF Failing

LEMMA FailingGoesOn ==
  ASSUME NEW fs, NEW m, NEW of, NEW obj, NEW tk, TimesTypes(of, obj, tk), Failing(fs, m, of, obj, tk),
         NEW gs, GoneOn(fs, gs, m),
         NEW of2, NEW obj2, TakesIn(fs[m].concept, of, obj, of2, obj2)
  PROVE  \/ Accounted(gs, of2, obj2, tk)
         \/ m > 1 /\ Failing(gs, m - 1, of2, obj2, tk)
<1> DEFINE t == TimesAt(of, obj)
           t2 == TimesAt(of2, obj2)
           c == fs[m].concept
           x == Current(fs[m])
<1>1. /\ of \in [Item -> Item \cup {None}] /\ obj \in [Item -> Result] /\ tk \in [Item \cup {None} -> Nat]
      /\ Chain(fs, m) /\ fs[m].next <= Len(ItemsOf(fs[m]))
      /\ \A j \in 1..Len(Top) : j > fs[1].next => of[Top[j]] = None
      /\ SumOf(t, PassedUpTo(fs, m) \cup {x}) = SumOf(tk, Item)
  BY DEF TimesTypes, Failing
<1>2. PICK s : /\ of[x] = s /\ OneFailed(s, obj)
               /\ \A i \in PassedUpTo(fs, m) : of[i] # s
  BY DEF Failing
<1>3. /\ m \in Nat \ {0} /\ m \in 1..m /\ 1 \in 1..m
      /\ fs[m] \in Frame /\ fs[m].next \in 1..Len(ItemsOf(fs[m])) /\ Len(ItemsOf(fs[m])) \in Nat
      /\ x \in Item /\ x = ItemsOf(fs[m])[fs[m].next] /\ fs[m].next \in Nat
      /\ PassedUpTo(fs, m) \in SUBSET Item
  BY <1>1, ChainTyped DEF Current
<1>4. /\ Chain(gs, m) /\ Len(gs) = m
      /\ \A k \in 1..m : gs[k].concept = fs[k].concept /\ ItemsOf(gs[k]) = ItemsOf(fs[k])
      /\ gs[m].next = fs[m].next + 1
      /\ StackUpTo(gs, m) = StackUpTo(fs, m)
      /\ PassedItems(gs[m]) = FirstItems(fs[m], fs[m].next)
      /\ PassedItems(gs[m]) = PassedItems(fs[m]) \cup {x}
      /\ PassedUpTo(gs, m) = PassedUpTo(fs, m) \cup {x}
      /\ \A k \in 1..(m - 1) : gs[k] = fs[k]
  <2>1. Len(gs) = m /\ \A k \in 1..(m - 1) : gs[k] = fs[k]
    BY DEF GoneOn
  <2>2. Chain(fs, m) /\ fs[m].next <= Len(ItemsOf(fs[m])) /\ GoneOn(fs, gs, m)
    BY <1>1
  <2> QED BY ONLY <2>1, <2>2, ChainGoesOn
<1>5. x # c /\ c \notin PassedUpTo(fs, m)
  <2>1. c \notin PassedUpTo(fs, m)
    BY <1>1, <1>3, ConceptNotPassed
  <2>2. x \notin StackUpTo(fs, m)
    BY <1>1, <1>3, NotOnStack
  <2> QED BY <1>3, <2>1, <2>2 DEF StackUpTo
<1>6. CASE m = 1
  <2>1. c = None
    BY <1>1, <1>6 DEF Chain
  <2>2. of2 = of /\ obj2 = obj
    BY <2>1 DEF TakesIn
  <2>3. PassedUpTo(gs, 1) = PassedItems(gs[1])
    BY DEF PassedUpTo
  <2>4. SumOf(t, PassedItems(gs[1])) = SumOf(tk, Item)
    <3>1. PassedItems(gs[1]) = PassedUpTo(fs, m) \cup {x}
      BY <1>4, <1>6, <2>3
    <3>2. SumOf(t, PassedUpTo(fs, m) \cup {x}) = SumOf(tk, Item)
      BY <1>1
    <3> QED BY <3>1, <3>2
  <2>5. \A j \in 1..Len(Top) : j >= gs[1].next => of[Top[j]] = None
    <3>1. gs[1].next = fs[1].next + 1 /\ fs[1].next \in Nat
      BY <1>3, <1>4, <1>6
    <3>2. Len(Top) \in Nat
      BY TopTyped
    <3>3. \A j \in 1..Len(Top) : j >= gs[1].next => j > fs[1].next
      BY <3>1, <3>2
    <3>4. \A j \in 1..Len(Top) : j > fs[1].next => of[Top[j]] = None
      BY <1>1
    <3> QED BY <3>3, <3>4
  <2> QED BY <1>4, <1>6, <2>2, <2>4, <2>5 DEF Accounted
<1>7. CASE m > 1
  <2>1. /\ Chain(fs, m - 1) /\ fs[m - 1].next <= Len(ItemsOf(fs[m - 1]))
        /\ c = Current(fs[m - 1]) /\ c \in Item
        /\ PassedUpTo(fs, m) = PassedUpTo(fs, m - 1) \cup PassedItems(fs[m])
    BY <1>1, <1>7, ChainShorter
  <2>2. /\ Chain(gs, m - 1)
        /\ PassedUpTo(gs, m) = PassedUpTo(gs, m - 1) \cup PassedItems(gs[m])
    BY <1>4, <1>7, ChainShorter
  <2>3. m - 1 \in 1..(m - 1) /\ 1 \in 1..(m - 1) /\ gs[m - 1] = fs[m - 1] /\ gs[1] = fs[1]
    BY <1>3, <1>4, <1>7
  <2>4. PassedUpTo(gs, m - 1) = PassedUpTo(fs, m - 1)
    BY <1>4 DEF PassedUpTo
  <2> DEFINE n == fs[m].next
             time == TimeOf(SubSeq(Steps[c], 1, n), of, obj)
             before == PassedUpTo(fs, m - 1)
             first == FirstItems(fs[m], n)
  <2>5. ItemsOf(fs[m]) = Steps[c]
    BY <2>1, ItemAssumption DEF ItemsOf
  <2>6. FirstWith(s, n, Steps[c], of)
    <3>1. \A q \in 1..(n - 1) : ItemsOf(fs[m])[q] \in PassedUpTo(fs, m)
      BY <1>3 DEF PassedUpTo, PassedItems
    <3>2. \A q \in 1..(n - 1) : of[Steps[c][q]] # s
      BY <1>2, <2>5, <3>1
    <3>3. n \in 1..Len(Steps[c]) /\ of[Steps[c][n]] = s
      BY <1>2, <1>3, <2>5
    <3> HIDE DEF n, c
    <3> QED BY <3>2, <3>3 DEF FirstWith
  <2>7. of2 = SetExecutionResultForConcept(c, of, obj).of /\ obj2 = SetExecutionResultForConcept(c, of, obj).obj
    BY <2>1, ItemAssumption DEF TakesIn
  <2> HIDE DEF n, c, x
  <2>8. HasShared(c, s, TimeOf(SubSeq(Steps[c], 1, n), of, obj), of, obj, of2, obj2)
    BY <1>1, <1>2, <2>1, <2>6, <2>7, ConceptFails
  <2>9. time = SumOf(t, first)
    BY <1>1, <1>3, <2>5, TimeOfFirst DEF n
  <2>10. first \in SUBSET Item /\ IsFiniteSet(first) /\ time \in Nat
    <3>1. first \in SUBSET Item
      BY <1>3, <1>4 DEF n, PassedItems, PassedUpTo
    <3>2. IsFiniteSet(first)
      BY <3>1, PlaceAssumption, FS_Subset
    <3>3. \A i \in first : t[i] \in Nat
      BY <1>1, <3>1, TimesTyped
    <3> HIDE DEF first, t, time
    <3> QED BY <2>9, <3>1, <3>2, <3>3, SumNat
  <2>11. s \in Item /\ obj[s].failed /\ s # None /\ \A i \in Item : obj[i].failed => i = s
    BY <1>2, ItemAssumption DEF OneFailed
  \* Only the shared object changes, and what points to it.
  <2>12. /\ of2 \in [Item -> Item \cup {None}] /\ obj2 \in [Item -> Result]
         /\ of2[c] = s /\ obj2[s].time = time /\ obj2[s].failed
         /\ \A i \in Item : i # c => of2[i] = of[i]
         /\ \A i \in Item : i # s => obj2[i] = obj[i]
    <3> HIDE DEF time
    <3>1. of2 = [of EXCEPT ![c] = s] /\ obj2 = [obj EXCEPT ![s].time = time]
      BY <2>8 DEF HasShared, time
    <3>2. /\ of2 \in [Item -> Item \cup {None}] /\ of2[c] = s
          /\ \A i \in Item : i # c => of2[i] = of[i]
      BY <1>1, <2>1, <2>11, <3>1
    <3> DEFINE r == [obj[s] EXCEPT !.time = time]
    <3>3. obj[s] \in Result
      <4> HIDE DEF Result
      <4> QED BY <1>1, <2>11
    <3>4. r \in Result /\ r.time = time /\ r.failed = obj[s].failed
      BY <2>10, <3>3 DEF Result
    <3>5. obj2 = [obj EXCEPT ![s] = r]
      BY <3>1
    <3> HIDE DEF r, Result
    <3>6. obj2 \in [Item -> Result] /\ obj2[s] = r /\ \A i \in Item : i # s => obj2[i] = obj[i]
      BY <1>1, <2>11, <3>4, <3>5
    <3> QED BY <2>11, <3>2, <3>4, <3>6
  <2>13. OneFailed(s, obj2)
    BY <2>11, <2>12 DEF OneFailed
  <2>14. before \in SUBSET Item /\ before \subseteq PassedUpTo(fs, m) /\ c \notin before
    BY <1>3, <1>5, <2>1 DEF c
  <2>15. \A i \in before : i # c /\ of[i] # s /\ of2[i] = of[i]
    BY <1>2, <2>12, <2>14
  <2>16. t2[c] = time /\ \A i \in before : t2[i] = t[i] /\ t[i] \in Nat
    <3>1. t2[c] = time
      BY <2>1, <2>11, <2>12, TimesTyped
    <3>2. ASSUME NEW i \in before PROVE t2[i] = t[i] /\ t[i] \in Nat
      <4>1. i \in Item /\ of2[i] = of[i] /\ of[i] # s /\ of[i] \in Item \cup {None}
        BY <1>1, <2>14, <2>15
      <4>2. CASE of[i] = None
        <5>1. t[i] = 0
          BY <4>1, <4>2, <1>1, TimesTyped
        <5>2. t2[i] = 0
          BY <4>1, <4>2, <2>12, TimesTyped
        <5> QED BY <5>1, <5>2
      <4>3. CASE of[i] # None
        <5>1. t[i] = obj[of[i]].time /\ t[i] \in Nat
          BY <4>1, <4>3, <1>1, TimesTyped
        <5>2. t2[i] = obj2[of[i]].time
          BY <4>1, <4>3, <2>12, TimesTyped
        <5>3. obj2[of[i]] = obj[of[i]]
          BY <4>1, <4>3, <2>12
        <5> QED BY <5>1, <5>2, <5>3
      <4> QED BY <4>2, <4>3
    <3> QED BY <3>1, <3>2
  <2>17. PassedUpTo(fs, m) \cup {x} = before \cup first /\ before \cap first = {}
    <3>1. PassedItems(fs[m]) \cup {x} = first
      BY <1>4 DEF n
    <3>2. before \cap PassedItems(fs[m]) = {}
      BY <1>1, <1>7, PassedApart
    <3>3. fs[m].next >= fs[m].next
      BY <1>3
    <3>4. x \notin PassedUpTo(fs, m)
      BY <1>1, <1>3, <3>3, NotPassed DEF x
    <3> QED BY <2>1, <3>1, <3>2, <3>4
  <2>18. SumOf(t2, before \cup {c}) = SumOf(tk, Item)
    <3>1. IsFiniteSet(before)
      BY <2>14, PlaceAssumption, FS_Subset
    <3>2. \A i \in before \cup first : t[i] \in Nat
      BY <1>1, <2>10, <2>14, TimesTyped
    <3>3. SumOf(t, PassedUpTo(fs, m) \cup {x}) = SumOf(tk, Item)
      BY <1>1 DEF x
    <3>4. \A i \in before : t2[i] \in Nat /\ t2[i] = t[i]
      BY <2>16
    <3> HIDE DEF t, t2, before, first, time
    <3>5. SumOf(t, before \cup first) = SumOf(t, before) + SumOf(t, first)
      BY <2>10, <2>17, <3>1, <3>2, SumUnion
    <3>6. SumOf(t2, before) = SumOf(t, before)
      BY <3>1, <3>4, SumSame
    <3>7. SumOf(t2, before \cup {c}) = t2[c] + SumOf(t2, before)
      BY <2>10, <2>14, <2>16, <3>1, <3>4, SumWith
    <3>8. SumOf(t, before) \in Nat
      BY <3>1, <3>2, SumNat
    <3> QED BY <2>9, <2>10, <2>16, <2>17, <3>3, <3>5, <3>6, <3>7, <3>8
  <2>19. \A j \in 1..Len(Top) : j > gs[1].next => of2[Top[j]] = None
    <3> SUFFICES ASSUME NEW j \in 1..Len(Top), j > fs[1].next PROVE of2[Top[j]] = None
      BY <2>3
    <3>1. ItemsOf(fs[1]) = Top /\ Top[j] \in Item
      BY <1>1, TopTyped DEF Chain, ItemsOf, Top
    <3>2. Top[j] # c
      <4>1. Top[j] \notin StackUpTo(fs, m)
        BY <1>1, <1>3, <3>1, NotOnStack
      <4> QED BY <1>3, <4>1 DEF StackUpTo, c
    <3> QED BY <1>1, <2>12, <3>1, <3>2
  <2>20. Current(gs[m - 1]) = c /\ gs[m - 1].next <= Len(ItemsOf(gs[m - 1]))
    BY <2>1, <2>3
  <2>21. \A i \in PassedUpTo(gs, m - 1) : of2[i] # s
    BY <2>4, <2>15
  <2>22. SumOf(TimesAt(of2, obj2), PassedUpTo(gs, m - 1) \cup {Current(gs[m - 1])}) = SumOf(tk, Item)
    BY <2>4, <2>18, <2>20
  <2>23. s \in Item /\ of2[Current(gs[m - 1])] = s
    BY <2>11, <2>12, <2>20
  <2> HIDE DEF t, t2, before, first, time
  <2> QED BY <1>7, <2>2, <2>13, <2>19, <2>20, <2>21, <2>22, <2>23 DEF Failing
<1> QED BY <1>3, <1>6, <1>7
\* An item of a loop is in no other concept.
LEMMA InConcept ==
  ASSUME NEW fs, NEW m, Chain(fs, m), NEW k \in 1..m, NEW j \in 1..Len(ItemsOf(fs[k])),
         NEW i \in Item, NEW p \in DOMAIN Steps[i], Steps[i][p] = ItemsOf(fs[k])[j]
  PROVE  i \in StackUpTo(fs, m)
<1> DEFINE g == [concept |-> i, next |-> 1]
<1>1. g \in Frame /\ ItemsOf(g) = Steps[i] /\ g.concept = i
  BY ItemAssumption DEF Frame, ItemsOf
<1> HIDE DEF g
<1>2. p \in 1..Len(ItemsOf(g)) /\ ItemsOf(g)[p] = ItemsOf(fs[k])[j]
  BY <1>1, StepsTyped
<1>3. fs[k] \in Frame
  BY ChainTyped
<1>4. g.concept = fs[k].concept
  BY <1>1, <1>2, <1>3, Places
<1> QED BY <1>1, <1>4 DEF StackUpTo

\* Item s has run, with result r.
HasRun(s, r, of, obj, tk, of2, obj2, tk2) ==
  of2 = [of EXCEPT ![s] = s] /\ obj2 = [obj EXCEPT ![s] = r] /\ tk2 = [tk EXCEPT ![s] = r.time]

LEMMA GoingRuns ==
  ASSUME NEW fs, NEW of, NEW obj, NEW tk, TimesTypes(of, obj, tk), Going(fs, of, obj, tk),
         fs[Len(fs)].next <= Len(ItemsOf(fs[Len(fs)])),
         NEW s, s = Current(fs[Len(fs)]), NEW r \in Result,
         NEW of2, NEW obj2, NEW tk2, HasRun(s, r, of, obj, tk, of2, obj2, tk2)
  PROVE  TimesTypes(of2, obj2, tk2) /\ Returning(fs, Len(fs), of2, obj2, tk2)
<1> DEFINE n == Len(fs)
           t == TimesAt(of, obj)
           t2 == TimesAt(of2, obj2)
           P == PassedUpTo(fs, n)
           ahead == Untouched(fs, n, of, tk)
           ahead2 == Untouched(fs, n, of2, tk2)
<1>1. /\ of \in [Item -> Item \cup {None}] /\ obj \in [Item -> Result] /\ tk \in [Item \cup {None} -> Nat]
      /\ Chain(fs, n) /\ fs[n].next <= Len(ItemsOf(fs[n])) /\ Clean(fs, n, of, obj, tk)
      /\ s \in ahead /\ SumOf(t, P) = SumOf(tk, Item)
  BY DEF TimesTypes, Going
<1>2. /\ n \in Nat \ {0} /\ n \in 1..n /\ fs[n].next \in 1..Len(ItemsOf(fs[n])) /\ fs[n] \in Frame
      /\ s = ItemsOf(fs[n])[fs[n].next] /\ fs[n].next >= fs[n].next
      /\ P \in SUBSET Item /\ IsFiniteSet(P)
  BY <1>1, ChainTyped DEF Current
<1>3. s \in Item /\ of[s] = None /\ tk[s] = 0 /\ s \notin StackUpTo(fs, n) /\ s # None
  BY <1>1, ItemAssumption DEF Untouched
<1>4. s \notin P
  BY <1>1, <1>2, NotPassed
<1>5. of2 = [of EXCEPT ![s] = s] /\ obj2 = [obj EXCEPT ![s] = r] /\ tk2 = [tk EXCEPT ![s] = r.time]
  BY DEF HasRun
<1>6. r.time \in Nat
  BY DEF Result
<1>7. /\ of2 \in [Item -> Item \cup {None}] /\ obj2 \in [Item -> Result] /\ tk2 \in [Item \cup {None} -> Nat]
      /\ \A i \in Item : of2[i] = IF i = s THEN s ELSE of[i]
      /\ \A i \in Item : obj2[i] = IF i = s THEN r ELSE obj[i]
      /\ \A i \in Item \cup {None} : tk2[i] = IF i = s THEN r.time ELSE tk[i]
  <2> HIDE DEF Result
  <2> QED BY <1>1, <1>3, <1>5, <1>6
<1>8. \A i \in Item : of[i] \in {None, i} /\ of2[i] \in {None, i}
  BY <1>1, <1>7 DEF Clean
<1>9. t2[s] = r.time /\ \A i \in Item : i # s => t2[i] = t[i] /\ t[i] \in Nat
  <2>1. t2[s] = r.time
    <3>1. of2[s] = s /\ obj2[s] = r
      BY <1>3, <1>7
    <3> QED BY <1>3, <1>7, <3>1, TimesTyped
  <2>2. ASSUME NEW i \in Item, i # s PROVE t2[i] = t[i] /\ t[i] \in Nat
    <3>1. of2[i] = of[i] /\ obj2[i] = obj[i] /\ of[i] \in {None, i} /\ t[i] \in Nat
      BY <1>1, <1>7, <1>8, <2>2, TimesTyped
    <3>2. CASE of[i] = None
      <4>1. t[i] = 0
        BY <3>2, <1>1, TimesTyped
      <4>2. t2[i] = 0
        BY <3>1, <3>2, <1>7, TimesTyped
      <4> QED BY <3>1, <4>1, <4>2
    <3>3. CASE of[i] = i /\ i # None
      <4>1. t[i] = obj[i].time
        BY <3>3, <1>1, TimesTyped
      <4>2. t2[i] = obj2[i].time
        BY <3>1, <3>3, <1>7, TimesTyped
      <4> QED BY <3>1, <4>1, <4>2
    <3> QED BY <3>1, <3>2, <3>3, ItemAssumption
  <2> QED BY <2>1, <2>2
<1>10. ahead2 = ahead \ {s}
  BY <1>3, <1>7 DEF Untouched
<1> HIDE DEF t, t2, ahead, ahead2, P
<1>11. \A i \in ahead2 : \A k \in DOMAIN Steps[i] : Steps[i][k] \in ahead2
  <2> SUFFICES ASSUME NEW i \in ahead2, NEW k \in DOMAIN Steps[i] PROVE Steps[i][k] \in ahead2
    OBVIOUS
  <2>1. i \in ahead /\ i \in Item /\ i \notin StackUpTo(fs, n)
    BY <1>10 DEF ahead, Untouched
  <2>2. Steps[i][k] \in ahead
    BY <1>1, <2>1 DEF Clean, ahead
  <2>3. Steps[i][k] # s
    BY <1>1, <1>2, <2>1, InConcept
  <2> QED BY <1>10, <2>2, <2>3
<1>12. \A k \in 1..n : \A j \in 1..Len(ItemsOf(fs[k])) : j > fs[k].next => ItemsOf(fs[k])[j] \in ahead2
  <2> SUFFICES ASSUME NEW k \in 1..n, NEW j \in 1..Len(ItemsOf(fs[k])), j > fs[k].next
               PROVE  ItemsOf(fs[k])[j] \in ahead2
    OBVIOUS
  <2>1. ItemsOf(fs[k])[j] \in ahead
    BY <1>1 DEF Clean, ahead
  <2>2. ItemsOf(fs[k])[j] # s
    <3> SUFFICES ASSUME ItemsOf(fs[k])[j] = ItemsOf(fs[n])[fs[n].next] PROVE FALSE
      BY <1>2
    <3>1. fs[k] \in Frame /\ fs[k].next \in Nat
      BY <1>1, ChainTyped
    <3>2. fs[k].concept = fs[n].concept /\ j = fs[n].next
      BY <1>2, <3>1, Places
    <3>3. k = n
      BY <1>1, <1>2, <3>2 DEF Chain
    <3> QED BY <3>1, <3>2, <3>3
  <2> QED BY <1>10, <2>1, <2>2
<1>13. \A k \in 1..n : k > 1 /\ fs[k].next > 1 =>
         of2[fs[k].concept] = fs[k].concept /\ t2[fs[k].concept] = SumOf(t2, PassedItems(fs[k]))
  <2> SUFFICES ASSUME NEW k \in 1..n, k > 1, fs[k].next > 1
               PROVE  of2[fs[k].concept] = fs[k].concept /\ t2[fs[k].concept] = SumOf(t2, PassedItems(fs[k]))
    OBVIOUS
  <2>1. fs[k].concept \in Item /\ fs[k].concept # s
    BY <1>1, <1>3 DEF Chain, StackUpTo
  <2>2. of[fs[k].concept] = fs[k].concept /\ t[fs[k].concept] = SumOf(t, PassedItems(fs[k]))
    BY <1>1 DEF Clean, t
  <2>3. PassedItems(fs[k]) \in SUBSET Item /\ IsFiniteSet(PassedItems(fs[k])) /\ s \notin PassedItems(fs[k])
    BY <1>1, <1>4, ChainTyped DEF PassedUpTo, P
  <2>4. \A i \in PassedItems(fs[k]) : t[i] \in Nat /\ t[i] = t2[i]
    BY <1>9, <2>3
  <2>5. SumOf(t, PassedItems(fs[k])) = SumOf(t2, PassedItems(fs[k]))
    BY <2>3, <2>4, SumSame
  <2>6. of2[fs[k].concept] = of[fs[k].concept] /\ t2[fs[k].concept] = t[fs[k].concept]
    BY <1>7, <1>9, <2>1
  <2> QED BY <2>2, <2>5, <2>6
<1>14. Clean(fs, n, of2, obj2, tk2)
  BY <1>8, <1>11, <1>12, <1>13 DEF Clean, ahead2, t2
<1>15. SumOf(t2, P \cup {s}) = SumOf(tk2, Item)
  <2> DEFINE rest == Item \ {s}
  <2>1. IsFiniteSet(Item) /\ IsFiniteSet(rest)
    BY PlaceAssumption, FS_Subset
  <2>2. (\A i \in Item : tk[i] \in Nat) /\ (\A i \in Item : tk2[i] \in Nat)
    BY <1>1, <1>7
  <2>3. \A i \in rest : tk[i] \in Nat /\ tk[i] = tk2[i]
    BY <1>7, <2>2
  <2>4a. SumOf(tk, Item) = tk[s] + SumOf(tk, rest)
    BY <1>3, <2>1, <2>2, SumWithout, ZenonT(30)
  <2>4b. SumOf(tk2, Item) = tk2[s] + SumOf(tk2, rest)
    BY <1>3, <2>1, <2>2, SumWithout, ZenonT(30)
  <2>4. SumOf(tk, Item) = tk[s] + SumOf(tk, rest) /\ SumOf(tk2, Item) = tk2[s] + SumOf(tk2, rest)
    BY <2>4a, <2>4b
  <2> HIDE DEF rest
  <2>5. SumOf(tk, rest) = SumOf(tk2, rest) /\ SumOf(tk, rest) \in Nat
    BY <2>1, <2>3, SumSame, SumNat
  <2>6. \A i \in P : t2[i] \in Nat /\ t2[i] = t[i]
    BY <1>2, <1>4, <1>9
  <2>7. SumOf(t2, P) = SumOf(t, P)
    BY <1>2, <2>6, SumSame
  <2>8. SumOf(t2, P \cup {s}) = t2[s] + SumOf(t2, P)
    <3>1. t2[s] \in Nat
      BY <1>6, <1>9
    <3> QED BY <1>2, <1>4, <2>6, <3>1, SumWith
  <2>9. tk2[s] = r.time
    BY <1>3, <1>7
  <2> QED BY <1>1, <1>3, <1>6, <1>9, <2>4, <2>5, <2>7, <2>8, <2>9
<1>16. SumOf(TimesAt(of2, obj2), PassedUpTo(fs, Len(fs)) \cup {Current(fs[Len(fs)])}) = SumOf(tk2, Item)
  BY <1>15 DEF t2, P
<1> QED BY <1>1, <1>7, <1>14, <1>16 DEF Returning, TimesTypes

\* What is passed over takes no time.
LEMMA GoingSkips ==
  ASSUME NEW fs, NEW of, NEW obj, NEW tk, TimesTypes(of, obj, tk), Going(fs, of, obj, tk),
         fs[Len(fs)].next <= Len(ItemsOf(fs[Len(fs)]))
  PROVE  Returning(fs, Len(fs), of, obj, tk)
<1> DEFINE n == Len(fs)
           t == TimesAt(of, obj)
           P == PassedUpTo(fs, n)
           x == Current(fs[n])
<1>1. /\ of \in [Item -> Item \cup {None}] /\ obj \in [Item -> Result]
      /\ Chain(fs, n) /\ Clean(fs, n, of, obj, tk)
      /\ x \in Untouched(fs, n, of, tk) /\ SumOf(t, P) = SumOf(tk, Item)
  BY DEF TimesTypes, Going
<1>2. /\ n \in 1..n /\ fs[n].next \in 1..Len(ItemsOf(fs[n])) /\ fs[n].next >= fs[n].next
      /\ P \in SUBSET Item /\ IsFiniteSet(P)
  BY <1>1, ChainTyped
<1>3. x \notin P
  BY <1>1, <1>2, NotPassed DEF Current
<1>4. x \in Item /\ t[x] = 0
  BY <1>1, TimesTyped DEF Untouched
<1>5. \A i \in P : t[i] \in Nat
  BY <1>1, <1>2, TimesTyped
<1>6. SumOf(t, P \cup {x}) = SumOf(tk, Item)
  <2> HIDE DEF t, P, x
  <2>1. SumOf(t, P \cup {x}) = t[x] + SumOf(t, P)
    BY <1>2, <1>3, <1>4, <1>5, SumWith
  <2>2. SumOf(t, P) \in Nat
    BY <1>2, <1>5, SumNat
  <2> QED BY <1>1, <1>4, <2>1, <2>2
<1> QED BY <1>1, <1>6 DEF Returning

\* A concept that has passed has the time of what has been passed in it.
LEMMA GoingLeaves ==
  ASSUME NEW fs, NEW of, NEW obj, NEW tk, TimesTypes(of, obj, tk), Going(fs, of, obj, tk),
         Len(fs) > 1, fs[Len(fs)].next > 1
  PROVE  Returning(fs, Len(fs) - 1, of, obj, tk)
<1> DEFINE n == Len(fs)
           m == n - 1
           t == TimesAt(of, obj)
           c == fs[n].concept
<1>1. /\ of \in [Item -> Item \cup {None}] /\ obj \in [Item -> Result]
      /\ Chain(fs, n) /\ Clean(fs, n, of, obj, tk)
      /\ SumOf(t, PassedUpTo(fs, n)) = SumOf(tk, Item)
  BY DEF TimesTypes, Going
<1>2. /\ n \in Nat \ {0} /\ n \in 1..n /\ n > 1 /\ \A k \in 1..m : k \in 1..n
      /\ PassedItems(fs[n]) \in SUBSET Item /\ IsFiniteSet(PassedItems(fs[n]))
  BY <1>1, ChainTyped
<1>3. /\ Chain(fs, m) /\ fs[m].next <= Len(ItemsOf(fs[m]))
      /\ c = Current(fs[m]) /\ c \in Item
      /\ PassedUpTo(fs, n) = PassedUpTo(fs, m) \cup PassedItems(fs[n])
      /\ StackUpTo(fs, n) = StackUpTo(fs, m) \cup {c}
  BY <1>1, <1>2, ChainShorter
<1>4. of[c] = c /\ t[c] = SumOf(t, PassedItems(fs[n])) /\ c # None
  BY <1>1, <1>2, <1>3, ItemAssumption DEF Clean
<1>5. Untouched(fs, m, of, tk) = Untouched(fs, n, of, tk)
  BY <1>3, <1>4 DEF Untouched
<1>6. Clean(fs, m, of, obj, tk)
  BY <1>1, <1>2, <1>5 DEF Clean
<1>7. PassedUpTo(fs, m) \cap PassedItems(fs[n]) = {}
  BY <1>1, <1>2, PassedApart
<1>8. c \notin PassedUpTo(fs, m)
  BY <1>1, <1>2, <1>3, ConceptNotPassed
<1>9. PassedUpTo(fs, m) \in SUBSET Item /\ IsFiniteSet(PassedUpTo(fs, m))
  BY <1>3, ChainTyped
<1>10. \A i \in Item : t[i] \in Nat
  BY <1>1, TimesTyped
<1>11. SumOf(t, PassedUpTo(fs, m) \cup {c}) = SumOf(tk, Item)
  <2> DEFINE P == PassedUpTo(fs, m)
             Q == PassedItems(fs[n])
  <2>1. IsFiniteSet(P) /\ IsFiniteSet(Q) /\ P \cap Q = {} /\ c \notin P
    BY <1>2, <1>7, <1>8, <1>9
  <2>2. (\A i \in P \cup Q : t[i] \in Nat) /\ (\A i \in P : t[i] \in Nat) /\ t[c] \in Nat
    BY <1>2, <1>3, <1>9, <1>10
  <2>3. SumOf(t, P \cup Q) = SumOf(tk, Item) /\ t[c] = SumOf(t, Q)
    BY <1>1, <1>3, <1>4
  <2> HIDE DEF P, Q, t, c
  <2>4. SumOf(t, P \cup Q) = SumOf(t, P) + SumOf(t, Q)
    BY <2>1, <2>2, SumUnion
  <2>5. SumOf(t, P \cup {c}) = t[c] + SumOf(t, P)
    BY <2>1, <2>2, SumWith
  <2>6. SumOf(t, P) \in Nat
    BY <2>1, <2>2, SumNat
  <2> QED BY <2>2, <2>3, <2>4, <2>5, <2>6 DEF P
<1> QED BY <1>3, <1>6, <1>11 DEF Returning
\* gs goes on through concept c, from its first item.
GoneInto(fs, gs, c) ==
  /\ gs \in Seq(Frame) /\ Len(gs) = Len(fs) + 1
  /\ \A k \in 1..Len(fs) : gs[k] = fs[k]
  /\ gs[Len(fs) + 1] = [concept |-> c, next |-> 1]

LEMMA GoingEnters ==
  ASSUME NEW fs, NEW of, NEW obj, NEW tk, TimesTypes(of, obj, tk), Going(fs, of, obj, tk),
         fs[Len(fs)].next <= Len(ItemsOf(fs[Len(fs)])),
         NEW c, c = Current(fs[Len(fs)]), NEW gs, GoneInto(fs, gs, c)
  PROVE  Going(gs, of, obj, tk)
<1> DEFINE n == Len(fs)
           m == n + 1
           ahead == Untouched(fs, n, of, tk)
           ahead2 == Untouched(gs, m, of, tk)
<1>1. /\ Chain(fs, n) /\ Clean(fs, n, of, obj, tk) /\ c \in ahead
      /\ SumOf(TimesAt(of, obj), PassedUpTo(fs, n)) = SumOf(tk, Item)
  BY DEF Going
<1>2. /\ n \in Nat \ {0} /\ n \in 1..n /\ 1 \in 1..n /\ fs[n].next \in 1..Len(ItemsOf(fs[n])) /\ fs[n] \in Frame
      /\ c = ItemsOf(fs[n])[fs[n].next]
  BY <1>1, ChainTyped DEF Current
<1>3. c \in Item /\ c \notin StackUpTo(fs, n) /\ c # None
  BY <1>1, ItemAssumption DEF Untouched
<1>4. /\ gs \in Seq(Frame) /\ Len(gs) = m /\ (\A k \in 1..n : gs[k] = fs[k])
      /\ gs[m].concept = c /\ gs[m].next = 1 /\ ItemsOf(gs[m]) = Steps[c]
  BY <1>3 DEF GoneInto, ItemsOf
<1>5. m \in Nat \ {0} /\ m \in 1..m /\ m > 1 /\ m - 1 = n /\ \A k \in 1..m : k \in 1..n \/ k = m
  BY <1>2
<1> HIDE DEF m
<1>6. Chain(gs, m)
  <2>1. ASSUME NEW k \in 1..m PROVE gs[k] \in Frame /\ gs[k].next \in 1..(Len(ItemsOf(gs[k])) + 1)
    <3>1. CASE k \in 1..n
      BY <1>1, <1>4, <3>1 DEF Chain
    <3>2. CASE k = m
      <4>1. gs[k] \in Frame
        <5> HIDE DEF Frame
        <5> QED BY <1>4, <1>5, ElementOfSeq
      <4>2. Len(ItemsOf(gs[k])) \in Nat
        BY <4>1, FrameItems
      <4> QED BY <1>4, <3>2, <4>1, <4>2
    <3> QED BY <1>5, <3>1, <3>2
  <2>2. ASSUME NEW k \in 1..m, k > 1
        PROVE  /\ gs[k - 1].next <= Len(ItemsOf(gs[k - 1]))
               /\ gs[k].concept \in Item /\ gs[k].concept = Current(gs[k - 1])
    <3>1. CASE k \in 1..n
      <4>1. k - 1 \in 1..n
        BY <1>2, <2>2, <3>1
      <4>2. gs[k - 1] = fs[k - 1] /\ gs[k] = fs[k]
        BY <1>4, <3>1, <4>1
      <4> QED BY <1>1, <2>2, <3>1, <4>2 DEF Chain
    <3>2. CASE k = m
      <4>1. gs[k - 1] = fs[n]
        BY <1>2, <1>4, <1>5, <3>2
      <4> QED BY <1>3, <1>4, <3>2, <4>1
    <3> QED BY <1>5, <3>1, <3>2
  <2>3. ASSUME NEW k \in 1..m, NEW l \in 1..m, gs[k].concept = gs[l].concept PROVE k = l
    <3>1. \A p \in 1..n : gs[p].concept = fs[p].concept /\ gs[p].concept # c
      BY <1>3, <1>4 DEF StackUpTo
    <3>2. \A p, q \in 1..n : gs[p].concept = gs[q].concept => p = q
      BY <1>1, <3>1 DEF Chain
    <3> QED BY <1>4, <1>5, <2>3, <3>1, <3>2
  <2>4. gs[1].concept = None
    BY <1>1, <1>2, <1>4 DEF Chain
  <2> QED BY <1>4, <1>5, <2>1, <2>2, <2>3, <2>4 DEF Chain
<1>7. /\ StackUpTo(gs, m) = StackUpTo(fs, n) \cup {c}
      /\ PassedUpTo(gs, m) = PassedUpTo(fs, n)
  <2>1. /\ StackUpTo(gs, m) = StackUpTo(gs, m - 1) \cup {gs[m].concept}
        /\ PassedUpTo(gs, m) = PassedUpTo(gs, m - 1) \cup PassedItems(gs[m])
    BY <1>5, <1>6, ChainShorter
  <2>2. StackUpTo(gs, n) = StackUpTo(fs, n) /\ PassedUpTo(gs, n) = PassedUpTo(fs, n)
    BY <1>4 DEF StackUpTo, PassedUpTo
  <2>3. PassedItems(gs[m]) = {}
    BY <1>4 DEF PassedItems
  <2> QED BY <1>4, <1>5, <2>1, <2>2, <2>3
<1>8. ahead2 = ahead \ {c}
  BY <1>3, <1>7 DEF Untouched
<1> HIDE DEF ahead, ahead2
<1>9. \A i \in ahead2 : \A k \in DOMAIN Steps[i] : Steps[i][k] \in ahead2
  <2> SUFFICES ASSUME NEW i \in ahead2, NEW k \in DOMAIN Steps[i] PROVE Steps[i][k] \in ahead2
    OBVIOUS
  <2>1. i \in ahead /\ i \in Item /\ i \notin StackUpTo(fs, n)
    BY <1>8 DEF ahead, Untouched
  <2>2. Steps[i][k] \in ahead
    BY <1>1, <2>1 DEF Clean, ahead
  <2>3. Steps[i][k] # c
    BY <1>1, <1>2, <2>1, InConcept
  <2> QED BY <1>8, <2>2, <2>3
<1>10. \A j \in 1..Len(Steps[c]) : Steps[c][j] \in ahead2
  <2> SUFFICES ASSUME NEW j \in 1..Len(Steps[c]) PROVE Steps[c][j] \in ahead2
    OBVIOUS
  <2>1. j \in DOMAIN Steps[c]
    BY <1>3, StepsTyped
  <2>2. Steps[c][j] \in ahead
    BY <1>1, <2>1 DEF Clean, ahead
  <2>3. Steps[c][j] # c
    <3> SUFFICES ASSUME ItemsOf(gs[m])[j] = gs[m].concept PROVE FALSE
      BY <1>4
    <3>1. j \in 1..Len(ItemsOf(gs[m]))
      BY <1>4
    <3>2. m = m + 1
      BY <1>5, <1>6, <3>1, AtConcept
    <3> QED BY <1>5, <3>2
  <2> QED BY <1>8, <2>2, <2>3
<1>11. \A k \in 1..m : \A j \in 1..Len(ItemsOf(gs[k])) : j > gs[k].next => ItemsOf(gs[k])[j] \in ahead2
  <2> SUFFICES ASSUME NEW k \in 1..m, NEW j \in 1..Len(ItemsOf(gs[k])), j > gs[k].next
               PROVE  ItemsOf(gs[k])[j] \in ahead2
    OBVIOUS
  <2>1. CASE k \in 1..n
    <3>1. gs[k] = fs[k]
      BY <1>4, <2>1
    <3>2. ItemsOf(fs[k])[j] \in ahead
      BY <1>1, <2>1, <3>1 DEF Clean, ahead
    <3>3. ItemsOf(fs[k])[j] # c
      <4>1. ItemsOf(gs[k])[j] \notin StackUpTo(gs, m)
        BY <1>6, NotOnStack
      <4> QED BY <1>7, <3>1, <4>1
    <3> QED BY <1>8, <3>1, <3>2, <3>3
  <2>2. CASE k = m
    BY <1>4, <1>10, <2>2
  <2> QED BY <1>5, <2>1, <2>2
<1>12. Clean(gs, m, of, obj, tk)
  <2>1. \A i \in Item : of[i] \in {None, i}
    BY <1>1 DEF Clean
  <2>2. \A k \in 1..m : k > 1 /\ gs[k].next > 1 =>
          /\ of[gs[k].concept] = gs[k].concept
          /\ TimesAt(of, obj)[gs[k].concept] = SumOf(TimesAt(of, obj), PassedItems(gs[k]))
    BY <1>1, <1>4, <1>5 DEF Clean
  <2> QED BY <1>9, <1>11, <2>1, <2>2 DEF Clean, ahead2
<1>13. gs[m].next <= Len(ItemsOf(gs[m])) => Current(gs[m]) \in Untouched(gs, m, of, tk)
  <2> SUFFICES ASSUME 1 <= Len(Steps[c]) PROVE Steps[c][1] \in Untouched(gs, m, of, tk)
    BY <1>4 DEF Current
  <2>1. 1 \in 1..Len(Steps[c])
    BY <1>3, StepsTyped
  <2> QED BY <1>10, <2>1 DEF ahead2
<1>14. Len(gs) = m
  BY <1>4
<1> QED BY <1>1, <1>6, <1>7, <1>12, <1>13, <1>14 DEF Going

\* Before anything has run.
LEMMA GoingStarts ==
  ASSUME NEW fs, NEW of, NEW obj, NEW tk, TimesTypes(of, obj, tk),
         fs \in Seq(Frame), Len(fs) = 1, fs[1].concept = None, fs[1].next = 1,
         \A i \in Item : of[i] = None /\ tk[i] = 0
  PROVE  Going(fs, of, obj, tk)
<1>1. fs[1] \in Frame
  <2>1. 1 \in 1..Len(fs)
    OBVIOUS
  <2> HIDE DEF Frame
  <2> QED BY <2>1, ElementOfSeq
<1>2. /\ ItemsOf(fs[1]) = Top /\ Len(Top) \in Nat /\ DOMAIN Top = 1..Len(Top)
      /\ \A j \in 1..Len(Top) : Top[j] \in Item
  BY TopTyped DEF ItemsOf, Top
<1>3. \A k \in 1..1 : k = 1
  OBVIOUS
<1>4. Chain(fs, 1)
  <2>1. fs[1].next \in 1..(Len(ItemsOf(fs[1])) + 1)
    BY <1>2
  <2> QED BY <1>1, <1>3, <2>1 DEF Chain
<1>5. Untouched(fs, 1, of, tk) = Item
  <2>1. StackUpTo(fs, 1) = {None}
    BY <1>3 DEF StackUpTo
  <2> QED BY <2>1, ItemAssumption DEF Untouched
<1>6. Clean(fs, 1, of, obj, tk)
  <2>1. \A i \in Item : \A k \in DOMAIN Steps[i] : Steps[i][k] \in Item
    BY StepsTyped
  <2>2. \A k \in 1..1 : \A j \in 1..Len(ItemsOf(fs[k])) : ItemsOf(fs[k])[j] \in Item
    BY <1>2, <1>3
  <2> QED BY <1>3, <1>5, <2>1, <2>2 DEF Clean
<1>7. fs[1].next <= Len(ItemsOf(fs[1])) => Current(fs[1]) \in Untouched(fs, 1, of, tk)
  BY <1>2, <1>5 DEF Current
<1>8. SumOf(TimesAt(of, obj), PassedUpTo(fs, 1)) = SumOf(tk, Item)
  <2>1. PassedUpTo(fs, 1) = {}
    BY <1>3 DEF PassedUpTo, PassedItems
  <2>2. SumOf(TimesAt(of, obj), {}) = 0
    BY SumEmpty
  <2>3. SumOf(tk, Item) = 0
    BY PlaceAssumption, SumZero
  <2> QED BY <2>1, <2>2, <2>3
<1>9. Len(fs) = 1
  OBVIOUS
<1> QED BY <1>4, <1>6, <1>7, <1>8, <1>9 DEF Going

LEMMA AccountedTime ==
  ASSUME NEW fs, NEW of, NEW obj, NEW tk, TimesTypes(of, obj, tk), Accounted(fs, of, obj, tk)
  PROVE  TimeOf(Top, of, obj) = SumOf(tk, Item)
<1>1. /\ of \in [Item -> Item \cup {None}] /\ obj \in [Item -> Result] /\ Chain(fs, 1)
      /\ \A j \in 1..Len(Top) : j >= fs[1].next => of[Top[j]] = None
      /\ SumOf(TimesAt(of, obj), PassedItems(fs[1])) = SumOf(tk, Item)
  BY DEF TimesTypes, Accounted
<1>2. /\ fs[1] \in Frame /\ fs[1].next \in Nat \ {0} /\ fs[1].next \in 1..(Len(ItemsOf(fs[1])) + 1)
      /\ Len(ItemsOf(fs[1])) \in Nat
  BY <1>1, ChainTyped DEF Chain
<1>3. ItemsOf(fs[1]) = Top
  BY <1>1 DEF Chain, ItemsOf, Top
<1> DEFINE n == fs[1].next - 1
<1>4. n \in 0..Len(ItemsOf(fs[1])) /\ n \in Nat /\ fs[1].next = n + 1
  BY <1>2
<1> HIDE DEF n
<1>5. \A j \in 1..Len(ItemsOf(fs[1])) : j > n => of[ItemsOf(fs[1])[j]] = None
  BY <1>1, <1>3, <1>4
<1>6. TimeOf(ItemsOf(fs[1]), of, obj) = SumOf(TimesAt(of, obj), FirstItems(fs[1], n))
  BY <1>1, <1>2, <1>4, <1>5, TimeOfRest
<1>7. FirstItems(fs[1], n) = PassedItems(fs[1])
  BY DEF FirstItems, PassedItems, n
<1> QED BY <1>1, <1>3, <1>6, <1>7

LEMMA GoingEnds ==
  ASSUME NEW fs, NEW of, NEW obj, NEW tk, Going(fs, of, obj, tk), Len(fs) = 1
  PROVE  Accounted(fs, of, obj, tk)
<1>1. /\ Chain(fs, 1) /\ Clean(fs, 1, of, obj, tk)
      /\ fs[1].next <= Len(ItemsOf(fs[1])) => Current(fs[1]) \in Untouched(fs, 1, of, tk)
      /\ SumOf(TimesAt(of, obj), PassedUpTo(fs, 1)) = SumOf(tk, Item)
  BY DEF Going
<1>2. ItemsOf(fs[1]) = Top /\ fs[1].next \in Nat /\ Len(Top) \in Nat /\ 1 \in 1..1
  <2>1. ItemsOf(fs[1]) = Top
    BY <1>1 DEF Chain, ItemsOf, Top
  <2> QED BY <1>1, <2>1, ChainTyped
<1>3. PassedUpTo(fs, 1) = PassedItems(fs[1])
  BY DEF PassedUpTo
<1>4. ASSUME NEW j \in 1..Len(Top), j >= fs[1].next PROVE of[Top[j]] = None
  <2>1. CASE j = fs[1].next
    BY <1>1, <1>2, <2>1 DEF Current, Untouched
  <2>2. CASE j # fs[1].next
    <3>1. j > fs[1].next
      BY <1>2, <1>4, <2>2
    <3> QED BY <1>1, <1>2, <3>1 DEF Clean, Untouched
  <2> QED BY <2>1, <2>2
<1> QED BY <1>1, <1>3, <1>4 DEF Accounted
LEMMA ItemTakenIn ==
  ASSUME NEW fs \in Seq(Frame), Len(fs) > 0, NEW failed, NEW of, NEW obj, ItemReturns(fs, failed, of, obj)
  PROVE  /\ TakesIn(fs[Len(fs)].concept, of, obj, objectOf', object') /\ failure' = failed
<1>1. Last(fs) = fs[Len(fs)]
  BY LastFrame
<1> QED BY <1>1 DEF ItemReturns, TakesIn

LEMMA TimeStep ==
  ASSUME ScenarioInv, TimeInv, Next
  PROVE  TimeInv'
<1> DEFINE n == Len(frames)
<1>0. /\ frames \in Seq(Frame) /\ n \in Nat \ {0} /\ Last(frames) = frames[n]
      /\ TimesTypes(objectOf, object, took) /\ failure \in BOOLEAN
  BY LenProperties, LastFrame DEF ScenarioInv, ScenarioType, TimesTypes
<1>1. ASSUME NEW reply \in Reply, ExecuteBeforeScenarioHook(reply) PROVE TimeInv'
  <2>1. /\ pc = "before" /\ scenario' = reply /\ took' = [took EXCEPT ![None] = reply.time]
        /\ pc' = IF reply.failed THEN "after" ELSE "items"
        /\ UNCHANGED <<frames, failure, objectOf, object>>
    BY <1>1 DEF ExecuteBeforeScenarioHook
  <2>2. ~failure /\ n = 1
    BY <2>1 DEF ScenarioInv, FailureInv, FramesInv
  <2>3. Going(frames, objectOf, object, took)
    BY <2>1, <2>2 DEF TimeInv
  <2>4. /\ took' \in [Item \cup {None} -> Nat] /\ took'[None] = reply.time
        /\ \A i \in Item : took'[i] = took[i] /\ took[i] \in Nat
    <3>1. reply.time \in Nat
      BY RepliesTyped DEF Result
    <3>2. took \in [Item \cup {None} -> Nat]
      BY <1>0 DEF TimesTypes
    <3> QED BY <2>1, <3>1, <3>2, ItemAssumption
  <2>5. SumOf(took', Item) = SumOf(took, Item)
    <3>1. \A i \in Item : took[i] \in Nat /\ took[i] = took'[i]
      BY <2>4
    <3> QED BY <3>1, PlaceAssumption, SumSame
  <2>6. Going(frames', objectOf', object', took')
    <3>1. \A m : Untouched(frames, m, objectOf, took') = Untouched(frames, m, objectOf, took)
      BY <2>4 DEF Untouched
    <3>2. Going(frames, objectOf, object, took')
      BY <2>3, <2>5, <3>1 DEF Going, Clean
    <3> QED BY <2>1, <3>2
  <2>7. TimeOf(Top, objectOf', object') = SumOf(took', Item)
    BY <1>0, <2>1, <2>2, <2>3, <2>5, GoingEnds, AccountedTime
  <2>8. ~failure' /\ pc' # "done" /\ scenario'.time = took'[None]
    BY <2>1, <2>2, <2>4
  <2>9. (TimeOf(Top, objectOf, object))' = TimeOf(Top, objectOf', object')
    OBVIOUS
  <2> QED BY <2>6, <2>7, <2>8, <2>9 DEF TimeInv
<1>2. ASSUME NEW reply \in Reply, ExecuteAfterScenarioHook(reply) PROVE TimeInv'
  <2>1. /\ pc = "after" /\ pc' = "done"
        /\ scenario'.time = scenario.time + reply.time + TimeOf(Contexts \o Items, objectOf, object)
        /\ took' = [took EXCEPT ![None] = @ + reply.time]
    BY <1>2 DEF ExecuteAfterScenarioHook
  <2>2. TimeOf(Top, objectOf, object) = SumOf(took, Item) /\ scenario.time = took[None]
    BY <2>1 DEF TimeInv
  <2>3. reply.time \in Nat /\ took \in [Item \cup {None} -> Nat] /\ took[None] \in Nat
    BY <1>0, RepliesTyped DEF Result, TimesTypes
  <2>4. /\ took' \in [Item \cup {None} -> Nat] /\ took'[None] = took[None] + reply.time
        /\ \A i \in Item : took'[i] = took[i] /\ took[i] \in Nat
    BY <2>1, <2>3, ItemAssumption
  <2>5. SumOf(took', Item) = SumOf(took, Item) /\ SumOf(took, Item) \in Nat
    <3>1. (\A i \in Item : took[i] \in Nat /\ took[i] = took'[i]) /\ IsFiniteSet(Item)
      BY <2>4, PlaceAssumption
    <3> QED BY <3>1, SumSame, SumNat
  <2>6. SumOf(took', Item \cup {None}) = took'[None] + SumOf(took', Item)
    <3>1. /\ \A i \in Item : took'[i] \in Nat
          /\ IsFiniteSet(Item) /\ None \notin Item /\ took'[None] \in Nat
      BY <2>4, PlaceAssumption, ItemAssumption
    <3> QED BY <3>1, SumWith
  <2>7. DOMAIN took' = Item \cup {None}
    BY <2>4
  <2>8. scenario'.time = SumOf(took', DOMAIN took')
    BY <2>1, <2>2, <2>3, <2>4, <2>5, <2>6, <2>7 DEF Top
  <2> QED BY <2>1, <2>8 DEF TimeInv
<1>3. ASSUME NEW before \in Reply, NEW after \in Reply, NEW body \in Reply \cup {Nothing},
             ExecuteStep(before, body, after)
      PROVE  TimeInv'
  <2> DEFINE s == Current(Last(frames))
             r == StepResult(before, body, after)
             of == [objectOf EXCEPT ![s] = s]
             obj == [object EXCEPT ![s] = r]
  <2>1. /\ At("step") /\ ItemReturns(frames, r.failed, of, obj)
        /\ took' = [took EXCEPT ![s] = before.time + body.time + after.time]
        /\ pc' = pc /\ scenario' = scenario
    BY <1>3 DEF ExecuteStep
  <2>2. /\ pc = "items" /\ ~failure /\ s \in Item /\ s = Current(frames[n])
        /\ frames[n].next <= Len(ItemsOf(frames[n]))
    BY <1>0, <2>1, AtItem
  <2>3. r \in Result /\ r.time = before.time + body.time + after.time /\ r.failed \in BOOLEAN
    <3>1. before \in Result /\ body \in Result /\ after \in Result
      BY RepliesTyped
    <3> QED BY <3>1 DEF Result, StepResult
  <2> HIDE DEF s, r
  <2>4. HasRun(s, r, objectOf, object, took, of, obj, took')
    BY <2>1, <2>3 DEF HasRun
  <2>5. Going(frames, objectOf, object, took)
    BY <2>2 DEF TimeInv
  <2> HIDE DEF of, obj, Result
  <2>6. TimesTypes(of, obj, took') /\ Returning(frames, n, of, obj, took')
    BY <1>0, <2>2, <2>3, <2>4, <2>5, GoingRuns
  <2>7. TakesIn(frames[n].concept, of, obj, objectOf', object') /\ failure' = r.failed
    BY <1>0, <2>1, ItemTakenIn
  <2>8. /\ frames' \in Seq(Frame) /\ Len(frames') = n /\ frames'[n] = Advance(frames[n])
        /\ \A k \in 1..(n - 1) : frames'[k] = frames[k]
    BY <1>3, ExecuteStepKeeps DEF ScenarioInv, ScenarioType
  <2>9. GoneOn(frames, frames', n)
    BY <2>8 DEF GoneOn
  <2>10. /\ of[s] = s /\ obj[s] = r /\ \A i \in Item : i # s => obj[i] = object[i]
    BY <1>0, <2>2 DEF TimesTypes, of, obj
  <2>11. \A i \in Item : ~object[i].failed
    BY <2>2 DEF ScenarioInv, FailureInv
  <2>12. scenario'.time = took'[None]
    <3>1. scenario.time = took[None] /\ took \in [Item \cup {None} -> Nat]
      BY <1>0, <2>2 DEF TimeInv, TimesTypes
    <3>2. took'[None] = took[None]
      BY <2>1, <2>2, <3>1, ItemAssumption
    <3> QED BY <2>1, <3>1, <3>2
  <2>13. CASE r.failed
    <3>1. OneFailed(s, obj)
      BY <2>2, <2>10, <2>11, <2>13 DEF OneFailed
    <3>2. Failing(frames, n, of, obj, took')
      BY <2>2, <2>6, <2>10, <3>1, ReturningFails
    <3>3. \/ Accounted(frames', objectOf', object', took')
          \/ n > 1 /\ Failing(frames', n - 1, objectOf', object', took')
      BY <2>6, <2>7, <2>9, <3>2, FailingGoesOn
    <3>4. pc' = "items" /\ failure'
      BY <2>1, <2>2, <2>7, <2>13
    <3> QED BY <2>8, <2>12, <3>3, <3>4 DEF TimeInv
  <2>14. CASE ~r.failed
    <3>1. NoneFailed(obj)
      BY <2>10, <2>11, <2>14 DEF NoneFailed
    <3>2. Going(frames', objectOf', object', took')
      BY <2>6, <2>7, <2>9, <3>1, ReturningGoesOn
    <3>3. pc' = "items" /\ ~failure'
      BY <2>1, <2>2, <2>7, <2>14
    <3> QED BY <2>12, <3>2, <3>3 DEF TimeInv
  <2> QED BY <2>13, <2>14
<1>4. CASE SkipItem
  <2>1. At("other") /\ ItemReturns(frames, FALSE, objectOf, object) /\ UNCHANGED <<pc, scenario, took>>
    BY <1>4 DEF SkipItem
  <2>2. /\ pc = "items" /\ ~failure /\ frames[n].next <= Len(ItemsOf(frames[n]))
    BY <1>0, <2>1, AtItem
  <2>3. Going(frames, objectOf, object, took)
    BY <2>2 DEF TimeInv
  <2>4. Returning(frames, n, objectOf, object, took)
    BY <1>0, <2>2, <2>3, GoingSkips
  <2>5. TakesIn(frames[n].concept, objectOf, object, objectOf', object') /\ failure' = FALSE
    <3> DEFINE failed == FALSE
    <3>1. ItemReturns(frames, failed, objectOf, object)
      BY <2>1
    <3> HIDE DEF failed
    <3>2. TakesIn(frames[n].concept, objectOf, object, objectOf', object')
      BY <1>0, <3>1, ItemTakenIn
    <3> QED BY <1>4, <3>2, SkipItemKeeps
  <2>6. /\ frames' \in Seq(Frame) /\ Len(frames') = n /\ frames'[n] = Advance(frames[n])
        /\ \A k \in 1..(n - 1) : frames'[k] = frames[k]
    BY <1>4, SkipItemKeeps DEF ScenarioInv, ScenarioType
  <2>7. GoneOn(frames, frames', n)
    BY <2>6 DEF GoneOn
  <2>8. NoneFailed(object)
    BY <2>2 DEF ScenarioInv, FailureInv, NoneFailed
  <2>9. Going(frames', objectOf', object', took)
    BY <1>0, <2>4, <2>5, <2>7, <2>8, ReturningGoesOn
  <2>10. scenario.time = took[None]
    BY <2>2 DEF TimeInv
  <2> QED BY <2>1, <2>2, <2>5, <2>9, <2>10 DEF TimeInv
<1>5. CASE EnterConcept
  <2> DEFINE c == Current(Last(frames))
  <2>1. /\ At("concept") /\ UNCHANGED <<pc, failure, objectOf, object, scenario, took>>
    BY <1>5 DEF EnterConcept
  <2>2. /\ pc = "items" /\ ~failure /\ frames[n].next <= Len(ItemsOf(frames[n])) /\ c = Current(frames[n])
    BY <1>0, <2>1, AtItem
  <2>3. Going(frames, objectOf, object, took)
    BY <2>2 DEF TimeInv
  <2>4. /\ frames' \in Seq(Frame) /\ Len(frames') = n + 1 /\ frames'[n + 1] = [concept |-> c, next |-> 1]
        /\ \A k \in 1..n : frames'[k] = frames[k]
    BY <1>5, EnterConceptKeeps DEF ScenarioInv, ScenarioType
  <2>5. GoneInto(frames, frames', c)
    BY <2>4 DEF GoneInto
  <2> HIDE DEF c
  <2>6. Going(frames', objectOf, object, took)
    BY <1>0, <2>2, <2>3, <2>5, GoingEnters
  <2>7. scenario.time = took[None]
    BY <2>2 DEF TimeInv
  <2> QED BY <2>1, <2>2, <2>6, <2>7 DEF TimeInv
<1>6. CASE LeaveConcept
  <2>1. /\ pc = "items" /\ n > 1 /\ (failure \/ Through(Last(frames)))
        /\ ItemReturns(Front(frames), failure \/ ResultOf(Last(frames).concept, objectOf, object).failed,
                       objectOf, object)
        /\ UNCHANGED <<pc, scenario, took>>
    BY <1>6 DEF LeaveConcept
  <2> DEFINE m == n - 1
  <2>2. m \in Nat \ {0} /\ m < n /\ n \in 1..n /\ m \in 1..m
    BY <1>0, <2>1
  <2>3. /\ frames' \in Seq(Frame) /\ Len(frames') = m /\ frames'[m] = Advance(frames[m])
        /\ (\A k \in 1..(m - 1) : frames'[k] = frames[k]) /\ failure' = failure
    <3>1. m - 1 = n - 2
      BY <2>2
    <3> QED BY <1>6, <3>1, LeaveConceptKeeps DEF ScenarioInv, ScenarioType
  <2>4. GoneOn(frames, frames', m)
    BY <2>3 DEF GoneOn
  <2>5. TakesIn(frames[m].concept, objectOf, object, objectOf', object')
    <3>1. Front(frames) \in Seq(Frame) /\ Len(Front(frames)) = m /\ Front(frames)[m] = frames[m]
      BY <1>0, <2>2, LastFrame
    <3> DEFINE fs == Front(frames)
    <3>2. fs \in Seq(Frame) /\ Len(fs) = m /\ fs[m] = frames[m] /\ Len(fs) > 0
      BY <2>2, <3>1
    <3>3. ItemReturns(fs, failure \/ ResultOf(Last(frames).concept, objectOf, object).failed, objectOf, object)
      BY <2>1
    <3> HIDE DEF fs, m
    <3>4. TakesIn(fs[Len(fs)].concept, objectOf, object, objectOf', object')
      BY <3>2, <3>3, ItemTakenIn
    <3> QED BY <3>2, <3>4
  <2>6. scenario'.time = took'[None] /\ pc' = "items" /\ took' = took
    BY <2>1 DEF TimeInv
  <2> HIDE DEF m
  <2>7. CASE failure
    <3>1. Failing(frames, m, objectOf, object, took)
      <4>1. ~Accounted(frames, objectOf, object, took)
        BY <1>0, <2>1 DEF Accounted
      <4> QED BY <2>1, <2>7, <4>1 DEF TimeInv, m
    <3>2. \/ Accounted(frames', objectOf', object', took)
          \/ m > 1 /\ Failing(frames', m - 1, objectOf', object', took)
      BY <1>0, <2>4, <2>5, <3>1, FailingGoesOn
    <3> QED BY <2>3, <2>6, <2>7, <3>2 DEF TimeInv
  <2>8. CASE ~failure
    <3>1. Going(frames, objectOf, object, took)
      BY <2>1, <2>8 DEF TimeInv
    <3>2. frames[n].next > 1
      <4>1. frames[n].next > Len(ItemsOf(frames[n]))
        BY <1>0, <2>1, <2>8 DEF Through
      <4>2. Kind[frames[n].concept] = "concept" /\ frames[n] \in Frame
        BY <2>1, <2>2, <3>1, ChainTyped DEF ScenarioInv, FramesInv, Going
      <4>3. frames[n].concept \in Item
        BY <2>1, <2>2, <3>1 DEF Going, Chain
      <4>4. ItemsOf(frames[n]) = Steps[frames[n].concept]
        BY <4>3, ItemAssumption DEF ItemsOf
      <4>5. Steps[frames[n].concept] # <<>>
        BY <4>2, <4>3, ItemAssumption
      <4>6. Steps[frames[n].concept] \in Seq(Item) /\ Len(Steps[frames[n].concept]) \in Nat
        BY <4>3, StepsTyped
      <4>7. Len(Steps[frames[n].concept]) # 0
        <5> DEFINE l == Steps[frames[n].concept]
        <5>1. l \in Seq(Item) /\ l # <<>>
          BY <4>5, <4>6
        <5> HIDE DEF l
        <5>2. Len(l) # 0
          BY <5>1, EmptySeq
        <5> QED BY <5>2 DEF l
      <4>8. frames[n].next \in Nat
        BY <4>2 DEF Frame
      <4> QED BY <4>1, <4>4, <4>6, <4>7, <4>8
    <3>3. Returning(frames, m, objectOf, object, took)
      BY <1>0, <2>1, <3>1, <3>2, GoingLeaves DEF m
    <3>4. NoneFailed(object)
      BY <2>8 DEF ScenarioInv, FailureInv, NoneFailed
    <3>5. Going(frames', objectOf', object', took)
      BY <1>0, <2>4, <2>5, <3>3, <3>4, ReturningGoesOn
    <3> QED BY <2>3, <2>6, <2>8, <3>5 DEF TimeInv
  <2> QED BY <2>7, <2>8
<1>7. CASE LeaveItems
  <2>1. /\ pc = "items" /\ pc' = "after" /\ n = 1
        /\ UNCHANGED <<frames, failure, objectOf, object, took>>
        /\ scenario' = [scenario EXCEPT !.failed = failure]
    BY <1>7 DEF LeaveItems
  <2>2. Accounted(frames, objectOf, object, took)
    <3>1. CASE failure
      BY <2>1, <3>1 DEF TimeInv
    <3>2. CASE ~failure
      BY <2>1, <3>2, GoingEnds DEF TimeInv
    <3> QED BY <3>1, <3>2
  <2>3. TimeOf(Top, objectOf, object) = SumOf(took, Item)
    BY <1>0, <2>2, AccountedTime
  <2>4. scenario'.time = took'[None]
    <3>1. scenario.time = took[None] /\ scenario \in Result
      BY <2>1 DEF TimeInv, ScenarioInv, ScenarioType
    <3>2. scenario'.time = scenario.time
      BY <2>1, <3>1 DEF Result
    <3> QED BY <2>1, <3>1, <3>2
  <2>5. TimeOf(Top, objectOf', object') = SumOf(took', Item)
    BY <2>1, <2>3
  <2>6. (TimeOf(Top, objectOf, object))' = TimeOf(Top, objectOf', object')
    OBVIOUS
  <2> QED BY <2>1, <2>4, <2>5, <2>6 DEF TimeInv
<1> QED BY <1>1, <1>2, <1>3, <1>4, <1>5, <1>6, <1>7 DEF Next

LEMMA TimeStarts ==
  ASSUME Init
  PROVE  TimeInv
<1>1. /\ pc = "before" /\ frames = <<[concept |-> None, next |-> 1]>> /\ failure = FALSE
      /\ objectOf = [i \in Item |-> None] /\ scenario = Nothing /\ took = [i \in Item \cup {None} |-> 0]
  BY DEF Init
<1>2. TimesTypes(objectOf, object, took) /\ frames \in Seq(Frame)
  BY ScenarioStart DEF ScenarioInv, ScenarioType, TimesTypes
<1>3. Len(frames) = 1 /\ frames[1].concept = None /\ frames[1].next = 1
  BY <1>1
<1>4. \A i \in Item : objectOf[i] = None /\ took[i] = 0
  BY <1>1
<1>5. Going(frames, objectOf, object, took)
  BY <1>2, <1>3, <1>4, GoingStarts
<1>6. scenario.time = 0 /\ took[None] = 0
  BY <1>1 DEF Nothing
<1> QED BY <1>1, <1>5, <1>6 DEF TimeInv

LEMMA TimeStutter ==
  ASSUME TimeInv, UNCHANGED vars
  PROVE  TimeInv'
BY DEF TimeInv, vars

\* Whatever the concepts and wherever the first failure is, the time of a scenario is the
\* sum of what the runner reported: sharing the result object of the item that failed, as
\* setExecutionResultForConcept does on every level, neither loses a time nor counts it twice.
THEOREM TimeIsReported == Spec => []ScenarioTimeIsSum
<1>1. Init => TimeInv
  BY TimeStarts
<1>2. ScenarioInv /\ TimeInv /\ [Next]_vars => TimeInv'
  BY TimeStep, TimeStutter
<1>3. TimeInv => ScenarioTimeIsSum
  BY DEF TimeInv, ScenarioTimeIsSum, SumOf, Summing, MapThenSumSet, MapThenFoldSet, Pick
<1> QED BY <1>1, <1>2, <1>3, RanAlways, PTL DEF Spec

-----------------------------------------------------------------------------
(* Arguments: projects and what their steps mean.                          *)

UsedStep == [value : STRING, args : Seq(Arg)]
SentStep == [step : STRING, parameters : Seq(Value)]

\* The arguments of a step are known where there are these names.
KnownArgs(names, step) ==
  /\ step \in UsedStep
  /\ \A k \in 1..Len(step.args) : step.args[k] \in Arg /\ WrittenArg(step.args[k], names)
  /\ IsConcept(step) => Len(step.args) = Len(Concepts[step.value].params)

Known(names, steps) == steps \in Seq(UsedStep) /\ \A i \in 1..Len(steps) : KnownArgs(names, steps[i])

LEMMA KnownFrom ==
  ASSUME NEW names, NEW steps \in Seq(UsedStep),
         \A i \in DOMAIN steps :
           /\ \A k \in DOMAIN steps[i].args : WrittenArg(steps[i].args[k], names)
           /\ IsConcept(steps[i]) => Len(steps[i].args) = Len(Concepts[steps[i].value].params)
  PROVE  Known(names, steps)
<1>1. DOMAIN steps = 1..Len(steps)
  BY LenProperties
<1>2. SUFFICES ASSUME NEW i \in 1..Len(steps) PROVE KnownArgs(names, steps[i])
  BY DEF Known
<1> DEFINE step == steps[i]
<1>3. step \in UsedStep
  BY ElementOfSeq
<1>4. step.args \in Seq(Arg)
  BY <1>3 DEF UsedStep
<1> HIDE DEF step
<1>5. DOMAIN step.args = 1..Len(step.args) /\ \A k \in 1..Len(step.args) : step.args[k] \in Arg
  BY <1>4, ElementOfSeq, LenProperties
<1>6. KnownArgs(names, step)
  BY <1>1, <1>3, <1>5 DEF KnownArgs, step
<1> QED BY <1>6 DEF step

LEMMA ProjectSteps ==
  ASSUME project \in Projects
  PROVE  /\ Known(DOMAIN project.dataTable, project.steps)
         /\ \A c \in DOMAIN Concepts : Concepts[c].params \in Seq(STRING) /\ Known(ParamsOf(c), Concepts[c].steps)
<1> DEFINE UsesKnown(names, steps) ==
             /\ steps \in Seq([value : STRING, args : Seq(Arg)])
             /\ \A i \in DOMAIN steps :
                  /\ \A k \in DOMAIN steps[i].args : WrittenArg(steps[i].args[k], names)
                  /\ steps[i].value \in DOMAIN project.concepts =>
                       Len(steps[i].args) = Len(project.concepts[steps[i].value].params)
<1>1. /\ UsesKnown(DOMAIN project.dataTable, project.steps)
      /\ \A c \in DOMAIN project.concepts :
           /\ project.concepts[c].params \in Seq(STRING)
           /\ UsesKnown(ToSet(project.concepts[c].params), project.concepts[c].steps)
  BY ProjectsAssumption
<1>2. ASSUME NEW names, NEW steps, UsesKnown(names, steps) PROVE Known(names, steps)
  BY <1>2, KnownFrom DEF UsedStep, IsConcept, Concepts
<1> HIDE DEF UsesKnown
<1> QED BY <1>1, <1>2 DEF Concepts, ParamsOf

LEMMA ProjectNests ==
  ASSUME project \in Projects, NEW S \in SUBSET DOMAIN Concepts, S # {}
  PROVE  \E c \in S : \A i \in 1..Len(Concepts[c].steps) : Concepts[c].steps[i].value \notin S
<1>1. PICK c \in S : \A i \in DOMAIN Concepts[c].steps : Concepts[c].steps[i].value \notin S
  BY ProjectsAssumption DEF Concepts
<1>2. DOMAIN Concepts[c].steps = 1..Len(Concepts[c].steps)
  <2>1. Concepts[c].steps \in Seq(UsedStep)
    BY ProjectSteps DEF Known
  <2> QED BY <2>1, LenProperties
<1> QED BY <1>1, <1>2

\* There is a row r of the data table, or none is needed.
InRows(r) ==
  /\ r \in Nat
  /\ \A c \in DOMAIN project.dataTable : project.dataTable[c] \in Seq(STRING) /\ r \in 1..Len(project.dataTable[c])

RowIsThere(r) == r \in Nat /\ r > 0 /\ r <= Max({1} \cup {Len(project.dataTable[c]) : c \in DOMAIN project.dataTable})

LEMMA RowsThere ==
  ASSUME project \in Projects, NEW r, RowIsThere(r)
  PROVE  InRows(r)
<1>1. \A c, d \in DOMAIN project.dataTable :
        /\ project.dataTable[c] \in Seq(STRING) /\ project.dataTable[c] # <<>>
        /\ Len(project.dataTable[c]) = Len(project.dataTable[d])
  BY ProjectsAssumption
<1> DEFINE S == {1} \cup {Len(project.dataTable[c]) : c \in DOMAIN project.dataTable}
<1>2. SUFFICES ASSUME NEW c \in DOMAIN project.dataTable PROVE r \in 1..Len(project.dataTable[c])
  BY <1>1 DEF InRows, RowIsThere
<1> DEFINE n == Len(project.dataTable[c])
<1>3. n \in Nat /\ n > 0
  BY <1>1, EmptySeq
<1>4. S = {1, n}
  BY <1>1, <1>2
<1> HIDE DEF n, S
<1>5. \E x \in S : \A y \in S : x >= y
  BY <1>3, <1>4
<1>6. Max(S) \in S
  BY <1>5 DEF Max
<1>7. r \in 1..n
  BY <1>3, <1>4, <1>6 DEF RowIsThere, S
<1> QED BY <1>7 DEF n

\* Where the argument of a parameter is.
ArgAt(c, p) == Max({i \in DOMAIN Concepts[c].params : Concepts[c].params[i] = p})

LEMMA LargestOf ==
  ASSUME NEW n \in Nat, NEW S \in SUBSET (1..n), S # {}
  PROVE  Max(S) \in S
<1> DEFINE T == {b \in Nat : \A x \in S : x <= b}
<1>1. T \in SUBSET Nat /\ n \in T
  OBVIOUS
<1>2. PICK b \in T : \A y \in T : b <= y
  <2> HIDE DEF T
  <2> QED BY <1>1, Smallest
<1>3. b \in S
  <2> SUFFICES ASSUME b \notin S PROVE FALSE
    OBVIOUS
  <2>1. \A x \in S : x \in Nat /\ x <= b /\ x # b /\ x > 0
    BY <1>2
  <2>2. PICK z \in S : TRUE
    OBVIOUS
  <2>3. z \in Nat /\ b \in Nat /\ z <= b /\ z # b
    BY <1>2, <2>1, <2>2
  <2>4. b - 1 \in Nat
    BY <2>3
  <2>5. \A x \in S : x <= b - 1
    BY <2>1, <2>3
  <2>6. b - 1 \in T /\ ~(b <= b - 1)
    BY <2>3, <2>4, <2>5
  <2> HIDE DEF T
  <2> QED BY <1>2, <2>6
<1>4. \A y \in S : b >= y
  BY <1>2
<1>5. \E x \in S : \A y \in S : x >= y
  BY <1>3, <1>4
<1> QED BY <1>5 DEF Max

LEMMA ParamAt ==
  ASSUME project \in Projects, NEW c \in DOMAIN Concepts, NEW p \in ParamsOf(c)
  PROVE  Len(Concepts[c].params) \in Nat /\ ArgAt(c, p) \in 1..Len(Concepts[c].params)
<1>1. Concepts[c].params \in Seq(STRING)
  BY ProjectSteps
<1>2. Len(Concepts[c].params) \in Nat /\ DOMAIN Concepts[c].params = 1..Len(Concepts[c].params)
  BY <1>1, LenProperties
<1> DEFINE S == {i \in DOMAIN Concepts[c].params : Concepts[c].params[i] = p}
<1>3. S \in SUBSET (1..Len(Concepts[c].params)) /\ S # {}
  BY <1>2 DEF ParamsOf, ToSet
<1> HIDE DEF S
<1>4. Max(S) \in S
  BY <1>2, <1>3, LargestOf
<1> QED BY <1>2, <1>3, <1>4 DEF ArgAt, S

LEMMA LookupIs ==
  ASSUME NEW c, NEW args
  PROVE  /\ DOMAIN Lookup(c, args) = ParamsOf(c)
         /\ Lookup(c, args) = [p \in ParamsOf(c) |-> args[ArgAt(c, p)]]
         /\ \A p \in ParamsOf(c) : Lookup(c, args)[p] = args[ArgAt(c, p)]
BY DEF Lookup, ArgAt

\* What an argument is where the parameters are these.
MeantBy(arg, env) ==
  CASE arg.type = "static" -> <<"value", arg.value>>
    [] arg.type = "dynamic" -> env[arg.value]
    [] arg.type = "table" ->
         <<"table", IF arg.table[1].type = "dynamic" THEN env[arg.table[1].value][2]
                    ELSE arg.table[1].value>>

LEMMA ArgParts ==
  ASSUME NEW arg \in Arg, NEW names, WrittenArg(arg, names)
  PROVE  /\ arg.type \in ArgTypes /\ arg.value \in STRING
         /\ arg.type = "dynamic" => arg.value \in names
         /\ arg.type = "table" => arg.table # <<>>
         /\ arg.type # "table" => arg.table = <<>>
         /\ Len(arg.table) \in Nat /\ DOMAIN arg.table = 1..Len(arg.table)
         /\ \A i \in 1..Len(arg.table) :
              /\ arg.table[i].value \in STRING
              /\ arg.table[i].type # "dynamic" => arg.table[i].type = "static"
              /\ arg.table[i].type = "dynamic" => arg.table[i].value \in names
         /\ arg.table # <<>> => 1 \in 1..Len(arg.table)
<1>1. arg.type \in ArgTypes /\ arg.value \in STRING /\ arg.table \in Seq(Cell)
  BY DEF Arg
<1>2. Len(arg.table) \in Nat /\ DOMAIN arg.table = 1..Len(arg.table)
  BY <1>1, LenProperties
<1>3. \A i \in 1..Len(arg.table) : arg.table[i] \in Cell
  BY <1>1, ElementOfSeq
<1>4. \A i \in 1..Len(arg.table) : arg.table[i].value \in STRING
  BY <1>3 DEF Cell
<1>5. arg.table # <<>> => Len(arg.table) # 0
  BY <1>1, EmptySeq
<1>6. arg.table # <<>> => 1 \in 1..Len(arg.table)
  BY <1>2, <1>5
<1>7. /\ arg.type = "dynamic" => arg.value \in names
      /\ arg.type = "table" => arg.table # <<>>
      /\ arg.type # "table" => arg.table = <<>>
      /\ \A i \in 1..Len(arg.table) :
           /\ arg.table[i].type # "dynamic" => arg.table[i].type = "static"
           /\ arg.table[i].type = "dynamic" => arg.table[i].value \in names
  BY <1>2 DEF WrittenArg
<1> QED BY <1>1, <1>2, <1>4, <1>6, <1>7

LEMMA MeantTyped ==
  ASSUME NEW names, NEW env \in [names -> Value], NEW arg \in Arg, WrittenArg(arg, names)
  PROVE  MeantBy(arg, env) \in Value
<1>1. \A n \in names : env[n] \in Value /\ env[n][2] \in STRING
  BY DEF Value
<1>2. \A v \in STRING : <<"value", v>> \in Value /\ <<"table", v>> \in Value
  BY DEF Value
<1>3. CASE arg.type = "static"
  BY <1>2, <1>3, ArgParts DEF MeantBy
<1>4. CASE arg.type = "dynamic"
  BY <1>1, <1>4, ArgParts DEF MeantBy
<1>5. CASE arg.type = "table"
  <2>1. 1 \in 1..Len(arg.table)
    BY <1>5, ArgParts
  <2>2. arg.table[1].value \in STRING /\ (arg.table[1].type = "dynamic" => arg.table[1].value \in names)
    BY <2>1, ArgParts
  <2>3. MeantBy(arg, env) =
          <<"table", IF arg.table[1].type = "dynamic" THEN env[arg.table[1].value][2] ELSE arg.table[1].value>>
    BY <1>5 DEF MeantBy
  <2>4. CASE arg.table[1].type = "dynamic"
    BY <1>1, <1>2, <2>2, <2>3, <2>4
  <2>5. CASE arg.table[1].type # "dynamic"
    BY <1>2, <2>2, <2>3, <2>5
  <2> QED BY <2>4, <2>5
<1> QED BY <1>3, <1>4, <1>5, ArgParts DEF ArgTypes

LEMMA ArgsMeant ==
  ASSUME NEW env, env \in [DOMAIN env -> Value], NEW step, KnownArgs(DOMAIN env, step)
  PROVE  /\ Meant(step.args, env) \in Seq(Value)
         /\ Len(Meant(step.args, env)) = Len(step.args) /\ Len(step.args) \in Nat
         /\ DOMAIN step.args = 1..Len(step.args)
         /\ \A k \in 1..Len(step.args) : Meant(step.args, env)[k] = MeantBy(step.args[k], env)
         /\ IsConcept(step) => <<step.value, Meant(step.args, env)>> \in Uses
<1> DEFINE n == Len(step.args)
           m == Meant(step.args, env)
<1>1. step.args \in Seq(Arg) /\ step.value \in STRING
  BY DEF KnownArgs, UsedStep
<1>2. n \in Nat /\ DOMAIN step.args = 1..n
  BY <1>1, LenProperties
<1>3. m = [k \in 1..n |-> MeantBy(step.args[k], env)]
  BY <1>2 DEF Meant, MeantBy
<1>4. \A k \in 1..n : MeantBy(step.args[k], env) \in Value
  BY MeantTyped DEF KnownArgs
<1> HIDE DEF n, m
<1>5. m \in [1..n -> Value]
  BY <1>3, <1>4
<1>6. m \in Seq(Value) /\ Len(m) = n
  <2>1. m \in Seq(Value)
    BY <1>2, <1>5, SeqDef
  <2>2. DOMAIN m = 1..Len(m) /\ DOMAIN m = 1..n /\ Len(m) \in Nat
    BY <1>5, <2>1, LenProperties
  <2> QED BY <1>2, <2>1, <2>2
<1>7. \A k \in 1..n : m[k] = MeantBy(step.args[k], env)
  BY <1>3
<1>8. IsConcept(step) => <<step.value, m>> \in Uses
  <2>1. IsConcept(step) => n = Len(Concepts[step.value].params)
    BY DEF KnownArgs, n
  <2> QED BY <1>6, <2>1 DEF Uses, IsConcept
<1> QED BY <1>2, <1>6, <1>7, <1>8 DEF n, m

\* A use has a value for every parameter of its concept.
LEMMA UseParts ==
  ASSUME project \in Projects, NEW use \in Uses
  PROVE  /\ use[1] \in DOMAIN Concepts /\ use[2] \in Seq(Value)
         /\ Lookup(use[1], use[2]) \in [ParamsOf(use[1]) -> Value]
<1>1. use[1] \in DOMAIN Concepts /\ use[2] \in Seq(Value) /\ Len(use[2]) = Len(Concepts[use[1]].params)
  BY DEF Uses
<1>2. \A p \in ParamsOf(use[1]) : use[2][ArgAt(use[1], p)] \in Value
  BY <1>1, ParamAt, ElementOfSeq
<1>3. Lookup(use[1], use[2]) = [p \in ParamsOf(use[1]) |-> use[2][ArgAt(use[1], p)]]
  BY LookupIs
<1> QED BY <1>1, <1>2, <1>3

Each(steps, env, of) == [i \in DOMAIN steps |-> WrittenOut(steps[i], env, of)]

LEMMA EachTyped ==
  ASSUME NEW env, env \in [DOMAIN env -> Value], NEW steps, Known(DOMAIN env, steps),
         NEW of \in [Uses -> Seq(SentStep)]
  PROVE  /\ Len(steps) \in Nat /\ DOMAIN steps = 1..Len(steps)
         /\ Each(steps, env, of) \in Seq(Seq(SentStep)) /\ Len(Each(steps, env, of)) = Len(steps)
         /\ \A i \in 1..Len(steps) :
              /\ WrittenOut(steps[i], env, of) \in Seq(SentStep)
              /\ Each(steps, env, of)[i] = WrittenOut(steps[i], env, of)
<1> DEFINE n == Len(steps)
           m == Each(steps, env, of)
<1>1. n \in Nat /\ DOMAIN steps = 1..n
  BY LenProperties DEF Known
<1>2. ASSUME NEW i \in 1..n PROVE WrittenOut(steps[i], env, of) \in Seq(SentStep)
  <2> DEFINE step == steps[i]
             args == Meant(step.args, env)
  <2>1. KnownArgs(DOMAIN env, step)
    BY DEF Known
  <2>2. step.value \in STRING
    BY <2>1 DEF KnownArgs, UsedStep
  <2>3. WrittenOut(step, env, of) =
          IF IsConcept(step) THEN of[<<step.value, args>>] ELSE <<[step |-> step.value, parameters |-> args]>>
    BY DEF WrittenOut
  <2> HIDE DEF step
  <2>4. args \in Seq(Value) /\ (IsConcept(step) => <<step.value, args>> \in Uses)
    BY <2>1, ArgsMeant
  <2> HIDE DEF args
  <2>5. CASE IsConcept(step)
    BY <2>3, <2>4, <2>5 DEF step
  <2>6. CASE ~IsConcept(step)
    <3>1. [step |-> step.value, parameters |-> args] \in SentStep
      BY <2>2, <2>4 DEF SentStep
    <3>2. <<[step |-> step.value, parameters |-> args]>> \in Seq(SentStep)
      BY <3>1
    <3> QED BY <2>3, <2>6, <3>2 DEF step
  <2> QED BY <2>5, <2>6
<1>3. m = [i \in 1..n |-> WrittenOut(steps[i], env, of)]
  BY <1>1 DEF Each
<1> HIDE DEF n, m
<1>4. m \in [1..n -> Seq(SentStep)]
  BY <1>2, <1>3
<1>5. m \in Seq(Seq(SentStep)) /\ Len(m) = n
  <2>1. m \in Seq(Seq(SentStep))
    BY <1>1, <1>4, SeqDef
  <2>2. DOMAIN m = 1..Len(m) /\ DOMAIN m = 1..n /\ Len(m) \in Nat
    BY <1>4, <2>1, LenProperties
  <2> QED BY <1>1, <2>1, <2>2
<1> QED BY <1>1, <1>2, <1>3, <1>5 DEF n, m

LEMMA AllWrittenTyped ==
  ASSUME NEW env, env \in [DOMAIN env -> Value], NEW steps, Known(DOMAIN env, steps),
         NEW of \in [Uses -> Seq(SentStep)]
  PROVE  /\ AllWrittenOut(steps, env, of) = FlattenSeq(Each(steps, env, of))
         /\ AllWrittenOut(steps, env, of) \in Seq(SentStep)
<1>1. AllWrittenOut(steps, env, of) = FlattenSeq(Each(steps, env, of))
  BY DEF AllWrittenOut, Each
<1> DEFINE ss == Each(steps, env, of)
<1>2. ss \in Seq(Seq(SentStep))
  BY EachTyped
<1> HIDE DEF ss
<1>3. PICK p : IsParts(p, ss, SentStep)
  BY <1>2, PartsExist
<1>4. FlattenSeq(ss) \in Seq(SentStep)
  <2>1. Len(ss) \in Nat
    BY <1>2, LenProperties
  <2>2. Len(ss) \in 0..Len(ss)
    BY <2>1
  <2> QED BY <1>3, <2>2 DEF IsParts
<1> QED BY <1>1, <1>4 DEF ss

\* What a use comes to, of having what others come to.
ExpansionBy(use, of) == AllWrittenOut(Concepts[use[1]].steps, Lookup(use[1], use[2]), of)

LEMMA UsedSteps ==
  ASSUME project \in Projects, NEW use \in Uses
  PROVE  /\ Lookup(use[1], use[2]) \in [DOMAIN Lookup(use[1], use[2]) -> Value]
         /\ DOMAIN Lookup(use[1], use[2]) = ParamsOf(use[1])
         /\ Known(DOMAIN Lookup(use[1], use[2]), Concepts[use[1]].steps)
<1>1. Lookup(use[1], use[2]) \in [ParamsOf(use[1]) -> Value] /\ use[1] \in DOMAIN Concepts
  BY UseParts
<1>2. DOMAIN Lookup(use[1], use[2]) = ParamsOf(use[1])
  BY <1>1
<1>3. Known(ParamsOf(use[1]), Concepts[use[1]].steps)
  BY <1>1, ProjectSteps
<1> QED BY <1>1, <1>2, <1>3

LEMMA ExpansionTyped ==
  ASSUME project \in Projects, NEW use \in Uses, NEW of \in [Uses -> Seq(SentStep)]
  PROVE  ExpansionBy(use, of) \in Seq(SentStep)
BY UsedSteps, AllWrittenTyped DEF ExpansionBy

LEMMA ExpansionSame ==
  ASSUME project \in Projects, NEW use \in Uses, NEW f, NEW g,
         \A u \in Uses : (\E i \in 1..Len(Concepts[use[1]].steps) : Concepts[use[1]].steps[i].value = u[1])
                           => f[u] = g[u]
  PROVE  ExpansionBy(use, f) = ExpansionBy(use, g)
<1> DEFINE env == Lookup(use[1], use[2])
           steps == Concepts[use[1]].steps
<1>1. env \in [DOMAIN env -> Value] /\ Known(DOMAIN env, steps)
  BY UsedSteps
<1>2. \A u \in Uses : (\E i \in 1..Len(steps) : steps[i].value = u[1]) => f[u] = g[u]
  OBVIOUS
<1> HIDE DEF env, steps
<1>3. DOMAIN steps = 1..Len(steps)
  BY <1>1, EachTyped
<1>4. ASSUME NEW i \in DOMAIN steps PROVE WrittenOut(steps[i], env, f) = WrittenOut(steps[i], env, g)
  <2> DEFINE step == steps[i]
             args == Meant(step.args, env)
  <2>1. KnownArgs(DOMAIN env, step)
    BY <1>1, <1>3 DEF Known
  <2>2. step.value = steps[i].value
    OBVIOUS
  <2> HIDE DEF step
  <2>3. IsConcept(step) => <<step.value, args>> \in Uses
    BY <1>1, <2>1, ArgsMeant
  <2>4. IsConcept(step) => f[<<step.value, args>>] = g[<<step.value, args>>]
    BY <1>2, <1>3, <2>2, <2>3
  <2>5. WrittenOut(step, env, f) = WrittenOut(step, env, g)
    BY <2>4 DEF WrittenOut
  <2> QED BY <2>5 DEF step
<1>5. Each(steps, env, f) = Each(steps, env, g)
  BY <1>4 DEF Each
<1>6. AllWrittenOut(steps, env, f) = AllWrittenOut(steps, env, g)
  BY <1>5 DEF AllWrittenOut, Each
<1> QED BY <1>6 DEF ExpansionBy, env, steps

LEMMA ExpansionsAre ==
  ASSUME project \in Projects
  PROVE  /\ Expansions \in [Uses -> Seq(SentStep)]
         /\ \A use \in Uses : Expansions[use] = ExpansionBy(use, Expansions)
<1> DEFINE V == Seq(SentStep)
           R == {p \in Uses \X Uses :
                   \E i \in 1..Len(Concepts[p[2][1]].steps) : Concepts[p[2][1]].steps[i].value = p[1][1]}
           E == [p \in Uses \X [Uses -> V] |-> ExpansionBy(p[1], p[2])]
<1>1. \A u, x \in Uses :
        <<u, x>> \in R <=> \E i \in 1..Len(Concepts[x[1]].steps) : Concepts[x[1]].steps[i].value = u[1]
  OBVIOUS
<1>2. E \in [Uses \X [Uses -> V] -> V]
  <2>1. ASSUME NEW p \in Uses \X [Uses -> V] PROVE ExpansionBy(p[1], p[2]) \in V
    <3>1. p[1] \in Uses /\ p[2] \in [Uses -> V]
      OBVIOUS
    <3> QED BY <3>1, ExpansionTyped
  <2> QED BY <2>1
<1>3. \A x \in Uses : \A f \in [Uses -> V] : E[<<x, f>>] = ExpansionBy(x, f)
  OBVIOUS
<1> HIDE DEF R, E
<1>4. Minimal(Uses, R)
  <2> SUFFICES ASSUME NEW T \in SUBSET Uses, T # {} PROVE \E x \in T : \A u \in T : <<u, x>> \notin R
    BY DEF Minimal
  <2> DEFINE S == {u[1] : u \in T}
  <2>1. S \in SUBSET DOMAIN Concepts /\ S # {}
    BY DEF Uses
  <2>2. PICK c \in S : \A i \in 1..Len(Concepts[c].steps) : Concepts[c].steps[i].value \notin S
    <3> HIDE DEF S
    <3> QED BY <2>1, ProjectNests
  <2>3. PICK x \in T : x[1] = c
    OBVIOUS
  <2>4. \A u \in T : u[1] \in S /\ u \in Uses /\ x \in Uses
    OBVIOUS
  <2> HIDE DEF S
  <2> QED BY <1>1, <2>2, <2>3, <2>4
<1>5. DependsBelow(Uses, R, V, E)
  <2> SUFFICES ASSUME NEW x \in Uses, NEW f \in [Uses -> V], NEW g \in [Uses -> V],
                      \A u \in Uses : <<u, x>> \in R => f[u] = g[u]
               PROVE  E[<<x, f>>] = E[<<x, g>>]
    BY DEF DependsBelow
  <2>1. ExpansionBy(x, f) = ExpansionBy(x, g)
    BY <1>1, ExpansionSame
  <2> QED BY <1>3, <2>1
<1>6. Recursive(Uses, R, V, E)
  <2>1. V # {}
    <3>1. <<>> \in V
      OBVIOUS
    <3> QED BY <3>1
  <2> HIDE DEF V
  <2> QED BY <1>2, <1>4, <1>5, <2>1 DEF Recursive
<1>7. PICK f : Solves(Uses, V, E, f)
  <2> HIDE DEF V
  <2> QED BY <1>6, Recursion
<1>8. f = [use \in Uses |-> ExpansionBy(use, f)]
  BY <1>3, <1>7 DEF Solves
<1>9. Expansions = [use \in Uses |-> ExpansionBy(use, Expansions)]
  <2>1. \E g : g = [use \in Uses |-> AllWrittenOut(Concepts[use[1]].steps, Lookup(use[1], use[2]), g)]
    BY <1>8 DEF ExpansionBy
  <2>2. Expansions = CHOOSE g : g = [use \in Uses |-> AllWrittenOut(Concepts[use[1]].steps, Lookup(use[1], use[2]), g)]
    BY DEF Expansions
  <2>3. Expansions = [use \in Uses |-> AllWrittenOut(Concepts[use[1]].steps, Lookup(use[1], use[2]), Expansions)]
    BY <2>1, <2>2
  <2> QED BY <2>3 DEF ExpansionBy
<1>10. \A use \in Uses : Expansions[use] = ExpansionBy(use, Expansions)
  BY <1>9
<1>11. Expansions = f
  <2> DEFINE T == {use \in Uses : Expansions[use] # f[use]}
  <2>1. T = {}
    <3> SUFFICES ASSUME T # {} PROVE FALSE
      OBVIOUS
    <3>1. PICK x \in T : \A u \in T : <<u, x>> \notin R
      <4>1. T \in SUBSET Uses
        OBVIOUS
      <4> HIDE DEF T
      <4> QED BY <1>4, <4>1 DEF Minimal
    <3>2. x \in Uses /\ Expansions[x] # f[x]
      OBVIOUS
    <3>3. \A u \in Uses : <<u, x>> \in R => Expansions[u] = f[u]
      BY <3>1
    <3> HIDE DEF T
    <3>4. ExpansionBy(x, Expansions) = ExpansionBy(x, f)
      BY <1>1, <3>2, <3>3, ExpansionSame
    <3>5. f[x] = ExpansionBy(x, f)
      BY <1>3, <1>7, <3>2 DEF Solves
    <3> QED BY <1>10, <3>2, <3>4, <3>5
  <2>2. f \in [Uses -> V]
    BY <1>7 DEF Solves
  <2>3. \A x \in Uses : Expansions[x] = f[x]
    BY <2>1
  <2> HIDE DEF T, V
  <2>4. Expansions = [x \in Uses |-> Expansions[x]] /\ f = [x \in Uses |-> f[x]]
    BY <1>9, <2>2
  <2> QED BY <2>3, <2>4
<1> QED BY <1>7, <1>10, <1>11 DEF Solves

-----------------------------------------------------------------------------
(* What is left of a list of sequences.                                    *)

IsRests(r, ss, A) ==
  /\ \A k \in 1..Len(ss) + 1 : r[k] \in Seq(A)
  /\ r[1] = FlattenSeq(ss) /\ r[Len(ss) + 1] = <<>>
  /\ \A k \in 1..Len(ss) : r[k] = ss[k] \o r[k + 1]

LEMMA RestsExist ==
  ASSUME NEW A, NEW ss \in Seq(Seq(A))
  PROVE  \E r : IsRests(r, ss, A)
<1> DEFINE n == Len(ss)
           all == FlattenSeq(ss)
<1>1. n \in Nat /\ \A k \in 1..n : ss[k] \in Seq(A)
  BY ElementOfSeq, LenProperties
<1>2. PICK p : IsParts(p, ss, A)
  BY PartsExist
<1>3. /\ \A k \in 0..n : p[k] \in Seq(A)
      /\ p[0] = <<>> /\ p[n] = all
      /\ \A k \in 1..n : p[k] = p[k - 1] \o ss[k]
  BY <1>2 DEF IsParts
<1>4. \A k \in 0..n : Continues(all, p[k], A)
  BY <1>2, PartsRest
<1>5. all \in Seq(A)
  BY <1>1, <1>3
<1> HIDE DEF n, all
<1> DEFINE r == [k \in 1..n + 1 |-> CHOOSE rest \in Seq(A) : all = p[k - 1] \o rest]
<1>6. ASSUME NEW k \in 1..n + 1 PROVE r[k] \in Seq(A) /\ all = p[k - 1] \o r[k]
  <2>1. k - 1 \in 0..n
    BY <1>1
  <2>2. \E rest \in Seq(A) : all = p[k - 1] \o rest
    BY <1>4, <2>1 DEF Continues
  <2>3. r[k] = CHOOSE rest \in Seq(A) : all = p[k - 1] \o rest
    OBVIOUS
  <2> HIDE DEF r
  <2> QED BY <2>2, <2>3
<1> HIDE DEF r
<1>7. r[1] = all
  <2>1. 1 \in 1..n + 1 /\ 1 - 1 = 0
    BY <1>1
  <2>2. r[1] \in Seq(A) /\ all = p[0] \o r[1]
    BY <1>6, <2>1
  <2>3. <<>> \o r[1] = r[1]
    BY <2>2, ConcatEmptySeq
  <2> QED BY <1>3, <2>2, <2>3
<1>8. r[n + 1] = <<>>
  <2>1. n + 1 \in 1..n + 1 /\ (n + 1) - 1 = n
    BY <1>1
  <2>2. r[n + 1] \in Seq(A) /\ all = p[n] \o r[n + 1]
    BY <1>6, <2>1
  <2> DEFINE t == r[n + 1]
  <2>3. t \in Seq(A) /\ all \o t = all
    BY <1>3, <2>2
  <2> HIDE DEF t
  <2>4. t = <<>>
    BY ONLY <1>5, <2>3, ConcatSimplifications!idRight
  <2> QED BY <2>4 DEF t
<1>9. ASSUME NEW k \in 1..n PROVE r[k] = ss[k] \o r[k + 1]
  <2>1. k \in 1..n + 1 /\ k + 1 \in 1..n + 1 /\ (k + 1) - 1 = k /\ k - 1 \in 0..n
    BY <1>1
  <2> DEFINE a == p[k - 1]
             b == ss[k]
             c == r[k + 1]
             d == r[k]
  <2>2. a \in Seq(A) /\ b \in Seq(A)
    BY <1>1, <1>3, <2>1
  <2>3. c \in Seq(A) /\ d \in Seq(A) /\ all = p[k] \o c /\ all = a \o d
    BY <1>6, <2>1
  <2>4. p[k] = a \o b
    BY <1>3
  <2>5. (a \o b) \o c = a \o d
    BY <2>3, <2>4
  <2> HIDE DEF a, b, c, d
  <2>6. (a \o b) \o c = a \o (b \o c)
    BY ONLY <2>2, <2>3, ConcatAssociative, SMTT(30)
  <2>7. b \o c \in Seq(A)
    BY ONLY <2>2, <2>3, ConcatProperties
  <2>8. a \o d = a \o (b \o c)
    BY <2>5, <2>6
  <2>9. \A s, t, v \in Seq(A) : s \o t = s \o v => t = v
    BY ConcatSimplifications
  <2>10. d = b \o c
    BY ONLY <2>2, <2>3, <2>7, <2>8, <2>9
  <2> QED BY <2>10 DEF b, c, d
<1>10. IsRests(r, ss, A)
  BY <1>6, <1>7, <1>8, <1>9 DEF IsRests, n, all
<1> QED BY <1>10

\* What is left of these steps, from each of them on.
Remaining(steps, env) == CHOOSE r : IsRests(r, Each(steps, env, Expansions), SentStep)

LEMMA RemainingIs ==
  ASSUME project \in Projects, NEW env, env \in [DOMAIN env -> Value], NEW steps, Known(DOMAIN env, steps)
  PROVE  /\ Len(steps) \in Nat /\ DOMAIN steps = 1..Len(steps)
         /\ \A k \in 1..Len(steps) + 1 : Remaining(steps, env)[k] \in Seq(SentStep)
         /\ Remaining(steps, env)[1] = AllWrittenOut(steps, env, Expansions)
         /\ Remaining(steps, env)[Len(steps) + 1] = <<>>
         /\ \A k \in 1..Len(steps) :
              /\ WrittenOut(steps[k], env, Expansions) \in Seq(SentStep)
              /\ Remaining(steps, env)[k] = WrittenOut(steps[k], env, Expansions) \o Remaining(steps, env)[k + 1]
<1> DEFINE ss == Each(steps, env, Expansions)
<1>1. Expansions \in [Uses -> Seq(SentStep)]
  BY ExpansionsAre
<1>2. /\ Len(steps) \in Nat /\ DOMAIN steps = 1..Len(steps)
      /\ ss \in Seq(Seq(SentStep)) /\ Len(ss) = Len(steps)
      /\ \A i \in 1..Len(steps) :
           /\ WrittenOut(steps[i], env, Expansions) \in Seq(SentStep)
           /\ ss[i] = WrittenOut(steps[i], env, Expansions)
  BY <1>1, EachTyped
<1>3. AllWrittenOut(steps, env, Expansions) = FlattenSeq(ss)
  BY <1>1, AllWrittenTyped
<1>4. Remaining(steps, env) = CHOOSE r : IsRests(r, ss, SentStep)
  BY DEF Remaining
<1> HIDE DEF ss
<1>5. IsRests(Remaining(steps, env), ss, SentStep)
  BY <1>2, <1>4, RestsExist
<1> QED BY <1>2, <1>3, <1>5 DEF IsRests

-----------------------------------------------------------------------------
(* Arguments that are resolved.                                            *)

Fine(a) == a \in Arg /\ WrittenArg(a, DOMAIN project.dataTable) /\ a.type # "dynamic"

\* What is sent for it in row r.
Shown(a, r) ==
  IF a.table = <<>> THEN <<"value", a.value>>
  ELSE <<"table", IF a.table[1].type = "dynamic" THEN project.dataTable[a.table[1].value][r]
                  ELSE a.table[1].value>>

RowEnv(r) == [c \in DOMAIN project.dataTable |-> <<"value", project.dataTable[c][r]>>]

LEMMA RowTyped ==
  ASSUME NEW r, InRows(r)
  PROVE  RowEnv(r) \in [DOMAIN project.dataTable -> Value] /\ DOMAIN RowEnv(r) = DOMAIN project.dataTable
<1>1. \A c \in DOMAIN project.dataTable : project.dataTable[c][r] \in STRING
  BY ElementOfSeq DEF InRows
<1> QED BY <1>1 DEF RowEnv, Value

LEMMA FineShown ==
  ASSUME NEW a, Fine(a)
  PROVE  a # Panic /\ ~Panics(a) /\ Parameter(a) = Shown(a, row)
<1>1. a \in Arg /\ WrittenArg(a, DOMAIN project.dataTable)
  BY DEF Fine
<1>2. /\ DOMAIN a.table = 1..Len(a.table)
      /\ \A i \in 1..Len(a.table) :
           /\ a.table[i].type # "dynamic" => a.table[i].type = "static"
           /\ a.table[i].type = "dynamic" => a.table[i].value \in DOMAIN project.dataTable
      /\ a.table # <<>> => 1 \in 1..Len(a.table)
      /\ a.type \in ArgTypes
  BY <1>1, ArgParts
<1> DEFINE cells == Cells(a.table)
<1>3. DOMAIN cells = 1..Len(a.table)
  BY <1>2 DEF Cells
<1>4. ASSUME NEW i \in 1..Len(a.table)
      PROVE  cells[i] = IF a.table[i].type = "dynamic" THEN Column(a.table[i].value) ELSE a.table[i]
  BY <1>2 DEF Cells, DataTableArg
<1>5. \A i \in 1..Len(a.table) : cells[i].type = "static"
  <2> SUFFICES ASSUME NEW i \in 1..Len(a.table) PROVE cells[i].type = "static"
    OBVIOUS
  <2>1. Column(a.table[i].value).type = "static"
    BY DEF Column
  <2>2. cells[i] = IF a.table[i].type = "dynamic" THEN Column(a.table[i].value) ELSE a.table[i]
    BY <1>4
  <2> HIDE DEF cells
  <2>3. CASE a.table[i].type = "dynamic"
    BY <2>1, <2>2, <2>3
  <2>4. CASE a.table[i].type # "dynamic"
    BY <1>2, <2>2, <2>4
  <2> QED BY <2>3, <2>4
<1>6. a # Panic
  <2>1. Panic.type = "panic"
    BY DEF Panic
  <2> QED BY <1>2, <2>1 DEF ArgTypes
<1>7. Panic \notin ToSet(cells)
  <2> HIDE DEF cells
  <2>1. Panic.type = "panic"
    BY DEF Panic
  <2> QED BY <1>3, <1>5, <2>1 DEF ToSet
<1>8. Parameter(a) = Shown(a, row)
  <2>1. CASE a.table = <<>>
    BY <2>1 DEF Parameter, Shown
  <2>2. CASE a.table # <<>>
    <3>1. cells[1] = IF a.table[1].type = "dynamic" THEN Column(a.table[1].value) ELSE a.table[1]
      BY <1>2, <1>4, <2>2
    <3>2. Parameter(a) = <<"table", cells[1].value>>
      BY <2>2 DEF Parameter
    <3> HIDE DEF cells
    <3> QED BY <2>2, <3>1, <3>2 DEF Column, Shown
  <2> QED BY <2>1, <2>2
<1> QED BY <1>6, <1>7, <1>8 DEF Panics

\* What is not an argument of something else is what it is.
LEMMA FineMeans ==
  ASSUME NEW a \in Arg, NEW names, WrittenArg(a, names), a.type # "dynamic", NEW env, NEW r,
         \/ names = DOMAIN project.dataTable /\ env = RowEnv(r)
         \/ \A i \in 1..Len(a.table) : a.table[i].type = "static"
  PROVE  Fine(a) /\ Shown(a, r) = MeantBy(a, env)
<1>1. /\ DOMAIN a.table = 1..Len(a.table)
      /\ a.type \in ArgTypes
      /\ a.type = "table" => a.table # <<>>
      /\ a.type # "table" => a.table = <<>>
      /\ \A i \in 1..Len(a.table) :
           /\ a.table[i].type # "dynamic" => a.table[i].type = "static"
           /\ a.table[i].type = "dynamic" => a.table[i].value \in names
      /\ a.table # <<>> => 1 \in 1..Len(a.table)
  BY ArgParts
<1>2. \A i \in 1..Len(a.table) :
        a.table[i].type = "dynamic" => a.table[i].value \in DOMAIN project.dataTable /\ env = RowEnv(r)
  BY <1>1
<1>3. Fine(a)
  BY <1>1, <1>2 DEF Fine, WrittenArg
<1>4. Shown(a, r) = MeantBy(a, env)
  <2>1. CASE a.type = "static"
    BY <1>1, <2>1 DEF Shown, MeantBy
  <2>2. CASE a.type = "table"
    <3>1. 1 \in 1..Len(a.table) /\ a.table # <<>>
      BY <1>1, <2>2
    <3>2. MeantBy(a, env) =
            <<"table", IF a.table[1].type = "dynamic" THEN env[a.table[1].value][2] ELSE a.table[1].value>>
      BY <2>2 DEF MeantBy
    <3>3. CASE a.table[1].type = "dynamic"
      <4>1. env[a.table[1].value] = <<"value", project.dataTable[a.table[1].value][r]>>
        BY <1>2, <3>1, <3>3 DEF RowEnv
      <4> QED BY <3>1, <3>2, <3>3, <4>1 DEF Shown
    <3>4. CASE a.table[1].type # "dynamic"
      BY <3>1, <3>2, <3>4 DEF Shown
    <3> QED BY <3>3, <3>4
  <2> QED BY <1>1, <2>1, <2>2 DEF ArgTypes
<1> QED BY <1>3, <1>4

LEMMA ColumnMeans ==
  ASSUME InRows(row), NEW name \in DOMAIN project.dataTable
  PROVE  Fine(DataTableArg(name)) /\ Shown(DataTableArg(name), row) = RowEnv(row)[name]
<1> DEFINE v == project.dataTable[name][row]
           a == [type |-> "static", value |-> v, table |-> <<>>]
<1>1. v \in STRING
  BY ElementOfSeq DEF InRows
<1>2. DataTableArg(name) = a
  BY DEF DataTableArg, Column
<1>3. a \in Arg
  <2>1. <<>> \in Seq(Cell)
    OBVIOUS
  <2> HIDE DEF v
  <2> QED BY <1>1, <2>1 DEF Arg, ArgTypes
<1>4. Fine(a)
  <2> HIDE DEF v
  <2> QED BY <1>3 DEF Fine, WrittenArg
<1>5. Shown(a, row) = <<"value", v>>
  BY DEF Shown
<1>6. RowEnv(row)[name] = <<"value", v>>
  BY DEF RowEnv
<1> QED BY <1>2, <1>4, <1>5, <1>6

\* An argument of a step of the specification.
LEMMA ArgInSpecification ==
  ASSUME InRows(row), NEW arg \in Arg, WrittenArg(arg, DOMAIN project.dataTable)
  PROVE  /\ Fine(ResolvedArg(<<>>, arg))
         /\ Shown(ResolvedArg(<<>>, arg), row) = MeantBy(arg, RowEnv(row))
<1>1. CASE arg.type = "dynamic"
  <2>1. arg.value \in DOMAIN project.dataTable
    BY <1>1, ArgParts
  <2>2. ResolvedArg(<<>>, arg) = DataTableArg(arg.value)
    BY <1>1 DEF ResolvedArg, ArgIn
  <2>3. MeantBy(arg, RowEnv(row)) = RowEnv(row)[arg.value]
    BY <1>1 DEF MeantBy
  <2> QED BY <2>1, <2>2, <2>3, ColumnMeans
<1>2. CASE arg.type # "dynamic"
  <2>1. ResolvedArg(<<>>, arg) = arg
    BY <1>2 DEF ResolvedArg
  <2> QED BY <1>2, <2>1, FineMeans
<1> QED BY <1>1, <1>2

-----------------------------------------------------------------------------
(* Concepts that are resolved.                                             *)

\* A function by steps from a first value.
Stepwise(f, V, v0, N, G) ==
  f \in [0..N -> V] /\ f = [n \in 0..N |-> IF n = 0 THEN v0 ELSE G[<<n, f[n - 1]>>]]

StaysIn(V, N, G) == \A n \in 1..N : \A v \in V : G[<<n, v>>] \in V

LEMMA Iteration ==
  ASSUME NEW V, NEW v0 \in V, NEW N \in Nat, NEW G, StaysIn(V, N, G)
  PROVE  \E f : Stepwise(f, V, v0, N, G)
<1>0. \A n \in 1..N : \A v \in V : G[<<n, v>>] \in V
  BY DEF StaysIn
<1> DEFINE S == 0..N
           R == {p \in S \X S : p[1] = p[2] - 1}
           E == [p \in S \X [S -> V] |-> IF p[1] = 0 THEN v0 ELSE G[<<p[1], p[2][p[1] - 1]>>]]
<1>1. \A i \in S : i \in Nat /\ (i # 0 => i \in 1..N /\ i - 1 \in S /\ <<i - 1, i>> \in R)
  OBVIOUS
<1>2. E \in [S \X [S -> V] -> V]
  <2>1. ASSUME NEW p \in S \X [S -> V]
        PROVE  (IF p[1] = 0 THEN v0 ELSE G[<<p[1], p[2][p[1] - 1]>>]) \in V
    <3>1. p[1] \in S /\ p[2] \in [S -> V]
      OBVIOUS
    <3>2. CASE p[1] # 0
      <4>1. p[1] \in 1..N /\ p[2][p[1] - 1] \in V
        BY <1>1, <3>1, <3>2
      <4> QED BY <1>0, <3>2, <4>1
    <3> QED BY <3>2
  <2> HIDE DEF S
  <2> QED BY <2>1
<1>3. \A i \in S : \A f \in [S -> V] : E[<<i, f>>] = IF i = 0 THEN v0 ELSE G[<<i, f[i - 1]>>]
  OBVIOUS
<1>4. Minimal(S, R)
  <2> SUFFICES ASSUME NEW T \in SUBSET S, T # {}
               PROVE  \E i \in T : \A j \in T : <<j, i>> \notin R
    BY DEF Minimal
  <2>1. T \in SUBSET Nat
    OBVIOUS
  <2>2. PICK i \in T : \A j \in T : i <= j
    BY <2>1, Smallest
  <2>3. ASSUME NEW j \in T PROVE <<j, i>> \notin R
    BY <2>1, <2>2
  <2> QED BY <2>3
<1>5. DependsBelow(S, R, V, E)
  <2> SUFFICES ASSUME NEW i \in S, NEW f \in [S -> V], NEW g \in [S -> V],
                      \A j \in S : <<j, i>> \in R => f[j] = g[j]
               PROVE  E[<<i, f>>] = E[<<i, g>>]
    BY DEF DependsBelow
  <2>1. i # 0 => f[i - 1] = g[i - 1]
    BY <1>1
  <2> HIDE DEF E, S, R
  <2>2. /\ E[<<i, f>>] = IF i = 0 THEN v0 ELSE G[<<i, f[i - 1]>>]
        /\ E[<<i, g>>] = IF i = 0 THEN v0 ELSE G[<<i, g[i - 1]>>]
    BY <1>3
  <2>3. CASE i = 0
    BY <2>2, <2>3
  <2>4. CASE i # 0
    BY <2>1, <2>2, <2>4
  <2> QED BY <2>3, <2>4
<1>6. Recursive(S, R, V, E)
  <2> HIDE DEF E, S, R
  <2> QED BY <1>2, <1>4, <1>5 DEF Recursive
<1>7. PICK f : Solves(S, V, E, f)
  <2> HIDE DEF E, S, R
  <2> QED BY <1>6, Recursion
<1>8. f \in [S -> V] /\ \A i \in S : f[i] = IF i = 0 THEN v0 ELSE G[<<i, f[i - 1]>>]
  <2> HIDE DEF E, S, R
  <2> QED BY <1>3, <1>7 DEF Solves
<1>9. f = [i \in S |-> IF i = 0 THEN v0 ELSE G[<<i, f[i - 1]>>]]
  <2> HIDE DEF S
  <2> QED BY <1>8
<1> QED BY <1>8, <1>9 DEF Stepwise

Envs == UNION {[ParamsOf(c) -> Value] : c \in DOMAIN Concepts}
Resolving == [concept : DOMAIN Concepts, next : Nat, lookup : UNION {[ParamsOf(c) -> Arg] : c \in DOMAIN Concepts}]

\* A concept that is resolved has these values for its parameters.
InFrame(frame, env) ==
  /\ frame.concept \in DOMAIN Concepts
  /\ frame.next \in 1..Len(Concepts[frame.concept].steps) + 1
  /\ frame.lookup \in [ParamsOf(frame.concept) -> Arg]
  /\ env \in [ParamsOf(frame.concept) -> Value]

\* The argument of its parameter q has the value, or is a parameter around it that has.
Leads(S, e, k, q, r) ==
  \/ Fine(S[k].lookup[q]) /\ Shown(S[k].lookup[q], r) = e[k][q]
  \/ /\ S[k].lookup[q].type = "dynamic" /\ k > 1
     /\ S[k].lookup[q].value \in ParamsOf(S[k - 1].concept)
     /\ e[k][q] = e[k - 1][S[k].lookup[q].value]

Linked(S, e, r) ==
  /\ S \in Seq(Resolving) /\ e \in Seq(Envs) /\ Len(e) = Len(S)
  /\ \A k \in 1..Len(S) :
       /\ InFrame(S[k], e[k])
       /\ \A q \in ParamsOf(S[k].concept) : Leads(S, e, k, q, r)

\* What getArg goes on with after n concepts.
OuterArg(S, n, a) ==
  IF a.type # "dynamic" THEN a
  ELSE IF a.value \in DOMAIN S[Len(S) - n + 1].lookup THEN S[Len(S) - n + 1].lookup[a.value] ELSE Panic

LEMMA GetArgGoes ==
  ASSUME project \in Projects, NEW S, NEW e, NEW r, Linked(S, e, r), NEW name \in STRING
  PROVE  \E f : /\ GetArg(S, name) = f[Len(S)]
                /\ f[0] = [type |-> "dynamic", value |-> name, table |-> <<>>]
                /\ \A n \in 1..Len(S) : f[n] = OuterArg(S, n, f[n - 1])
<1> DEFINE L == Len(S)
           V == Arg \cup {Panic}
           v0 == [type |-> "dynamic", value |-> name, table |-> <<>>]
           G == [p \in (1..L) \X V |-> OuterArg(S, p[1], p[2])]
<1>1. L \in Nat
  BY LenProperties DEF Linked
<1>2. v0 \in V
  <2>1. <<>> \in Seq(Cell)
    OBVIOUS
  <2> QED BY <2>1 DEF Arg, ArgTypes
<1>3. ASSUME NEW n \in 1..L, NEW v \in V PROVE OuterArg(S, n, v) \in V
  <2>1. L - n + 1 \in 1..L
    BY <1>1
  <2> DEFINE lookup == S[L - n + 1].lookup
  <2>2. lookup \in [ParamsOf(S[L - n + 1].concept) -> Arg]
    BY <2>1 DEF Linked, InFrame
  <2>3. OuterArg(S, n, v) = IF v.type # "dynamic" THEN v ELSE IF v.value \in DOMAIN lookup THEN lookup[v.value] ELSE Panic
    BY DEF OuterArg
  <2> HIDE DEF lookup
  <2>4. v.value \in DOMAIN lookup => lookup[v.value] \in Arg
    BY <2>2
  <2> QED BY <2>3, <2>4
<1>4. \A n \in 1..L : \A v \in V : G[<<n, v>>] = OuterArg(S, n, v)
  <2> HIDE DEF V
  <2> QED OBVIOUS
<1> HIDE DEF G, v0, V
<1>5. PICK f : Stepwise(f, V, v0, L, G)
  <2>1. StaysIn(V, L, G)
    BY <1>3, <1>4 DEF StaysIn
  <2> HIDE DEF L
  <2> QED BY ONLY <1>1, <1>2, <2>1, Iteration
<1>6. f = [n \in 0..L |-> IF n = 0 THEN v0 ELSE OuterArg(S, n, f[n - 1])]
  <2> HIDE DEF L
  <2>1. f \in [0..L -> V] /\ f = [n \in 0..L |-> IF n = 0 THEN v0 ELSE G[<<n, f[n - 1]>>]]
    BY <1>5 DEF Stepwise
  <2>2. \A n \in 0..L : n # 0 => n \in 1..L /\ f[n - 1] \in V
    BY <1>1, <2>1
  <2>3. \A n \in 0..L : f[n] = IF n = 0 THEN v0 ELSE OuterArg(S, n, f[n - 1])
    BY <1>4, <2>1, <2>2
  <2> QED BY <2>1, <2>3
<1> DEFINE g == CHOOSE a : a = [n \in 0..L |-> IF n = 0 THEN v0 ELSE OuterArg(S, n, a[n - 1])]
<1>7. g = [n \in 0..L |-> IF n = 0 THEN v0 ELSE OuterArg(S, n, g[n - 1])]
  BY <1>6
<1>8. GetArg(S, name) = g[L]
  BY DEF GetArg, OuterArg, v0
<1> HIDE DEF g, L
<1>9. g[0] = v0 /\ \A n \in 1..L : g[n] = OuterArg(S, n, g[n - 1])
  BY <1>1, <1>7
<1> QED BY <1>8, <1>9 DEF v0, L

\* A parameter of the innermost concept is resolved to its value.
LEMMA GetArgIs ==
  ASSUME project \in Projects, NEW S, NEW e, NEW r, Linked(S, e, r), S # <<>>,
         NEW name \in ParamsOf(S[Len(S)].concept)
  PROVE  Fine(GetArg(S, name)) /\ Shown(GetArg(S, name), r) = e[Len(S)][name]
<1> DEFINE L == Len(S)
<1>1. L \in Nat /\ L > 0 /\ L \in 1..L
  <2>1. L \in Nat /\ L # 0
    BY LenProperties, EmptySeq DEF Linked
  <2> QED BY <2>1
<1>2. name \in STRING
  <2>1. S[L].concept \in DOMAIN Concepts
    BY <1>1 DEF Linked, InFrame
  <2>2. Concepts[S[L].concept].params \in Seq(STRING)
    BY <2>1, ProjectSteps
  <2> DEFINE params == Concepts[S[L].concept].params
  <2>3. DOMAIN params = 1..Len(params) /\ \A i \in 1..Len(params) : params[i] \in STRING
    BY <2>2, ElementOfSeq, LenProperties
  <2>4. name \in ToSet(params)
    BY DEF ParamsOf
  <2> HIDE DEF params
  <2> QED BY <2>3, <2>4 DEF ToSet
<1>3. PICK f : /\ GetArg(S, name) = f[L]
               /\ f[0] = [type |-> "dynamic", value |-> name, table |-> <<>>]
               /\ \A n \in 1..L : f[n] = OuterArg(S, n, f[n - 1])
  BY <1>2, GetArgGoes
<1> DEFINE Resolves(n) ==
             \/ Fine(f[n]) /\ Shown(f[n], r) = e[L][name]
             \/ /\ f[n].type = "dynamic" /\ n < L
                /\ f[n].value \in ParamsOf(S[L - n].concept)
                /\ e[L - n][f[n].value] = e[L][name]
           T == {n \in 0..L : ~Resolves(n)}
<1> HIDE DEF L
<1>4. T = {}
  <2> SUFFICES ASSUME T # {} PROVE FALSE
    OBVIOUS
  <2>1. T \in SUBSET Nat
    OBVIOUS
  <2>2. PICK n \in T : \A m \in T : n <= m
    <3> HIDE DEF T
    <3> QED BY <2>1, Smallest
  <2>3. n \in 0..L /\ n \in Nat /\ ~Resolves(n)
    <3> HIDE DEF Resolves
    <3> QED BY <2>2
  <2>4. CASE n = 0
    <3>1. f[0].type = "dynamic" /\ f[0].value = name
      BY <1>3
    <3>2. L - 0 = L
      BY <1>1
    <3>3. Resolves(0)
      BY <1>1, <3>1, <3>2 DEF L
    <3> HIDE DEF Resolves
    <3> QED BY <2>3, <2>4, <3>3
  <2>5. CASE n # 0
    <3> DEFINE k == L - n + 1
               m == n - 1
               a == f[m]
    <3>1. /\ n \in 1..L /\ m \in 0..L /\ ~(n <= m) /\ m \in Nat
          /\ k \in 1..L /\ L - m = k /\ k - 1 = L - n /\ (k > 1 <=> n < L)
      BY <1>1, <2>3, <2>5
    <3>2. Resolves(m)
      <4> HIDE DEF Resolves, m
      <4> QED BY <2>2, <3>1
    <3>3. \/ Fine(a) /\ Shown(a, r) = e[L][name]
          \/ /\ a.type = "dynamic" /\ a.value \in ParamsOf(S[k].concept)
             /\ e[k][a.value] = e[L][name]
      <4>1. L - m = k
        BY <3>1
      <4> HIDE DEF k, m
      <4> QED BY <3>2, <4>1
    <3>4. f[n] = IF a.type # "dynamic" THEN a
                 ELSE IF a.value \in DOMAIN S[k].lookup THEN S[k].lookup[a.value] ELSE Panic
      BY <1>3, <3>1 DEF OuterArg, L
    <3>5. CASE a.type # "dynamic"
      <4>1. Fine(f[n]) /\ Shown(f[n], r) = e[L][name]
        BY <3>3, <3>4, <3>5
      <4> QED BY <2>3, <4>1
    <3>6. CASE a.type = "dynamic"
      <4>1. a.value \in ParamsOf(S[k].concept) /\ e[k][a.value] = e[L][name]
        BY <3>3, <3>6 DEF Fine
      <4>2. S[k].lookup \in [ParamsOf(S[k].concept) -> Arg] /\ Leads(S, e, k, a.value, r)
        BY <3>1, <4>1 DEF Linked, InFrame, L
      <4>3. f[n] = S[k].lookup[a.value]
        BY <3>4, <3>6, <4>1, <4>2
      <4>4. \/ Fine(f[n]) /\ Shown(f[n], r) = e[k][a.value]
            \/ /\ f[n].type = "dynamic" /\ k > 1
               /\ f[n].value \in ParamsOf(S[k - 1].concept)
               /\ e[k][a.value] = e[k - 1][f[n].value]
        BY <4>2, <4>3 DEF Leads
      <4>5. k - 1 = L - n /\ (k > 1 <=> n < L)
        BY <3>1
      <4> HIDE DEF k, a
      <4>6. Resolves(n)
        BY <4>1, <4>4, <4>5
      <4> HIDE DEF Resolves
      <4> QED BY <2>3, <4>6
    <3> QED BY <3>5, <3>6
  <2> QED BY <2>4, <2>5
<1>5. Resolves(L) /\ ~(L < L)
  <2>1. L \in 0..L /\ ~(L < L)
    BY <1>1
  <2> HIDE DEF Resolves
  <2> QED BY <1>4, <2>1
<1> QED BY <1>3, <1>5 DEF L

\* What UsesAgree says of a step of a concept.
AgreedStep(step) ==
  /\ IsConcept(step) => \A k \in 1..Len(step.args) : step.args[k].table = <<>>
  /\ \A k \in 1..Len(step.args) : \A i \in 1..Len(step.args[k].table) : step.args[k].table[i].type = "static"

LEMMA ConceptSteps ==
  ASSUME project \in Projects, UsesAgree, NEW c \in DOMAIN Concepts, NEW i \in 1..Len(Concepts[c].steps)
  PROVE  /\ Concepts[c].steps[i] \in StepsInConcepts
         /\ KnownArgs(ParamsOf(c), Concepts[c].steps[i])
         /\ AgreedStep(Concepts[c].steps[i])
<1> DEFINE step == Concepts[c].steps[i]
<1>1. Known(ParamsOf(c), Concepts[c].steps)
  BY ProjectSteps
<1>2. KnownArgs(ParamsOf(c), step)
  BY <1>1 DEF Known
<1>3. step \in StepsInConcepts
  <2>1. DOMAIN Concepts[c].steps = 1..Len(Concepts[c].steps)
    BY <1>1, LenProperties DEF Known
  <2>2. step \in ToSet(Concepts[c].steps)
    BY <2>1 DEF ToSet
  <2> QED BY <2>2 DEF StepsInConcepts
<1> HIDE DEF step
<1>4. AgreedStep(step)
  <2>1. /\ IsConcept(step) => Tables(step) \subseteq {<<>>}
        /\ \A table \in Tables(step) : \A j \in DOMAIN table : table[j].type = "static"
    BY <1>3 DEF UsesAgree
  <2>2. step.args \in Seq(Arg)
    BY <1>2 DEF KnownArgs, UsedStep
  <2>3. DOMAIN step.args = 1..Len(step.args)
    BY <2>2, LenProperties
  <2>4. ASSUME NEW k \in 1..Len(step.args)
        PROVE  step.args[k].table \in Tables(step) /\ DOMAIN step.args[k].table = 1..Len(step.args[k].table)
    <3>1. step.args[k].table \in Tables(step)
      BY <2>3 DEF Tables
    <3>2. step.args[k] \in Arg
      BY <2>2, ElementOfSeq
    <3> QED BY <3>1, <3>2, LenProperties DEF Arg
  <2> QED BY <2>1, <2>4 DEF AgreedStep
<1> QED BY <1>2, <1>3, <1>4 DEF step

\* An argument of a step of a concept.
LEMMA ArgInConcept ==
  ASSUME project \in Projects, NEW S, NEW e, Linked(S, e, row), S # <<>>,
         NEW arg \in Arg, WrittenArg(arg, ParamsOf(S[Len(S)].concept)),
         \A i \in 1..Len(arg.table) : arg.table[i].type = "static"
  PROVE  /\ Fine(ResolvedArg(S, arg))
         /\ Shown(ResolvedArg(S, arg), row) = MeantBy(arg, e[Len(S)])
<1>1. CASE arg.type = "dynamic"
  <2>1. arg.value \in ParamsOf(S[Len(S)].concept)
    BY <1>1, ArgParts
  <2>2. ResolvedArg(S, arg) = GetArg(S, arg.value)
    BY <1>1 DEF ResolvedArg, ArgIn
  <2>3. MeantBy(arg, e[Len(S)]) = e[Len(S)][arg.value]
    BY <1>1 DEF MeantBy
  <2>4. Fine(GetArg(S, arg.value)) /\ Shown(GetArg(S, arg.value), row) = e[Len(S)][arg.value]
    BY <2>1, GetArgIs
  <2> QED BY <2>2, <2>3, <2>4
<1>2. CASE arg.type # "dynamic"
  <2>1. ResolvedArg(S, arg) = arg
    BY <1>2 DEF ResolvedArg
  <2> QED BY <1>2, <2>1, FineMeans
<1> QED BY <1>1, <1>2

-----------------------------------------------------------------------------
(* What is left to send.                                                   *)

StepsAt(S) == IF S = <<>> THEN project.steps ELSE Concepts[S[Len(S)].concept].steps
PositionAt(S, n) == IF S = <<>> THEN n ELSE S[Len(S)].next
EnvAt(S, e, r) == IF S = <<>> THEN RowEnv(r) ELSE e[Len(S)]
\* The next step of the specification, when a step here is left.
OnwardTo(S, n) == IF S = <<>> THEN n + 1 ELSE n

\* What is left after each concept on the stack, and what is left here.
Remains(S, e, rem, n, r) ==
  /\ Linked(S, e, r)
  /\ n \in 1..Len(project.steps) + 1
  /\ \A k \in 0..Len(S) : rem[k] \in Seq(SentStep)
  /\ rem[0] = Remaining(project.steps, RowEnv(r))[n]
  /\ \A k \in 1..Len(S) : rem[k] = Remaining(Concepts[S[k].concept].steps, e[k])[S[k].next] \o rem[k - 1]

ResolvesAll(S, e, rem, n, r, out) ==
  /\ Remains(S, e, rem, n, r)
  /\ out \in Seq(SentStep)
  /\ AllWrittenOut(project.steps, RowEnv(r), Expansions) = out \o rem[Len(S)]

LEMMA RowSteps ==
  ASSUME project \in Projects, NEW r, InRows(r)
  PROVE  /\ RowEnv(r) \in [DOMAIN RowEnv(r) -> Value] /\ DOMAIN RowEnv(r) = DOMAIN project.dataTable
         /\ Known(DOMAIN RowEnv(r), project.steps)
<1>1. RowEnv(r) \in [DOMAIN project.dataTable -> Value] /\ DOMAIN RowEnv(r) = DOMAIN project.dataTable
  BY RowTyped
<1>2. Known(DOMAIN project.dataTable, project.steps)
  BY ProjectSteps
<1> QED BY <1>1, <1>2

LEMMA FrameSteps ==
  ASSUME project \in Projects, NEW S, NEW e, NEW r, Linked(S, e, r), NEW k \in 1..Len(S)
  PROVE  /\ InFrame(S[k], e[k])
         /\ e[k] \in [DOMAIN e[k] -> Value] /\ DOMAIN e[k] = ParamsOf(S[k].concept)
         /\ Known(DOMAIN e[k], Concepts[S[k].concept].steps)
<1>1. InFrame(S[k], e[k])
  BY DEF Linked
<1>2. e[k] \in [ParamsOf(S[k].concept) -> Value] /\ S[k].concept \in DOMAIN Concepts
  BY <1>1 DEF InFrame
<1>3. DOMAIN e[k] = ParamsOf(S[k].concept)
  BY <1>2
<1>4. Known(ParamsOf(S[k].concept), Concepts[S[k].concept].steps)
  BY <1>2, ProjectSteps
<1> QED BY <1>1, <1>2, <1>3, <1>4

LEMMA StackFacts ==
  ASSUME NEW S, NEW e, NEW r, Linked(S, e, r)
  PROVE  /\ Len(S) \in Nat /\ DOMAIN S = 1..Len(S) /\ (S = <<>> <=> Len(S) = 0)
         /\ S # <<>> => Len(S) \in 1..Len(S)
<1>1. Len(S) \in Nat /\ DOMAIN S = 1..Len(S) /\ (S = <<>> <=> Len(S) = 0)
  BY LenProperties, EmptySeq DEF Linked
<1> QED BY <1>1

LEMMA AtSteps ==
  ASSUME project \in Projects, NEW S, NEW e, NEW r, Linked(S, e, r), InRows(r)
  PROVE  /\ EnvAt(S, e, r) \in [DOMAIN EnvAt(S, e, r) -> Value]
         /\ Known(DOMAIN EnvAt(S, e, r), StepsAt(S))
         /\ DOMAIN EnvAt(S, e, r) =
              IF S = <<>> THEN DOMAIN project.dataTable ELSE ParamsOf(S[Len(S)].concept)
<1>1. CASE S = <<>>
  <2>1. EnvAt(S, e, r) = RowEnv(r) /\ StepsAt(S) = project.steps
    BY <1>1 DEF EnvAt, StepsAt
  <2> QED BY <1>1, <2>1, RowSteps
<1>2. CASE S # <<>>
  <2>1. EnvAt(S, e, r) = e[Len(S)] /\ StepsAt(S) = Concepts[S[Len(S)].concept].steps
    BY <1>2 DEF EnvAt, StepsAt
  <2>2. Len(S) \in 1..Len(S)
    BY <1>2, StackFacts
  <2> QED BY <1>2, <2>1, <2>2, FrameSteps
<1> QED BY <1>1, <1>2

LEMMA RowStarts ==
  ASSUME project \in Projects, NEW r, InRows(r)
  PROVE  \E e, rem : ResolvesAll(<<>>, e, rem, 1, r, <<>>)
<1> DEFINE env == RowEnv(r)
           steps == project.steps
           e == <<>>
           rem == [k \in {0} |-> Remaining(steps, env)[1]]
<1>1. /\ Len(steps) \in Nat
      /\ Remaining(steps, env)[1] \in Seq(SentStep)
      /\ Remaining(steps, env)[1] = AllWrittenOut(steps, env, Expansions)
  <2>1. env \in [DOMAIN env -> Value] /\ Known(DOMAIN env, steps)
    BY RowSteps
  <2> HIDE DEF env, steps
  <2>2. Len(steps) \in Nat /\ \A k \in 1..Len(steps) + 1 : Remaining(steps, env)[k] \in Seq(SentStep)
    BY <2>1, RemainingIs
  <2>3. 1 \in 1..Len(steps) + 1
    BY <2>2
  <2> QED BY <2>1, <2>2, <2>3, RemainingIs
<1>2. Linked(<<>>, e, r)
  <2>1. <<>> \in Seq(Resolving) /\ e \in Seq(Envs) /\ Len(<<>>) = 0 /\ Len(e) = 0
    OBVIOUS
  <2> HIDE DEF e
  <2> QED BY <2>1 DEF Linked
<1>3. Len(<<>>) = 0 /\ rem[0] = Remaining(steps, env)[1]
  OBVIOUS
<1> HIDE DEF e, rem, env, steps
<1>4. 1 \in 1..Len(steps) + 1
  BY <1>1
<1>5. Remains(<<>>, e, rem, 1, r)
  BY <1>1, <1>2, <1>3, <1>4 DEF Remains, env, steps
<1>6. <<>> \o rem[0] = rem[0] /\ <<>> \in Seq(SentStep)
  BY <1>1, <1>3, ConcatEmptySeq
<1>7. ResolvesAll(<<>>, e, rem, 1, r, <<>>)
  BY <1>1, <1>3, <1>5, <1>6 DEF ResolvesAll, env, steps
<1> QED BY <1>7

LEMMA OnwardIs ==
  ASSUME NEW S \in Seq(Resolving), S # <<>>
  PROVE  /\ Onward(S) \in Seq(Resolving) /\ Len(Onward(S)) = Len(S)
         /\ \A k \in 1..Len(S) :
              /\ k # Len(S) => Onward(S)[k] = S[k]
              /\ Onward(S)[k].concept = S[k].concept /\ Onward(S)[k].lookup = S[k].lookup
              /\ Onward(S)[k].next = IF k = Len(S) THEN S[k].next + 1 ELSE S[k].next
<1> DEFINE L == Len(S)
           last == S[L]
           on == [last EXCEPT !.next = @ + 1]
<1>1. L \in Nat /\ L # 0 /\ DOMAIN S = 1..L /\ L \in 1..L
  <2>1. L \in Nat /\ L # 0 /\ DOMAIN S = 1..L
    BY LenProperties, EmptySeq
  <2> QED BY <2>1
<1>2. last \in Resolving
  BY <1>1, ElementOfSeq
<1>3. Onward(S) = [S EXCEPT ![L] = on]
  BY DEF Onward
<1> HIDE DEF L, last
<1>4. /\ on \in Resolving /\ on.concept = last.concept /\ on.lookup = last.lookup
      /\ on.next = last.next + 1
  <2> DEFINE Lookups == UNION {[ParamsOf(c) -> Arg] : c \in DOMAIN Concepts}
             Named == DOMAIN Concepts
  <2>1. last \in [concept : Named, next : Nat, lookup : Lookups]
    BY <1>2 DEF Resolving
  <2> HIDE DEF Lookups, Named
  <2>2. on \in [concept : Named, next : Nat, lookup : Lookups]
    BY <2>1
  <2>3. on.concept = last.concept /\ on.lookup = last.lookup /\ on.next = last.next + 1
    BY <2>1
  <2> HIDE DEF on
  <2> QED BY <2>2, <2>3 DEF Resolving, Lookups, Named
<1> HIDE DEF on
<1>5. Onward(S) \in Seq(Resolving) /\ Len(Onward(S)) = L
  BY <1>1, <1>3, <1>4, ExceptSeq DEF L
<1>6. \A k \in 1..L : Onward(S)[k] = IF k = L THEN on ELSE S[k]
  BY <1>1, <1>3
<1> QED BY <1>4, <1>5, <1>6 DEF L, last

LEMMA LinkedOnward ==
  ASSUME project \in Projects, NEW S, NEW e, NEW r, Linked(S, e, r), S # <<>>,
         S[Len(S)].next \in 1..Len(Concepts[S[Len(S)].concept].steps)
  PROVE  Linked(Onward(S), e, r)
<1>1. S \in Seq(Resolving) /\ e \in Seq(Envs) /\ Len(e) = Len(S)
  BY DEF Linked
<1> DEFINE O == Onward(S)
<1>2. /\ O \in Seq(Resolving) /\ Len(O) = Len(S)
      /\ \A k \in 1..Len(S) :
           /\ O[k].concept = S[k].concept /\ O[k].lookup = S[k].lookup
           /\ O[k].next = IF k = Len(S) THEN S[k].next + 1 ELSE S[k].next
  BY <1>1, OnwardIs
<1> HIDE DEF O
<1>3. ASSUME NEW k \in 1..Len(S) PROVE InFrame(O[k], e[k])
  <2>1. InFrame(S[k], e[k])
    BY DEF Linked
  <2>2. O[k].concept = S[k].concept /\ O[k].lookup = S[k].lookup
    BY <1>2
  <2> DEFINE n == Len(Concepts[S[k].concept].steps)
  <2>3. n \in Nat
    <3>1. Known(DOMAIN e[k], Concepts[S[k].concept].steps)
      BY FrameSteps
    <3> QED BY <3>1, LenProperties DEF Known
  <2>4. O[k].next \in 1..n + 1
    <3>1. S[k].next \in 1..n + 1
      BY <2>1 DEF InFrame
    <3>2. k = Len(S) => S[k].next \in 1..n
      OBVIOUS
    <3> HIDE DEF n
    <3> QED BY <1>2, <2>3, <3>1, <3>2
  <2> QED BY <2>1, <2>2, <2>4 DEF InFrame
<1>4. ASSUME NEW k \in 1..Len(S), NEW q \in ParamsOf(O[k].concept) PROVE Leads(O, e, k, q, r)
  <2>1. O[k].concept = S[k].concept /\ O[k].lookup = S[k].lookup
    BY <1>2
  <2>2. Leads(S, e, k, q, r)
    BY <2>1 DEF Linked
  <2>3. k > 1 => k - 1 \in 1..Len(S)
    OBVIOUS
  <2>4. k > 1 => O[k - 1].concept = S[k - 1].concept
    BY <1>2, <2>3
  <2> QED BY <2>1, <2>2, <2>4 DEF Leads
<1>5. Linked(O, e, r)
  BY <1>1, <1>2, <1>3, <1>4 DEF Linked
<1> QED BY <1>5 DEF O

\* s is one after the other.
IsConcat(s, a, b) == s = a \o b

\* One step is taken from what is left.
LEMMA GoesOn ==
  ASSUME project \in Projects, NEW S, NEW e, NEW rem, NEW n, NEW r, Remains(S, e, rem, n, r), InRows(r),
         PositionAt(S, n) \in 1..Len(StepsAt(S))
  PROVE  \E rem2 :
           /\ Remains(Onward(S), e, rem2, OnwardTo(S, n), r)
           /\ Len(Onward(S)) = Len(S)
           /\ WrittenOut(StepsAt(S)[PositionAt(S, n)], EnvAt(S, e, r), Expansions) \in Seq(SentStep)
           /\ IsConcat(rem[Len(S)], WrittenOut(StepsAt(S)[PositionAt(S, n)], EnvAt(S, e, r), Expansions),
                       rem2[Len(S)])
<1>1. /\ Linked(S, e, r) /\ n \in 1..Len(project.steps) + 1
      /\ \A k \in 0..Len(S) : rem[k] \in Seq(SentStep)
      /\ rem[0] = Remaining(project.steps, RowEnv(r))[n]
      /\ \A k \in 1..Len(S) : rem[k] = Remaining(Concepts[S[k].concept].steps, e[k])[S[k].next] \o rem[k - 1]
  BY DEF Remains
<1> DEFINE L == Len(S)
           env == EnvAt(S, e, r)
           steps == StepsAt(S)
           p == PositionAt(S, n)
           left == Remaining(steps, env)
           w == WrittenOut(steps[p], env, Expansions)
<1>2. L \in Nat /\ (S = <<>> <=> L = 0)
  BY <1>1, StackFacts
<1>3. /\ Len(steps) \in Nat
      /\ \A k \in 1..Len(steps) + 1 : left[k] \in Seq(SentStep)
      /\ w \in Seq(SentStep) /\ left[p] = w \o left[p + 1]
  <2>1. env \in [DOMAIN env -> Value] /\ Known(DOMAIN env, steps)
    BY <1>1, AtSteps
  <2>2. p \in 1..Len(steps)
    OBVIOUS
  <2> HIDE DEF env, steps, p
  <2> QED BY <2>1, <2>2, RemainingIs
<1>4. p + 1 \in 1..Len(steps) + 1
  BY <1>3
<1>5. CASE S = <<>>
  <2> DEFINE rem2 == [k \in {0} |-> left[p + 1]]
  <2>1. env = RowEnv(r) /\ steps = project.steps /\ p = n /\ Onward(S) = S /\ OnwardTo(S, n) = n + 1
    BY <1>5 DEF EnvAt, StepsAt, PositionAt, Onward, OnwardTo
  <2>2. L = 0 /\ Len(Onward(S)) = L
    BY <1>2, <1>5, <2>1
  <2>3. rem2[0] = left[p + 1]
    OBVIOUS
  <2> HIDE DEF rem2, left, w, env, steps, p
  <2>4. Remains(Onward(S), e, rem2, OnwardTo(S, n), r)
    BY <1>1, <1>3, <1>4, <2>1, <2>2, <2>3 DEF Remains, left, L
  <2>5. rem[L] = w \o rem2[L]
    BY <1>1, <1>3, <2>1, <2>2, <2>3 DEF left
  <2> QED BY <1>3, <2>2, <2>4, <2>5 DEF IsConcat, w, L, steps, env, p
<1>6. CASE S # <<>>
  <2> DEFINE O == Onward(S)
             rem2 == [k \in 0..L |-> IF k = L THEN left[p + 1] \o rem[L - 1] ELSE rem[k]]
  <2>1. env = e[L] /\ steps = Concepts[S[L].concept].steps /\ p = S[L].next /\ OnwardTo(S, n) = n
    BY <1>6 DEF EnvAt, StepsAt, PositionAt, OnwardTo
  <2>2. L \in 1..L /\ L - 1 \in 0..L /\ L \in 0..L
    BY <1>2, <1>6
  <2>3. Linked(O, e, r)
    BY <1>1, <1>6, <2>1, LinkedOnward
  <2>4. /\ Len(O) = L
        /\ \A k \in 1..L : /\ O[k].concept = S[k].concept
                           /\ O[k].next = IF k = L THEN S[k].next + 1 ELSE S[k].next
    BY <1>1, <1>6, OnwardIs DEF Linked
  <2>5. rem2[L] = left[p + 1] \o rem[L - 1] /\ \A k \in 0..L : k # L => rem2[k] = rem[k]
    BY <2>2
  <2>6. left[p + 1] \in Seq(SentStep) /\ rem[L - 1] \in Seq(SentStep)
    BY <1>1, <1>3, <1>4, <2>2
  <2>7. rem[L] = left[p] \o rem[L - 1]
    BY <1>1, <2>1, <2>2
  <2> HIDE DEF rem2, O, L, left, w, env, steps, p
  <2>8. left[p + 1] \o rem[L - 1] \in Seq(SentStep)
    BY <2>6, ConcatProperties
  <2>9. \A k \in 0..L : rem2[k] \in Seq(SentStep)
    BY <1>1, <2>5, <2>8 DEF L
  <2>10. \A k \in 1..L : rem2[k] = Remaining(Concepts[O[k].concept].steps, e[k])[O[k].next] \o rem2[k - 1]
    <3> SUFFICES ASSUME NEW k \in 1..L
                 PROVE  rem2[k] = Remaining(Concepts[O[k].concept].steps, e[k])[O[k].next] \o rem2[k - 1]
      OBVIOUS
    <3>1. k - 1 \in 0..L /\ k - 1 # L /\ k \in 0..L
      BY <1>2
    <3>2. rem2[k - 1] = rem[k - 1]
      BY <2>5, <3>1
    <3>3. CASE k = L
      BY <2>1, <2>4, <2>5, <3>2, <3>3 DEF left
    <3>4. CASE k # L
      <4>1. rem[k] = Remaining(Concepts[S[k].concept].steps, e[k])[S[k].next] \o rem[k - 1]
        BY <1>1 DEF L
      <4> QED BY <2>4, <2>5, <3>1, <3>2, <3>4, <4>1
    <3> QED BY <3>3, <3>4
  <2>11. rem2[0] = rem[0]
    BY <1>2, <2>2, <2>5
  <2>12. Remains(O, e, rem2, OnwardTo(S, n), r)
    BY <1>1, <2>1, <2>3, <2>4, <2>9, <2>10, <2>11 DEF Remains
  <2>13. rem[L] = w \o rem2[L]
    <3> DEFINE a == left[p + 1]
               b == rem[L - 1]
    <3>1. w \in Seq(SentStep) /\ a \in Seq(SentStep) /\ b \in Seq(SentStep)
      BY <1>3, <2>6
    <3>2. rem[L] = (w \o a) \o b /\ rem2[L] = a \o b
      BY <1>3, <2>5, <2>7
    <3> HIDE DEF a, b
    <3>3. (w \o a) \o b = w \o (a \o b)
      BY ONLY <3>1, ConcatAssociative, SMTT(30)
    <3> QED BY <3>2, <3>3
  <2> QED BY <1>3, <2>4, <2>12, <2>13 DEF IsConcat, w, L, O, steps, env, p
<1> QED BY <1>5, <1>6

\* The arguments of the next step.
LEMMA ArgsAt ==
  ASSUME project \in Projects, UsesAgree, NEW S, NEW e, Linked(S, e, row), InRows(row),
         NEW p \in 1..Len(StepsAt(S)), NEW k \in 1..Len(StepsAt(S)[p].args)
  PROVE  /\ Fine(ResolvedArg(S, StepsAt(S)[p].args[k]))
         /\ Shown(ResolvedArg(S, StepsAt(S)[p].args[k]), row) = MeantBy(StepsAt(S)[p].args[k], EnvAt(S, e, row))
<1> DEFINE step == StepsAt(S)[p]
           arg == step.args[k]
<1>1. KnownArgs(DOMAIN EnvAt(S, e, row), step)
  BY AtSteps DEF Known
<1>2. arg \in Arg /\ WrittenArg(arg, DOMAIN EnvAt(S, e, row))
  BY <1>1 DEF KnownArgs
<1>3. CASE S = <<>>
  <2>1. EnvAt(S, e, row) = RowEnv(row) /\ DOMAIN EnvAt(S, e, row) = DOMAIN project.dataTable
    BY <1>3, RowSteps DEF EnvAt
  <2> HIDE DEF arg
  <2> QED BY <1>2, <1>3, <2>1, ArgInSpecification DEF arg
<1>4. CASE S # <<>>
  <2>1. Len(S) \in 1..Len(S) /\ EnvAt(S, e, row) = e[Len(S)]
    BY <1>4, StackFacts DEF EnvAt
  <2>2. DOMAIN e[Len(S)] = ParamsOf(S[Len(S)].concept) /\ S[Len(S)].concept \in DOMAIN Concepts
    BY <2>1, FrameSteps DEF InFrame
  <2>3. AgreedStep(step)
    BY <1>4, <2>2, ConceptSteps DEF StepsAt
  <2>4. \A i \in 1..Len(arg.table) : arg.table[i].type = "static"
    BY <2>3 DEF AgreedStep
  <2> HIDE DEF arg
  <2> QED BY <1>2, <1>4, <2>1, <2>2, <2>4, ArgInConcept DEF arg
<1> QED BY <1>3, <1>4

\* The argument leads to the value in a frame on this stack.
LeadsOn(S, e, a, v, r) ==
  \/ Fine(a) /\ Shown(a, r) = v
  \/ a.type = "dynamic" /\ S # <<>> /\ a.value \in ParamsOf(S[Len(S)].concept) /\ v = e[Len(S)][a.value]

\* A concept is resolved with these values, which its lookup leads to.
LEMMA Enters ==
  ASSUME project \in Projects, NEW S, NEW e, NEW rem, NEW n, NEW r, Remains(S, e, rem, n, r),
         NEW use \in Uses, NEW lookup \in [ParamsOf(use[1]) -> Arg],
         \A q \in ParamsOf(use[1]) : LeadsOn(S, e, lookup[q], use[2][ArgAt(use[1], q)], r)
  PROVE  \E e2, rem2 :
           /\ Remains(Append(S, [concept |-> use[1], next |-> 1, lookup |-> lookup]), e2, rem2, n, r)
           /\ IsConcat(rem2[Len(S) + 1], Expansions[use], rem[Len(S)])
<1> DEFINE L == Len(S)
           c == use[1]
           env == Lookup(use[1], use[2])
           frame == [concept |-> c, next |-> 1, lookup |-> lookup]
           T == Append(S, frame)
           e2 == Append(e, env)
           rem2 == [k \in 0..L + 1 |-> IF k = L + 1 THEN Expansions[use] \o rem[L] ELSE rem[k]]
<1>1. /\ Linked(S, e, r) /\ n \in 1..Len(project.steps) + 1
      /\ \A k \in 0..L : rem[k] \in Seq(SentStep)
      /\ rem[0] = Remaining(project.steps, RowEnv(r))[n]
      /\ \A k \in 1..L : rem[k] = Remaining(Concepts[S[k].concept].steps, e[k])[S[k].next] \o rem[k - 1]
  BY DEF Remains
<1>2. L \in Nat /\ (S = <<>> <=> L = 0) /\ S \in Seq(Resolving) /\ e \in Seq(Envs) /\ Len(e) = L
  BY <1>1, StackFacts DEF Linked
<1>3. /\ c \in DOMAIN Concepts /\ env \in [ParamsOf(c) -> Value]
      /\ \A q \in ParamsOf(c) : env[q] = use[2][ArgAt(c, q)]
  BY UseParts, LookupIs
<1>4. /\ env \in [DOMAIN env -> Value] /\ DOMAIN env = ParamsOf(c) /\ Known(DOMAIN env, Concepts[c].steps)
  BY UsedSteps
<1>5. /\ Len(Concepts[c].steps) \in Nat
      /\ Remaining(Concepts[c].steps, env)[1] = Expansions[use]
      /\ Expansions[use] \in Seq(SentStep)
  <2>1. Expansions[use] = AllWrittenOut(Concepts[c].steps, env, Expansions) /\ Expansions[use] \in Seq(SentStep)
    BY ExpansionsAre DEF ExpansionBy
  <2> HIDE DEF env
  <2> QED BY <1>4, <2>1, RemainingIs
<1>6. frame \in Resolving /\ frame.concept = c /\ frame.next = 1 /\ frame.lookup = lookup
  BY <1>3 DEF Resolving
<1>7. InFrame(frame, env)
  <2> HIDE DEF frame, env, c
  <2>1. 1 \in 1..Len(Concepts[c].steps) + 1
    BY <1>5
  <2>2. lookup \in [ParamsOf(c) -> Arg]
    BY DEF c
  <2> QED BY <1>3, <1>6, <2>1, <2>2 DEF InFrame
<1>8. env \in Envs
  BY <1>3 DEF Envs
<1> HIDE DEF frame, env
<1>9. /\ T \in Seq(Resolving) /\ Len(T) = L + 1 /\ T[L + 1] = frame
      /\ \A k \in 1..L : T[k] = S[k]
  BY <1>2, <1>6, AppendProperties
<1>10. /\ e2 \in Seq(Envs) /\ Len(e2) = L + 1 /\ e2[L + 1] = env
       /\ \A k \in 1..L : e2[k] = e[k]
  BY <1>2, <1>8, AppendProperties
<1>11. /\ rem2[L + 1] = Expansions[use] \o rem[L]
       /\ \A k \in 0..L : rem2[k] = rem[k]
  <2> HIDE DEF L
  <2>1. L + 1 \in 0..L + 1 /\ \A k \in 0..L : k \in 0..L + 1 /\ k # L + 1
    BY <1>2
  <2> QED BY <2>1
<1> HIDE DEF T, e2, rem2, L, c
<1>12. ASSUME NEW k \in 1..L + 1
       PROVE  /\ InFrame(T[k], e2[k])
              /\ \A q \in ParamsOf(T[k].concept) : Leads(T, e2, k, q, r)
  <2>1. CASE k = L + 1
    <3>1. T[k] = frame /\ e2[k] = env
      BY <1>9, <1>10, <2>1
    <3>2. ASSUME NEW q \in ParamsOf(c) PROVE Leads(T, e2, k, q, r)
      <4>1. LeadsOn(S, e, lookup[q], env[q], r)
        BY <1>3 DEF c
      <4>2. CASE Fine(lookup[q]) /\ Shown(lookup[q], r) = env[q]
        BY <1>6, <3>1, <4>2 DEF Leads
      <4>3. CASE /\ lookup[q].type = "dynamic" /\ S # <<>>
                 /\ lookup[q].value \in ParamsOf(S[L].concept) /\ env[q] = e[L][lookup[q].value]
        <5>1. k - 1 = L /\ k > 1 /\ L \in 1..L
          BY <1>2, <2>1, <4>3
        <5>2. T[k - 1] = S[L] /\ e2[k - 1] = e[L]
          BY <1>9, <1>10, <5>1
        <5> QED BY <1>6, <3>1, <4>3, <5>1, <5>2 DEF Leads
      <4> QED BY <4>1, <4>2, <4>3 DEF LeadsOn, L
    <3> QED BY <1>6, <1>7, <3>1, <3>2
  <2>2. CASE k # L + 1
    <3>1. k \in 1..L /\ (k > 1 => k - 1 \in 1..L)
      BY <1>2, <2>2
    <3>2. T[k] = S[k] /\ e2[k] = e[k] /\ (k > 1 => T[k - 1] = S[k - 1] /\ e2[k - 1] = e[k - 1])
      BY <1>9, <1>10, <3>1
    <3>3. InFrame(S[k], e[k]) /\ \A q \in ParamsOf(S[k].concept) : Leads(S, e, k, q, r)
      BY <1>1, <3>1 DEF Linked, L
    <3> QED BY <3>2, <3>3 DEF Leads
  <2> QED BY <2>1, <2>2
<1>13. Linked(T, e2, r)
  <2>1. T \in Seq(Resolving) /\ e2 \in Seq(Envs) /\ Len(e2) = Len(T)
    BY <1>9, <1>10
  <2>2. 1..Len(T) = 1..L + 1
    BY <1>9
  <2>3. \A k \in 1..Len(T) : InFrame(T[k], e2[k]) /\ \A q \in ParamsOf(T[k].concept) : Leads(T, e2, k, q, r)
    BY <1>12, <2>2
  <2> QED BY ONLY <2>1, <2>3, Zenon DEF Linked
<1>14. \A k \in 0..L + 1 : rem2[k] \in Seq(SentStep)
  <2>1. L \in 0..L /\ rem[L] \in Seq(SentStep)
    BY <1>1, <1>2
  <2>2. Expansions[use] \o rem[L] \in Seq(SentStep)
    BY <1>5, <2>1, ConcatProperties
  <2>3. \A k \in 0..L + 1 : k # L + 1 => k \in 0..L
    BY <1>2
  <2> QED BY <1>1, <1>11, <2>2, <2>3
<1>15. \A k \in 1..L + 1 : rem2[k] = Remaining(Concepts[T[k].concept].steps, e2[k])[T[k].next] \o rem2[k - 1]
  <2> SUFFICES ASSUME NEW k \in 1..L + 1
               PROVE  rem2[k] = Remaining(Concepts[T[k].concept].steps, e2[k])[T[k].next] \o rem2[k - 1]
    OBVIOUS
  <2>1. CASE k = L + 1
    <3>1. k - 1 = L /\ L \in 0..L
      BY <1>2, <2>1
    <3> QED BY <1>5, <1>6, <1>9, <1>10, <1>11, <2>1, <3>1
  <2>2. CASE k # L + 1
    <3>1. k \in 1..L /\ k \in 0..L /\ k - 1 \in 0..L
      BY <1>2, <2>2
    <3>2. rem[k] = Remaining(Concepts[S[k].concept].steps, e[k])[S[k].next] \o rem[k - 1]
      BY <1>1, <3>1
    <3>3. rem2[k] = rem[k] /\ rem2[k - 1] = rem[k - 1] /\ T[k] = S[k] /\ e2[k] = e[k]
      BY <1>9, <1>10, <1>11, <3>1
    <3> QED BY <3>2, <3>3
  <2> QED BY <2>1, <2>2
<1>16. rem2[0] = rem[0]
  BY <1>2, <1>11
<1>17. Remains(T, e2, rem2, n, r)
  BY <1>1, <1>9, <1>13, <1>14, <1>15, <1>16 DEF Remains
<1> QED BY <1>11, <1>17 DEF IsConcat, T, L, frame, c

LEMMA FrontIs ==
  ASSUME NEW A, NEW s \in Seq(A), s # <<>>
  PROVE  Front(s) \in Seq(A) /\ Len(Front(s)) = Len(s) - 1 /\ \A k \in 1..Len(s) - 1 : Front(s)[k] = s[k]
<1> DEFINE n == Len(s) - 1
<1>1. Len(s) \in Nat /\ Len(s) # 0 /\ \A k \in 1..Len(s) : s[k] \in A
  BY ElementOfSeq, EmptySeq, LenProperties
<1>2. n \in Nat /\ 1 \in Int /\ n \in Int /\ \A k \in 1..n : s[k] \in A
  BY <1>1
<1>3. Front(s) = SubSeq(s, 1, n)
  BY DEF Front
<1> HIDE DEF n
<1>4. n - 1 + 1 = n /\ (IF 1 <= n THEN n - 1 + 1 ELSE 0) = n /\ \A k \in 1..n : 1 + k - 1 = k
  BY <1>2
<1>5. /\ SubSeq(s, 1, n) \in Seq(A)
      /\ Len(SubSeq(s, 1, n)) = IF 1 <= n THEN n - 1 + 1 ELSE 0
      /\ \A k \in 1..n - 1 + 1 : SubSeq(s, 1, n)[k] = s[1 + k - 1]
  BY <1>2, SubSeqProperties
<1> QED BY <1>3, <1>4, <1>5 DEF n

\* A concept has been resolved.
LEMMA Leaves ==
  ASSUME project \in Projects, NEW S, NEW e, NEW rem, NEW n, NEW r, NEW out, ResolvesAll(S, e, rem, n, r, out),
         InRows(r), S # <<>>, PositionAt(S, n) \notin DOMAIN StepsAt(S)
  PROVE  \E e2 : ResolvesAll(Front(S), e2, rem, n, r, out)
<1> DEFINE L == Len(S)
           T == Front(S)
           e2 == Front(e)
<1>1. /\ Linked(S, e, r) /\ n \in 1..Len(project.steps) + 1
      /\ \A k \in 0..L : rem[k] \in Seq(SentStep)
      /\ rem[0] = Remaining(project.steps, RowEnv(r))[n]
      /\ \A k \in 1..L : rem[k] = Remaining(Concepts[S[k].concept].steps, e[k])[S[k].next] \o rem[k - 1]
      /\ out \in Seq(SentStep)
      /\ AllWrittenOut(project.steps, RowEnv(r), Expansions) = out \o rem[L]
  BY DEF ResolvesAll, Remains
<1>2. L \in Nat /\ L # 0 /\ L \in 1..L /\ S \in Seq(Resolving) /\ e \in Seq(Envs) /\ Len(e) = L /\ e # <<>>
  <2>1. L \in Nat /\ (S = <<>> <=> L = 0) /\ S \in Seq(Resolving) /\ e \in Seq(Envs) /\ Len(e) = L
    BY <1>1, StackFacts DEF Linked
  <2> QED BY <2>1, EmptySeq
<1>3. T \in Seq(Resolving) /\ Len(T) = L - 1 /\ \A k \in 1..L - 1 : T[k] = S[k]
  BY <1>2, FrontIs
<1>4. e2 \in Seq(Envs) /\ Len(e2) = L - 1 /\ \A k \in 1..L - 1 : e2[k] = e[k]
  BY <1>2, FrontIs
<1>5. rem[L] = rem[L - 1]
  <2> DEFINE steps == Concepts[S[L].concept].steps
  <2>1. InFrame(S[L], e[L]) /\ e[L] \in [DOMAIN e[L] -> Value] /\ Known(DOMAIN e[L], steps)
    BY <1>1, <1>2, FrameSteps
  <2>2. StepsAt(S) = steps /\ PositionAt(S, n) = S[L].next
    BY DEF StepsAt, PositionAt
  <2>3. S[L].next \in 1..Len(steps) + 1
    BY <2>1 DEF InFrame
  <2> HIDE DEF steps
  <2>4. Len(steps) \in Nat /\ DOMAIN steps = 1..Len(steps) /\ Remaining(steps, e[L])[Len(steps) + 1] = <<>>
    BY <2>1, RemainingIs
  <2>5. S[L].next = Len(steps) + 1
    BY <2>2, <2>3, <2>4
  <2>6. rem[L] = <<>> \o rem[L - 1]
    BY <1>1, <1>2, <2>4, <2>5 DEF steps
  <2>7. L - 1 \in 0..L
    BY <1>2
  <2>8. rem[L - 1] \in Seq(SentStep)
    BY <1>1, <2>7
  <2> QED BY <2>6, <2>8, ConcatEmptySeq
<1> HIDE DEF T, e2, L
<1>6. ASSUME NEW k \in 1..L - 1
      PROVE  /\ InFrame(T[k], e2[k])
             /\ \A q \in ParamsOf(T[k].concept) : Leads(T, e2, k, q, r)
  <2>1. k \in 1..L /\ (k > 1 => k - 1 \in 1..L - 1)
    BY <1>2
  <2>2. T[k] = S[k] /\ e2[k] = e[k] /\ (k > 1 => T[k - 1] = S[k - 1] /\ e2[k - 1] = e[k - 1])
    BY <1>3, <1>4, <2>1
  <2>3. InFrame(S[k], e[k]) /\ \A q \in ParamsOf(S[k].concept) : Leads(S, e, k, q, r)
    BY <1>1, <2>1 DEF Linked, L
  <2> QED BY <2>2, <2>3 DEF Leads
<1>7. Linked(T, e2, r)
  <2>1. T \in Seq(Resolving) /\ e2 \in Seq(Envs) /\ Len(e2) = Len(T)
    BY <1>3, <1>4
  <2>2. 1..Len(T) = 1..L - 1
    BY <1>3
  <2>3. \A k \in 1..Len(T) : InFrame(T[k], e2[k]) /\ \A q \in ParamsOf(T[k].concept) : Leads(T, e2, k, q, r)
    BY <1>6, <2>2
  <2> QED BY ONLY <2>1, <2>3, Zenon DEF Linked
<1>8. \A k \in 0..L - 1 : rem[k] \in Seq(SentStep)
  BY <1>1, <1>2
<1>9. \A k \in 1..L - 1 : rem[k] = Remaining(Concepts[T[k].concept].steps, e2[k])[T[k].next] \o rem[k - 1]
  <2>1. \A k \in 1..L - 1 : k \in 1..L
    BY <1>2
  <2> QED BY <1>1, <1>3, <1>4, <2>1
<1>10. Remains(T, e2, rem, n, r)
  BY <1>1, <1>3, <1>7, <1>8, <1>9 DEF Remains
<1>11. ResolvesAll(T, e2, rem, n, r, out)
  BY <1>1, <1>3, <1>5, <1>10 DEF ResolvesAll
<1> QED BY <1>11 DEF T

-----------------------------------------------------------------------------
(* The lookups.                                                            *)

SharedLookups == [DOMAIN Concepts -> UNION {[ParamsOf(c) -> Arg \cup {NoArg}] : c \in DOMAIN Concepts}]

\* The lookup of the concept that the step uses has its arguments.
Tells(lk, step) == IsConcept(step) => lk[step.value] = Lookup(step.value, step.args)

LEMMA LookupTyped ==
  ASSUME project \in Projects, NEW names, NEW step, KnownArgs(names, step), IsConcept(step)
  PROVE  /\ step.value \in DOMAIN Concepts
         /\ Lookup(step.value, step.args) \in [ParamsOf(step.value) -> Arg]
         /\ \A q \in ParamsOf(step.value) :
              /\ ArgAt(step.value, q) \in 1..Len(step.args)
              /\ Lookup(step.value, step.args)[q] = step.args[ArgAt(step.value, q)]
<1>1. step.value \in DOMAIN Concepts /\ Len(step.args) = Len(Concepts[step.value].params)
  BY DEF IsConcept, KnownArgs
<1>2. \A q \in ParamsOf(step.value) :
        /\ ArgAt(step.value, q) \in 1..Len(step.args)
        /\ Lookup(step.value, step.args)[q] = step.args[ArgAt(step.value, q)]
  BY <1>1, ParamAt, LookupIs
<1>3. \A i \in 1..Len(step.args) : step.args[i] \in Arg
  BY DEF KnownArgs
<1>4. Lookup(step.value, step.args) = [q \in ParamsOf(step.value) |-> step.args[ArgAt(step.value, q)]]
  BY LookupIs
<1>5. \A q \in ParamsOf(step.value) : step.args[ArgAt(step.value, q)] \in Arg
  BY <1>2, <1>3
<1> QED BY <1>1, <1>2, <1>4, <1>5

\* A step writes its arguments, and nothing that another tells.
LEMMA NestedTells ==
  ASSUME project \in Projects, UsesAgree, NEW lk \in SharedLookups, NEW names, NEW t \in StepsInConcepts,
         KnownArgs(names, t), AgreedStep(t)
  PROVE  /\ NestedArgs(lk, t) \in SharedLookups /\ Tells(NestedArgs(lk, t), t)
         /\ \A s \in StepsInConcepts : Tells(lk, s) => Tells(NestedArgs(lk, t), s)
<1>1. CASE ~IsConcept(t)
  BY <1>1 DEF NestedArgs, Tells
<1>2. CASE IsConcept(t)
  <2> DEFINE plain == [i \in DOMAIN t.args |-> [t.args[i] EXCEPT !.table = <<>>]]
             new == Lookup(t.value, t.args)
  <2>1. plain = t.args
    <3>1. t.args \in Seq(Arg)
      BY DEF KnownArgs, UsedStep
    <3>2. DOMAIN t.args = 1..Len(t.args) /\ t.args = [i \in DOMAIN t.args |-> t.args[i]]
      BY <3>1, LenProperties
    <3>3. ASSUME NEW i \in DOMAIN t.args PROVE [t.args[i] EXCEPT !.table = <<>>] = t.args[i]
      <4> DEFINE a == t.args[i]
      <4>1. a \in Arg /\ a.table = <<>>
        BY <1>2, <3>1, <3>2, ElementOfSeq DEF AgreedStep
      <4> HIDE DEF a
      <4>2. [a EXCEPT !.table = <<>>] = a
        BY <4>1 DEF Arg
      <4> QED BY <4>2 DEF a
    <3> QED BY <3>2, <3>3
  <2>2. NestedArgs(lk, t) = [lk EXCEPT ![t.value] = Lookup(t.value, plain)]
    BY <1>2 DEF NestedArgs
  <2> HIDE DEF plain
  <2>3. NestedArgs(lk, t) = [lk EXCEPT ![t.value] = new]
    BY <2>1, <2>2
  <2>4. t.value \in DOMAIN Concepts /\ new \in [ParamsOf(t.value) -> Arg]
    BY <1>2, LookupTyped
  <2>5. new \in [ParamsOf(t.value) -> Arg \cup {NoArg}]
    BY <2>4
  <2> DEFINE V == UNION {[ParamsOf(c) -> Arg \cup {NoArg}] : c \in DOMAIN Concepts}
  <2>6. new \in V
    BY <2>4, <2>5
  <2> HIDE DEF V, new
  <2>7. lk \in [DOMAIN Concepts -> V]
    BY DEF SharedLookups, V
  <2>8. /\ NestedArgs(lk, t) \in [DOMAIN Concepts -> V]
        /\ \A c \in DOMAIN Concepts : NestedArgs(lk, t)[c] = IF c = t.value THEN new ELSE lk[c]
    BY <2>3, <2>4, <2>6, <2>7
  <2>9. Tells(NestedArgs(lk, t), t)
    BY <2>4, <2>8 DEF Tells, new
  <2>10. ASSUME NEW s \in StepsInConcepts, Tells(lk, s) PROVE Tells(NestedArgs(lk, t), s)
    <3> SUFFICES ASSUME IsConcept(s) PROVE NestedArgs(lk, t)[s.value] = Lookup(s.value, s.args)
      BY DEF Tells
    <3>1. s.value \in DOMAIN Concepts
      BY DEF IsConcept
    <3>2. CASE s.value = t.value
      <4>1. s.args = t.args
        BY <3>2 DEF UsesAgree
      <4> QED BY <2>8, <3>1, <3>2, <4>1 DEF new
    <3>3. CASE s.value # t.value
      BY <2>8, <2>10, <3>1, <3>3 DEF Tells
    <3> QED BY <3>2, <3>3
  <2> QED BY <2>8, <2>9, <2>10 DEF SharedLookups, V
<1> QED BY <1>1, <1>2

\* The lookups after all steps of a concept.
ReadAll(c, lk) ==
  LET steps == Concepts[c].steps
      after[n \in 0..Len(steps)] == IF n = 0 THEN lk ELSE NestedArgs(after[n - 1], steps[n])
  IN  after[Len(steps)]

LEMMA ReadingTells ==
  ASSUME project \in Projects, UsesAgree, NEW lk \in SharedLookups, NEW c \in DOMAIN Concepts
  PROVE  /\ ReadAll(c, lk) \in SharedLookups
         /\ \A i \in 1..Len(Concepts[c].steps) : Tells(ReadAll(c, lk), Concepts[c].steps[i])
         /\ \A s \in StepsInConcepts : Tells(lk, s) => Tells(ReadAll(c, lk), s)
<1> DEFINE steps == Concepts[c].steps
           L == Len(steps)
           V == SharedLookups
           G == [p \in (1..L) \X V |-> NestedArgs(p[2], steps[p[1]])]
<1>1. L \in Nat
  <2>1. Known(ParamsOf(c), steps)
    BY ProjectSteps
  <2> QED BY <2>1, LenProperties DEF Known
<1>2. ASSUME NEW n \in 1..L
      PROVE  steps[n] \in StepsInConcepts /\ KnownArgs(ParamsOf(c), steps[n]) /\ AgreedStep(steps[n])
  BY ConceptSteps
<1> HIDE DEF steps, L
<1>3. ASSUME NEW n \in 1..L, NEW v \in V
      PROVE  /\ NestedArgs(v, steps[n]) \in V /\ Tells(NestedArgs(v, steps[n]), steps[n])
             /\ \A s \in StepsInConcepts : Tells(v, s) => Tells(NestedArgs(v, steps[n]), s)
  BY <1>2, NestedTells
<1>4. \A n \in 1..L : \A v \in V : G[<<n, v>>] = NestedArgs(v, steps[n])
  <2> HIDE DEF V
  <2> QED OBVIOUS
<1> HIDE DEF G, V
<1>5. PICK f : Stepwise(f, V, lk, L, G)
  <2>1. StaysIn(V, L, G)
    BY <1>3, <1>4 DEF StaysIn
  <2>2. lk \in V
    BY DEF V
  <2> QED BY ONLY <1>1, <2>1, <2>2, Iteration
<1>6. f = [n \in 0..L |-> IF n = 0 THEN lk ELSE NestedArgs(f[n - 1], steps[n])]
  <2>1. f \in [0..L -> V] /\ f = [n \in 0..L |-> IF n = 0 THEN lk ELSE G[<<n, f[n - 1]>>]]
    BY <1>5 DEF Stepwise
  <2>2. \A n \in 0..L : n # 0 => n \in 1..L /\ f[n - 1] \in V
    BY <1>1, <2>1
  <2>3. \A n \in 0..L : f[n] = IF n = 0 THEN lk ELSE NestedArgs(f[n - 1], steps[n])
    BY <1>4, <2>1, <2>2
  <2> QED BY <2>1, <2>3
<1> DEFINE g == CHOOSE a : a = [n \in 0..L |-> IF n = 0 THEN lk ELSE NestedArgs(a[n - 1], steps[n])]
<1>7. g = [n \in 0..L |-> IF n = 0 THEN lk ELSE NestedArgs(g[n - 1], steps[n])]
  BY <1>6
<1>8. ReadAll(c, lk) = g[L]
  BY DEF ReadAll, steps, L
<1> HIDE DEF g
<1>9. g[0] = lk /\ \A n \in 1..L : g[n] = NestedArgs(g[n - 1], steps[n])
  BY <1>1, <1>7
<1> DEFINE Read(n) ==
             /\ g[n] \in V
             /\ \A i \in 1..n : Tells(g[n], steps[i])
             /\ \A s \in StepsInConcepts : Tells(lk, s) => Tells(g[n], s)
           T == {n \in 0..L : ~Read(n)}
<1>10. T = {}
  <2> SUFFICES ASSUME T # {} PROVE FALSE
    OBVIOUS
  <2>1. T \in SUBSET Nat
    OBVIOUS
  <2>2. PICK n \in T : \A m \in T : n <= m
    <3> HIDE DEF T
    <3> QED BY <2>1, Smallest
  <2>3. n \in 0..L /\ n \in Nat /\ ~Read(n)
    <3> HIDE DEF Read
    <3> QED BY <2>2
  <2>4. CASE n = 0
    <3>1. g[0] \in V
      BY <1>9 DEF V
    <3> QED BY <1>9, <2>3, <2>4, <3>1
  <2>5. CASE n # 0
    <3> DEFINE m == n - 1
    <3>1. n \in 1..L /\ m \in 0..L /\ ~(n <= m) /\ m \in Nat /\ \A i \in 1..n : i # n => i \in 1..m
      BY <1>1, <2>3, <2>5
    <3>2. Read(m)
      <4> HIDE DEF Read, m
      <4> QED BY <2>2, <3>1
    <3>3. g[n] = NestedArgs(g[m], steps[n])
      BY <1>9, <3>1
    <3> HIDE DEF m
    <3>4. /\ g[n] \in V /\ Tells(g[n], steps[n])
          /\ \A s \in StepsInConcepts : Tells(g[m], s) => Tells(g[n], s)
      BY <1>3, <3>1, <3>2, <3>3
    <3>5. \A i \in 1..n : Tells(g[n], steps[i])
      <4>1. \A i \in 1..n : i \in 1..L
        BY <1>1, <3>1
      <4>2. \A i \in 1..n : steps[i] \in StepsInConcepts
        BY <1>2, <4>1
      <4> QED BY <3>1, <3>2, <3>4, <4>2
    <3> QED BY <2>3, <3>2, <3>4, <3>5
  <2> QED BY <2>4, <2>5
<1>11. Read(L)
  <2>1. L \in 0..L
    BY <1>1
  <2> HIDE DEF Read
  <2> QED BY <1>10, <2>1
<1> QED BY <1>8, <1>11 DEF V, L, steps

-----------------------------------------------------------------------------
(* The steps.                                                              *)

ReadInv(u, lk) ==
  /\ lk \in SharedLookups
  /\ \A c \in (DOMAIN Concepts) \ u : \A i \in 1..Len(Concepts[c].steps) : Tells(lk, Concepts[c].steps[i])

SpecificationLookups ==
  [i \in DOMAIN project.steps |->
    IF IsConcept(project.steps[i]) THEN PopulateConceptLookup(project.steps[i]) ELSE <<>>]

ResolutionInv(stage, u, own, r, n, S, out) ==
  /\ stage \in {"read", "execute", "done"}
  /\ r \in Nat /\ r > 0
  /\ stage = "read" => r = 1 /\ n = 1 /\ S = <<>> /\ out = <<>>
  /\ stage # "read" => u = {} /\ own = SpecificationLookups
  /\ stage = "execute" /\ RowIsThere(r) => \E e, rem : ResolvesAll(S, e, rem, n, r, out)

ArgumentsInv ==
  /\ project \in Projects
  /\ UsesAgree =>
       /\ ReadInv(unread, lookups)
       /\ ResolutionInv(resolution, unread, stepLookups, row, next, resolving, sent)

\* The invariants are about the project, which stays.
LEMMA SameProject ==
  ASSUME project' = project
  PROVE  /\ UsesAgree' <=> UsesAgree
         /\ \A u, lk : ReadInv(u, lk)' <=> ReadInv(u, lk)
         /\ \A stage, u, own, r, n, S, out :
              ResolutionInv(stage, u, own, r, n, S, out)' <=> ResolutionInv(stage, u, own, r, n, S, out)
<1>1. Concepts' = Concepts /\ \A step : IsConcept(step)' <=> IsConcept(step)
  BY DEF Concepts, IsConcept
<1>2. \A c : ParamsOf(c)' = ParamsOf(c)
  BY <1>1 DEF ParamsOf
<1>3. \A c, args : Lookup(c, args)' = Lookup(c, args)
  BY <1>1, <1>2 DEF Lookup
<1>4. \A step, env, of : WrittenOut(step, env, of)' = WrittenOut(step, env, of)
  BY <1>1 DEF WrittenOut
<1>5. \A steps, env, of : AllWrittenOut(steps, env, of)' = AllWrittenOut(steps, env, of)
  BY <1>4 DEF AllWrittenOut
<1>6. Uses' = Uses
  BY <1>1 DEF Uses
<1>7. Expansions' = Expansions
  BY <1>1, <1>3, <1>5, <1>6 DEF Expansions
<1>8. \A steps, env, of : Each(steps, env, of)' = Each(steps, env, of)
  BY <1>4 DEF Each
<1>9. \A steps, env : Remaining(steps, env)' = Remaining(steps, env)
  BY <1>7, <1>8 DEF Remaining
<1>10. \A r : RowEnv(r)' = RowEnv(r) /\ (RowIsThere(r)' <=> RowIsThere(r))
  BY DEF RowEnv, RowIsThere
<1>11. \A a, r : (Fine(a)' <=> Fine(a)) /\ Shown(a, r)' = Shown(a, r)
  BY DEF Fine, Shown
<1>12. Resolving' = Resolving /\ Envs' = Envs
  BY <1>1, <1>2 DEF Resolving, Envs
<1>13. \A S, e, k, q, r : Leads(S, e, k, q, r)' <=> Leads(S, e, k, q, r)
  BY <1>2, <1>11 DEF Leads
<1>14. \A f, env : InFrame(f, env)' <=> InFrame(f, env)
  BY <1>1, <1>2 DEF InFrame
<1>15. \A S, e, r : Linked(S, e, r)' <=> Linked(S, e, r)
  BY <1>2, <1>12, <1>13, <1>14 DEF Linked
<1>16. \A S, e, rem, n, r : Remains(S, e, rem, n, r)' <=> Remains(S, e, rem, n, r)
  <2> SUFFICES ASSUME NEW S, NEW e, NEW rem, NEW n, NEW r
               PROVE  Remains(S, e, rem, n, r)' <=> Remains(S, e, rem, n, r)
    OBVIOUS
  <2>1. Remaining(project.steps, RowEnv(r))' = Remaining(project.steps, RowEnv(r))
    BY <1>9, <1>10
  <2>2. \A k : Remaining(Concepts[S[k].concept].steps, e[k])' = Remaining(Concepts[S[k].concept].steps, e[k])
    BY <1>1, <1>9
  <2>3. SentStep' = SentStep
    BY DEF SentStep
  <2> QED BY <1>15, <2>1, <2>2, <2>3 DEF Remains
<1>17. \A S, e, rem, n, r, out : ResolvesAll(S, e, rem, n, r, out)' <=> ResolvesAll(S, e, rem, n, r, out)
  BY <1>5, <1>7, <1>10, <1>16 DEF ResolvesAll
<1>18. SpecificationLookups' = SpecificationLookups
  BY <1>1, <1>3 DEF SpecificationLookups, PopulateConceptLookup
<1>19. \A lk, step : Tells(lk, step)' <=> Tells(lk, step)
  BY <1>1, <1>3 DEF Tells
<1>20. SharedLookups' = SharedLookups
  BY <1>1, <1>2 DEF SharedLookups
<1>21. UsesAgree' <=> UsesAgree
  BY <1>1 DEF UsesAgree, StepsInConcepts
<1>22. \A u, lk : ReadInv(u, lk)' <=> ReadInv(u, lk)
  BY <1>1, <1>19, <1>20 DEF ReadInv
<1>23. \A stage, u, own, r, n, S, out :
         ResolutionInv(stage, u, own, r, n, S, out)' <=> ResolutionInv(stage, u, own, r, n, S, out)
  BY <1>10, <1>17, <1>18 DEF ResolutionInv
<1> QED BY <1>21, <1>22, <1>23

-----------------------------------------------------------------------------
(* What the actions keep.                                                  *)

LEMMA WhereItIs ==
  /\ StepsThere = StepsAt(resolving) /\ Position = PositionAt(resolving, next)
  /\ (IF resolving = <<>> THEN next + 1 ELSE next) = OnwardTo(resolving, next)
BY DEF StepsThere, Position, StepsAt, PositionAt, OnwardTo, Last

LEMMA ExecutingRow ==
  ASSUME project \in Projects, Executing, row \in Nat, row > 0
  PROVE  resolution = "execute" /\ RowIsThere(row) /\ InRows(row)
<1>1. resolution = "execute" /\ RowIsThere(row)
  BY DEF Executing, RowIsThere
<1> QED BY <1>1, RowsThere

\* The next step, where it is, and its arguments.
LEMMA NextStepIs ==
  ASSUME project \in Projects, UsesAgree, NEW e, Linked(resolving, e, row), InRows(row), There
  PROVE  /\ PositionAt(resolving, next) \in 1..Len(StepsAt(resolving))
         /\ Step = StepsAt(resolving)[PositionAt(resolving, next)]
         /\ KnownArgs(DOMAIN EnvAt(resolving, e, row), Step)
         /\ EnvAt(resolving, e, row) \in [DOMAIN EnvAt(resolving, e, row) -> Value]
         /\ DOMAIN ResolvedArgs = 1..Len(Step.args)
         /\ \A k \in 1..Len(Step.args) :
              /\ ResolvedArgs[k] = ResolvedArg(resolving, Step.args[k])
              /\ Fine(ResolvedArgs[k])
              /\ Shown(ResolvedArgs[k], row) = Meant(Step.args, EnvAt(resolving, e, row))[k]
<1> DEFINE S == resolving
           p == PositionAt(S, next)
           env == EnvAt(S, e, row)
<1>1. env \in [DOMAIN env -> Value] /\ Known(DOMAIN env, StepsAt(S))
  BY AtSteps
<1>2. p \in 1..Len(StepsAt(S)) /\ Step = StepsAt(S)[p]
  <2>1. DOMAIN StepsAt(S) = 1..Len(StepsAt(S))
    BY <1>1, LenProperties DEF Known
  <2> QED BY <2>1, WhereItIs DEF There, Step
<1>3. KnownArgs(DOMAIN env, Step)
  BY <1>1, <1>2 DEF Known
<1>4. ASSUME NEW k \in 1..Len(Step.args)
      PROVE  /\ Fine(ResolvedArg(S, Step.args[k]))
             /\ Shown(ResolvedArg(S, Step.args[k]), row) = MeantBy(Step.args[k], env)
  BY <1>2, ArgsAt
<1> HIDE DEF env, p
<1>5. /\ DOMAIN Step.args = 1..Len(Step.args)
      /\ \A k \in 1..Len(Step.args) : Meant(Step.args, env)[k] = MeantBy(Step.args[k], env)
  BY <1>1, <1>3, ArgsMeant
<1>6. DOMAIN ResolvedArgs = 1..Len(Step.args) /\ \A k \in 1..Len(Step.args) : ResolvedArgs[k] = ResolvedArg(S, Step.args[k])
  BY <1>5 DEF ResolvedArgs
<1> QED BY <1>1, <1>2, <1>3, <1>4, <1>5, <1>6 DEF env, p

LEMMA StepSends ==
  ASSUME project \in Projects, UsesAgree, NEW e, NEW rem, InRows(row),
         ResolvesAll(resolving, e, rem, next, row, sent), ResolveStep
  PROVE  /\ UNCHANGED <<project, unread, lookups, stepLookups, row, resolution>>
         /\ \E rem2 : ResolvesAll(resolving', e, rem2, next', row, sent')
<1> DEFINE S == resolving
           env == EnvAt(S, e, row)
           L == Len(S)
           w == WrittenOut(Step, env, Expansions)
<1>1. /\ Remains(S, e, rem, next, row) /\ Linked(S, e, row) /\ sent \in Seq(SentStep)
      /\ AllWrittenOut(project.steps, RowEnv(row), Expansions) = sent \o rem[L]
  BY DEF ResolvesAll, Remains
<1>2. There /\ ~IsConcept(Step)
  BY DEF ResolveStep
<1>3. /\ PositionAt(S, next) \in 1..Len(StepsAt(S)) /\ Step = StepsAt(S)[PositionAt(S, next)]
      /\ KnownArgs(DOMAIN env, Step) /\ env \in [DOMAIN env -> Value]
      /\ DOMAIN ResolvedArgs = 1..Len(Step.args)
      /\ \A k \in 1..Len(Step.args) :
           Fine(ResolvedArgs[k]) /\ Shown(ResolvedArgs[k], row) = Meant(Step.args, env)[k]
  BY <1>1, <1>2, NextStepIs
<1>4. PICK rem2 : /\ Remains(Onward(S), e, rem2, OnwardTo(S, next), row) /\ Len(Onward(S)) = L
                  /\ w \in Seq(SentStep) /\ IsConcat(rem[L], w, rem2[L])
  <2>1. PositionAt(S, next) \in 1..Len(StepsAt(S)) /\ Step = StepsAt(S)[PositionAt(S, next)]
    BY <1>3
  <2>2. Remains(S, e, rem, next, row)
    BY <1>1
  <2> HIDE DEF S
  <2> QED BY ONLY project \in Projects, InRows(row), <2>1, <2>2, GoesOn
<1> HIDE DEF env, w, L
<1>5. DOMAIN Meant(Step.args, env) = 1..Len(Step.args) /\ Meant(Step.args, env) \in Seq(Value)
  <2>1. Meant(Step.args, env) \in Seq(Value) /\ Len(Meant(Step.args, env)) = Len(Step.args)
    BY <1>3, ArgsMeant
  <2> QED BY <2>1, LenProperties
<1> DEFINE ps == [i \in DOMAIN ResolvedArgs |-> Parameter(ResolvedArgs[i])]
           x == [step |-> Step.value, parameters |-> ps]
<1>6. ps = Meant(Step.args, env)
  <2>1. \A k \in 1..Len(Step.args) : Parameter(ResolvedArgs[k]) = Meant(Step.args, env)[k]
    BY <1>3, FineShown
  <2>2. ps = [k \in 1..Len(Step.args) |-> Meant(Step.args, env)[k]]
    BY <1>3, <2>1
  <2>3. Meant(Step.args, env) = [k \in 1..Len(Step.args) |-> Meant(Step.args, env)[k]]
    <3> DEFINE m == Meant(Step.args, env)
    <3>1. m = [k \in DOMAIN m |-> m[k]]
      BY <1>5
    <3> HIDE DEF m
    <3>2. DOMAIN m = 1..Len(Step.args)
      BY <1>5 DEF m
    <3>3. m = [k \in 1..Len(Step.args) |-> m[k]]
      BY <3>1, <3>2
    <3> QED BY <3>3 DEF m
  <2> QED BY <2>2, <2>3
<1>7. \A i \in DOMAIN ResolvedArgs : ~Panics(ResolvedArgs[i])
  BY <1>3, FineShown
<1>8. /\ sent' = Append(sent, x) /\ resolving' = Onward(S) /\ next' = OnwardTo(S, next)
      /\ UNCHANGED <<project, unread, lookups, stepLookups, row, resolution>>
  BY <1>7, WhereItIs DEF ResolveStep
<1>9. w = <<x>>
  BY <1>2, <1>6 DEF w, WrittenOut
<1>10. x \in SentStep
  <2>1. Step.value \in STRING
    BY <1>3 DEF KnownArgs, UsedStep
  <2> HIDE DEF ps
  <2> QED BY <1>5, <1>6, <2>1 DEF SentStep
<1> HIDE DEF x
<1>11. sent' \in Seq(SentStep) /\ sent' = sent \o <<x>>
  BY <1>1, <1>8, <1>10, AppendProperties, AppendIsConcat
<1>12. sent \o rem[L] = sent' \o rem2[L]
  <2> DEFINE t == rem2[L]
             xs == <<x>>
  <2>1. t \in Seq(SentStep) /\ xs \in Seq(SentStep)
    <3>1. \A k \in 0..Len(Onward(S)) : rem2[k] \in Seq(SentStep)
      BY <1>4 DEF Remains
    <3>2. L \in 0..L
      BY <1>1, StackFacts DEF L
    <3> QED BY <1>4, <1>10, <3>1, <3>2
  <2>2. rem[L] = xs \o t
    BY <1>4, <1>9 DEF IsConcat
  <2> HIDE DEF t, xs
  <2>3. sent \o (xs \o t) = (sent \o xs) \o t
    BY ONLY <1>1, <2>1, ConcatAssociative, SMTT(30)
  <2> QED BY <1>11, <2>2, <2>3 DEF t, xs
<1>13. ResolvesAll(Onward(S), e, rem2, OnwardTo(S, next), row, sent')
  BY <1>1, <1>4, <1>11, <1>12 DEF ResolvesAll
<1> QED BY <1>8, <1>13

\* What a concept's lookup has, where it is entered.
LEMMA LookupEntered ==
  ASSUME project \in Projects, UsesAgree, NEW e, Linked(resolving, e, row), InRows(row), There, IsConcept(Step),
         ReadInv(unread, lookups), unread = {}, stepLookups = SpecificationLookups,
         NEW lookup,
         lookup = IF resolving = <<>> THEN Populated(stepLookups[next]) ELSE lookups[Step.value]
  PROVE  /\ lookup \in [ParamsOf(Step.value) -> Arg]
         /\ \A q \in ParamsOf(Step.value) :
              LeadsOn(resolving, e, lookup[q], Meant(Step.args, EnvAt(resolving, e, row))[ArgAt(Step.value, q)], row)
<1> DEFINE S == resolving
           env == EnvAt(S, e, row)
           c == Step.value
           own == Lookup(c, Step.args)
<1>1. /\ PositionAt(S, next) \in 1..Len(StepsAt(S)) /\ Step = StepsAt(S)[PositionAt(S, next)]
      /\ KnownArgs(DOMAIN env, Step) /\ env \in [DOMAIN env -> Value]
  BY NextStepIs
<1>2. /\ own \in [ParamsOf(c) -> Arg]
      /\ \A q \in ParamsOf(c) : ArgAt(c, q) \in 1..Len(Step.args) /\ own[q] = Step.args[ArgAt(c, q)]
  <2> DEFINE names == DOMAIN env
             step == Step
  <2>1. KnownArgs(names, step) /\ IsConcept(step)
    BY <1>1
  <2>2. step = Step
    OBVIOUS
  <2> HIDE DEF names, step
  <2>3. /\ Lookup(step.value, step.args) \in [ParamsOf(step.value) -> Arg]
        /\ \A q \in ParamsOf(step.value) :
             /\ ArgAt(step.value, q) \in 1..Len(step.args)
             /\ Lookup(step.value, step.args)[q] = step.args[ArgAt(step.value, q)]
    BY ONLY project \in Projects, <2>1, LookupTyped
  <2> QED BY <2>2, <2>3
<1>3. \A k \in 1..Len(Step.args) :
        /\ Step.args[k] \in Arg /\ WrittenArg(Step.args[k], DOMAIN env)
        /\ Meant(Step.args, env)[k] = MeantBy(Step.args[k], env)
  <2> HIDE DEF env
  <2> QED BY <1>1, ArgsMeant DEF KnownArgs
<1>4. CASE S = <<>>
  <2>1. env = RowEnv(row) /\ DOMAIN env = DOMAIN project.dataTable /\ Step = project.steps[next] /\ next \in 1..Len(project.steps)
    BY <1>1, <1>4, RowSteps DEF EnvAt, StepsAt, PositionAt
  <2>2. lookup = Populated(own)
    <3>1. DOMAIN project.steps = 1..Len(project.steps)
      BY ProjectSteps, LenProperties DEF Known
    <3>2. stepLookups[next] = own
      BY <2>1, <3>1 DEF SpecificationLookups, PopulateConceptLookup
    <3> QED BY <1>4, <3>2
  <2> HIDE DEF own, env, c
  <2>3. ASSUME NEW q \in ParamsOf(c)
        PROVE  /\ Fine(Populated(own)[q])
               /\ Shown(Populated(own)[q], row) = Meant(Step.args, env)[ArgAt(c, q)]
    <3> DEFINE a == Step.args[ArgAt(c, q)]
    <3>1. a \in Arg /\ WrittenArg(a, DOMAIN project.dataTable) /\ Meant(Step.args, env)[ArgAt(c, q)] = MeantBy(a, RowEnv(row))
      BY <1>2, <1>3, <2>1
    <3>2. own[q] = a /\ q \in DOMAIN own
      BY <1>2
    <3> HIDE DEF a
    <3>3. Populated(own)[q] = ResolvedArg(<<>>, a)
      BY <3>2 DEF Populated, ResolvedArg, ArgIn
    <3> QED BY <3>1, <3>3, ArgInSpecification
  <2>4. Populated(own) \in [ParamsOf(c) -> Arg]
    <3>1. DOMAIN own = ParamsOf(c)
      BY <1>2
    <3>2. Populated(own) = [q \in ParamsOf(c) |-> Populated(own)[q]]
      BY <3>1 DEF Populated
    <3>3. \A q \in ParamsOf(c) : Populated(own)[q] \in Arg
      BY <2>3 DEF Fine
    <3> QED BY <3>2, <3>3
  <2> QED BY <2>2, <2>3, <2>4 DEF LeadsOn, c, env
<1>5. CASE S # <<>>
  <2>1. Len(S) \in 1..Len(S) /\ env = e[Len(S)]
    BY <1>5, StackFacts DEF EnvAt
  <2> DEFINE d == S[Len(S)].concept
  <2>2. DOMAIN e[Len(S)] = ParamsOf(d) /\ d \in DOMAIN Concepts
    BY <2>1, FrameSteps DEF InFrame
  <2>3. StepsAt(S) = Concepts[d].steps
    BY <1>5 DEF StepsAt
  <2> DEFINE p == PositionAt(S, next)
  <2>4. Step = Concepts[d].steps[p] /\ p \in 1..Len(Concepts[d].steps)
    BY <1>1, <2>3
  <2>5. AgreedStep(Step) /\ Step \in StepsInConcepts
    BY <2>2, <2>4, ConceptSteps
  <2>6. Tells(lookups, Step)
    BY <2>2, <2>4 DEF ReadInv
  <2>7. lookup = own
    BY <1>5, <2>6 DEF Tells
  <2> HIDE DEF own, env, p, d, c
  <2>8. ASSUME NEW q \in ParamsOf(c) PROVE LeadsOn(S, e, own[q], Meant(Step.args, env)[ArgAt(c, q)], row)
    <3> DEFINE a == Step.args[ArgAt(c, q)]
    <3>1. /\ a \in Arg /\ WrittenArg(a, ParamsOf(d)) /\ own[q] = a
          /\ Meant(Step.args, env)[ArgAt(c, q)] = MeantBy(a, env)
          /\ \A i \in 1..Len(a.table) : a.table[i].type = "static"
      BY <1>2, <1>3, <2>1, <2>2, <2>5 DEF AgreedStep
    <3> HIDE DEF a
    <3>2. CASE a.type = "dynamic"
      <4>1. a.value \in ParamsOf(d) /\ MeantBy(a, env) = env[a.value]
        BY <3>1, <3>2, ArgParts DEF MeantBy
      <4> QED BY <1>5, <2>1, <3>1, <3>2, <4>1 DEF LeadsOn, d
    <3>3. CASE a.type # "dynamic"
      <4>1. Fine(a) /\ Shown(a, row) = MeantBy(a, env)
        BY <3>1, <3>3, FineMeans
      <4> QED BY <3>1, <4>1 DEF LeadsOn
    <3> QED BY <3>2, <3>3
  <2> QED BY <1>2, <2>7, <2>8 DEF c, env
<1> QED BY <1>4, <1>5

LEMMA ConceptEntered ==
  ASSUME project \in Projects, UsesAgree, NEW e, NEW rem, InRows(row),
         ResolvesAll(resolving, e, rem, next, row, sent), ResolveConcept,
         ReadInv(unread, lookups), unread = {}, stepLookups = SpecificationLookups
  PROVE  /\ UNCHANGED <<project, unread, lookups, stepLookups, row, sent, resolution>>
         /\ \E e2, rem2 : ResolvesAll(resolving', e2, rem2, next', row, sent)
<1> DEFINE S == resolving
           O == Onward(S)
           env == EnvAt(S, e, row)
           L == Len(S)
           args == Meant(Step.args, env)
           use == <<Step.value, args>>
           lookup == IF resolving = <<>> THEN Populated(stepLookups[next]) ELSE lookups[Step.value]
<1>1. /\ Remains(S, e, rem, next, row) /\ Linked(S, e, row) /\ sent \in Seq(SentStep)
      /\ AllWrittenOut(project.steps, RowEnv(row), Expansions) = sent \o rem[L]
  BY DEF ResolvesAll, Remains
<1>2. There /\ IsConcept(Step)
  BY DEF ResolveConcept
<1>3. /\ PositionAt(S, next) \in 1..Len(StepsAt(S)) /\ Step = StepsAt(S)[PositionAt(S, next)]
      /\ KnownArgs(DOMAIN env, Step) /\ env \in [DOMAIN env -> Value]
      /\ DOMAIN ResolvedArgs = 1..Len(Step.args)
      /\ \A k \in 1..Len(Step.args) : Fine(ResolvedArgs[k])
  BY <1>1, <1>2, NextStepIs
<1>4. PICK rem1 : /\ Remains(O, e, rem1, OnwardTo(S, next), row) /\ Len(O) = L
                  /\ IsConcat(rem[L], WrittenOut(Step, env, Expansions), rem1[L])
  <2>1. PositionAt(S, next) \in 1..Len(StepsAt(S)) /\ Step = StepsAt(S)[PositionAt(S, next)]
    BY <1>3
  <2>2. Remains(S, e, rem, next, row)
    BY <1>1
  <2> HIDE DEF S
  <2> QED BY ONLY project \in Projects, InRows(row), <2>1, <2>2, GoesOn
<1>5. /\ lookup \in [ParamsOf(Step.value) -> Arg]
      /\ \A q \in ParamsOf(Step.value) : LeadsOn(S, e, lookup[q], args[ArgAt(Step.value, q)], row)
  BY <1>1, <1>2, LookupEntered
<1> HIDE DEF env, lookup
<1>6. use \in Uses
  BY <1>2, <1>3, ArgsMeant
<1>7. WrittenOut(Step, env, Expansions) = Expansions[use]
  BY <1>2 DEF WrittenOut
<1>8. \A a, v : LeadsOn(S, e, a, v, row) => LeadsOn(O, e, a, v, row)
  <2>1. S # <<>> => O # <<>> /\ O[L].concept = S[L].concept
    <3> SUFFICES ASSUME S # <<>> PROVE O # <<>> /\ O[L].concept = S[L].concept
      OBVIOUS
    <3>1. S \in Seq(Resolving) /\ L \in 1..L
      BY <1>1, StackFacts DEF Linked
    <3>2. O[L].concept = S[L].concept
      BY <3>1, OnwardIs
    <3>3. O # <<>>
      <4>1. L # 0
        BY <3>1
      <4>2. O \in Seq(Resolving)
        BY <3>1, OnwardIs
      <4> HIDE DEF O, L
      <4> QED BY <1>4, <4>1, <4>2, EmptySeq
    <3> QED BY <3>2, <3>3
  <2> HIDE DEF O
  <2> QED BY <1>4, <2>1 DEF LeadsOn
<1> DEFINE T == Append(O, [concept |-> Step.value, next |-> 1, lookup |-> lookup])
<1>9. /\ resolving' = T /\ next' = OnwardTo(S, next)
      /\ UNCHANGED <<project, unread, lookups, stepLookups, row, sent, resolution>>
  <2>1. ~\E i \in DOMAIN ResolvedArgs : ResolvedArgs[i] = Panic
    BY <1>3, FineShown
  <2>2. /\ resolving' = T
        /\ stepLookups' = IF resolving = <<>> THEN [stepLookups EXCEPT ![next] = KeptForNextRow(@)] ELSE stepLookups
        /\ next' = IF resolving = <<>> THEN next + 1 ELSE next
        /\ UNCHANGED <<project, unread, lookups, row, sent, resolution>>
    BY <2>1 DEF ResolveConcept, lookup
  <2>3. [stepLookups EXCEPT ![next] = KeptForNextRow(@)] = stepLookups
    BY DEF KeptForNextRow, SpecificationLookups
  <2> QED BY <2>2, <2>3, WhereItIs
<1> HIDE DEF args
<1>10. use[1] = Step.value /\ use[2] = args
  OBVIOUS
<1> HIDE DEF use, O
<1>11. PICK e2, rem2 : Remains(T, e2, rem2, OnwardTo(S, next), row) /\ IsConcat(rem2[L + 1], Expansions[use], rem1[L])
  <2>1. lookup \in [ParamsOf(use[1]) -> Arg]
    BY <1>5, <1>10
  <2>2. \A q \in ParamsOf(use[1]) : LeadsOn(O, e, lookup[q], use[2][ArgAt(use[1], q)], row)
    BY <1>5, <1>8, <1>10
  <2>3. \E e2, rem2 :
          /\ Remains(Append(O, [concept |-> use[1], next |-> 1, lookup |-> lookup]), e2, rem2, OnwardTo(S, next), row)
          /\ IsConcat(rem2[Len(O) + 1], Expansions[use], rem1[Len(O)])
    <3>1. Remains(O, e, rem1, OnwardTo(S, next), row)
      BY <1>4
    <3> HIDE DEF S, L
    <3> QED BY ONLY project \in Projects, <1>6, <2>1, <2>2, <3>1, Enters
  <2> QED BY <1>4, <1>10, <2>3
<1>12. Len(T) = L + 1
  <2>1. Linked(T, e2, row)
    BY <1>11 DEF Remains
  <2>2. O \in Seq(Resolving)
    BY <1>4 DEF Remains, Linked
  <2>3. Len(Append(O, [concept |-> Step.value, next |-> 1, lookup |-> lookup])) = Len(O) + 1
    <3>1. [concept |-> Step.value, next |-> 1, lookup |-> lookup] \in Resolving
      BY <1>2, <1>5 DEF Resolving, IsConcept
    <3> QED BY <2>2, <3>1, AppendProperties
  <2> QED BY <1>4, <2>3
<1>13. rem2[L + 1] = rem[L]
  BY <1>4, <1>7, <1>11 DEF IsConcat
<1>14. ResolvesAll(T, e2, rem2, OnwardTo(S, next), row, sent)
  BY <1>1, <1>11, <1>12, <1>13 DEF ResolvesAll
<1> QED BY <1>9, <1>14

StateHolds ==
  ReadInv(unread, lookups) /\ ResolutionInv(resolution, unread, stepLookups, row, next, resolving, sent)

\* The same of the state after this one.
NextHolds ==
  ReadInv(unread', lookups') /\ ResolutionInv(resolution', unread', stepLookups', row', next', resolving', sent')

LEMMA ExecutingHolds ==
  ASSUME project \in Projects, StateHolds, Executing
  PROVE  /\ resolution = "execute" /\ unread = {} /\ stepLookups = SpecificationLookups
         /\ row \in Nat /\ row > 0 /\ RowIsThere(row) /\ InRows(row)
         /\ \E e, rem : ResolvesAll(resolving, e, rem, next, row, sent)
<1>1. row \in Nat /\ row > 0
  BY DEF StateHolds, ResolutionInv
<1>2. resolution = "execute" /\ RowIsThere(row) /\ InRows(row)
  BY <1>1, ExecutingRow
<1> QED BY <1>1, <1>2 DEF StateHolds, ResolutionInv

LEMMA LookupsRead ==
  ASSUME project \in Projects, UsesAgree, StateHolds, NEW c \in DOMAIN Concepts, UpdateLookupForNestedConcepts(c)
  PROVE  NextHolds
<1>1. /\ resolution = "read" /\ c \in unread /\ unread' = unread \ {c}
      /\ lookups' = ReadAll(c, lookups)
      /\ UNCHANGED <<project, stepLookups, row, next, resolving, sent, resolution>>
  BY DEF UpdateLookupForNestedConcepts, ReadAll
<1>2. /\ lookups \in SharedLookups
      /\ \A d \in (DOMAIN Concepts) \ unread : \A i \in 1..Len(Concepts[d].steps) : Tells(lookups, Concepts[d].steps[i])
  BY DEF StateHolds, ReadInv
<1>3. /\ lookups' \in SharedLookups
      /\ \A i \in 1..Len(Concepts[c].steps) : Tells(lookups', Concepts[c].steps[i])
      /\ \A s \in StepsInConcepts : Tells(lookups, s) => Tells(lookups', s)
  BY <1>1, <1>2, ReadingTells
<1>4. ASSUME NEW d \in (DOMAIN Concepts) \ unread', NEW i \in 1..Len(Concepts[d].steps)
      PROVE  Tells(lookups', Concepts[d].steps[i])
  <2>1. CASE d = c
    BY <1>3, <2>1
  <2>2. CASE d # c
    <3>1. Tells(lookups, Concepts[d].steps[i])
      BY <1>1, <1>2, <2>2
    <3>2. Concepts[d].steps[i] \in StepsInConcepts
      BY ConceptSteps
    <3> QED BY <1>3, <3>1, <3>2
  <2> QED BY <2>1, <2>2
<1>5. ReadInv(unread', lookups')
  BY <1>3, <1>4 DEF ReadInv
<1>6. ResolutionInv(resolution', unread', stepLookups', row', next', resolving', sent')
  <2>1. resolution \notin {"execute", "done"}
    BY <1>1
  <2>2. row \in Nat /\ row > 0 /\ row = 1 /\ next = 1 /\ resolving = <<>> /\ sent = <<>>
    BY <1>1 DEF StateHolds, ResolutionInv
  <2> QED BY <1>1, <2>1, <2>2 DEF ResolutionInv
<1> QED BY <1>5, <1>6 DEF NextHolds

\* The resolution of a row begins.
LEMMA RowBegins ==
  ASSUME project \in Projects, NEW r \in Nat, r > 0
  PROVE  ResolutionInv("execute", {}, SpecificationLookups, r, 1, <<>>, <<>>)
<1>1. RowIsThere(r) => \E e, rem : ResolvesAll(<<>>, e, rem, 1, r, <<>>)
  BY RowsThere, RowStarts
<1> QED BY <1>1 DEF ResolutionInv

LEMMA StepsProcessed ==
  ASSUME project \in Projects, StateHolds, ProcessConceptSteps
  PROVE  NextHolds
<1>1. /\ resolution = "read" /\ unread = {} /\ stepLookups' = SpecificationLookups /\ resolution' = "execute"
      /\ UNCHANGED <<project, unread, lookups, row, next, resolving, sent>>
  BY DEF ProcessConceptSteps, SpecificationLookups
<1>2. row = 1 /\ next = 1 /\ resolving = <<>> /\ sent = <<>>
  BY <1>1 DEF StateHolds, ResolutionInv
<1>3. ResolutionInv("execute", {}, SpecificationLookups, 1, 1, <<>>, <<>>)
  BY RowBegins
<1>4. ResolutionInv(resolution', unread', stepLookups', row', next', resolving', sent')
  BY <1>1, <1>2, <1>3
<1>5. ReadInv(unread', lookups')
  BY <1>1 DEF StateHolds
<1> QED BY <1>4, <1>5 DEF NextHolds

\* Here the resolution goes on in the same row.
LEMMA RowGoesOn ==
  ASSUME StateHolds, resolution = "execute",
         UNCHANGED <<project, unread, lookups, stepLookups, row, resolution>>,
         \E e, rem : ResolvesAll(resolving', e, rem, next', row, sent')
  PROVE  NextHolds
<1>1. ReadInv(unread', lookups')
  BY DEF StateHolds
<1>2. row \in Nat /\ row > 0 /\ unread = {} /\ stepLookups = SpecificationLookups
  BY DEF StateHolds, ResolutionInv
<1>3. ResolutionInv("execute", {}, SpecificationLookups, row, next', resolving', sent')
  BY <1>2 DEF ResolutionInv
<1>4. ResolutionInv(resolution', unread', stepLookups', row', next', resolving', sent')
  BY <1>2, <1>3
<1> QED BY <1>1, <1>4 DEF NextHolds

LEMMA ConceptHolds ==
  ASSUME project \in Projects, UsesAgree, StateHolds, ResolveConcept
  PROVE  NextHolds
<1>1. Executing
  BY DEF ResolveConcept, There
<1>2. /\ resolution = "execute" /\ unread = {} /\ stepLookups = SpecificationLookups /\ InRows(row)
      /\ \E e, rem : ResolvesAll(resolving, e, rem, next, row, sent)
  BY <1>1, ExecutingHolds
<1>3. PICK e, rem : ResolvesAll(resolving, e, rem, next, row, sent)
  BY <1>2
<1>4. ReadInv(unread, lookups)
  BY DEF StateHolds
<1>5. /\ UNCHANGED <<project, unread, lookups, stepLookups, row, sent, resolution>>
      /\ \E e2, rem2 : ResolvesAll(resolving', e2, rem2, next', row, sent)
  BY <1>2, <1>3, <1>4, ConceptEntered
<1>6. \E e2, rem2 : ResolvesAll(resolving', e2, rem2, next', row, sent')
  BY <1>5
<1> QED BY <1>2, <1>5, <1>6, RowGoesOn

LEMMA StepHolds ==
  ASSUME project \in Projects, UsesAgree, StateHolds, ResolveStep
  PROVE  NextHolds
<1>1. Executing
  BY DEF ResolveStep, There
<1>2. /\ resolution = "execute" /\ InRows(row)
      /\ \E e, rem : ResolvesAll(resolving, e, rem, next, row, sent)
  BY <1>1, ExecutingHolds
<1>3. PICK e, rem : ResolvesAll(resolving, e, rem, next, row, sent)
  BY <1>2
<1>4. /\ UNCHANGED <<project, unread, lookups, stepLookups, row, resolution>>
      /\ \E rem2 : ResolvesAll(resolving', e, rem2, next', row, sent')
  BY <1>2, <1>3, StepSends
<1> QED BY <1>2, <1>4, RowGoesOn

LEMMA ReturnHolds ==
  ASSUME project \in Projects, StateHolds, ReturnConcept
  PROVE  NextHolds
<1>1. Executing /\ resolving # <<>> /\ PositionAt(resolving, next) \notin DOMAIN StepsAt(resolving)
  BY WhereItIs DEF ReturnConcept
<1>2. /\ resolution = "execute" /\ InRows(row)
      /\ \E e, rem : ResolvesAll(resolving, e, rem, next, row, sent)
  BY <1>1, ExecutingHolds
<1>3. PICK e, rem : ResolvesAll(resolving, e, rem, next, row, sent)
  BY <1>2
<1>4. PICK e2 : ResolvesAll(Front(resolving), e2, rem, next, row, sent)
  BY <1>1, <1>2, <1>3, Leaves
<1>5. /\ resolving' = Front(resolving)
      /\ UNCHANGED <<project, unread, lookups, stepLookups, row, next, sent, resolution>>
  BY DEF ReturnConcept
<1>6. \E e3, rem3 : ResolvesAll(resolving', e3, rem3, next', row, sent')
  BY <1>4, <1>5
<1> QED BY <1>2, <1>5, <1>6, RowGoesOn

LEMMA NextRowHolds ==
  ASSUME project \in Projects, StateHolds, NextRow
  PROVE  NextHolds
<1>1. Executing /\ resolving = <<>> /\ row' = row + 1 /\ next' = 1 /\ sent' = <<>>
  BY DEF NextRow
<1>2. UNCHANGED <<project, unread, lookups, stepLookups, resolving, resolution>>
  BY DEF NextRow
<1>3. resolution = "execute" /\ unread = {} /\ stepLookups = SpecificationLookups /\ row \in Nat
  BY <1>1, ExecutingHolds
<1>4. row + 1 \in Nat /\ row + 1 > 0
  BY <1>3
<1>5. ResolutionInv("execute", {}, SpecificationLookups, row + 1, 1, <<>>, <<>>)
  BY <1>4, RowBegins
<1>6. ResolutionInv(resolution', unread', stepLookups', row', next', resolving', sent')
  BY <1>1, <1>2, <1>3, <1>5
<1>7. ReadInv(unread', lookups')
  BY <1>2 DEF StateHolds
<1> QED BY <1>6, <1>7 DEF NextHolds

LEMMA DoneHolds ==
  ASSUME StateHolds, Done
  PROVE  NextHolds
<1>1. /\ resolution = "execute" /\ resolution' = "done"
      /\ UNCHANGED <<project, unread, lookups, stepLookups, row, next, resolving, sent>>
  BY DEF Done
<1>2. row \in Nat /\ row > 0 /\ unread = {} /\ stepLookups = SpecificationLookups
  BY <1>1 DEF StateHolds, ResolutionInv
<1>3. ResolutionInv("done", unread, stepLookups, row, next, resolving, sent)
  BY <1>2 DEF ResolutionInv
<1>4. ReadInv(unread', lookups')
  BY <1>1 DEF StateHolds
<1> QED BY <1>1, <1>3, <1>4 DEF NextHolds

LEMMA ProjectStays ==
  ASSUME ArgumentsNext
  PROVE  project' = project
BY DEF ArgumentsNext, UpdateLookupForNestedConcepts, ProcessConceptSteps, ResolveConcept, ResolveStep, Crash,
       ReturnConcept, NextRow, Done

LEMMA ArgumentsStep ==
  ASSUME ArgumentsInv, [ArgumentsNext]_argumentVars
  PROVE  ArgumentsInv'
<1>1. project \in Projects /\ project' = project
  BY ProjectStays DEF ArgumentsInv, argumentVars
<1>2. ASSUME UsesAgree PROVE NextHolds
  <2>1. StateHolds
    BY <1>2 DEF ArgumentsInv, StateHolds
  <2>2. CASE ArgumentsNext
    <3>1. CASE \E concept \in DOMAIN Concepts : UpdateLookupForNestedConcepts(concept)
      BY <1>1, <1>2, <2>1, <3>1, LookupsRead
    <3>2. CASE ProcessConceptSteps
      BY <1>1, <2>1, <3>2, StepsProcessed
    <3>3. CASE ResolveConcept
      BY <1>1, <1>2, <2>1, <3>3, ConceptHolds
    <3>4. CASE ResolveStep
      BY <1>1, <1>2, <2>1, <3>4, StepHolds
    <3>5. CASE ReturnConcept
      BY <1>1, <2>1, <3>5, ReturnHolds
    <3>6. CASE NextRow
      BY <1>1, <2>1, <3>6, NextRowHolds
    <3>7. CASE Done
      BY <2>1, <3>7, DoneHolds
    <3> QED BY <2>2, <3>1, <3>2, <3>3, <3>4, <3>5, <3>6, <3>7 DEF ArgumentsNext
  <2>3. CASE UNCHANGED argumentVars
    BY <2>1, <2>3 DEF argumentVars, StateHolds, NextHolds
  <2> QED BY <2>2, <2>3
<1>3. UsesAgree' <=> UsesAgree
  BY <1>1, SameProject
<1>4. ASSUME UsesAgree
      PROVE  /\ ReadInv(unread, lookups)'
             /\ ResolutionInv(resolution, unread, stepLookups, row, next, resolving, sent)'
  BY <1>1, <1>2, <1>4, SameProject DEF NextHolds
<1> QED BY <1>1, <1>3, <1>4 DEF ArgumentsInv

LEMMA ArgumentsStart ==
  ASSUME ArgumentsInit
  PROVE  ArgumentsInv
<1>1. /\ project \in Projects /\ unread = DOMAIN Concepts
      /\ lookups = [c \in DOMAIN Concepts |-> [p \in ParamsOf(c) |-> NoArg]]
      /\ row = 1 /\ next = 1 /\ resolving = <<>> /\ sent = <<>> /\ resolution = "read"
  BY DEF ArgumentsInit, Concepts
<1> DEFINE V == UNION {[ParamsOf(c) -> Arg \cup {NoArg}] : c \in DOMAIN Concepts}
<1>2. ASSUME NEW c \in DOMAIN Concepts PROVE [p \in ParamsOf(c) |-> NoArg] \in V
  <2>1. [p \in ParamsOf(c) |-> NoArg] \in [ParamsOf(c) -> Arg \cup {NoArg}]
    OBVIOUS
  <2> QED BY <2>1
<1> HIDE DEF V
<1>3. lookups \in [DOMAIN Concepts -> V]
  BY <1>1, <1>2
<1>4. ReadInv(unread, lookups)
  BY <1>1, <1>3 DEF ReadInv, SharedLookups, V
<1>5. ResolutionInv(resolution, unread, stepLookups, row, next, resolving, sent)
  BY <1>1 DEF ResolutionInv
<1> QED BY <1>1, <1>4, <1>5 DEF ArgumentsInv

LEMMA BeginsWith ==
  ASSUME NEW A, NEW s \in Seq(A), NEW t \in Seq(A)
  PROVE  IsPrefix(s, s \o t)
<1> DEFINE u == s \o t
           n == Len(s)
<1>1. /\ n \in Nat /\ Len(t) \in Nat /\ u \in Seq(A) /\ Len(u) = n + Len(t)
      /\ \A i \in 1..Len(u) : u[i] = IF i <= n THEN s[i] ELSE t[i - n]
  BY ConcatProperties, LenProperties
<1> HIDE DEF u, n
<1>2. n <= Len(u) /\ \A i \in 1..n : i \in 1..Len(u) /\ u[i] = s[i]
  BY <1>1
<1>3. SubSeq(s, 1, n) = SubSeq(u, 1, n)
  <2>1. \A i \in 1..n : s[i] \in A /\ u[i] \in A
    BY <1>1, <1>2, ElementOfSeq DEF n
  <2>2. 1 \in Int /\ n \in Int
    BY <1>1
  <2>3. SubSeq(s, 1, n) = [i \in 1..n |-> s[i]] /\ SubSeq(u, 1, n) = [i \in 1..n |-> u[i]]
    BY <1>1
  <2> QED BY <1>2, <2>3
<1> QED BY <1>2, <1>3 DEF IsPrefix, u, n

LEMMA ArgumentsMeant ==
  ASSUME ArgumentsInv
  PROVE  AgreeingUsesResolve
<1> SUFFICES ASSUME UsesAgree PROVE AsWritten
  BY DEF AgreeingUsesResolve
<1>1. project \in Projects /\ StateHolds
  BY DEF ArgumentsInv, StateHolds
<1>2. resolution # "crashed"
  BY <1>1 DEF StateHolds, ResolutionInv
<1>3. ASSUME Executing
      PROVE  LET all == AllWrittenOut(project.steps, RowValues, Expansions)
             IN  /\ IsPrefix(sent, all)
                 /\ resolving = <<>> /\ next > Len(project.steps) => sent = all
  <2> DEFINE all == AllWrittenOut(project.steps, RowValues, Expansions)
  <2>1. InRows(row) /\ \E e, rem : ResolvesAll(resolving, e, rem, next, row, sent)
    BY <1>1, <1>3, ExecutingHolds
  <2>2. PICK e, rem : ResolvesAll(resolving, e, rem, next, row, sent)
    BY <2>1
  <2>3. RowValues = RowEnv(row)
    BY DEF RowValues, RowEnv
  <2> DEFINE t == rem[Len(resolving)]
  <2>4. /\ Linked(resolving, e, row) /\ next \in 1..Len(project.steps) + 1
        /\ \A k \in 0..Len(resolving) : rem[k] \in Seq(SentStep)
        /\ rem[0] = Remaining(project.steps, RowEnv(row))[next]
        /\ sent \in Seq(SentStep) /\ all = sent \o t
    BY <2>2, <2>3 DEF ResolvesAll, Remains
  <2>5. Len(resolving) \in 0..Len(resolving)
    BY <2>4, StackFacts
  <2>6. t \in Seq(SentStep)
    BY <2>4, <2>5
  <2>7. ASSUME resolving = <<>>, next > Len(project.steps) PROVE t = <<>>
    <3>1. RowEnv(row) \in [DOMAIN RowEnv(row) -> Value] /\ Known(DOMAIN RowEnv(row), project.steps)
      BY <1>1, <2>1, RowSteps
    <3>2. Len(project.steps) \in Nat /\ Remaining(project.steps, RowEnv(row))[Len(project.steps) + 1] = <<>>
      BY <1>1, <3>1, RemainingIs
    <3>3. next = Len(project.steps) + 1
      BY <2>4, <2>7, <3>2
    <3>4. Len(resolving) = 0
      BY <2>7, <2>4, StackFacts
    <3> QED BY <2>4, <3>2, <3>3, <3>4
  <2> HIDE DEF all, t
  <2>8. IsPrefix(sent, all)
    BY <2>4, <2>6, BeginsWith
  <2>9. resolving = <<>> /\ next > Len(project.steps) => sent = all
    BY <2>4, <2>7, ConcatEmptySeq
  <2> QED BY <2>8, <2>9 DEF all
<1> QED BY <1>2, <1>3 DEF AsWritten

\* Where the uses of a concept agree, whatever the concepts are, every step is sent with
\* the arguments that are written for it, in every row, and nothing panics.
THEOREM ArgumentsSound == ArgumentsSpec => []AgreeingUsesResolve
<1>1. ArgumentsInit => ArgumentsInv
  BY ArgumentsStart
<1>2. ArgumentsInv /\ [ArgumentsNext]_argumentVars => ArgumentsInv'
  BY ArgumentsStep
<1>3. ArgumentsInv => AgreeingUsesResolve
  BY ArgumentsMeant
<1> QED BY <1>1, <1>2, <1>3, PTL DEF ArgumentsSpec
=============================================================================

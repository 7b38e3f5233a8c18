---------------------------- MODULE ScenarioItems ----------------------------
(***************************************************************************)
(* One scenario: executeScenario and, below it, executeItems, executeItem, *)
(* executeConcept and executeStep (specExecutor.go), with the execution    *)
(* times of specResult.go.                                                 *)
(*                                                                         *)
(* Concepts contain steps and concepts.  The recursion of the code is a    *)
(* stack of frames, one per loop under way.  Results are Go objects behind *)
(* pointers: setExecutionResultForConcept lets a failed concept share the  *)
(* result object of the item that failed and then writes a time into it.   *)
(***************************************************************************)
EXTENDS Integers, Sequences, FiniteSets, FiniteSetsExt, SequencesExt

CONSTANTS
  Item,      \* the items of the scenario and of the concepts in it
  Kind,      \* "step", "concept" or "other" (a comment, a table)
  Steps,     \* the items of each concept, <<>> for the rest
  Contexts,  \* the context items
  Items,     \* the scenario's own items
  Times,     \* the execution times the runner may report
  None

ASSUME ItemAssumption ==
  /\ Kind \in [Item -> {"step", "concept", "other"}]
  /\ Steps \in [Item -> Seq(Item)]
  /\ \A i \in Item : Kind[i] = "concept" <=> Steps[i] # <<>>
  /\ Contexts \in Seq(Item) /\ Items \in Seq(Item)
  /\ Times \in SUBSET Nat
  /\ None \notin Item

\* Concepts do not go round in a circle (the reader of concepts sees to it:
\* AcceptedIsFinite): of any items, one has none of the others in it.
ASSUME NestingAssumption ==
  \A S \in SUBSET Item : S # {} => \E i \in S : \A k \in DOMAIN Steps[i] : Steps[i][k] \notin S

\* resolveItems converts every use of a step to an item of its own: none is in two places.
ASSUME PlaceAssumption ==
  LET top == Contexts \o Items
  IN  /\ IsFiniteSet(Item)
      /\ \A i, j \in Item : \A k \in DOMAIN Steps[i], l \in DOMAIN Steps[j] :
           Steps[i][k] = Steps[j][l] => i = j /\ k = l
      /\ \A m, n \in DOMAIN top : top[m] = top[n] => m = n
      /\ \A n \in DOMAIN top : \A i \in Item : \A k \in DOMAIN Steps[i] : Steps[i][k] # top[n]

VARIABLES
  pc,        \* "before", "items", "after", "done"
  frames,    \* the loops under way, innermost last
  failure,   \* the value that travels up through "if failure { return true }"
  objectOf,  \* the result object each item points to
  object,    \* the result objects, named after the item they were made for
  scenario,  \* protoScenario: Failed and ExecutionTime
  ran,       \* history: the steps executed
  took       \* history: the time the runner reported for each step, and for None
             \* the time of the scenario's hooks

vars == <<pc, frames, failure, objectOf, object, scenario, ran, took>>

Reply == [failed : BOOLEAN, time : Times]
Nothing == [failed |-> FALSE, time |-> 0]

-----------------------------------------------------------------------------
\* The items a frame's loop goes through; None stands for the scenario itself.
ItemsOf(frame) == IF frame.concept = None THEN Contexts \o Items ELSE Steps[frame.concept]
Through(frame) == frame.next > Len(ItemsOf(frame))
Current(frame) == ItemsOf(frame)[frame.next]

\* A slip: the loop skips an item.
AdvanceTwice(frame) == [frame EXCEPT !.next = @ + 2]
Advance(frame) == [frame EXCEPT !.next = @ + 1]

\* GetExecutionResult of an item: the zero result while it has none.
ResultOf(item, of, obj) == IF of[item] = None THEN Nothing ELSE obj[of[item]]

TimeOf(items, of, obj) ==
  LET TimeAt(i) == ResultOf(items[i], of, obj).time
  IN  MapThenSumSet(TimeAt, DOMAIN items)

\* A slip: the shared object keeps the time of the failed item alone.
SetExecutionResultForConceptOwnTime(concept, of, obj) ==
  LET failing == {i \in DOMAIN Steps[concept] : ResultOf(Steps[concept][i], of, obj).failed}
  IN  IF failing = {}
      THEN [of  |-> [of EXCEPT ![concept] = concept],
            obj |-> [obj EXCEPT ![concept] =
                      [failed |-> FALSE, time |-> TimeOf(Steps[concept], of, obj)]]]
      ELSE [of  |-> [of EXCEPT ![concept] = of[Steps[concept][Min(failing)]]], obj |-> obj]

\* setExecutionResultForConcept: a new passed result with the time of all steps,
\* or the result object of the first failed one, its time raised to the time of
\* everything up to there.
SetExecutionResultForConcept(concept, of, obj) ==
  LET steps   == Steps[concept]
      failing == {i \in DOMAIN steps : ResultOf(steps[i], of, obj).failed}
  IN  IF failing = {}
      THEN [of  |-> [of EXCEPT ![concept] = concept],
            obj |-> [obj EXCEPT ![concept] =
                      [failed |-> FALSE, time |-> TimeOf(steps, of, obj)]]]
      ELSE LET first  == Min(failing)
               shared == of[steps[first]]
           IN  [of  |-> [of EXCEPT ![concept] = shared],
                obj |-> [obj EXCEPT ![shared].time =
                          TimeOf(SubSeq(steps, 1, first), of, obj)]]

\* The item of the innermost frame of fs has returned failed: a concept updates
\* its result, the loop advances, and ends at once when the item failed.
ItemReturns(fs, failed, of, obj) ==
  LET frame   == Last(fs)
      results == IF frame.concept = None THEN [of |-> of, obj |-> obj]
                 ELSE SetExecutionResultForConcept(frame.concept, of, obj)
  IN  /\ frames' = Append(Front(fs), Advance(frame))
      /\ failure' = failed
      /\ objectOf' = results.of
      /\ object' = results.obj

-----------------------------------------------------------------------------
Init ==
  /\ pc = "before"
  /\ frames = <<[concept |-> None, next |-> 1]>>
  /\ failure = FALSE
  /\ objectOf = [i \in Item |-> None]
  /\ object = [i \in Item |-> Nothing]
  /\ scenario = Nothing
  /\ ran = <<>>
  /\ took = [i \in Item \cup {None} |-> 0]

\* The head of executeScenario.
ExecuteBeforeScenarioHook(reply) ==
  /\ pc = "before"
  /\ scenario' = reply
  /\ took' = [took EXCEPT ![None] = reply.time]
  /\ pc' = IF reply.failed THEN "after" ELSE "items"
  /\ UNCHANGED <<frames, failure, objectOf, object, ran>>

\* May the innermost loop go on to an item of this kind?
At(kind) ==
  /\ pc = "items" /\ ~failure
  /\ ~Through(Last(frames))
  /\ Kind[Current(Last(frames))] = kind

\* executeStep: what the two hooks and the step itself come to.
StepResult(before, body, after) ==
  [failed |-> before.failed \/ body.failed \/ after.failed,
   time   |-> before.time + body.time + after.time]

\* executeStep: after a failed Starting hook the step is not sent.
ExecuteStep(before, body, after) ==
  LET step   == Current(Last(frames))
      result == StepResult(before, body, after)
  IN  /\ At("step")
      /\ before.failed => body = Nothing
      /\ ItemReturns(frames, result.failed,
                     [objectOf EXCEPT ![step] = step], [object EXCEPT ![step] = result])
      /\ ran' = Append(ran, step)
      /\ took' = [took EXCEPT ![step] = before.time + body.time + after.time]
      /\ UNCHANGED <<pc, scenario>>

\* executeItem: what is neither a step nor a concept is passed over.
SkipItem ==
  /\ At("other")
  /\ ItemReturns(frames, FALSE, objectOf, object)
  /\ UNCHANGED <<pc, scenario, ran, took>>

EnterConcept ==
  /\ At("concept")
  /\ frames' = Append(frames, [concept |-> Current(Last(frames)), next |-> 1])
  /\ UNCHANGED <<pc, failure, objectOf, object, scenario, ran, took>>

\* executeConcept returns to the loop it was called from.
LeaveConcept ==
  LET concept == Last(frames).concept
  IN  /\ pc = "items" /\ Len(frames) > 1
      /\ failure \/ Through(Last(frames))
      /\ ItemReturns(Front(frames), failure \/ ResultOf(concept, objectOf, object).failed,
                     objectOf, object)
      /\ UNCHANGED <<pc, scenario, ran, took>>

\* executeContextItems and executeScenarioItems are through.
LeaveItems ==
  /\ pc = "items" /\ Len(frames) = 1
  /\ failure \/ Through(frames[1])
  /\ pc' = "after"
  /\ scenario' = [scenario EXCEPT !.failed = failure]
  /\ UNCHANGED <<frames, failure, objectOf, object, ran, took>>

\* The tail of executeScenario, with updateExecutionTime.
ExecuteAfterScenarioHook(reply) ==
  /\ pc = "after" /\ pc' = "done"
  /\ scenario' = [failed |-> scenario.failed \/ reply.failed,
                  time   |-> scenario.time + reply.time
                               + TimeOf(Contexts \o Items, objectOf, object)]
  /\ took' = [took EXCEPT ![None] = @ + reply.time]
  /\ UNCHANGED <<frames, failure, objectOf, object, ran>>

Next ==
  \/ \E reply \in Reply : ExecuteBeforeScenarioHook(reply) \/ ExecuteAfterScenarioHook(reply)
  \/ \E before, after \in Reply, body \in Reply \cup {Nothing} : ExecuteStep(before, body, after)
  \/ SkipItem \/ EnterConcept \/ LeaveConcept \/ LeaveItems

Spec == Init /\ [][Next]_vars
-----------------------------------------------------------------------------
(* Properties.                                                             *)

\* The steps under an item, in order.
StepsUnder[item \in Item] ==
  IF Kind[item] = "step" THEN <<item>>
  ELSE FlattenSeq([i \in DOMAIN Steps[item] |-> StepsUnder[Steps[item][i]]])

AllSteps ==
  LET top == Contexts \o Items
  IN  FlattenSeq([i \in DOMAIN top |-> StepsUnder[top[i]]])

\* Although a failed concept shares the result object of the step that failed,
\* and every concept around it writes a time into that one object, the time of
\* the scenario is what the runner reported: nothing is lost or counted twice.
ScenarioTimeIsSum ==
  LET Took(i) == took[i]
  IN  pc = "done" => scenario.time = MapThenSumSet(Took, DOMAIN took)

Sequence == INSTANCE StepSequence WITH
  Steps  <- AllSteps,
  failed <- failure \/ scenario.failed,
  over   <- pc = "done"

\* The steps run in their order, none after the first failure, none left out of
\* a scenario that passed.
StepsInSequence == Sequence!SequenceSpec
=============================================================================

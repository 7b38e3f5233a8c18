------------------------------- MODULE SpecInfo -------------------------------
(***************************************************************************)
(* What Gauge tells API clients about a project: specInfoGatherer          *)
(* (specDetails.go) reads the files once, then follows the changes that    *)
(* the file watcher reports, while connections (api.go) ask for the steps  *)
(* and the concepts.  A mutex protects some of this.                       *)
(*                                                                         *)
(* The goroutine that starts the service and, once it is done, the one     *)
(* that handles events are one sequential actor here, at "at".  There is   *)
(* one concept file, with one concept, Concept, which is also a step that  *)
(* specifications can use.                                                 *)
(***************************************************************************)
EXTENDS Integers, Sequences

CONSTANTS
  SpecFiles,     \* names of specification files
  ConceptFile,   \* the name of the concept file
  Concept,       \* the step that the concept file defines
  SpecTexts,     \* sets of steps that a specification may consist of
  ConceptTexts,  \* sets of steps that the concept may consist of
  RunnerSteps,   \* steps the runner implements
  MaxChanges,    \* bound on the changes to files
  MaxRequests    \* bound on the requests of clients

ASSUME FilesAssumption == ConceptFile \notin SpecFiles
ASSUME ConceptAssumption == \A text \in ConceptTexts : Concept \notin text

Files == SpecFiles \cup {ConceptFile}
Steps == RunnerSteps \cup (UNION SpecTexts) \cup (UNION ConceptTexts) \cup {Concept}

VARIABLES
  disk,              \* what is in each file
  watching,          \* whether changes are reported
  events,            \* changes reported; the first stays until it has been handled
  at,                \* where the gatherer is
  parsed,            \* specifications that have been parsed and not yet added
  runnerStepValues,
  conceptDictionary,
  fileToStepsMap,
  availableSpecs,    \* how often each specification is listed
  availableStepsMap, \* its keys
  mutex,             \* "free", or who holds it: "gatherer", "client"
  reading,           \* the iteration of the client that holds the mutex
  listing,           \* whether a client is iterating over the concepts
  crashed,           \* whether a data race has ended the process
  missed,            \* history: files changed after they were read and before the watch
  changes, requests  \* counters for the bounds

project == <<disk, events, missed, changes>>
cache == <<conceptDictionary, fileToStepsMap, availableSpecs>>
clients == <<reading, listing, requests>>
vars == <<project, watching, at, parsed, runnerStepValues, cache, availableStepsMap,
          mutex, clients, crashed>>

Absent == [state |-> "absent", steps |-> {}]
Broken == [state |-> "broken", steps |-> {}]
Text(steps) == [state |-> "ok", steps |-> steps]
Texts(file) == {Text(steps) : steps \in IF file = ConceptFile THEN ConceptTexts ELSE SpecTexts}

Entry == [known : BOOLEAN, steps : SUBSET Steps]
None == [known |-> FALSE, steps |-> {}]
Some(steps) == [known |-> TRUE, steps |-> steps]

\* An iteration over availableStepsMap: whether the map is still the one in use, what
\* has been seen of it, and, for the properties, what there is to see and what else
\* is going on.
NotReading == [current |-> FALSE, seen |-> {}, due |-> {}, during |-> "nothing"]

Contents(file) == Texts(file) \cup {Absent, Broken}

Init ==
  /\ disk \in [Files -> UNION {Contents(f) : f \in Files}]
  /\ \A f \in Files : disk[f] \in Contents(f)
  /\ watching = FALSE /\ events = <<>> /\ missed = {} /\ at = "start"
  /\ parsed = [f \in SpecFiles |-> None]
  /\ runnerStepValues = {}
  /\ conceptDictionary = None
  /\ fileToStepsMap = [f \in Files |-> None] /\ availableSpecs = [f \in SpecFiles |-> 0]
  /\ availableStepsMap = {}
  /\ mutex = "free" /\ reading = NotReading /\ listing = FALSE /\ crashed = FALSE
  /\ changes = 0 /\ requests = 0

-----------------------------------------------------------------------------
(* The files, and the watcher that reports their changes in order.         *)

Report(reported) == events' = IF watching THEN events \o reported ELSE events

\* A file that changes before it is read is not missed.
IsRead(file) == at \notin {"start", "runner", "concepts"} /\ (file = ConceptFile \/ at # "specs")
Miss(files) ==
  missed' = IF watching THEN missed \ files ELSE missed \cup {f \in files : IsRead(f)}

Change ==
  /\ changes < MaxChanges /\ changes' = changes + 1
  /\ UNCHANGED <<watching, at, parsed, runnerStepValues, cache, availableStepsMap,
                 mutex, clients, crashed>>

Save(file) ==
  /\ \E content \in Contents(file) \ {Absent} : disk' = [disk EXCEPT ![file] = content]
  /\ Report(<<[op |-> IF disk[file] = Absent THEN "create" ELSE "write", file |-> file]>>)
  /\ Miss({file})
  /\ Change

Delete(file) ==
  /\ disk[file] # Absent
  /\ disk' = [disk EXCEPT ![file] = Absent]
  /\ Report(<<[op |-> "remove", file |-> file]>>)
  /\ Miss({file})
  /\ Change

\* Over another specification or to a new name.
Rename(from, to) ==
  /\ disk[from] # Absent /\ from # to
  /\ disk' = [disk EXCEPT ![to] = disk[from], ![from] = Absent]
  /\ Report(<<[op |-> "rename", file |-> from], [op |-> "create", file |-> to]>>)
  /\ Miss({from, to})
  /\ Change

-----------------------------------------------------------------------------
(* The gatherer.                                                           *)

Gatherer == UNCHANGED <<disk, missed, changes, requests>>

Known == runnerStepValues \cup (UNION {fileToStepsMap[f].steps : f \in Files})

\* What a file gives when it is read and parsed now.
ReadConcept == IF disk[ConceptFile].state = "ok" THEN Some(disk[ConceptFile].steps) ELSE None

\* A step that is a concept by now is none of the specification's plain steps.
ReadSpec(file) ==
  IF disk[file].state # "ok" THEN None
  ELSE Some(disk[file].steps \ (IF conceptDictionary.known THEN {Concept} ELSE {}))

\* The rest of start-up waits for the runner, whose answer may not come.
MakeMaps ==
  /\ at = "start" /\ at' = "runner"
  /\ UNCHANGED <<watching, events, parsed, runnerStepValues, cache, availableStepsMap, mutex,
                 reading, listing, crashed>> /\ Gatherer

GetStepsFromRunner ==
  /\ at = "runner" /\ at' = "concepts"
  /\ runnerStepValues' \in {{}, RunnerSteps}
  /\ UNCHANGED <<watching, events, parsed, cache, availableStepsMap, mutex, reading, listing,
                 crashed>> /\ Gatherer

\* A slip: what was deleted before is there again.
FindStepsFromConceptsKeeping(entries) ==
  /\ conceptDictionary' = ReadConcept
  /\ listing' = FALSE
  /\ fileToStepsMap' =
       IF ReadConcept.known THEN [entries EXCEPT ![ConceptFile] = ReadConcept] ELSE fileToStepsMap

\* findAllStepsFromConcepts: a new dictionary, which no client iterates over yet; a
\* file without concepts keeps the steps it had.
FindStepsFromConcepts(entries) ==
  /\ conceptDictionary' = ReadConcept
  /\ listing' = FALSE
  /\ fileToStepsMap' =
       IF ReadConcept.known THEN [entries EXCEPT ![ConceptFile] = ReadConcept] ELSE entries

FindAllStepsFromConcepts ==
  /\ at \in {"concepts", "concept added"}
  /\ at' = IF at = "concepts" THEN "specs" ELSE "update"
  /\ FindStepsFromConcepts(fileToStepsMap)
  /\ UNCHANGED <<watching, events, parsed, runnerStepValues, availableSpecs, availableStepsMap,
                 mutex, reading, crashed>> /\ Gatherer

Parse(files) ==
  /\ parsed' = [f \in SpecFiles |-> IF f \in files THEN ReadSpec(f) ELSE None]
  /\ at' = "add"
  /\ UNCHANGED <<watching, events, runnerStepValues, cache, availableStepsMap, mutex, reading,
                 listing, crashed>> /\ Gatherer

FindAllStepsFromSpecs == at = "specs" /\ Parse(SpecFiles)

Event == Head(events)
Handles(ops, files) ==
  at = "idle" /\ events # <<>> /\ Event.op \in ops /\ Event.file \in files

Handled == at' = "idle" /\ events' = Tail(events)

AddSpec == Handles({"create", "write"}, SpecFiles) /\ Parse({Event.file})

NewSpecs == {f \in SpecFiles : parsed[f].known /\ ~fileToStepsMap[f].known}

\* addStepsForSpecs, under the mutex from beginning to end.
AddStepsForSpecs ==
  /\ at = "add" /\ mutex = "free"
  /\ at' = "update"
  /\ availableSpecs' = [f \in SpecFiles |-> availableSpecs[f] + IF f \in NewSpecs THEN 1 ELSE 0]
  /\ fileToStepsMap' =
       [f \in Files |-> IF f \in SpecFiles /\ parsed[f].known THEN parsed[f] ELSE fileToStepsMap[f]]
  /\ parsed' = [f \in SpecFiles |-> None]
  /\ UNCHANGED <<watching, events, runnerStepValues, conceptDictionary, availableStepsMap, mutex,
                 reading, listing, crashed>> /\ Gatherer

\* addConcept puts what the file defines into the dictionary in use, which a client may
\* be iterating over; a concept that is there already makes it an error.
AddConcept ==
  /\ Handles({"create", "write"}, {ConceptFile})
  /\ IF ReadConcept.known /\ ~conceptDictionary.known
     THEN /\ conceptDictionary' = ReadConcept /\ at' = "concept added" /\ UNCHANGED events
          /\ crashed' \in {FALSE, listing}
     ELSE Handled /\ UNCHANGED <<conceptDictionary, crashed>>
  /\ UNCHANGED <<watching, parsed, runnerStepValues, fileToStepsMap, availableSpecs,
                 availableStepsMap, mutex, reading, listing>> /\ Gatherer

\* removeConcept, fileRenamed
RemoveConcept ==
  /\ Handles({"remove", "rename"}, {ConceptFile})
  /\ at' = "update"
  /\ FindStepsFromConcepts([fileToStepsMap EXCEPT ![ConceptFile] = None])
  /\ UNCHANGED <<watching, events, parsed, runnerStepValues, availableSpecs, availableStepsMap,
                 mutex, reading, crashed>> /\ Gatherer

\* A slip: the mutex is released before the list is updated.
RemoveSpecUnlocked ==
  /\ Handles({"remove", "rename"}, SpecFiles)
  /\ mutex = "free"
  /\ at' = "update"
  /\ fileToStepsMap' = [fileToStepsMap EXCEPT ![Event.file] = None]
  /\ UNCHANGED <<watching, events, parsed, runnerStepValues, conceptDictionary, availableSpecs,
                 availableStepsMap, mutex, reading, listing, crashed>> /\ Gatherer

\* removeSpec, fileRenamed: the mutex is held until the list is complete again.
RemoveSpec ==
  /\ Handles({"remove", "rename"}, SpecFiles)
  /\ mutex = "free" /\ mutex' = "gatherer"
  /\ at' = "update"
  /\ fileToStepsMap' = [fileToStepsMap EXCEPT ![Event.file] = None]
  /\ UNCHANGED <<watching, events, parsed, runnerStepValues, conceptDictionary, availableSpecs,
                 availableStepsMap, reading, listing, crashed>> /\ Gatherer

\* A slip: the list takes the mutex itself, which removeSpec holds already.
NewMapLocked ==
  /\ at = "update" /\ at' = "fill"
  /\ mutex = "free" /\ mutex' = "gatherer"
  /\ availableStepsMap' = {}
  /\ UNCHANGED <<watching, events, parsed, runnerStepValues, cache, reading, listing,
                 crashed>> /\ Gatherer

\* updateAllStepsList: an empty map takes the place of the one in use, ...
NewMap ==
  /\ at = "update" /\ at' = "fill"
  /\ availableStepsMap' = {}
  /\ reading' = [reading EXCEPT !.current = FALSE]
  /\ UNCHANGED <<watching, events, parsed, runnerStepValues, cache, mutex, listing,
                 crashed>> /\ Gatherer

\* ... and is filled step by step.  A client that is iterating over it may see the step
\* or not, or the race on the map may end the process.
AddToAvailableSteps ==
  /\ at = "fill"
  /\ \E step \in Known \ availableStepsMap :
       /\ availableStepsMap' = availableStepsMap \cup {step}
       /\ reading' \in {reading, [reading EXCEPT !.seen = @ \cup IF reading.current THEN {step} ELSE {}]}
  /\ crashed' \in {FALSE, reading.current}
  /\ UNCHANGED <<watching, events, at, parsed, runnerStepValues, cache, mutex, listing>> /\ Gatherer

Release == mutex' = IF mutex = "gatherer" THEN "free" ELSE mutex

ListComplete ==
  /\ at = "fill" /\ availableStepsMap = Known
  /\ IF watching THEN Handled ELSE at' = "watch" /\ UNCHANGED events
  /\ Release
  /\ UNCHANGED <<watching, parsed, runnerStepValues, cache, availableStepsMap, reading, listing,
                 crashed>> /\ Gatherer

\* watchForFileChanges
Watch ==
  /\ at = "watch" /\ at' = "idle" /\ watching' = TRUE
  /\ UNCHANGED <<events, parsed, runnerStepValues, cache, availableStepsMap, mutex, reading,
                 listing, crashed>> /\ Gatherer

-----------------------------------------------------------------------------
(* Clients, each with a goroutine of its own; requests that only read at   *)
(* one moment are left out.                                                *)

Client == UNCHANGED <<project, watching, at, parsed, runnerStepValues, cache, availableStepsMap,
                      crashed>>
Asks == requests < MaxRequests /\ requests' = requests + 1

Operation ==
  IF ~watching THEN "start"
  ELSE IF at = "idle" THEN "nothing"
  ELSE IF Event.file = ConceptFile THEN "concept" ELSE Event.op

\* getAvailableSteps: while there is no map the answer is empty and takes no lock.  That the
\* map is looked at only after the lock is taken makes no difference: what the gatherer does
\* in between is done without the lock, and could as well come before it.
BeginSteps ==
  /\ Asks /\ at # "start" /\ mutex = "free" /\ mutex' = "client"
  /\ reading' = [current |-> TRUE, seen |-> availableStepsMap, due |-> Known, during |-> Operation]
  /\ UNCHANGED listing /\ Client

EndSteps ==
  /\ mutex = "client" /\ mutex' = "free"
  /\ reading' = NotReading
  /\ UNCHANGED <<listing, requests>> /\ Client

\* getConceptInfos, without a lock.
BeginConcepts ==
  /\ Asks /\ ~listing /\ listing' = TRUE
  /\ UNCHANGED <<mutex, reading>> /\ Client

EndConcepts ==
  /\ listing /\ listing' = FALSE
  /\ UNCHANGED <<mutex, reading, requests>> /\ Client

-----------------------------------------------------------------------------

Gather ==
  \/ MakeMaps \/ GetStepsFromRunner \/ FindAllStepsFromConcepts \/ FindAllStepsFromSpecs
  \/ AddSpec \/ AddStepsForSpecs \/ AddConcept \/ RemoveConcept \/ RemoveSpec
  \/ NewMap \/ AddToAvailableSteps \/ ListComplete \/ Watch

Next ==
  /\ ~crashed
  /\ \/ Gather
     \/ BeginSteps \/ EndSteps \/ BeginConcepts \/ EndConcepts
     \/ \E file \in Files : Save(file) \/ Delete(file)
     \/ \E from, to \in SpecFiles : Rename(from, to)

Spec == Init /\ [][Next]_vars
FairSpec == Spec /\ WF_vars(~crashed /\ Gather) /\ WF_vars(~crashed /\ EndSteps)

-----------------------------------------------------------------------------
(* Properties.                                                             *)

\* The types of the state; only a client that is iterating has anything in reading.
TypeOK ==
  /\ disk \in [Files -> UNION {Contents(f) : f \in Files}]
  /\ watching \in BOOLEAN /\ listing \in BOOLEAN /\ crashed \in BOOLEAN
  /\ events \in Seq([op : {"create", "write", "remove", "rename"}, file : Files])
  /\ at \in {"start", "runner", "concepts", "specs", "add", "concept added", "update", "fill",
             "watch", "idle"}
  /\ parsed \in [SpecFiles -> Entry]
  /\ runnerStepValues \in {{}, RunnerSteps}
  /\ conceptDictionary \in Entry
  /\ fileToStepsMap \in [Files -> Entry]
  /\ availableSpecs \in [SpecFiles -> Nat]
  /\ availableStepsMap \subseteq Steps
  /\ mutex \in {"free", "gatherer", "client"}
  /\ reading \in [current : BOOLEAN, seen : SUBSET Steps, due : SUBSET Steps,
                  during : {"nothing", "start", "concept", "create", "write", "remove", "rename"}]
  /\ mutex # "client" => reading = NotReading
  /\ missed \subseteq Files
  /\ changes \in Nat /\ requests \in Nat

Settled == at = "idle" /\ events = <<>>

\* When every event has been handled the gatherer knows the specifications as they are
\* on disk, except that a concept may be among the steps of one that was parsed before
\* it; it knows that there is a concept, if not which steps it consists of; and the
\* list of steps is that of the files.  Files that changed between start-up's reading
\* of them and the watch, and ones that do not parse, are left as they were.
FollowsFiles ==
  Settled =>
    /\ availableStepsMap = Known
    /\ \A f \in SpecFiles \ missed :
         /\ disk[f] = Absent => ~fileToStepsMap[f].known
         /\ disk[f].state = "ok" => /\ fileToStepsMap[f].known /\ availableSpecs[f] > 0
                                    /\ fileToStepsMap[f].steps \subseteq disk[f].steps
                                    /\ disk[f].steps \subseteq fileToStepsMap[f].steps \cup {Concept}
    /\ ConceptFile \notin missed =>
         /\ disk[ConceptFile] = Absent => ~conceptDictionary.known /\ ~fileToStepsMap[ConceptFile].known
         /\ disk[ConceptFile].state = "ok" => conceptDictionary.known

\* A client that asks for the steps while nothing happens, or while a specification is
\* removed, is told all of them, whatever happens before it has its answer; there is
\* no race then.  (While something is added, an answer may lack any of them.)
AnswersComplete ==
  mutex = "client" /\ reading.during \in {"nothing", "remove", "rename"} => reading.seen = reading.due

\* Every change comes to be reflected in the end: the mutex is always given back.
Settles == <>[](crashed \/ Settled)
=============================================================================

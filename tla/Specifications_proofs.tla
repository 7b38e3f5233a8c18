------------------------ MODULE Specifications_proofs ------------------------
(***************************************************************************)
(* Theorems about what gauge knows of specifications and which of their    *)
(* scenarios it selects: SpecInfo for any files, texts, runner and bounds, *)
(* and TagExpression for any tags and expressions of any length.           *)
(***************************************************************************)
EXTENDS SpecInfo, TagExpression, FiniteSetTheorems, SequenceTheorems, WellFoundedInduction,
        TLAPS

Removals == {"remove", "rename"}
Events == [op : {"create", "write", "remove", "rename"}, file : Files]
Quiet == {"nothing"} \cup Removals

\* Where the gatherer can be, and which event it is at: the mutex is its own only while
\* it updates the list, and always when that is for the removal of a specification.
PlaceInv ==
  /\ ~watching => at # "idle" /\ events = <<>> /\ at # "concept added"
  /\ watching => at \in {"idle", "add", "concept added", "update", "fill"}
  /\ watching /\ at # "idle" => events # <<>>
  /\ watching /\ at = "add" => Event.op \notin Removals
  /\ at = "concept added" => Event.file = ConceptFile
  /\ mutex = "gatherer" => at \in {"update", "fill"}
  /\ watching /\ at \in {"update", "fill"} /\ Event.op \in Removals /\ Event.file \in SpecFiles
       => mutex = "gatherer"

\* The list is complete whenever the gatherer waits.
ListInv == at \in {"watch", "idle"} => availableStepsMap = Known

\* A client that began in quiet has seen it all, and the map it is iterating over is not
\* the one that is being filled.
ReadInv ==
  mutex = "client" /\ reading.during \in Quiet =>
    reading.seen = reading.due /\ (reading.current => at # "fill")

Inv == TypeOK /\ PlaceInv /\ ListInv /\ ReadInv

-----------------------------------------------------------------------------
(* Types.                                                                  *)

LEMMA DiskType ==
  ASSUME TypeOK, NEW f \in Files
  PROVE  disk[f].steps \subseteq Steps /\ disk[f] \in UNION {Contents(g) : g \in Files}
<1>1. disk[f] \in UNION {Contents(g) : g \in Files}
  BY DEF TypeOK
<1>2. PICK g \in Files : disk[f] \in Contents(g)
  BY <1>1
<1>3. CASE disk[f] = Absent \/ disk[f] = Broken
  BY <1>1, <1>3 DEF Absent, Broken
<1>4. CASE disk[f] \in Texts(g)
  <2>1. PICK steps \in (IF g = ConceptFile THEN ConceptTexts ELSE SpecTexts) : disk[f] = Text(steps)
    BY <1>4 DEF Texts
  <2>2. disk[f].steps = steps
    BY <2>1 DEF Text
  <2>3. steps \in SpecTexts \cup ConceptTexts
    BY <2>1
  <2>4. steps \subseteq Steps
    <3>1. CASE steps \in SpecTexts
      BY <3>1 DEF Steps
    <3>2. CASE steps \in ConceptTexts
      BY <3>2 DEF Steps
    <3> QED BY <2>3, <3>1, <3>2
  <2> QED BY <1>1, <2>2, <2>4
<1> QED BY <1>2, <1>3, <1>4 DEF Contents

LEMMA EntryTypes ==
  /\ None \in Entry /\ ~None.known /\ None.steps = {}
  /\ \A steps \in SUBSET Steps : Some(steps) \in Entry /\ Some(steps).known
                                 /\ Some(steps).steps = steps
BY DEF None, Some, Entry

LEMMA ReadConceptType ==
  ASSUME TypeOK
  PROVE  ReadConcept \in Entry
<1>1. ConceptFile \in Files
  BY DEF Files
<1> QED BY <1>1, DiskType, EntryTypes DEF ReadConcept

LEMMA ReadSpecType ==
  ASSUME TypeOK, NEW f \in SpecFiles
  PROVE  ReadSpec(f) \in Entry
<1>1. f \in Files
  BY DEF Files
<1>2. disk[f].steps \ (IF conceptDictionary.known THEN {Concept} ELSE {}) \in SUBSET Steps
  BY <1>1, DiskType
<1> QED BY <1>2, EntryTypes DEF ReadSpec

\* Known depends on the runner's steps and the files' alone.
LEMMA KnownFrame ==
  ASSUME runnerStepValues' = runnerStepValues, fileToStepsMap' = fileToStepsMap
  PROVE  Known' = Known
BY DEF Known

LEMMA KnownType ==
  ASSUME TypeOK
  PROVE  Known \subseteq Steps
<1>1. runnerStepValues \subseteq Steps
  BY DEF TypeOK, Steps
<1>2. \A f \in Files : fileToStepsMap[f].steps \subseteq Steps
  BY DEF TypeOK, Entry
<1> QED BY <1>1, <1>2 DEF Known

\* Events that are reported do not change which one is being handled.
LEMMA ReportFrame ==
  ASSUME TypeOK, NEW reported \in Seq(Events), Report(reported)
  PROVE  /\ events' \in Seq(Events)
         /\ ~watching => events' = events
         /\ events # <<>> => events' # <<>> /\ Event' = Event
<1>1. events \in Seq(Events)
  BY DEF TypeOK, Events
<1>2. CASE ~watching
  BY <1>1, <1>2 DEF Report, Event
<1>3. CASE watching
  <2>1. events' = events \o reported
    BY <1>3 DEF Report
  <2>2. /\ events' \in Seq(Events) /\ Len(events') = Len(events) + Len(reported)
        /\ \A i \in 1..Len(events) : events'[i] = events[i]
    BY <1>1, <2>1, ConcatProperties
  <2>3. ASSUME events # <<>>
        PROVE  events' # <<>> /\ Event' = Event
    <3>1. Len(events) \in Nat /\ Len(events) > 0 /\ Len(reported) \in Nat
      BY <1>1, <2>3, LenProperties, EmptySeq
    <3>2. 1 \in 1..Len(events)
      BY <3>1
    <3>3. events'[1] = events[1]
      BY <2>2, <3>2
    <3>4. Len(events') > 0
      BY <2>2, <3>1
    <3>5. events' # <<>>
      BY <3>4
    <3>6. Event = events[1] /\ Event' = events'[1]
      BY DEF Event
    <3> QED BY <3>3, <3>5, <3>6
  <2> QED BY <1>3, <2>2, <2>3
<1> QED BY <1>2, <1>3

-----------------------------------------------------------------------------
(* The environment: files and clients.                                     *)

LEMMA ChangeInv ==
  ASSUME Inv, NEW reported \in Seq(Events), Report(reported), Change,
         disk' \in [Files -> UNION {Contents(f) : f \in Files}], missed' \subseteq Files
  PROVE  Inv'
<1>1. /\ events' \in Seq(Events)
      /\ ~watching => events' = events
      /\ events # <<>> => events' # <<>> /\ Event' = Event
  BY ReportFrame DEF Inv
<1>2. Known' = Known
  BY KnownFrame DEF Change, cache
<1>3. TypeOK'
  <2>1. TypeOK
    BY DEF Inv
  <2>2. /\ watching' = watching /\ at' = at /\ parsed' = parsed
        /\ runnerStepValues' = runnerStepValues /\ conceptDictionary' = conceptDictionary
        /\ fileToStepsMap' = fileToStepsMap /\ availableSpecs' = availableSpecs
        /\ availableStepsMap' = availableStepsMap /\ mutex' = mutex /\ reading' = reading
        /\ listing' = listing /\ requests' = requests /\ crashed' = crashed
        /\ changes' = changes + 1
    BY DEF Change, cache, clients
  <2>3. events' \in Seq([op : {"create", "write", "remove", "rename"}, file : Files])
    BY <1>1 DEF Events
  <2>4. changes \in Nat
    BY <2>1 DEF TypeOK
  <2>5. changes' \in Nat
    BY <2>2, <2>4
  <2>6. mutex' # "client" => reading' = NotReading'
    BY <2>1, <2>2 DEF TypeOK, NotReading
  <2>7. (disk \in [Files -> UNION {Contents(f) : f \in Files}])'
    BY DEF Contents, Texts, Absent, Broken, Text
  <2>8. (/\ watching \in BOOLEAN /\ listing \in BOOLEAN /\ crashed \in BOOLEAN
         /\ parsed \in [SpecFiles -> Entry] /\ runnerStepValues \in {{}, RunnerSteps}
         /\ conceptDictionary \in Entry /\ fileToStepsMap \in [Files -> Entry]
         /\ availableSpecs \in [SpecFiles -> Nat] /\ availableStepsMap \subseteq Steps)'
    BY <2>1, <2>2 DEF TypeOK
  <2> QED BY <2>1, <2>2, <2>3, <2>5, <2>6, <2>7, <2>8 DEF TypeOK
<1>4. PlaceInv'
  BY <1>1 DEF Inv, PlaceInv, Change, Removals
<1>5. ListInv'
  BY <1>2 DEF Inv, ListInv, Change
<1>6. ReadInv'
  BY DEF Inv, ReadInv, Change, clients, Quiet, Removals
<1> QED BY <1>3, <1>4, <1>5, <1>6 DEF Inv

LEMMA FileTypes ==
  ASSUME TypeOK, NEW file \in Files, NEW content \in Contents(file)
  PROVE  [disk EXCEPT ![file] = content] \in [Files -> UNION {Contents(f) : f \in Files}]
BY DEF TypeOK

LEMMA MissType ==
  ASSUME TypeOK, NEW files \in SUBSET Files, Miss(files)
  PROVE  missed' \subseteq Files
BY DEF Miss, TypeOK

LEMMA SaveInv ==
  ASSUME Inv, NEW file \in Files, Save(file)
  PROVE  Inv'
<1>1. disk' \in [Files -> UNION {Contents(f) : f \in Files}]
  BY FileTypes DEF Save, Inv
<1>2. missed' \subseteq Files
  BY MissType DEF Save, Inv
<1>3. <<[op |-> IF disk[file] = Absent THEN "create" ELSE "write", file |-> file]>> \in Seq(Events)
  BY DEF Events
<1> QED BY <1>1, <1>2, <1>3, ChangeInv DEF Save

LEMMA DeleteInv ==
  ASSUME Inv, NEW file \in Files, Delete(file)
  PROVE  Inv'
<1>1. disk' \in [Files -> UNION {Contents(f) : f \in Files}]
  BY FileTypes DEF Delete, Inv, Contents
<1>2. missed' \subseteq Files
  BY MissType DEF Delete, Inv
<1>3. <<[op |-> "remove", file |-> file]>> \in Seq(Events)
  BY DEF Events
<1> QED BY <1>1, <1>2, <1>3, ChangeInv DEF Delete

LEMMA RenameInv ==
  ASSUME Inv, NEW from \in SpecFiles, NEW to \in SpecFiles, Rename(from, to)
  PROVE  Inv'
<1>1. from \in Files /\ to \in Files
  BY DEF Files
<1>2. disk' \in [Files -> UNION {Contents(f) : f \in Files}]
  <2>1. disk' = [disk EXCEPT ![to] = disk[from], ![from] = Absent]
    BY DEF Rename
  <2>2. Absent \in UNION {Contents(f) : f \in Files}
    BY <1>1 DEF Contents
  <2>3. disk[from] \in UNION {Contents(f) : f \in Files}
    BY <1>1, DiskType DEF Inv
  <2> QED BY <1>1, <2>1, <2>2, <2>3 DEF Inv, TypeOK
<1>3. missed' \subseteq Files
  BY <1>1, MissType DEF Rename, Inv
<1>4. <<[op |-> "rename", file |-> from], [op |-> "create", file |-> to]>> \in Seq(Events)
  BY <1>1 DEF Events
<1> QED BY <1>2, <1>3, <1>4, ChangeInv DEF Rename

LEMMA ClientFrame ==
  ASSUME Inv, Client
  PROVE  /\ Known' = Known /\ Event' = Event /\ ListInv'
         /\ TypeOK' <=> /\ mutex' \in {"free", "gatherer", "client"}
                        /\ reading' \in [current : BOOLEAN, seen : SUBSET Steps, due : SUBSET Steps,
                              during : {"nothing", "start", "concept", "create", "write", "remove",
                                        "rename"}]
                        /\ mutex' # "client" => reading' = NotReading
                        /\ listing' \in BOOLEAN /\ requests' \in Nat
<1>1. Known' = Known
  BY KnownFrame DEF Client, cache
<1>2. Event' = Event
  BY DEF Client, project, Event
<1>3. ListInv'
  BY <1>1 DEF Inv, ListInv, Client
<1>4. NotReading' = NotReading
  BY DEF NotReading
<1> QED BY <1>1, <1>2, <1>3, <1>4 DEF Inv, TypeOK, Client, project, cache

LEMMA BeginStepsInv ==
  ASSUME Inv, BeginSteps
  PROVE  Inv'
<1>1. Client /\ mutex = "free" /\ mutex' = "client" /\ listing' = listing /\ requests' = requests + 1
      /\ reading' = [current |-> TRUE, seen |-> availableStepsMap, due |-> Known, during |-> Operation]
  BY DEF BeginSteps, Asks
<1>2. events \in Seq(Events) /\ availableStepsMap \subseteq Steps
      /\ listing \in BOOLEAN /\ requests \in Nat
  BY DEF Inv, TypeOK, Events
<1>3. watching /\ at # "idle" => Event \in Events
  <2>1. watching /\ at # "idle" => events # <<>>
    BY DEF Inv, PlaceInv
  <2> QED BY <1>2, <2>1, HeadTailProperties DEF Event
<1>4. Operation \in {"nothing", "start", "concept", "create", "write", "remove", "rename"}
  BY <1>3 DEF Operation, Events
<1>5. TypeOK'
  BY <1>1, <1>2, <1>4, ClientFrame, KnownType DEF Inv
<1>6. PlaceInv'
  BY <1>1, ClientFrame DEF Inv, PlaceInv, Client, project
<1>7. ReadInv'
  <2>1. CASE Operation = "nothing"
    <3>1. watching /\ at = "idle"
      <4>1. ASSUME watching, at # "idle"
            PROVE  Operation \in {"concept", "create", "write", "remove", "rename"}
        <5>1. Event.op \in {"create", "write", "remove", "rename"}
          BY <1>3, <4>1 DEF Events
        <5> QED BY <4>1, <5>1 DEF Operation
      <4>2. ~watching => Operation = "start"
        BY DEF Operation
      <4>3. watching \in BOOLEAN
        BY DEF Inv, TypeOK
      <4> QED BY <2>1, <4>1, <4>2, <4>3
    <3>2. availableStepsMap = Known
      BY <3>1 DEF Inv, ListInv
    <3> QED BY <1>1, <3>1, <3>2, ClientFrame DEF ReadInv, Client
  <2>2. CASE Operation \in Removals
    <3>1. watching /\ at # "idle" /\ Event.op \in Removals /\ Event.file # ConceptFile
      BY <1>3, <2>2 DEF Operation, Events, Removals
    <3>2. Event.file \in SpecFiles
      BY <1>3, <3>1 DEF Events, Files
    <3>3. mutex = "gatherer"
      BY <1>3, <3>1, <3>2 DEF Inv, PlaceInv
    <3> QED BY <1>1, <3>3
  <2>3. CASE Operation \notin Quiet
    BY <1>1, <2>3 DEF ReadInv, Quiet, Removals
  <2> QED BY <2>1, <2>2, <2>3 DEF Quiet
<1> QED BY <1>1, <1>5, <1>6, <1>7, ClientFrame DEF Inv

LEMMA OtherClientInv ==
  ASSUME Inv, EndSteps \/ BeginConcepts \/ EndConcepts
  PROVE  Inv'
<1>1. Client
  BY DEF EndSteps, BeginConcepts, EndConcepts
<1>2. TypeOK'
  <2>1. TypeOK
    BY DEF Inv
  <2>2. NotReading \in [current : BOOLEAN, seen : SUBSET Steps, due : SUBSET Steps,
                        during : {"nothing", "start", "concept", "create", "write", "remove",
                                  "rename"}]
    BY DEF NotReading
  <2>3. CASE EndSteps
    <3>1. mutex' = "free" /\ reading' = NotReading /\ listing' = listing /\ requests' = requests
      BY <2>3 DEF EndSteps
    <3>2. NotReading' = NotReading
      BY DEF NotReading
    <3>3. listing' \in BOOLEAN /\ requests' \in Nat
      BY <2>1, <3>1 DEF TypeOK
    <3>4. mutex' \in {"free", "gatherer", "client"}
      BY <3>1
    <3> QED BY <1>1, <2>2, <3>1, <3>2, <3>3, <3>4, ClientFrame
  <2>4. CASE BeginConcepts \/ EndConcepts
    <3>1. mutex' = mutex /\ reading' = reading /\ listing' \in BOOLEAN
      BY <2>4 DEF BeginConcepts, EndConcepts
    <3>2. requests' \in Nat
      <4>1. requests \in Nat
        BY <2>1 DEF TypeOK
      <4>2. requests' = requests \/ requests' = requests + 1
        BY <2>4 DEF BeginConcepts, EndConcepts, Asks
      <4> QED BY <4>1, <4>2
    <3>3. NotReading' = NotReading
      BY DEF NotReading
    <3> QED BY <1>1, <2>1, <3>1, <3>2, <3>3, ClientFrame DEF TypeOK
  <2> QED BY <2>3, <2>4
<1>3. PlaceInv'
  BY <1>1, ClientFrame
     DEF Inv, PlaceInv, Client, project, EndSteps, BeginConcepts, EndConcepts
<1>4. ReadInv'
  BY <1>1 DEF Inv, ReadInv, Client, Quiet, Removals, EndSteps, BeginConcepts, EndConcepts
<1> QED BY <1>1, <1>2, <1>3, <1>4, ClientFrame DEF Inv
-----------------------------------------------------------------------------
(* The gatherer.                                                           *)

\* What the gatherer's steps may change.
GathererType ==
  /\ watching \in BOOLEAN /\ listing \in BOOLEAN /\ crashed \in BOOLEAN
  /\ events \in Seq(Events)
  /\ at \in {"start", "runner", "concepts", "specs", "add", "concept added", "update", "fill",
             "watch", "idle"}
  /\ parsed \in [SpecFiles -> Entry] /\ runnerStepValues \in {{}, RunnerSteps}
  /\ conceptDictionary \in Entry /\ fileToStepsMap \in [Files -> Entry]
  /\ availableSpecs \in [SpecFiles -> Nat] /\ availableStepsMap \subseteq Steps
  /\ mutex \in {"free", "gatherer", "client"}
  /\ reading \in [current : BOOLEAN, seen : SUBSET Steps, due : SUBSET Steps,
                  during : {"nothing", "start", "concept", "create", "write", "remove", "rename"}]
  /\ mutex # "client" => reading = NotReading

LEMMA GathererTypes == TypeOK => GathererType
BY DEF TypeOK, GathererType, Events

LEMMA TypesAfter ==
  ASSUME TypeOK, Gatherer, GathererType'
  PROVE  TypeOK'
<1>1. disk' = disk /\ missed' = missed /\ changes' = changes /\ requests' = requests
  BY DEF Gatherer
<1>2. (disk \in [Files -> UNION {Contents(f) : f \in Files}])'
  BY <1>1 DEF TypeOK, Contents, Texts, Absent, Broken, Text
<1>3. (missed \subseteq Files /\ changes \in Nat /\ requests \in Nat)'
  BY <1>1 DEF TypeOK
<1>4. (events \in Seq([op : {"create", "write", "remove", "rename"}, file : Files]))'
  BY DEF GathererType, Events
<1> QED BY <1>2, <1>3, <1>4 DEF TypeOK, GathererType

\* A step that leaves the client alone and is not one of filling the list.
LEMMA ReadFrame ==
  ASSUME Inv, reading' = reading, mutex' = mutex \/ mutex' # "client", at' # "fill"
  PROVE  ReadInv'
BY DEF Inv, ReadInv, Quiet, Removals

LEMMA StartInv ==
  ASSUME Inv, MakeMaps \/ GetStepsFromRunner
  PROVE  Inv'
<1> USE DEF MakeMaps, GetStepsFromRunner
<1>1. TypeOK'
  <2>1. GathererType'
    BY GathererTypes DEF Inv, GathererType, cache, NotReading
  <2> QED BY <2>1, TypesAfter DEF Inv
<1>2. at \in {"start", "runner"} /\ at' \in {"runner", "concepts"} /\ watching' = watching
      /\ events' = events /\ mutex' = mutex
  OBVIOUS
<1>3. ~watching /\ events = <<>> /\ mutex # "gatherer"
  BY <1>2 DEF Inv, PlaceInv
<1>4. PlaceInv' /\ ListInv'
  BY <1>2, <1>3 DEF PlaceInv, ListInv
<1>5. ReadInv'
  BY ReadFrame
<1> QED BY <1>1, <1>4, <1>5 DEF Inv

LEMMA FindTypes ==
  ASSUME TypeOK, NEW entries \in [Files -> Entry], FindStepsFromConcepts(entries)
  PROVE  conceptDictionary' \in Entry /\ fileToStepsMap' \in [Files -> Entry] /\ listing' = FALSE
BY ReadConceptType DEF FindStepsFromConcepts

LEMMA FindAllStepsFromConceptsInv ==
  ASSUME Inv, FindAllStepsFromConcepts
  PROVE  Inv'
<1> USE DEF FindAllStepsFromConcepts
<1>1. TypeOK'
  <2>1. conceptDictionary' \in Entry /\ fileToStepsMap' \in [Files -> Entry] /\ listing' = FALSE
    BY FindTypes DEF Inv, TypeOK
  <2>2. GathererType'
    BY <2>1, GathererTypes DEF Inv, GathererType, NotReading
  <2> QED BY <2>2, TypesAfter DEF Inv
<1>2. PlaceInv'
  BY FilesAssumption DEF Inv, PlaceInv, Event
<1>3. ListInv' /\ ReadInv'
  BY ReadFrame DEF ListInv
<1> QED BY <1>1, <1>2, <1>3 DEF Inv

LEMMA ParseTypes ==
  ASSUME Inv, NEW files, Parse(files)
  PROVE  TypeOK'
<1>1. parsed' \in [SpecFiles -> Entry]
  BY ReadSpecType, EntryTypes DEF Parse, Inv
<1>2. GathererType'
  BY <1>1, GathererTypes DEF Inv, GathererType, Parse, cache, NotReading
<1> QED BY <1>2, TypesAfter DEF Inv, Parse

LEMMA ParseInv ==
  ASSUME Inv, FindAllStepsFromSpecs \/ AddSpec
  PROVE  Inv'
<1>1. PICK files : Parse(files)
  BY DEF FindAllStepsFromSpecs, AddSpec
<1>2. TypeOK'
  BY <1>1, ParseTypes
<1>3. PlaceInv'
  BY <1>1 DEF Inv, PlaceInv, FindAllStepsFromSpecs, AddSpec, Parse, Handles, Event, Removals
<1>4. ListInv' /\ ReadInv'
  BY <1>1, ReadFrame DEF ListInv, Parse
<1> QED BY <1>2, <1>3, <1>4 DEF Inv

LEMMA AddStepsForSpecsInv ==
  ASSUME Inv, AddStepsForSpecs
  PROVE  Inv'
<1> USE DEF AddStepsForSpecs
<1>1. TypeOK'
  <2>1. GathererType
    BY GathererTypes DEF Inv
  <2>2. fileToStepsMap' \in [Files -> Entry]
    BY <2>1 DEF GathererType
  <2>3. parsed' \in [SpecFiles -> Entry]
    BY EntryTypes
  <2>4. availableSpecs' \in [SpecFiles -> Nat]
    <3>1. \A f \in SpecFiles : availableSpecs[f] \in Nat
      BY <2>1 DEF GathererType
    <3>2. \A f \in SpecFiles : (availableSpecs[f] + IF f \in NewSpecs THEN 1 ELSE 0) \in Nat
      BY <3>1
    <3> QED BY <3>2
  <2>5. GathererType'
    BY <2>1, <2>2, <2>3, <2>4 DEF GathererType, NotReading
  <2> QED BY <2>5, TypesAfter DEF Inv
<1>2. PlaceInv'
  BY DEF Inv, PlaceInv, Event
<1>3. ListInv' /\ ReadInv'
  BY ReadFrame DEF ListInv
<1> QED BY <1>1, <1>2, <1>3 DEF Inv

LEMMA HandledTypes ==
  ASSUME TypeOK, Handled, events # <<>>
  PROVE  at' = "idle" /\ events' \in Seq(Events)
<1>1. events \in Seq(Events)
  BY DEF TypeOK, Events
<1> QED BY <1>1, HeadTailProperties DEF Handled

LEMMA AddConceptInv ==
  ASSUME Inv, AddConcept
  PROVE  Inv'
<1> USE DEF AddConcept
<1>1. /\ at = "idle" /\ events # <<>> /\ Event.file = ConceptFile /\ watching /\ watching' = watching
      /\ listing' = listing /\ mutex' = mutex /\ reading' = reading /\ parsed' = parsed
      /\ runnerStepValues' = runnerStepValues /\ fileToStepsMap' = fileToStepsMap
      /\ availableSpecs' = availableSpecs /\ availableStepsMap' = availableStepsMap
  BY DEF Handles, Inv, PlaceInv, TypeOK
<1>2. \/ at' = "idle" /\ events' \in Seq(Events)
      \/ at' = "concept added" /\ events' = events
  BY <1>1, HandledTypes DEF Inv
<1>3. TypeOK'
  <2>1. GathererType
    BY GathererTypes DEF Inv
  <2>2. conceptDictionary' \in Entry /\ crashed' \in BOOLEAN
    BY <2>1, ReadConceptType DEF GathererType, Inv
  <2>3. events' \in Seq(Events)
    BY <1>2, <2>1 DEF GathererType
  <2>4. GathererType'
    BY <1>1, <1>2, <2>1, <2>2, <2>3 DEF GathererType, NotReading
  <2> QED BY <2>4, TypesAfter DEF Inv
<1>4. PlaceInv'
  <2>1. mutex' # "gatherer"
    BY <1>1 DEF Inv, PlaceInv
  <2>2. CASE at' = "idle"
    BY <1>1, <2>1, <2>2 DEF PlaceInv
  <2>3. CASE at' = "concept added" /\ events' = events
    <3>1. Event' = Event
      BY <2>3 DEF Event
    <3> HIDE DEF AddConcept
    <3>2. watching'
      BY <1>1
    <3>3. Event'.file = ConceptFile /\ events' # <<>> /\ at' = "concept added"
      BY <1>1, <2>3, <3>1
    <3> QED BY <2>1, <3>2, <3>3 DEF PlaceInv
  <2> QED BY <1>2, <2>2, <2>3
<1>5. ListInv'
  BY <1>1, <1>2, KnownFrame DEF Inv, ListInv
<1>6. ReadInv'
  BY <1>1, <1>2, ReadFrame
<1> QED BY <1>3, <1>4, <1>5, <1>6 DEF Inv

LEMMA RemoveConceptInv ==
  ASSUME Inv, RemoveConcept
  PROVE  Inv'
<1> USE DEF RemoveConcept
<1>1. TypeOK'
  <2>1. [fileToStepsMap EXCEPT ![ConceptFile] = None] \in [Files -> Entry]
    BY EntryTypes DEF Inv, TypeOK
  <2>2. conceptDictionary' \in Entry /\ fileToStepsMap' \in [Files -> Entry] /\ listing' = FALSE
    BY <2>1, FindTypes DEF Inv
  <2>3. GathererType'
    BY <2>2, GathererTypes DEF Inv, GathererType, NotReading
  <2> QED BY <2>3, TypesAfter DEF Inv
<1>2. PlaceInv'
  BY FilesAssumption DEF Inv, PlaceInv, Handles, Event
<1>3. ListInv' /\ ReadInv'
  BY ReadFrame DEF ListInv
<1> QED BY <1>1, <1>2, <1>3 DEF Inv

LEMMA RemoveSpecInv ==
  ASSUME Inv, RemoveSpec
  PROVE  Inv'
<1> USE DEF RemoveSpec
<1>1. TypeOK'
  <2>1. fileToStepsMap' \in [Files -> Entry]
    BY EntryTypes DEF Inv, TypeOK
  <2>2. GathererType'
    BY <2>1, GathererTypes DEF Inv, GathererType, NotReading
  <2> QED BY <2>2, TypesAfter DEF Inv
<1>2. PlaceInv'
  BY DEF Inv, PlaceInv, Handles, Event
<1>3. ListInv' /\ ReadInv'
  BY ReadFrame DEF ListInv
<1> QED BY <1>1, <1>2, <1>3 DEF Inv

LEMMA NewMapInv ==
  ASSUME Inv, NewMap
  PROVE  Inv'
<1> USE DEF NewMap
<1>1. TypeOK'
  <2>1. GathererType
    BY GathererTypes DEF Inv
  <2>2. reading' \in [current : BOOLEAN, seen : SUBSET Steps, due : SUBSET Steps,
                     during : {"nothing", "start", "concept", "create", "write", "remove", "rename"}]
    BY <2>1 DEF GathererType
  <2>3. mutex' # "client" => reading' = NotReading
    <3>1. reading' = [current |-> FALSE, seen |-> reading.seen, due |-> reading.due,
                      during |-> reading.during]
      BY <2>1 DEF GathererType
    <3>2. SUFFICES ASSUME mutex' # "client" PROVE reading' = NotReading
      OBVIOUS
    <3>3. reading = NotReading
      BY <2>1, <3>2 DEF GathererType
    <3>4. reading.seen = {} /\ reading.due = {} /\ reading.during = "nothing"
      BY <3>3 DEF NotReading
    <3> HIDE DEF NewMap
    <3> QED BY <3>1, <3>4 DEF NotReading
  <2>4. NotReading' = NotReading
    BY DEF NotReading
  <2>5. GathererType'
    BY <2>1, <2>2, <2>3, <2>4 DEF GathererType, cache
  <2> QED BY <2>5, TypesAfter DEF Inv
<1>2. PlaceInv'
  BY DEF Inv, PlaceInv, Event
<1>3. ListInv'
  BY DEF ListInv
<1>4. reading'.current = FALSE /\ reading'.seen = reading.seen /\ reading'.due = reading.due
      /\ reading'.during = reading.during
  BY DEF Inv, TypeOK
<1>5. ReadInv'
  BY <1>4 DEF Inv, ReadInv, Quiet, Removals
<1> QED BY <1>1, <1>2, <1>3, <1>5 DEF Inv

LEMMA AddToAvailableStepsInv ==
  ASSUME Inv, AddToAvailableSteps
  PROVE  Inv'
<1>1. PICK step \in Known \ availableStepsMap :
        /\ availableStepsMap' = availableStepsMap \cup {step}
        /\ reading' \in {reading, [reading EXCEPT !.seen =
                                     @ \cup IF reading.current THEN {step} ELSE {}]}
  BY DEF AddToAvailableSteps
<1>2. /\ at = "fill" /\ at' = at /\ mutex' = mutex /\ watching' = watching /\ events' = events
      /\ listing' = listing /\ crashed' \in {FALSE, reading.current} /\ parsed' = parsed
      /\ runnerStepValues' = runnerStepValues /\ UNCHANGED cache /\ Gatherer
  BY DEF AddToAvailableSteps
<1>3. GathererType
  BY GathererTypes DEF Inv
<1>4. step \in Steps
  BY <1>1, KnownType DEF Inv
<1>5. /\ reading'.current = reading.current /\ reading'.due = reading.due
      /\ reading'.during = reading.during
      /\ ~reading.current => reading'.seen = reading.seen
  BY <1>1, <1>3 DEF GathererType
<1>6. TypeOK'
  <2>1. reading' \in [current : BOOLEAN, seen : SUBSET Steps, due : SUBSET Steps,
                     during : {"nothing", "start", "concept", "create", "write", "remove", "rename"}]
    <3>1. reading \in [current : BOOLEAN, seen : SUBSET Steps, due : SUBSET Steps,
                      during : {"nothing", "start", "concept", "create", "write", "remove", "rename"}]
      BY <1>3 DEF GathererType
    <3>2. reading.seen \cup (IF reading.current THEN {step} ELSE {}) \in SUBSET Steps
      BY <1>4, <3>1
    <3>3. CASE reading' = reading
      BY <3>1, <3>3
    <3>4. CASE reading' = [reading EXCEPT !.seen =
                             reading.seen \cup (IF reading.current THEN {step} ELSE {})]
      BY <3>1, <3>2, <3>4
    <3> QED BY <1>1, <3>3, <3>4
  <2>2. mutex' # "client" => reading' = NotReading
    BY <1>1, <1>2, <1>3 DEF GathererType, NotReading
  <2>3. NotReading' = NotReading
    BY DEF NotReading
  <2>4. crashed' \in BOOLEAN
    BY <1>2, <1>3 DEF GathererType
  <2>5. GathererType'
    BY <1>1, <1>2, <1>3, <1>4, <2>1, <2>2, <2>3, <2>4 DEF GathererType, cache
  <2> QED BY <1>2, <2>5, TypesAfter DEF Inv
<1>7. PlaceInv'
  BY <1>2 DEF Inv, PlaceInv, Event
<1>8. ListInv'
  BY <1>2 DEF ListInv
<1>9. ReadInv'
  BY <1>2, <1>5 DEF Inv, ReadInv, Quiet, Removals
<1> QED BY <1>6, <1>7, <1>8, <1>9 DEF Inv

LEMMA ListCompleteInv ==
  ASSUME Inv, ListComplete
  PROVE  Inv'
<1>1. /\ at = "fill" /\ availableStepsMap = Known
      /\ availableStepsMap' = availableStepsMap /\ watching' = watching /\ reading' = reading
      /\ mutex' = IF mutex = "gatherer" THEN "free" ELSE mutex
  BY DEF ListComplete, Release
<1>2. \/ watching /\ at' = "idle" /\ events' \in Seq(Events)
      \/ ~watching /\ at' = "watch" /\ events' = events
  BY <1>1, HandledTypes DEF ListComplete, Inv, PlaceInv
<1>3. TypeOK'
  <2>1. GathererType
    BY GathererTypes DEF Inv
  <2>2. events' \in Seq(Events)
    BY <1>2, <2>1 DEF GathererType
  <2>3. GathererType'
    BY <1>1, <1>2, <2>1, <2>2 DEF GathererType, NotReading, ListComplete, cache
  <2> QED BY <2>3, TypesAfter DEF Inv, ListComplete
<1>4. PlaceInv'
  BY <1>1, <1>2 DEF Inv, PlaceInv, Event
<1>5. ListInv'
  BY <1>1, KnownFrame DEF ListInv, ListComplete, cache
<1>6. ReadInv'
  BY <1>1, <1>2, ReadFrame
<1> QED BY <1>3, <1>4, <1>5, <1>6 DEF Inv

LEMMA WatchInv ==
  ASSUME Inv, Watch
  PROVE  Inv'
<1> USE DEF Watch
<1>1. TypeOK'
  <2>1. GathererType'
    BY GathererTypes DEF Inv, GathererType, cache, NotReading
  <2> QED BY <2>1, TypesAfter DEF Inv
<1>2. PlaceInv'
  BY DEF Inv, PlaceInv, Event
<1>3. ListInv'
  BY KnownFrame DEF Inv, ListInv, cache
<1>4. ReadInv'
  BY ReadFrame
<1> QED BY <1>1, <1>2, <1>3, <1>4 DEF Inv

-----------------------------------------------------------------------------

LEMMA InitInv == Init => Inv
<1> SUFFICES ASSUME Init PROVE Inv
  OBVIOUS
<1>1. TypeOK
  <2>1. NotReading \in [current : BOOLEAN, seen : SUBSET Steps, due : SUBSET Steps,
                        during : {"nothing", "start", "concept", "create", "write", "remove",
                                  "rename"}]
    BY DEF NotReading
  <2>2. parsed \in [SpecFiles -> Entry] /\ conceptDictionary \in Entry
        /\ fileToStepsMap \in [Files -> Entry] /\ availableSpecs \in [SpecFiles -> Nat]
    BY EntryTypes DEF Init
  <2>3. events \in Seq([op : {"create", "write", "remove", "rename"}, file : Files])
    BY DEF Init
  <2> QED BY <2>1, <2>2, <2>3 DEF Init, TypeOK
<1>2. PlaceInv /\ ListInv /\ ReadInv
  BY DEF Init, PlaceInv, ListInv, ReadInv
<1> QED BY <1>1, <1>2 DEF Inv

LEMMA NextInv == Inv /\ [Next]_vars => Inv'
<1> SUFFICES ASSUME Inv, [Next]_vars PROVE Inv'
  OBVIOUS
<1>1. CASE Gather
  BY <1>1, StartInv, FindAllStepsFromConceptsInv, ParseInv, AddStepsForSpecsInv, AddConceptInv,
     RemoveConceptInv, RemoveSpecInv, NewMapInv, AddToAvailableStepsInv, ListCompleteInv, WatchInv
     DEF Gather
<1>2. CASE BeginSteps \/ EndSteps \/ BeginConcepts \/ EndConcepts
  BY <1>2, BeginStepsInv, OtherClientInv
<1>3. CASE \E file \in Files : Save(file) \/ Delete(file)
  BY <1>3, SaveInv, DeleteInv
<1>4. CASE \E from, to \in SpecFiles : Rename(from, to)
  BY <1>4, RenameInv
<1>5. CASE UNCHANGED vars
  <2>1. /\ Client /\ UNCHANGED clients /\ mutex' = mutex
    BY <1>5 DEF vars, Client
  <2>2. TypeOK'
    BY <2>1, ClientFrame DEF Inv, TypeOK, clients, NotReading
  <2>3. PlaceInv' /\ ReadInv'
    BY <2>1, ClientFrame DEF Inv, PlaceInv, ReadInv, Client, project, clients, Quiet, Removals
  <2> QED BY <2>1, <2>2, <2>3, ClientFrame DEF Inv
<1> QED BY <1>1, <1>2, <1>3, <1>4, <1>5 DEF Next

LEMMA Invariance == Spec => []Inv
BY InitInv, NextInv, PTL DEF Spec

\* Of any files, texts and bounds: only the client that holds the mutex is iterating,
\* and the maps and lists that the gatherer (specDetails.go) keeps are of their types.
THEOREM TypeCorrect == Spec => []TypeOK
<1>1. Inv => TypeOK
  BY DEF Inv
<1> QED BY <1>1, Invariance, PTL

\* getAvailableSteps (specDetails.go:346-357) under the mutex answers with all the steps
\* when it is asked while nothing happens or a specification is being removed: the
\* list is complete whenever the gatherer waits, and what is done then replaces the
\* map before it fills it.
THEOREM AnswersSound == Spec => []AnswersComplete
<1>1. Inv => AnswersComplete
  BY DEF Inv, ReadInv, Quiet, Removals, AnswersComplete
<1> QED BY <1>1, Invariance, PTL

-----------------------------------------------------------------------------
(* The gatherer follows the files.                                         *)

\* The events that have not been begun: the first one, when it is being handled, has been.
Waiting == IF at = "idle" \/ ~watching THEN events ELSE Tail(events)

Awaited(f, es) == \E i \in DOMAIN es : es[i].file = f

\* The last event of a file tells whether there is one.
Told(es, d) ==
  \A i \in DOMAIN es :
    (\A j \in DOMAIN es : j > i => es[j].file # es[i].file) =>
      (es[i].op \in Removals <=> d[es[i].file] = Absent)

\* What is in the maps for a specification, or will be when those parsed are added.
Entered(f) == IF parsed[f].known THEN parsed[f] ELSE fileToStepsMap[f]

Reflects(entry, content) ==
  /\ content = Absent => ~entry.known
  /\ content.state = "ok" => /\ entry.known
                             /\ entry.steps \subseteq content.steps
                             /\ content.steps \subseteq entry.steps \cup {Concept}

ConceptReflected ==
  /\ disk[ConceptFile] = Absent => ~conceptDictionary.known /\ ~fileToStepsMap[ConceptFile].known
  /\ disk[ConceptFile].state = "ok" => conceptDictionary.known

\* What has not been read is not known; what was parsed is added at once.
StageInv ==
  /\ at # "add" => \A f \in SpecFiles : ~parsed[f].known
  /\ at = "concept added" => conceptDictionary.known
  /\ at \in {"start", "runner", "concepts", "specs"} => \A f \in SpecFiles : ~fileToStepsMap[f].known
  /\ at \in {"start", "runner", "concepts"} => ~fileToStepsMap[ConceptFile].known

\* A file that was read, has not been missed and of which no event waits is known as it is.
FollowInv ==
  /\ Told(Waiting, disk)
  /\ \A f \in SpecFiles : fileToStepsMap[f].known => availableSpecs[f] > 0
  /\ \A f \in SpecFiles \ missed :
       IsRead(f) /\ ~Awaited(f, Waiting) => Reflects(Entered(f), disk[f])
  /\ ConceptFile \notin missed /\ IsRead(ConceptFile) /\ ~Awaited(ConceptFile, Waiting)
       => ConceptReflected

FullInv == Inv /\ StageInv /\ FollowInv

\* One more event, and the file as that event says.
LEMMA ToldAppend ==
  ASSUME NEW es \in Seq(Events), NEW e \in Events, NEW d, NEW d2, Told(es, d),
         \A f \in Files : f # e.file => d2[f] = d[f],
         e.op \in Removals <=> d2[e.file] = Absent
  PROVE  /\ es \o <<e>> \in Seq(Events)
         /\ Told(es \o <<e>>, d2)
         /\ \A f : Awaited(f, es \o <<e>>) <=> Awaited(f, es) \/ f = e.file
<1> DEFINE new == es \o <<e>>
<1>1. /\ new \in Seq(Events) /\ Len(new) = Len(es) + 1 /\ Len(es) \in Nat
      /\ \A i \in 1..Len(es) : new[i] = es[i]
      /\ new[Len(es) + 1] = e
      /\ DOMAIN es = 1..Len(es) /\ DOMAIN new = 1..(Len(es) + 1)
  <2>1. <<e>> \in Seq(Events) /\ Len(<<e>>) = 1 /\ <<e>>[1] = e
    OBVIOUS
  <2>2. Len(es) \in Nat /\ DOMAIN es = 1..Len(es)
    BY LenProperties
  <2>3. /\ new \in Seq(Events) /\ Len(new) = Len(es) + 1
        /\ \A i \in 1..(Len(es) + 1) : new[i] = IF i <= Len(es) THEN es[i] ELSE <<e>>[i - Len(es)]
    BY <2>1, ConcatProperties
  <2>4. \A i \in 1..Len(es) : i \in 1..(Len(es) + 1) /\ i <= Len(es)
    BY <2>2
  <2>5. Len(es) + 1 \in 1..(Len(es) + 1) /\ ~(Len(es) + 1 <= Len(es)) /\ (Len(es) + 1) - Len(es) = 1
    BY <2>2
  <2>6. new[Len(es) + 1] = e
    BY <2>1, <2>3, <2>5
  <2>7. DOMAIN new = 1..(Len(es) + 1)
    BY <2>3, LenProperties
  <2> QED BY <2>2, <2>3, <2>4, <2>6, <2>7
<1> HIDE DEF new
<1>2. Told(new, d2)
  <2> SUFFICES ASSUME NEW i \in DOMAIN new, \A j \in DOMAIN new : j > i => new[j].file # new[i].file
               PROVE  new[i].op \in Removals <=> d2[new[i].file] = Absent
    BY DEF Told
  <2>1. CASE i = Len(es) + 1
    BY <1>1, <2>1
  <2>2. CASE i \in 1..Len(es)
    <3>1. new[i] = es[i] /\ es[i] \in Events
      BY <1>1, <2>2, ElementOfSeq
    <3>2. Len(es) + 1 > i /\ Len(es) + 1 \in DOMAIN new
      BY <1>1, <2>2
    <3>3. es[i].file # e.file
      BY <1>1, <3>1, <3>2
    <3>4. d2[es[i].file] = d[es[i].file]
      BY <3>1, <3>3 DEF Events
    <3>5. \A j \in DOMAIN es : j > i => es[j].file # es[i].file
      <4> SUFFICES ASSUME NEW j \in DOMAIN es, j > i PROVE es[j].file # es[i].file
        OBVIOUS
      <4>1. j \in DOMAIN new /\ new[j] = es[j]
        BY <1>1
      <4> QED BY <3>1, <4>1
    <3> QED BY <1>1, <2>2, <3>1, <3>4, <3>5 DEF Told
  <2> QED BY <1>1, <2>1, <2>2
<1>3. ASSUME NEW f PROVE Awaited(f, new) <=> Awaited(f, es) \/ f = e.file
  <2>1. ASSUME NEW i \in DOMAIN new, new[i].file = f PROVE Awaited(f, es) \/ f = e.file
    BY <1>1, <2>1 DEF Awaited
  <2>2. ASSUME NEW i \in DOMAIN es, es[i].file = f PROVE Awaited(f, new)
    <3>1. i \in DOMAIN new /\ new[i] = es[i]
      BY <1>1
    <3> QED BY <2>2, <3>1 DEF Awaited
  <2>3. f = e.file => Awaited(f, new)
    <3>1. Len(es) + 1 \in DOMAIN new
      BY <1>1
    <3> QED BY <1>1, <3>1 DEF Awaited
  <2> QED BY <2>1, <2>2, <2>3 DEF Awaited
<1> QED BY <1>1, <1>2, <1>3 DEF new

\* One event less, the first.
LEMMA ToldTail ==
  ASSUME NEW es \in Seq(Events), es # <<>>, NEW d, Told(es, d)
  PROVE  /\ Told(Tail(es), d)
         /\ \A f : Awaited(f, es) <=> f = Head(es).file \/ Awaited(f, Tail(es))
         /\ ~Awaited(Head(es).file, Tail(es)) =>
              (Head(es).op \in Removals <=> d[Head(es).file] = Absent)
<1> DEFINE rest == Tail(es)
<1>1. /\ Len(es) \in Nat /\ Len(es) > 0 /\ DOMAIN es = 1..Len(es)
      /\ Len(rest) = Len(es) - 1 /\ DOMAIN rest = 1..(Len(es) - 1)
      /\ \A i \in 1..(Len(es) - 1) : rest[i] = es[i + 1]
      /\ Head(es) = es[1]
  BY LenProperties, EmptySeq, HeadTailProperties
<1> HIDE DEF rest
<1>2. ASSUME NEW f PROVE Awaited(f, es) <=> f = es[1].file \/ Awaited(f, rest)
  <2>1. ASSUME NEW i \in DOMAIN es, es[i].file = f PROVE f = es[1].file \/ Awaited(f, rest)
    <3>1. CASE i = 1
      BY <2>1, <3>1
    <3>2. CASE i # 1
      <4>1. i - 1 \in DOMAIN rest /\ rest[i - 1] = es[(i - 1) + 1] /\ (i - 1) + 1 = i
        BY <1>1, <3>2
      <4> QED BY <2>1, <4>1 DEF Awaited
    <3> QED BY <3>1, <3>2
  <2>2. ASSUME NEW i \in DOMAIN rest, rest[i].file = f PROVE Awaited(f, es)
    <3>1. i + 1 \in DOMAIN es /\ es[i + 1].file = f
      BY <1>1, <2>2
    <3> QED BY <3>1 DEF Awaited
  <2>3. f = es[1].file => Awaited(f, es)
    <3>1. 1 \in DOMAIN es
      BY <1>1
    <3> QED BY <3>1 DEF Awaited
  <2> QED BY <2>1, <2>2, <2>3 DEF Awaited
<1>3. Told(rest, d)
  <2> SUFFICES ASSUME NEW i \in DOMAIN rest,
                      \A j \in DOMAIN rest : j > i => rest[j].file # rest[i].file
               PROVE  rest[i].op \in Removals <=> d[rest[i].file] = Absent
    BY DEF Told
  <2>1. i + 1 \in DOMAIN es /\ rest[i] = es[i + 1]
    BY <1>1
  <2>2. ASSUME NEW j \in DOMAIN es, j > i + 1 PROVE es[j].file # es[i + 1].file
    <3>1. j - 1 \in DOMAIN rest /\ j - 1 > i /\ rest[j - 1] = es[(j - 1) + 1] /\ (j - 1) + 1 = j
      BY <1>1, <2>2
    <3> QED BY <2>1, <3>1
  <2> QED BY <2>1, <2>2 DEF Told
<1>4. ASSUME ~Awaited(es[1].file, rest)
      PROVE  es[1].op \in Removals <=> d[es[1].file] = Absent
  <2>1. 1 \in DOMAIN es
    BY <1>1
  <2>2. ASSUME NEW j \in DOMAIN es, j > 1 PROVE es[j].file # es[1].file
    <3>1. j - 1 \in DOMAIN rest /\ rest[j - 1] = es[(j - 1) + 1] /\ (j - 1) + 1 = j
      BY <1>1, <2>2
    <3> QED BY <1>4, <3>1 DEF Awaited
  <2> QED BY <2>1, <2>2 DEF Told
<1> QED BY <1>1, <1>2, <1>3, <1>4 DEF rest

\* What a report adds to the events that wait.
LEMMA WaitingReport ==
  ASSUME Inv, NEW reported \in Seq(Events), Report(reported), watching' = watching, at' = at
  PROVE  /\ Waiting \in Seq(Events)
         /\ Waiting' = IF watching THEN Waiting \o reported ELSE Waiting
<1>1. events \in Seq(Events) /\ (watching /\ at # "idle" => events # <<>>)
  BY DEF Inv, TypeOK, PlaceInv, Events
<1>2. CASE ~watching \/ at = "idle"
  BY <1>1, <1>2 DEF Waiting, Report
<1>3. CASE watching /\ at # "idle"
  <2>1. events' = events \o reported /\ Waiting = Tail(events) /\ Waiting' = Tail(events')
    BY <1>3 DEF Waiting, Report
  <2>2. Tail(events) \in Seq(Events)
    BY <1>1, <1>3, HeadTailProperties
  <2>3. Tail(events \o reported) = Tail(events) \o reported
    BY <1>1, <1>3
  <2> QED BY <1>3, <2>1, <2>2, <2>3
<1> QED BY <1>2, <1>3

\* Files that change are missed, or the last event that waits tells of them.
LEMMA ChangeFollows ==
  ASSUME FullInv, NEW reported \in Seq(Events), NEW files \in SUBSET Files,
         Report(reported), Miss(files), Change,
         \A f \in Files \ files : disk'[f] = disk[f],
         watching => Told(Waiting \o reported, disk'),
         \A f : Awaited(f, Waiting \o reported) <=> Awaited(f, Waiting) \/ f \in files
  PROVE  StageInv' /\ FollowInv'
<1>1. /\ watching' = watching /\ at' = at /\ parsed' = parsed
      /\ conceptDictionary' = conceptDictionary /\ fileToStepsMap' = fileToStepsMap
      /\ availableSpecs' = availableSpecs
  BY DEF Change, cache
<1>2. Waiting' = IF watching THEN Waiting \o reported ELSE Waiting
  BY <1>1, WaitingReport DEF FullInv
<1>3. StageInv'
  BY <1>1 DEF FullInv, StageInv
<1>4. Told(Waiting', disk')
  <2>1. CASE watching
    BY <1>2, <2>1
  <2>2. CASE ~watching
    <3>1. Waiting' = <<>>
      BY <1>2, <2>2 DEF Waiting, FullInv, Inv, PlaceInv
    <3> QED BY <3>1 DEF Told
  <2> QED BY <2>1, <2>2
<1>5. ASSUME NEW f \in Files, f \notin missed', IsRead(f)', ~Awaited(f, Waiting')
      PROVE  f \notin missed /\ IsRead(f) /\ ~Awaited(f, Waiting) /\ disk'[f] = disk[f]
  <2>1. IsRead(f)
    BY <1>1, <1>5 DEF IsRead
  <2>2. CASE watching
    BY <1>2, <1>5, <2>1, <2>2 DEF Miss
  <2>3. CASE ~watching
    <3>1. f \notin missed /\ f \notin files
      BY <1>5, <2>1, <2>3 DEF Miss
    <3> QED BY <1>2, <1>5, <2>1, <2>3, <3>1
  <2> QED BY <2>2, <2>3
<1>6. ASSUME NEW f \in SpecFiles, f \notin missed', IsRead(f)', ~Awaited(f, Waiting')
      PROVE  Reflects(Entered(f)', disk'[f])
  <2>1. f \in Files
    BY DEF Files
  <2>2. Reflects(Entered(f), disk[f]) /\ disk'[f] = disk[f]
    BY <1>5, <1>6, <2>1 DEF FullInv, FollowInv
  <2>3. Entered(f)' = Entered(f)
    BY <1>1 DEF Entered
  <2> QED BY <2>2, <2>3
<1>7. ASSUME ConceptFile \notin missed', IsRead(ConceptFile)', ~Awaited(ConceptFile, Waiting')
      PROVE  ConceptReflected'
  <2>1. ConceptFile \in Files
    BY DEF Files
  <2>2. ConceptReflected /\ disk'[ConceptFile] = disk[ConceptFile]
    BY <1>5, <1>7, <2>1 DEF FullInv, FollowInv
  <2> QED BY <1>1, <2>2 DEF ConceptReflected, Absent
<1>8. \A f \in SpecFiles : fileToStepsMap'[f].known => availableSpecs'[f] > 0
  BY <1>1 DEF FullInv, FollowInv
<1> QED BY <1>3, <1>4, <1>6, <1>7, <1>8 DEF FollowInv, Absent, Reflects, Told, Awaited

LEMMA SaveFollows ==
  ASSUME FullInv, NEW file \in Files, Save(file)
  PROVE  StageInv' /\ FollowInv'
<1> DEFINE e == [op |-> IF disk[file] = Absent THEN "create" ELSE "write", file |-> file]
<1>1. e \in Events /\ <<e>> \in Seq(Events) /\ e.file = file /\ e.op \notin Removals
  BY DEF Events, Removals
<1>2. Report(<<e>>) /\ Miss({file}) /\ Change
  BY DEF Save
<1>3. disk'[file] # Absent /\ \A f \in Files : f # file => disk'[f] = disk[f]
  BY DEF Save, FullInv, Inv, TypeOK
<1> HIDE DEF e
<1>4. Waiting \in Seq(Events)
  BY <1>1, <1>2, WaitingReport DEF FullInv, Change
<1>5. /\ Told(Waiting \o <<e>>, disk')
      /\ \A f : Awaited(f, Waiting \o <<e>>) <=> Awaited(f, Waiting) \/ f = file
  BY <1>1, <1>3, <1>4, ToldAppend DEF FullInv, FollowInv
<1> QED BY <1>1, <1>2, <1>3, <1>5, ChangeFollows

LEMMA DeleteFollows ==
  ASSUME FullInv, NEW file \in Files, Delete(file)
  PROVE  StageInv' /\ FollowInv'
<1> DEFINE e == [op |-> "remove", file |-> file]
<1>1. e \in Events /\ <<e>> \in Seq(Events) /\ e.file = file /\ e.op \in Removals
  BY DEF Events, Removals
<1>2. Report(<<e>>) /\ Miss({file}) /\ Change
  BY DEF Delete
<1>3. disk'[file] = Absent /\ \A f \in Files : f # file => disk'[f] = disk[f]
  BY DEF Delete, FullInv, Inv, TypeOK
<1> HIDE DEF e
<1>4. Waiting \in Seq(Events)
  BY <1>1, <1>2, WaitingReport DEF FullInv, Change
<1>5. /\ Told(Waiting \o <<e>>, disk')
      /\ \A f : Awaited(f, Waiting \o <<e>>) <=> Awaited(f, Waiting) \/ f = file
  BY <1>1, <1>3, <1>4, ToldAppend DEF FullInv, FollowInv
<1> QED BY <1>1, <1>2, <1>3, <1>5, ChangeFollows

LEMMA RenameFollows ==
  ASSUME FullInv, NEW from \in SpecFiles, NEW to \in SpecFiles, Rename(from, to)
  PROVE  StageInv' /\ FollowInv'
<1> DEFINE gone == [op |-> "rename", file |-> from]
           new == [op |-> "create", file |-> to]
           between == [disk EXCEPT ![from] = Absent]
<1>1. from \in Files /\ to \in Files /\ from # to /\ disk[from] # Absent
  BY DEF Files, Rename
<1>2. /\ gone \in Events /\ <<gone>> \in Seq(Events) /\ gone.file = from /\ gone.op \in Removals
      /\ new \in Events /\ <<new>> \in Seq(Events) /\ new.file = to /\ new.op \notin Removals
      /\ <<gone, new>> \in Seq(Events)
  BY <1>1 DEF Events, Removals
<1>3. Report(<<gone, new>>) /\ Miss({from, to}) /\ Change
  BY DEF Rename
<1>4. /\ between[from] = Absent /\ \A f \in Files : f # from => between[f] = disk[f]
      /\ disk'[to] # Absent /\ \A f \in Files : f # to => disk'[f] = between[f]
  BY <1>1 DEF Rename, FullInv, Inv, TypeOK
<1> HIDE DEF gone, new, between
<1>5. Waiting \in Seq(Events)
  BY <1>2, <1>3, WaitingReport DEF FullInv, Change
<1>6. /\ Waiting \o <<gone>> \in Seq(Events)
      /\ Told(Waiting \o <<gone>>, between)
      /\ \A f : Awaited(f, Waiting \o <<gone>>) <=> Awaited(f, Waiting) \/ f = from
  BY <1>2, <1>4, <1>5, ToldAppend DEF FullInv, FollowInv
<1>7. /\ Told((Waiting \o <<gone>>) \o <<new>>, disk')
      /\ \A f : Awaited(f, (Waiting \o <<gone>>) \o <<new>>) <=>
                  Awaited(f, Waiting \o <<gone>>) \/ f = to
  <2> DEFINE es == Waiting \o <<gone>>
             after == disk'
  <2>1. /\ es \in Seq(Events) /\ Told(es, between) /\ \A f \in Files : f # new.file => after[f] = between[f]
        /\ new \in Events /\ (new.op \in Removals <=> after[new.file] = Absent) /\ new.file = to
    BY <1>2, <1>4, <1>6
  <2> HIDE DEF es, after
  <2>2. Told(es \o <<new>>, after) /\ \A f : Awaited(f, es \o <<new>>) <=> Awaited(f, es) \/ f = new.file
    BY <2>1, ToldAppend
  <2> QED BY <2>1, <2>2 DEF es, after
<1>8. (Waiting \o <<gone>>) \o <<new>> = Waiting \o <<gone, new>>
  <2>1. (Waiting \o <<gone>>) \o <<new>> = Waiting \o (<<gone>> \o <<new>>)
    BY <1>2, <1>5, ConcatAssociative
  <2>2. <<gone>> \o <<new>> = <<gone, new>>
    <3> DEFINE one == <<gone>> \o <<new>>
               two == <<gone, new>>
    <3>1. /\ Len(<<gone>>) = 1 /\ Len(<<new>>) = 1 /\ <<gone>>[1] = gone /\ <<new>>[1] = new
          /\ Len(two) = 2 /\ two[1] = gone /\ two[2] = new
      OBVIOUS
    <3>2. /\ one \in Seq(Events) /\ Len(one) = 2
          /\ \A i \in 1..2 : one[i] = IF i <= 1 THEN <<gone>>[i] ELSE <<new>>[i - 1]
      BY <1>2, <3>1, ConcatProperties
    <3>3. two \in Seq(Events)
      BY <1>2
    <3> HIDE DEF one, two
    <3>4. one[1] = gone /\ one[2] = new
      BY <3>1, <3>2
    <3>5. \A i \in 1..2 : one[i] = two[i]
      BY <3>1, <3>4
    <3>6. one = two
      BY <3>1, <3>2, <3>3, <3>5, SeqEqual
    <3> QED BY <3>6 DEF one, two
  <2> QED BY <2>1, <2>2
<1>9. \A f \in Files \ {from, to} : disk'[f] = disk[f]
  BY <1>4
<1>10. \A f : Awaited(f, Waiting \o <<gone, new>>) <=> Awaited(f, Waiting) \/ f \in {from, to}
  BY <1>6, <1>7, <1>8
<1> QED BY <1>1, <1>2, <1>3, <1>7, <1>8, <1>9, <1>10, ChangeFollows

\* Clients change nothing of this.
LEMMA ClientFollows ==
  ASSUME FullInv, Client
  PROVE  StageInv' /\ FollowInv'
<1>1. /\ disk' = disk /\ events' = events /\ missed' = missed /\ watching' = watching /\ at' = at
      /\ parsed' = parsed /\ conceptDictionary' = conceptDictionary
      /\ fileToStepsMap' = fileToStepsMap /\ availableSpecs' = availableSpecs
  BY DEF Client, project, cache
<1>2. Waiting' = Waiting
  BY <1>1 DEF Waiting
<1> QED BY <1>1, <1>2 DEF FullInv, StageInv, FollowInv, IsRead, Entered, ConceptReflected, Reflects,
                          Absent, Told, Awaited

\* A step of the gatherer that neither reads a file nor changes what is known of one.
LEMMA SameFollows ==
  ASSUME FullInv, disk' = disk, missed' = missed, Waiting' = Waiting,
         \A f \in Files : IsRead(f)' => IsRead(f),
         conceptDictionary' = conceptDictionary, fileToStepsMap' = fileToStepsMap,
         availableSpecs' = availableSpecs, parsed' = parsed
  PROVE  FollowInv'
<1>1. \A f \in SpecFiles : Entered(f)' = Entered(f)
  BY DEF Entered
<1>2. ConceptReflected' = ConceptReflected
  BY DEF ConceptReflected, Absent
<1>3. Told(Waiting, disk)' = Told(Waiting, disk)
  BY DEF Told, Absent
<1>4. ASSUME NEW f \in SpecFiles, f \notin missed', IsRead(f)', ~Awaited(f, Waiting)'
      PROVE  Reflects(Entered(f), disk[f])'
  <2>1. f \in Files
    BY DEF Files
  <2>2. IsRead(f) /\ ~Awaited(f, Waiting)
    BY <1>4, <2>1 DEF Awaited
  <2>3. Reflects(Entered(f), disk[f])
    BY <1>4, <2>2 DEF FullInv, FollowInv
  <2> QED BY <1>1, <2>3 DEF Reflects, Absent
<1>5. ASSUME ConceptFile \notin missed', IsRead(ConceptFile)', ~Awaited(ConceptFile, Waiting)'
      PROVE  ConceptReflected'
  <2>1. ConceptFile \in Files
    BY DEF Files
  <2>2. IsRead(ConceptFile) /\ ~Awaited(ConceptFile, Waiting)
    BY <1>5, <2>1 DEF Awaited
  <2> QED BY <1>2, <1>5, <2>2 DEF FullInv, FollowInv
<1> QED BY <1>3, <1>4, <1>5 DEF FullInv, FollowInv

\* Specifications that are known and read as before.
LEMMA SpecsSame ==
  ASSUME FullInv, disk' = disk, missed' = missed,
         \A f \in SpecFiles : IsRead(f)' => IsRead(f),
         \A f \in SpecFiles : Entered(f)' = Entered(f)
  PROVE  \A f \in SpecFiles \ missed' :
           IsRead(f)' /\ ~Awaited(f, Waiting) => Reflects(Entered(f)', disk'[f])
BY DEF FullInv, FollowInv, Reflects

LEMMA StartFollows ==
  ASSUME FullInv, MakeMaps \/ GetStepsFromRunner
  PROVE  StageInv' /\ FollowInv'
<1>1. /\ at \in {"start", "runner"} /\ at' \in {"runner", "concepts"} /\ watching' = watching
      /\ events' = events /\ disk' = disk /\ missed' = missed /\ parsed' = parsed
      /\ conceptDictionary' = conceptDictionary /\ fileToStepsMap' = fileToStepsMap
      /\ availableSpecs' = availableSpecs
  BY DEF MakeMaps, GetStepsFromRunner, Gatherer, cache
<1>2. StageInv'
  BY <1>1 DEF FullInv, StageInv
<1>3. Waiting' = Waiting
  BY <1>1 DEF Waiting, FullInv, Inv, PlaceInv
<1>4. \A f \in Files : ~IsRead(f)'
  BY <1>1 DEF IsRead
<1> QED BY <1>1, <1>2, <1>3, <1>4, SameFollows

\* What is read is what is on disk.
LEMMA ReadReflects ==
  ASSUME FullInv, NEW f \in SpecFiles
  PROVE  /\ Reflects(ReadSpec(f), disk[f])
         /\ disk[f].state = "ok" => ReadSpec(f).known
<1>1. CASE disk[f].state # "ok"
  BY <1>1, EntryTypes DEF ReadSpec, Reflects
<1>2. CASE disk[f].state = "ok"
  <2>1. f \in Files
    BY DEF Files
  <2> DEFINE steps == disk[f].steps \ (IF conceptDictionary.known THEN {Concept} ELSE {})
  <2>2. steps \in SUBSET Steps
    BY <2>1, DiskType DEF FullInv, Inv
  <2>3. ReadSpec(f) = Some(steps)
    BY <1>2 DEF ReadSpec
  <2>4. ReadSpec(f).known /\ ReadSpec(f).steps = steps
    BY <2>2, <2>3, EntryTypes
  <2>5. disk[f] # Absent
    BY <1>2 DEF Absent
  <2> QED BY <1>2, <2>4, <2>5 DEF Reflects
<1> QED BY <1>1, <1>2

LEMMA ReadConceptReflects ==
  ASSUME FullInv
  PROVE  /\ disk[ConceptFile] = Absent => ReadConcept = None /\ ~ReadConcept.known
         /\ disk[ConceptFile].state = "ok" => ReadConcept.known
<1>1. ConceptFile \in Files
  BY DEF Files
<1>2. disk[ConceptFile].steps \in SUBSET Steps
  BY <1>1, DiskType DEF FullInv, Inv
<1> QED BY <1>2, EntryTypes DEF ReadConcept, Absent

LEMMA FindAllFollows ==
  ASSUME FullInv, FindAllStepsFromConcepts
  PROVE  StageInv' /\ FollowInv'
<1>1. /\ \/ at = "concepts" /\ at' = "specs"
         \/ at = "concept added" /\ at' = "update"
      /\ watching' = watching /\ events' = events /\ disk' = disk /\ missed' = missed
      /\ parsed' = parsed /\ availableSpecs' = availableSpecs
      /\ conceptDictionary' = ReadConcept
      /\ fileToStepsMap' = IF ReadConcept.known
                           THEN [fileToStepsMap EXCEPT ![ConceptFile] = ReadConcept]
                           ELSE fileToStepsMap
  BY DEF FindAllStepsFromConcepts, FindStepsFromConcepts, Gatherer
<1>2. fileToStepsMap \in [Files -> Entry] /\ ConceptFile \in Files
  BY DEF FullInv, Inv, TypeOK, Files
<1>3. \A f \in SpecFiles : fileToStepsMap'[f] = fileToStepsMap[f]
  BY <1>1, <1>2, FilesAssumption DEF Files
<1>4. Waiting' = Waiting
  BY <1>1 DEF Waiting, FullInv, Inv, PlaceInv
<1>5. StageInv'
  BY <1>1, <1>3 DEF FullInv, StageInv
<1>6. Told(Waiting, disk)'
  BY <1>1, <1>4 DEF FullInv, FollowInv, Told, Absent
<1>7. \A f \in SpecFiles : fileToStepsMap'[f].known => availableSpecs'[f] > 0
  BY <1>1, <1>3 DEF FullInv, FollowInv
<1>8. /\ \A f \in SpecFiles : IsRead(f)' => IsRead(f)
      /\ \A f \in SpecFiles : Entered(f)' = Entered(f)
  BY <1>1, <1>3, FilesAssumption DEF IsRead, Entered
<1>9. \A f \in SpecFiles \ missed' :
        IsRead(f)' /\ ~Awaited(f, Waiting)' => Reflects(Entered(f), disk[f])'
  BY <1>1, <1>4, <1>8, SpecsSame DEF Awaited, Reflects, Absent
<1>10. ASSUME ConceptFile \notin missed', ~Awaited(ConceptFile, Waiting)'
       PROVE  ConceptReflected'
  <2>1. disk[ConceptFile] = Absent => ~fileToStepsMap[ConceptFile].known
    <3>1. CASE at = "concepts"
      BY <3>1 DEF FullInv, StageInv
    <3>2. CASE at = "concept added"
      BY <1>1, <1>4, <1>10, <3>2 DEF FullInv, FollowInv, ConceptReflected, Awaited, IsRead
    <3> QED BY <1>1, <3>1, <3>2
  <2>2. disk[ConceptFile] = Absent => fileToStepsMap' = fileToStepsMap
    BY <1>1, ReadConceptReflects
  <2> QED BY <1>1, <2>1, <2>2, ReadConceptReflects DEF ConceptReflected, Absent
<1> QED BY <1>5, <1>6, <1>7, <1>9, <1>10 DEF FollowInv

LEMMA FindAllStepsFromSpecsFollows ==
  ASSUME FullInv, FindAllStepsFromSpecs
  PROVE  StageInv' /\ FollowInv'
<1>1. /\ at = "specs" /\ at' = "add" /\ watching' = watching /\ events' = events /\ disk' = disk
      /\ missed' = missed /\ conceptDictionary' = conceptDictionary
      /\ fileToStepsMap' = fileToStepsMap /\ availableSpecs' = availableSpecs
      /\ parsed' = [f \in SpecFiles |-> ReadSpec(f)]
  BY DEF FindAllStepsFromSpecs, Parse, Gatherer, cache
<1>2. Waiting' = Waiting
  BY <1>1 DEF Waiting, FullInv, Inv, PlaceInv
<1>3. StageInv'
  BY <1>1 DEF FullInv, StageInv
<1>4. Told(Waiting, disk)'
  BY <1>1, <1>2 DEF FullInv, FollowInv, Told, Absent
<1>5. ASSUME NEW f \in SpecFiles PROVE Reflects(Entered(f), disk[f])'
  <2>1. ~fileToStepsMap[f].known
    BY <1>1 DEF FullInv, StageInv
  <2>2. parsed'[f] = ReadSpec(f)
    BY <1>1
  <2>3. Entered(f)' = IF ReadSpec(f).known THEN ReadSpec(f) ELSE fileToStepsMap[f]
    BY <1>1, <2>2 DEF Entered
  <2>4. Reflects(Entered(f)', disk[f])
    BY <2>1, <2>3, ReadReflects DEF Reflects
  <2> QED BY <1>1, <2>4 DEF Reflects, Absent
<1>6. ConceptFile \notin missed' /\ IsRead(ConceptFile)' /\ ~Awaited(ConceptFile, Waiting)'
        => ConceptReflected'
  BY <1>1, <1>2 DEF FullInv, FollowInv, IsRead, Awaited, ConceptReflected, Absent
<1> QED BY <1>1, <1>3, <1>4, <1>5, <1>6 DEF FullInv, FollowInv

LEMMA AddStepsFollows ==
  ASSUME FullInv, AddStepsForSpecs
  PROVE  StageInv' /\ FollowInv'
<1>1. /\ at = "add" /\ at' = "update" /\ watching' = watching /\ events' = events /\ disk' = disk
      /\ missed' = missed /\ conceptDictionary' = conceptDictionary
      /\ availableSpecs' = [f \in SpecFiles |->
                              availableSpecs[f] + IF f \in NewSpecs THEN 1 ELSE 0]
      /\ fileToStepsMap' = [f \in Files |-> IF f \in SpecFiles /\ parsed[f].known THEN parsed[f]
                                            ELSE fileToStepsMap[f]]
      /\ parsed' = [f \in SpecFiles |-> None]
  BY DEF AddStepsForSpecs, Gatherer
<1>2. Waiting' = Waiting
  BY <1>1 DEF Waiting
<1>3. \A f \in SpecFiles : /\ ~parsed'[f].known
                           /\ fileToStepsMap'[f] = Entered(f) /\ Entered(f)' = Entered(f)
  BY <1>1, EntryTypes DEF Entered, Files
<1>4. StageInv'
  BY <1>1, <1>3 DEF StageInv
<1>5. Told(Waiting, disk)'
  BY <1>1, <1>2 DEF FullInv, FollowInv, Told, Absent
<1>6. ASSUME NEW f \in SpecFiles, fileToStepsMap'[f].known PROVE availableSpecs'[f] > 0
  <2>1. availableSpecs[f] \in Nat
    BY DEF FullInv, Inv, TypeOK
  <2>2. CASE fileToStepsMap[f].known
    <3>1. availableSpecs[f] > 0
      BY <2>2 DEF FullInv, FollowInv
    <3> QED BY <1>1, <2>1, <3>1
  <2>3. CASE ~fileToStepsMap[f].known
    <3>1. f \in NewSpecs
      BY <1>3, <1>6, <2>3 DEF NewSpecs, Entered
    <3> QED BY <1>1, <2>1, <3>1
  <2> QED BY <2>2, <2>3
<1>7. \A f \in SpecFiles : IsRead(f)' => IsRead(f)
  BY <1>1 DEF IsRead
<1>8. \A f \in SpecFiles \ missed' :
        IsRead(f)' /\ ~Awaited(f, Waiting)' => Reflects(Entered(f), disk[f])'
  BY <1>1, <1>2, <1>3, <1>7, SpecsSame DEF Awaited, Reflects, Absent
<1>9. fileToStepsMap'[ConceptFile] = fileToStepsMap[ConceptFile]
  BY <1>1, FilesAssumption DEF Files
<1>10. ConceptFile \notin missed' /\ IsRead(ConceptFile)' /\ ~Awaited(ConceptFile, Waiting)'
         => ConceptReflected'
  BY <1>1, <1>2, <1>9 DEF FullInv, FollowInv, IsRead, Awaited, ConceptReflected, Absent
<1> QED BY <1>4, <1>5, <1>6, <1>8, <1>10 DEF FollowInv

\* When the gatherer turns to an event, that event tells of its file, or a later one does.
LEMMA TurnsTo ==
  ASSUME FullInv, NEW ops, NEW files, Handles(ops, files), Waiting' = Tail(events), disk' = disk
  PROVE  /\ at = "idle" /\ watching /\ Event.op \in ops /\ Event.file \in files
         /\ Told(Waiting, disk)'
         /\ \A f : Awaited(f, Waiting) <=> f = Event.file \/ Awaited(f, Waiting')
         /\ \A f : Awaited(f, Waiting)' <=> Awaited(f, Waiting')
         /\ ~Awaited(Event.file, Waiting') => (Event.op \in Removals <=> disk[Event.file] = Absent)
         /\ \A f \in Files : IsRead(f)
<1>1. at = "idle" /\ events # <<>> /\ Event.op \in ops /\ Event.file \in files
  BY DEF Handles
<1>2. watching /\ Waiting = events /\ events \in Seq(Events)
  BY <1>1 DEF FullInv, Inv, PlaceInv, TypeOK, Waiting, Events
<1>3. /\ Told(Tail(events), disk)
      /\ \A f : Awaited(f, events) <=> f = Event.file \/ Awaited(f, Tail(events))
      /\ ~Awaited(Event.file, Tail(events)) =>
           (Event.op \in Removals <=> disk[Event.file] = Absent)
  BY <1>1, <1>2, ToldTail DEF FullInv, FollowInv, Event
<1>4. Told(Waiting, disk)' = Told(Tail(events), disk)
  BY DEF Told, Absent
<1>5. \A f : Awaited(f, Waiting)' <=> Awaited(f, Waiting')
  BY DEF Awaited
<1>6. \A f \in Files : IsRead(f)
  BY <1>1 DEF IsRead
<1>7. \A f : Awaited(f, Waiting) <=> f = Event.file \/ Awaited(f, Waiting')
  BY <1>2, <1>3
<1>8. ~Awaited(Event.file, Waiting') => (Event.op \in Removals <=> disk[Event.file] = Absent)
  BY <1>3
<1> QED BY <1>1, <1>2, <1>3, <1>4, <1>5, <1>6, <1>7, <1>8

\* Files that the event is not about are known as before.
LEMMA OthersFollow ==
  ASSUME FullInv, NEW ops, NEW files, Handles(ops, files), Waiting' = Tail(events),
         disk' = disk, missed' = missed,
         NEW f \in SpecFiles, f # Event.file, f \notin missed', ~Awaited(f, Waiting)',
         Entered(f)' = Entered(f)
  PROVE  Reflects(Entered(f), disk[f])'
<1>1. f \in Files
  BY DEF Files
<1>2. ~Awaited(f, Waiting) /\ IsRead(f)
  BY <1>1, TurnsTo
<1>3. Reflects(Entered(f), disk[f])
  BY <1>2 DEF FullInv, FollowInv
<1> QED BY <1>3 DEF Reflects, Absent

LEMMA OtherConceptFollows ==
  ASSUME FullInv, NEW ops, Handles(ops, SpecFiles), Waiting' = Tail(events),
         disk' = disk, missed' = missed, conceptDictionary' = conceptDictionary,
         fileToStepsMap'[ConceptFile] = fileToStepsMap[ConceptFile],
         ConceptFile \notin missed', ~Awaited(ConceptFile, Waiting)'
  PROVE  ConceptReflected'
<1>1. ConceptFile \in Files
  BY DEF Files
<1>2. ~Awaited(ConceptFile, Waiting) /\ IsRead(ConceptFile)
  BY <1>1, TurnsTo, FilesAssumption
<1> QED BY <1>2 DEF FullInv, FollowInv, ConceptReflected, Absent

LEMMA AddSpecFollows ==
  ASSUME FullInv, AddSpec
  PROVE  StageInv' /\ FollowInv'
<1>1. /\ Handles({"create", "write"}, SpecFiles)
      /\ at = "idle" /\ at' = "add" /\ watching' = watching /\ events' = events /\ disk' = disk
      /\ missed' = missed /\ conceptDictionary' = conceptDictionary
      /\ fileToStepsMap' = fileToStepsMap /\ availableSpecs' = availableSpecs
      /\ parsed' = [f \in SpecFiles |-> IF f \in {Event.file} THEN ReadSpec(f) ELSE None]
  BY DEF AddSpec, Parse, Gatherer, cache, Handles
<1>2. Waiting' = Tail(events)
  BY <1>1 DEF Waiting, FullInv, Inv, PlaceInv
<1>3. StageInv'
  BY <1>1 DEF StageInv
<1>4. Told(Waiting, disk)'
  BY <1>1, <1>2, TurnsTo
<1>5. ASSUME NEW f \in SpecFiles, f \notin missed', ~Awaited(f, Waiting)'
      PROVE  Reflects(Entered(f), disk[f])'
  <2>1. CASE f # Event.file
    <3>1. ~parsed[f].known /\ ~parsed'[f].known
      BY <1>1, <2>1, EntryTypes DEF FullInv, StageInv
    <3>2. Entered(f)' = Entered(f)
      BY <1>1, <3>1 DEF Entered
    <3> QED BY <1>1, <1>2, <1>5, <2>1, <3>2, OthersFollow
  <2>2. CASE f = Event.file
    <3>1. disk[f] # Absent
      BY <1>1, <1>2, <1>5, <2>2, TurnsTo DEF Removals
    <3>2. parsed'[f] = ReadSpec(f)
      BY <1>1, <2>2
    <3>3. CASE disk[f].state = "ok"
      <4>1. ReadSpec(f).known /\ Reflects(ReadSpec(f), disk[f])
        BY <3>3, ReadReflects
      <4>2. Entered(f)' = ReadSpec(f)
        BY <3>2, <4>1 DEF Entered
      <4> QED BY <1>1, <4>1, <4>2 DEF Reflects, Absent
    <3>4. CASE disk[f].state # "ok"
      BY <1>1, <3>1, <3>4 DEF Reflects, Absent
    <3> QED BY <3>3, <3>4
  <2> QED BY <2>1, <2>2
<1>6. ConceptFile \notin missed' /\ ~Awaited(ConceptFile, Waiting)' => ConceptReflected'
  BY <1>1, <1>2, OtherConceptFollows
<1> QED BY <1>1, <1>3, <1>4, <1>5, <1>6 DEF FullInv, FollowInv

LEMMA RemoveSpecFollows ==
  ASSUME FullInv, RemoveSpec
  PROVE  StageInv' /\ FollowInv'
<1>1. /\ Handles(Removals, SpecFiles)
      /\ at = "idle" /\ at' = "update" /\ watching' = watching /\ events' = events /\ disk' = disk
      /\ missed' = missed /\ conceptDictionary' = conceptDictionary
      /\ fileToStepsMap' = [fileToStepsMap EXCEPT ![Event.file] = None]
      /\ availableSpecs' = availableSpecs /\ parsed' = parsed
  BY DEF RemoveSpec, Gatherer, Handles, Removals
<1>2. Waiting' = Tail(events)
  BY <1>1 DEF Waiting, FullInv, Inv, PlaceInv
<1>3. StageInv'
  BY <1>1 DEF FullInv, StageInv
<1>4. Told(Waiting, disk)' /\ Event.file \in SpecFiles /\ Event.op \in Removals
  BY <1>1, <1>2, TurnsTo
<1>5. /\ \A f \in Files : f # Event.file => fileToStepsMap'[f] = fileToStepsMap[f]
      /\ fileToStepsMap'[Event.file] = None /\ ~None.known
  BY <1>1, <1>4, EntryTypes DEF FullInv, Inv, TypeOK, Files
<1>6. \A f \in SpecFiles : fileToStepsMap'[f].known => availableSpecs'[f] > 0
  BY <1>1, <1>5 DEF FullInv, FollowInv, Files
<1>7. ASSUME NEW f \in SpecFiles, f \notin missed', ~Awaited(f, Waiting)'
      PROVE  Reflects(Entered(f), disk[f])'
  <2>0. f \in Files
    BY DEF Files
  <2>1. CASE f # Event.file
    <3>1. Entered(f)' = Entered(f)
      BY <1>1, <1>5, <2>0, <2>1 DEF Entered
    <3> QED BY <1>1, <1>2, <1>7, <2>1, <3>1, OthersFollow
  <2>2. CASE f = Event.file
    <3>1. disk[f] = Absent
      BY <1>1, <1>2, <1>4, <1>7, <2>2, TurnsTo
    <3>2. ~parsed'[f].known
      BY <1>1 DEF FullInv, StageInv
    <3>3. Entered(f)' = None
      BY <1>5, <2>2, <3>2 DEF Entered
    <3>4. disk[f].state # "ok"
      BY <3>1 DEF Absent
    <3> QED BY <1>1, <1>5, <3>3, <3>4 DEF Reflects, Absent
  <2> QED BY <2>1, <2>2
<1>8. fileToStepsMap'[ConceptFile] = fileToStepsMap[ConceptFile]
  BY <1>4, <1>5, FilesAssumption DEF Files
<1>9. ConceptFile \notin missed' /\ ~Awaited(ConceptFile, Waiting)' => ConceptReflected'
  BY <1>1, <1>2, <1>8, OtherConceptFollows
<1> QED BY <1>3, <1>4, <1>6, <1>7, <1>9 DEF FollowInv

LEMMA AddConceptFollows ==
  ASSUME FullInv, AddConcept
  PROVE  StageInv' /\ FollowInv'
<1>1. /\ Handles({"create", "write"}, {ConceptFile})
      /\ at = "idle" /\ watching' = watching /\ disk' = disk
      /\ missed' = missed /\ parsed' = parsed
      /\ fileToStepsMap' = fileToStepsMap /\ availableSpecs' = availableSpecs
      /\ \/ /\ ReadConcept.known /\ conceptDictionary' = ReadConcept
            /\ at' = "concept added" /\ events' = events
         \/ /\ ~ReadConcept.known \/ conceptDictionary.known
            /\ conceptDictionary' = conceptDictionary /\ at' = "idle" /\ events' = Tail(events)
  BY DEF AddConcept, Gatherer, Handles, Handled
<1>2. Waiting' = Tail(events)
  BY <1>1 DEF Waiting, FullInv, Inv, PlaceInv
<1>3. StageInv'
  BY <1>1 DEF FullInv, StageInv
<1>4. Told(Waiting, disk)' /\ Event.file = ConceptFile /\ Event.op \notin Removals
  <2>1. disk' = disk /\ Handles({"create", "write"}, {ConceptFile})
    BY <1>1
  <2>2. Told(Waiting, disk)' /\ Event.op \in {"create", "write"} /\ Event.file \in {ConceptFile}
    BY <1>2, <2>1, TurnsTo
  <2> QED BY <2>2 DEF Removals
<1>5. ASSUME NEW f \in SpecFiles, f \notin missed', ~Awaited(f, Waiting)'
      PROVE  Reflects(Entered(f), disk[f])'
  <2>1. f # Event.file
    BY <1>4, FilesAssumption
  <2>2. Entered(f)' = Entered(f)
    BY <1>1 DEF Entered
  <2> QED BY <1>1, <1>2, <1>5, <2>1, <2>2, OthersFollow
<1>6. ASSUME ~Awaited(ConceptFile, Waiting)'
      PROVE  ConceptReflected'
  <2>1. disk[ConceptFile] # Absent
    BY <1>1, <1>2, <1>4, <1>6, TurnsTo
  <2> QED BY <1>1, <2>1, ReadConceptReflects DEF ConceptReflected, Absent
<1> QED BY <1>1, <1>3, <1>4, <1>5, <1>6 DEF FullInv, FollowInv

LEMMA RemoveConceptFollows ==
  ASSUME FullInv, RemoveConcept
  PROVE  StageInv' /\ FollowInv'
<1> DEFINE entries == [fileToStepsMap EXCEPT ![ConceptFile] = None]
<1>1. /\ Handles(Removals, {ConceptFile})
      /\ at = "idle" /\ at' = "update" /\ watching' = watching /\ events' = events /\ disk' = disk
      /\ missed' = missed /\ parsed' = parsed /\ availableSpecs' = availableSpecs
      /\ conceptDictionary' = ReadConcept
      /\ fileToStepsMap' = IF ReadConcept.known THEN [entries EXCEPT ![ConceptFile] = ReadConcept]
                           ELSE entries
  BY DEF RemoveConcept, FindStepsFromConcepts, Gatherer, Handles, Removals
<1>2. Waiting' = Tail(events)
  BY <1>1 DEF Waiting, FullInv, Inv, PlaceInv
<1>3. StageInv'
  BY <1>1 DEF FullInv, StageInv
<1>4. Told(Waiting, disk)' /\ Event.file = ConceptFile /\ Event.op \in Removals
  BY <1>1, <1>2, TurnsTo
<1>5. /\ \A f \in SpecFiles : fileToStepsMap'[f] = fileToStepsMap[f]
      /\ ~ReadConcept.known => fileToStepsMap'[ConceptFile] = None
      /\ ~None.known
  BY <1>1, FilesAssumption, EntryTypes DEF FullInv, Inv, TypeOK, Files
<1>6. \A f \in SpecFiles : fileToStepsMap'[f].known => availableSpecs'[f] > 0
  BY <1>1, <1>5 DEF FullInv, FollowInv
<1>7. ASSUME NEW f \in SpecFiles, f \notin missed', ~Awaited(f, Waiting)'
      PROVE  Reflects(Entered(f), disk[f])'
  <2>1. f # Event.file
    BY <1>4, FilesAssumption
  <2>2. Entered(f)' = Entered(f)
    BY <1>1, <1>5 DEF Entered
  <2> QED BY <1>1, <1>2, <1>7, <2>1, <2>2, OthersFollow
<1>8. ASSUME ~Awaited(ConceptFile, Waiting)'
      PROVE  ConceptReflected'
  <2>1. disk[ConceptFile] = Absent
    BY <1>1, <1>2, <1>4, <1>8, TurnsTo
  <2>2. disk[ConceptFile].state # "ok"
    BY <2>1 DEF Absent
  <2>3. ~conceptDictionary'.known /\ ~fileToStepsMap'[ConceptFile].known
    BY <1>1, <1>5, <2>1, ReadConceptReflects
  <2> QED BY <1>1, <2>2, <2>3 DEF ConceptReflected, Absent
<1> QED BY <1>3, <1>4, <1>6, <1>7, <1>8 DEF FollowInv

LEMMA ListFollows ==
  ASSUME FullInv, NewMap \/ AddToAvailableSteps \/ ListComplete \/ Watch
  PROVE  StageInv' /\ FollowInv'
<1>1. /\ at \in {"update", "fill", "watch"} /\ at' \in {"fill", "watch", "idle"}
      /\ disk' = disk /\ missed' = missed
      /\ conceptDictionary' = conceptDictionary /\ fileToStepsMap' = fileToStepsMap
      /\ availableSpecs' = availableSpecs /\ parsed' = parsed
  BY DEF NewMap, AddToAvailableSteps, ListComplete, Watch, Gatherer, cache, Handled
<1>2. Waiting' = Waiting
  <2>1. CASE NewMap \/ AddToAvailableSteps
    <3>1. events' = events /\ watching' = watching /\ at # "idle" /\ at' # "idle"
      BY <2>1 DEF NewMap, AddToAvailableSteps
    <3> QED BY <3>1 DEF Waiting
  <2>2. CASE ListComplete
    BY <2>2 DEF ListComplete, Handled, Waiting
  <2>3. CASE Watch
    BY <2>3 DEF Watch, Waiting, FullInv, Inv, PlaceInv
  <2> QED BY <2>1, <2>2, <2>3
<1>3. StageInv'
  BY <1>1 DEF FullInv, StageInv
<1>4. \A f \in Files : IsRead(f)' => IsRead(f)
  BY <1>1 DEF IsRead
<1> QED BY <1>1, <1>2, <1>3, <1>4, SameFollows

LEMMA FullInit == Init => FullInv
<1> SUFFICES ASSUME Init PROVE FullInv
  OBVIOUS
<1>1. StageInv
  BY EntryTypes DEF Init, StageInv, Files
<1>2. Told(Waiting, disk)
  BY DEF Init, Told, Waiting
<1>3. \A f \in SpecFiles : ~fileToStepsMap[f].known
  BY EntryTypes DEF Init, Files
<1>4. \A f \in Files : ~IsRead(f)
  BY DEF Init, IsRead
<1>5. FollowInv
  BY <1>2, <1>3, <1>4 DEF FollowInv, Files
<1> QED BY <1>1, <1>5, InitInv DEF FullInv

LEMMA FullNext == FullInv /\ [Next]_vars => FullInv'
<1> SUFFICES ASSUME FullInv, [Next]_vars PROVE FullInv'
  OBVIOUS
<1>1. Inv'
  BY NextInv DEF FullInv
<1>2. CASE Gather
  BY <1>1, <1>2, StartFollows, FindAllFollows, FindAllStepsFromSpecsFollows, AddSpecFollows,
     AddStepsFollows, AddConceptFollows, RemoveConceptFollows, RemoveSpecFollows, ListFollows
     DEF Gather, FullInv
<1>3. CASE BeginSteps \/ EndSteps \/ BeginConcepts \/ EndConcepts
  BY <1>1, <1>3, ClientFollows DEF FullInv, BeginSteps, EndSteps, BeginConcepts, EndConcepts
<1>4. CASE \E file \in Files : Save(file) \/ Delete(file)
  BY <1>1, <1>4, SaveFollows, DeleteFollows DEF FullInv
<1>5. CASE \E from, to \in SpecFiles : Rename(from, to)
  BY <1>1, <1>5, RenameFollows DEF FullInv
<1>6. CASE UNCHANGED vars
  <2>1. Client
    BY <1>6 DEF vars, Client
  <2> QED BY <1>1, <2>1, ClientFollows DEF FullInv
<1> QED BY <1>2, <1>3, <1>4, <1>5, <1>6 DEF Next

\* specInfoGatherer (specDetails.go): when every event has been handled the gatherer knows
\* the files as they are, for any files, texts and changes, except those that changed
\* between its first reading and the watch.  The events of a file that wait tell of it:
\* what was read too early is read again.
THEOREM GathererFollows == Spec => []FollowsFiles
<1>1. FullInv => FollowsFiles
  <2> SUFFICES ASSUME FullInv, Settled PROVE FollowsFiles
    BY DEF FollowsFiles
  <2>1. at = "idle" /\ events = <<>> /\ Waiting = <<>>
    BY DEF Settled, Waiting
  <2>2. \A f \in Files : IsRead(f) /\ ~Awaited(f, Waiting)
    BY <2>1 DEF IsRead, Awaited
  <2>3. availableStepsMap = Known
    BY <2>1 DEF FullInv, Inv, ListInv
  <2>4. \A f \in SpecFiles \ missed : Reflects(fileToStepsMap[f], disk[f])
    BY <2>1, <2>2 DEF FullInv, StageInv, FollowInv, Entered, Files
  <2>5. ConceptFile \notin missed => ConceptReflected
    BY <2>2 DEF FullInv, FollowInv, Files
  <2> QED BY <2>3, <2>4, <2>5 DEF FollowsFiles, Reflects, ConceptReflected, FullInv, FollowInv
<1> QED BY <1>1, FullInit, FullNext, PTL DEF Spec

-----------------------------------------------------------------------------
(* Tag expressions.  What is computed token by token is a run of a         *)
(* function that takes a state and a token.                                *)

LEMMA Smallest ==
  ASSUME NEW T \in SUBSET Nat, T # {}
  PROVE  \E x \in T : \A y \in T : x <= y
<1> DEFINE R == {ss \in Nat \X Nat : ss[1] < ss[2]}
<1>1. IsWellFoundedOn(R, Nat)
  BY NatLessThanWellFounded DEF OpToRel
<1>2. \A x, y \in Nat : y < x => <<y, x>> \in R
  OBVIOUS
<1> HIDE DEF R
<1>3. PICK x \in T : \A y \in T : ~(<<y, x>> \in R)
  BY <1>1, WFMin
<1>4. \A y \in T : x <= y
  <2> SUFFICES ASSUME NEW y \in T PROVE x <= y
    OBVIOUS
  <2>1. <<y, x>> \notin R
    BY <1>3
  <2>2. ~(y < x)
    BY <2>1, <1>2
  <2> QED BY <2>2
<1> QED BY <1>4

LEMMA FirstPosition ==
  ASSUME NEW P \in SUBSET Nat, P # {}
  PROVE  Min(P) \in P /\ \A j \in P : Min(P) <= j
BY Smallest DEF Min

LEMMA SequencesByAppending ==
  ASSUME NEW A, NEW G, <<>> \in G,
         \A s \in Seq(A) : \A x \in A : s \in G => Append(s, x) \in G
  PROVE  Seq(A) \subseteq G
<1> DEFINE T == {n \in Nat : \E s \in Seq(A) : Len(s) = n /\ s \notin G}
<1>1. T = {}
  <2> SUFFICES ASSUME T # {} PROVE FALSE
    OBVIOUS
  <2>1. T \in SUBSET Nat
    OBVIOUS
  <2>2. PICK n \in T : \A m \in T : n <= m
    <3> HIDE DEF T
    <3> QED BY <2>1, Smallest
  <2>3. PICK s \in Seq(A) : Len(s) = n /\ s \notin G
    BY <2>2
  <2>4. s # <<>>
    BY <2>3
  <2>5. PICK t \in Seq(A), x \in A : s = Append(t, x)
    BY <2>4, SequenceEmptyOrAppend
  <2>6. t \notin G
    BY <2>3, <2>5
  <2>7. Len(t) \in Nat /\ Len(s) = Len(t) + 1
    BY <2>5, AppendProperties, LenProperties
  <2>8. Len(t) \in T
    BY <2>6, <2>7
  <2>9. ~(n <= Len(t))
    BY <2>3, <2>7
  <2> HIDE DEF T
  <2> QED BY <2>2, <2>8, <2>9
<1>2. ASSUME NEW s \in Seq(A) PROVE s \in G
  <2>1. Len(s) \in Nat
    BY LenProperties
  <2>2. Len(s) \notin T
    BY <1>1
  <2> QED BY <2>1, <2>2
<1> QED BY <1>2

LEMMA UpTo ==
  ASSUME NEW n \in Nat, NEW G, 0 \in G, \A k \in 0..(n - 1) : k \in G => k + 1 \in G
  PROVE  \A k \in 0..n : k \in G
<1> DEFINE T == {k \in 0..n : k \notin G}
<1> SUFFICES ASSUME T # {} PROVE FALSE
  OBVIOUS
<1>1. T \in SUBSET Nat
  OBVIOUS
<1>2. PICK k \in T : \A j \in T : k <= j
  <2> HIDE DEF T
  <2> QED BY <1>1, Smallest
<1>3. k # 0
  BY <1>2
<1>4. k - 1 \in 0..(n - 1) /\ k - 1 \notin T
  BY <1>2, <1>3
<1>5. k - 1 \in G
  BY <1>4
<1>6. k \in G
  BY <1>4, <1>5
<1> QED BY <1>2, <1>6

Running(step, s, e, n, f) == f = [k \in 0..n |-> IF k = 0 THEN s ELSE step[<<f[k - 1], e[k]>>]]

LEMMA RunningExists ==
  ASSUME NEW step, NEW s, NEW e, NEW n \in Nat PROVE \E f : Running(step, s, e, n, f)
<1> DEFINE T == {k \in Nat : ~\E f : Running(step, s, e, k, f)}
<1> SUFFICES ASSUME T # {} PROVE FALSE
  OBVIOUS
<1>1. T \in SUBSET Nat
  OBVIOUS
<1>2. PICK k \in T : \A m \in T : k <= m
  <2> HIDE DEF T
  <2> QED BY <1>1, Smallest
<1>3. CASE k = 0
  <2> DEFINE f == [j \in 0..0 |-> s]
  <2>1. f = [j \in 0..0 |-> IF j = 0 THEN s ELSE step[<<f[j - 1], e[j]>>]]
    OBVIOUS
  <2>2. Running(step, s, e, 0, f)
    BY <2>1 DEF Running
  <2> HIDE DEF f
  <2> QED BY <1>2, <1>3, <2>2
<1>4. CASE k > 0
  <2>1. k \in Nat /\ k - 1 \in Nat /\ ~(k <= k - 1)
    BY <1>4, <1>1, <1>2
  <2>2. PICK g : Running(step, s, e, k - 1, g)
    BY <1>2, <2>1
  <2> DEFINE f == [j \in 0..k |-> IF j = k THEN step[<<g[k - 1], e[k]>>] ELSE g[j]]
             h == [j \in 0..k |-> IF j = 0 THEN s ELSE step[<<f[j - 1], e[j]>>]]
  <2>3. \A j \in 0..k : f[j] = IF j = 0 THEN s ELSE step[<<f[j - 1], e[j]>>]
    <3> SUFFICES ASSUME NEW j \in 0..k PROVE f[j] = IF j = 0 THEN s ELSE step[<<f[j - 1], e[j]>>]
      OBVIOUS
    <3>1. CASE j = k
      <4>1. k - 1 \in 0..k /\ k \in 0..k /\ k - 1 # k /\ k # 0
        BY <1>4, <2>1
      <4>2. f[k] = step[<<g[k - 1], e[k]>>]
        BY <4>1
      <4>3. f[k - 1] = g[k - 1]
        BY <4>1
      <4> HIDE DEF f
      <4> QED BY <3>1, <4>1, <4>2, <4>3
    <3>2. CASE j # k
      <4>1. j \in 0..(k - 1) /\ f[j] = g[j]
        BY <2>1, <3>2
      <4>2. g[j] = IF j = 0 THEN s ELSE step[<<g[j - 1], e[j]>>]
        BY <2>2, <4>1 DEF Running
      <4>3. j # 0 => f[j - 1] = g[j - 1]
        BY <2>1, <3>2
      <4> HIDE DEF f
      <4> QED BY <4>1, <4>2, <4>3
    <3> QED BY <3>1, <3>2
  <2>4. f = [j \in 0..k |-> f[j]]
    OBVIOUS
  <2> HIDE DEF f
  <2>5. f = h
    BY <2>3, <2>4
  <2>6. Running(step, s, e, k, f)
    BY <2>5 DEF Running
  <2> QED BY <1>2, <2>6
<1> QED BY <1>1, <1>2, <1>3, <1>4

Run(step, s, e) == (CHOOSE f : Running(step, s, e, Len(e), f))[Len(e)]

\* Whatever is computed like that is the run.
Computes(step, s, e, n, f) == f[0] = s /\ \A k \in 1..n : f[k] = step[<<f[k - 1], e[k]>>]

LEMMA RunIs ==
  ASSUME NEW step, NEW s, NEW A, NEW e \in Seq(A), NEW n \in Nat, n <= Len(e),
         NEW f, Computes(step, s, e, n, f)
  PROVE  f[n] = Run(step, s, SubSeq(e, 1, n))
<1>0. f[0] = s /\ \A k \in 1..n : f[k] = step[<<f[k - 1], e[k]>>]
  BY DEF Computes
<1> DEFINE x == SubSeq(e, 1, n)
<1>1. Len(x) = n /\ \A k \in 1..n : x[k] = e[k]
  OBVIOUS
<1> HIDE DEF x
<1> DEFINE g == CHOOSE g : Running(step, s, x, n, g)
<1>2. Running(step, s, x, n, g)
  BY RunningExists
<1>3. Run(step, s, x) = g[n]
  BY <1>1 DEF Run
<1> HIDE DEF g
<1>4. g[0] = s /\ \A k \in 1..n : g[k] = step[<<g[k - 1], x[k]>>]
  BY <1>2 DEF Running
<1> DEFINE G == {k \in 0..n : f[k] = g[k]}
<1>5. 0 \in G
  BY <1>0, <1>4
<1>6. ASSUME NEW k \in 0..(n - 1), k \in G PROVE k + 1 \in G
  <2>1. k + 1 \in 1..n /\ (k + 1) - 1 = k
    OBVIOUS
  <2>2. f[k + 1] = step[<<f[k], e[k + 1]>>] /\ g[k + 1] = step[<<g[k], x[k + 1]>>]
    BY <2>1, <1>0, <1>4
  <2> QED BY <1>1, <1>6, <2>1, <2>2
<1> HIDE DEF G
<1>7. \A k \in 0..n : k \in G
  BY <1>5, <1>6, UpTo
<1>8. n \in G
  BY <1>7
<1> QED BY <1>3, <1>8 DEF G, x

\* What the run is made of.
RunAlong(step, s, e, f) ==
  /\ f[0] = s
  /\ \A k \in 1..Len(e) : f[k] = step[<<f[k - 1], e[k]>>]
  /\ \A k \in 0..Len(e) : f[k] = Run(step, s, SubSeq(e, 1, k))
  /\ f[Len(e)] = Run(step, s, e)

LEMMA RunOf ==
  ASSUME NEW step, NEW s, NEW A, NEW e \in Seq(A)
  PROVE  \E f : RunAlong(step, s, e, f)
<1> DEFINE n == Len(e)
           f == CHOOSE f : Running(step, s, e, n, f)
<1>1. n \in Nat
  OBVIOUS
<1>2. Running(step, s, e, n, f)
  BY <1>1, RunningExists
<1>3. f[n] = Run(step, s, e)
  BY DEF Run
<1> HIDE DEF f
<1>4. f[0] = s /\ \A k \in 1..n : f[k] = step[<<f[k - 1], e[k]>>]
  BY <1>1, <1>2 DEF Running
<1>5. ASSUME NEW k \in 0..n PROVE f[k] = Run(step, s, SubSeq(e, 1, k))
  <2>1. k \in Nat /\ k <= Len(e) /\ \A j \in 1..k : j \in 1..n
    BY <1>1
  <2>2. Computes(step, s, e, k, f)
    BY <1>4, <2>1 DEF Computes
  <2> QED BY <2>1, <2>2, RunIs
<1>6. RunAlong(step, s, e, f)
  BY <1>3, <1>4, <1>5 DEF RunAlong
<1> QED BY <1>6

LEMMA RunNothing == ASSUME NEW step, NEW s PROVE Run(step, s, <<>>) = s
<1>1. <<>> \in Seq({}) /\ Len(<<>>) = 0
  OBVIOUS
<1> DEFINE e == <<>>
<1> HIDE DEF e
<1>2. e \in Seq({}) /\ Len(e) = 0
  BY <1>1 DEF e
<1>3. PICK f : RunAlong(step, s, e, f)
  BY <1>2, RunOf
<1> QED BY <1>2, <1>3 DEF e, RunAlong

LEMMA RunAppend ==
  ASSUME NEW step, NEW s, NEW A, NEW e \in Seq(A), NEW a \in A
  PROVE  Run(step, s, Append(e, a)) = step[<<Run(step, s, e), a>>]
<1> DEFINE x == Append(e, a)
           n == Len(e)
<1>1. x \in Seq(A) /\ Len(x) = n + 1 /\ n \in Nat /\ x[n + 1] = a /\ SubSeq(x, 1, n) = e
  BY AppendProperties
<1> HIDE DEF x, n
<1>2. PICK f : RunAlong(step, s, x, f)
  BY <1>1, RunOf
<1>3. n + 1 \in 1..Len(x) /\ n \in 0..Len(x) /\ (n + 1) - 1 = n
  BY <1>1
<1>4. f[n + 1] = step[<<f[n], x[n + 1]>>]
  BY <1>2, <1>3 DEF RunAlong
<1>5. f[n] = Run(step, s, e)
  BY <1>1, <1>2, <1>3 DEF RunAlong
<1>6. f[n + 1] = Run(step, s, x)
  BY <1>1, <1>2 DEF RunAlong
<1> QED BY <1>1, <1>4, <1>5, <1>6 DEF x

LEMMA RunType ==
  ASSUME NEW S, NEW A, NEW step \in [S \X A -> S], NEW s \in S, NEW e \in Seq(A)
  PROVE  Run(step, s, e) \in S
<1> DEFINE G == {x \in Seq(A) : Run(step, s, x) \in S}
<1>1. <<>> \in G
  BY RunNothing
<1>2. ASSUME NEW x \in Seq(A), NEW a \in A, x \in G PROVE Append(x, a) \in G
  <2>1. Append(x, a) \in Seq(A) /\ Run(step, s, Append(x, a)) = step[<<Run(step, s, x), a>>]
    BY AppendProperties, RunAppend
  <2> QED BY <1>2, <2>1
<1> HIDE DEF G
<1>3. Seq(A) \subseteq G
  BY <1>1, <1>2, SequencesByAppending
<1> QED BY <1>3 DEF G

LEMMA ConcatAppend ==
  ASSUME NEW A, NEW x \in Seq(A), NEW y \in Seq(A), NEW a \in A
  PROVE  x \o Append(y, a) = Append(x \o y, a) /\ x \o y \in Seq(A) /\ x \o <<>> = x /\ <<>> \o x = x
OBVIOUS

LEMMA RunConcat ==
  ASSUME NEW step, NEW s, NEW A, NEW x \in Seq(A), NEW y \in Seq(A)
  PROVE  Run(step, s, x \o y) = Run(step, Run(step, s, x), y)
<1> DEFINE G == {z \in Seq(A) : Run(step, s, x \o z) = Run(step, Run(step, s, x), z)}
<1>1. <<>> \in G
  BY RunNothing, ConcatAppend
<1>2. ASSUME NEW z \in Seq(A), NEW a \in A, z \in G PROVE Append(z, a) \in G
  <2>1. Run(step, s, x \o Append(z, a)) = step[<<Run(step, s, x \o z), a>>]
    <3> DEFINE w == x \o z
    <3>1. x \o Append(z, a) = Append(w, a) /\ w \in Seq(A)
      BY ConcatAppend
    <3> HIDE DEF w
    <3>2. Run(step, s, Append(w, a)) = step[<<Run(step, s, w), a>>]
      BY <3>1, RunAppend
    <3> QED BY <3>1, <3>2 DEF w
  <2>2. Run(step, Run(step, s, x), Append(z, a)) = step[<<Run(step, Run(step, s, x), z), a>>]
    BY RunAppend
  <2>3. Append(z, a) \in Seq(A)
    BY AppendProperties
  <2> QED BY <1>2, <2>1, <2>2, <2>3
<1> HIDE DEF G
<1>3. Seq(A) \subseteq G
  BY <1>1, <1>2, SequencesByAppending
<1> QED BY <1>3 DEF G

LEMMA RunOne ==
  ASSUME NEW step, NEW s, NEW A, NEW a \in A PROVE Run(step, s, <<a>>) = step[<<s, a>>]
<1> DEFINE e == <<>>
<1>1. <<a>> = Append(e, a) /\ e \in Seq(A) /\ Run(step, s, e) = s
  BY RunNothing
<1> HIDE DEF e
<1>2. Run(step, s, Append(e, a)) = step[<<Run(step, s, e), a>>]
  BY <1>1, RunAppend
<1> QED BY <1>1, <1>2

-----------------------------------------------------------------------------
(* What is open.                                                           *)

Tokens == Tags \cup Constants

LEMMA BracketTypes ==
  /\ Empty \in Bracket
  /\ \A b \in Bracket : Value(b) \in {0, 1}
  /\ \A b \in Bracket : \A v \in {0, 1} : Operand(b, v) \in Bracket /\ Operand(b, v).expected = "operator"
  /\ \A b \in Bracket : [b EXCEPT !.negated = 1 - @] \in Bracket
                        /\ [b EXCEPT !.negated = 1 - @].expected = b.expected
  /\ \A b \in Bracket : [b EXCEPT !.expected = "operand"] \in Bracket
                        /\ [b EXCEPT !.expected = "operand"].expected = "operand"
  /\ \A b \in Bracket : [b EXCEPT !.ors = Value(b), !.ands = 1, !.expected = "operand"] \in Bracket
        /\ [b EXCEPT !.ors = Value(b), !.ands = 1, !.expected = "operand"].expected = "operand"
<1>1. Empty \in Bracket
  BY DEF Empty, Bracket
<1>2. \A b \in Bracket : Value(b) \in {0, 1}
  BY DEF Value
<1>3. ASSUME NEW b \in Bracket, NEW v \in {0, 1}
      PROVE  Operand(b, v) \in Bracket /\ Operand(b, v).expected = "operator"
  BY DEF Operand, Bracket
<1>4. ASSUME NEW b \in Bracket
      PROVE  [b EXCEPT !.negated = 1 - @] \in Bracket
             /\ [b EXCEPT !.negated = 1 - @].expected = b.expected
  BY DEF Bracket
<1>5. ASSUME NEW b \in Bracket
      PROVE  [b EXCEPT !.expected = "operand"] \in Bracket
             /\ [b EXCEPT !.expected = "operand"].expected = "operand"
  BY DEF Bracket
<1>6. ASSUME NEW b \in Bracket
      PROVE  [b EXCEPT !.ors = Value(b), !.ands = 1, !.expected = "operand"] \in Bracket
        /\ [b EXCEPT !.ors = Value(b), !.ands = 1, !.expected = "operand"].expected = "operand"
  <2>1. Value(b) \in {0, 1}
    BY <1>2
  <2> QED BY <2>1 DEF Bracket
<1> QED BY <1>1, <1>2, <1>3, <1>4, <1>5, <1>6

\* The value of true and false.
Bit(token) == IF token = "true" THEN 1 ELSE 0

OperandTokens == Booleans \cup {"!", "("}

\* A sequence with one element before it.
Push(a, s) == <<a>> \o s

\* A sequence that is not empty has a first element and the others.
LEMMA FirstAndOthers ==
  ASSUME NEW S, NEW s \in Seq(S), s # <<>>
  PROVE  /\ Head(s) \in S /\ Tail(s) \in Seq(S) /\ s = Push(Head(s), Tail(s))
         /\ Len(s) = Len(Tail(s)) + 1 /\ (Tail(s) = <<>> <=> Len(s) = 1)
<1>1. Head(s) \in S /\ Tail(s) \in Seq(S) /\ Len(s) = Len(Tail(s)) + 1
  OBVIOUS
<1>2. Tail(s) = <<>> <=> Len(s) = 1
  <2>1. \A t \in Seq(S) : (t = <<>> <=> Len(t) = 0) /\ Len(t) \in Nat
    BY EmptySeq
  <2>2. (Tail(s) = <<>> <=> Len(Tail(s)) = 0) /\ Len(Tail(s)) \in Nat
    BY <1>1, <2>1
  <2> QED BY <1>1, <2>2
<1> DEFINE t == <<Head(s)>> \o Tail(s)
<1>3. t \in Seq(S) /\ Len(t) = Len(s)
  BY <1>1
<1>4. ASSUME NEW i \in 1..Len(s) PROVE t[i] = s[i]
  <2>1. CASE i = 1
    BY <1>1, <2>1
  <2>2. CASE i # 1
    <3>1. i - 1 \in 1..Len(Tail(s)) /\ (i - 1) + 1 = i
      BY <1>1, <2>2
    <3>2. Tail(s)[i - 1] = s[i]
      BY <3>1
    <3>3. t[i] = Tail(s)[i - 1]
      BY <1>1, <3>1, <2>2
    <3> QED BY <3>2, <3>3
  <2> QED BY <2>1, <2>2
<1> HIDE DEF t
<1>5. t = s
  BY <1>3, <1>4, SeqEqual
<1> QED BY <1>1, <1>2, <1>5 DEF t, Push

LEMMA OneBefore ==
  ASSUME NEW S, NEW a \in S, NEW s \in Seq(S)
  PROVE  /\ Push(a, s) \in Seq(S) /\ Push(a, s) # <<>> /\ Head(Push(a, s)) = a /\ Tail(Push(a, s)) = s
         /\ Len(Push(a, s)) = Len(s) + 1
BY DEF Push

\* What is read where an operand is expected.
LEMMA OperandIs ==
  ASSUME NEW b \in Bracket, NEW outer \in Seq(Bracket), NEW token
  PROVE  /\ token \in Booleans => ReadOperand(b, outer, token) = Push(Operand(b, Bit(token)), outer)
         /\ token = "!" => ReadOperand(b, outer, token) = Push([b EXCEPT !.negated = 1 - @], outer)
         /\ token = "(" => ReadOperand(b, outer, token) = Push(Empty, Push(b, outer))
         /\ token \notin OperandTokens => ReadOperand(b, outer, token) = <<>>
<1>1. token \in Booleans => ReadOperand(b, outer, token) = Push(Operand(b, Bit(token)), outer)
  BY DEF ReadOperand, Booleans, Bit, Push
<1>2. token = "!" => ReadOperand(b, outer, token) = Push([b EXCEPT !.negated = 1 - @], outer)
  BY DEF ReadOperand, Booleans, Push
<1>3. token = "(" => ReadOperand(b, outer, token) = Push(Empty, Push(b, outer))
  <2>1. Empty \in Bracket
    BY BracketTypes
  <2>2. <<Empty, b>> \o outer = Push(Empty, Push(b, outer))
    BY <2>1 DEF Push
  <2> QED BY <2>2 DEF ReadOperand, Booleans
<1>4. token \notin OperandTokens => ReadOperand(b, outer, token) = <<>>
  BY DEF ReadOperand, Booleans, OperandTokens
<1> QED BY <1>1, <1>2, <1>3, <1>4

LEMMA OperatorIs ==
  ASSUME NEW b \in Bracket, NEW outer \in Seq(Bracket), NEW token
  PROVE  /\ token = "&" => ReadOperator(b, outer, token) = Push([b EXCEPT !.expected = "operand"], outer)
         /\ token = "|" => ReadOperator(b, outer, token)
                             = Push([b EXCEPT !.ors = Value(b), !.ands = 1, !.expected = "operand"], outer)
         /\ token = ")" /\ outer # <<>> => ReadOperator(b, outer, token)
                             = Push(Operand(Head(outer), Value(b)), Tail(outer))
         /\ token \notin {"&", "|", ")"} => ReadOperator(b, outer, token) = <<>>
         /\ token = ")" /\ outer = <<>> => ReadOperator(b, outer, token) = <<>>
BY DEF ReadOperator, Push

\* What is open when a token is read: an error, the innermost bracket changes, one opens, or
\* it closes.
Changed(b, token) ==
  IF b.expected = "operand"
  THEN IF token = "!" THEN [b EXCEPT !.negated = 1 - @] ELSE Operand(b, Bit(token))
  ELSE IF token = "&" THEN [b EXCEPT !.expected = "operand"]
  ELSE [b EXCEPT !.ors = Value(b), !.ands = 1, !.expected = "operand"]

Changes(b, token) ==
  IF b.expected = "operand" THEN token \in Booleans \cup {"!"} ELSE token \in {"&", "|"}

Opens(b, token) == b.expected = "operand" /\ token = "("

Closes(b, token) == b.expected = "operator" /\ token = ")"

LEMMA ReadIs ==
  ASSUME NEW b \in Bracket, NEW outer \in Seq(Bracket), NEW token
  PROVE  /\ Changes(b, token) => /\ ReadToken(Push(b, outer), token) = Push(Changed(b, token), outer)
                                 /\ Changed(b, token) \in Bracket
         /\ Opens(b, token) => ReadToken(Push(b, outer), token) = Push(Empty, Push(b, outer))
         /\ Closes(b, token) /\ outer # <<>> =>
              ReadToken(Push(b, outer), token) = Push(Operand(Head(outer), Value(b)), Tail(outer))
         /\ Closes(b, token) /\ outer = <<>> => ReadToken(Push(b, outer), token) = <<>>
         /\ ~Changes(b, token) /\ ~Opens(b, token) /\ ~Closes(b, token)
              => ReadToken(Push(b, outer), token) = <<>>
<1>1. b.expected \in {"operand", "operator"}
  BY DEF Bracket
<1>2. ReadToken(Push(b, outer), token) =
        IF b.expected = "operand" THEN ReadOperand(b, outer, token) ELSE ReadOperator(b, outer, token)
  BY OneBefore DEF ReadToken
<1>3. Bit(token) \in {0, 1}
  BY DEF Bit
<1>4. CASE b.expected = "operand"
  <2>1. Changes(b, token) => Changed(b, token) \in Bracket
    <3>1. Operand(b, Bit(token)) \in Bracket
      BY <1>3, BracketTypes
    <3>2. [b EXCEPT !.negated = 1 - @] \in Bracket
      BY BracketTypes
    <3> QED BY <1>4, <3>1, <3>2 DEF Changed
  <2>2. token \in Booleans => token # "!"
    BY DEF Booleans
  <2>3. Changes(b, token) => ReadOperand(b, outer, token) = Push(Changed(b, token), outer)
    <3>1. CASE token = "!"
      <4>1. Changed(b, token) = [b EXCEPT !.negated = 1 - @]
        BY <1>4, <3>1 DEF Changed
      <4> QED BY <3>1, <4>1, OperandIs
    <3>2. CASE token \in Booleans
      <4>1. Changed(b, token) = Operand(b, Bit(token))
        BY <1>4, <2>2, <3>2 DEF Changed
      <4>2. ReadOperand(b, outer, token) = Push(Operand(b, Bit(token)), outer)
        BY <3>2, OperandIs
      <4> QED BY <4>1, <4>2
    <3> QED BY <1>4, <3>1, <3>2 DEF Changes
  <2>4. Opens(b, token) => ReadOperand(b, outer, token) = Push(Empty, Push(b, outer))
    BY OperandIs DEF Opens
  <2>5. ~Closes(b, token)
    BY <1>4 DEF Closes
  <2>6. ~Changes(b, token) /\ ~Opens(b, token) => ReadOperand(b, outer, token) = <<>>
    <3>1. ~Changes(b, token) /\ ~Opens(b, token) => token \notin OperandTokens
      BY <1>4 DEF Changes, Opens, OperandTokens
    <3> QED BY <3>1, OperandIs
  <2> QED BY <1>2, <1>4, <2>1, <2>3, <2>4, <2>5, <2>6
<1>5. CASE b.expected = "operator"
  <2>0. b.expected # "operand"
    BY <1>5
  <2>1. Changes(b, token) => Changed(b, token) \in Bracket
    BY <2>0, BracketTypes DEF Changed
  <2>2. Changes(b, token) => ReadOperator(b, outer, token) = Push(Changed(b, token), outer)
    <3>1. CASE token = "&"
      <4>1. Changed(b, token) = [b EXCEPT !.expected = "operand"]
        BY <2>0, <3>1 DEF Changed
      <4>2. ReadOperator(b, outer, token) = Push([b EXCEPT !.expected = "operand"], outer)
        BY <3>1, OperatorIs
      <4> QED BY <4>1, <4>2
    <3>2. CASE token = "|"
      <4>1. Changed(b, token) = [b EXCEPT !.ors = Value(b), !.ands = 1, !.expected = "operand"]
        BY <2>0, <3>2 DEF Changed
      <4>2. ReadOperator(b, outer, token)
              = Push([b EXCEPT !.ors = Value(b), !.ands = 1, !.expected = "operand"], outer)
        BY <3>2, OperatorIs
      <4> QED BY <4>1, <4>2
    <3> QED BY <2>0, <3>1, <3>2 DEF Changes
  <2>3. ~Opens(b, token)
    BY <2>0 DEF Opens
  <2>4. Closes(b, token) /\ outer # <<>> => ReadOperator(b, outer, token) = Push(Operand(Head(outer), Value(b)), Tail(outer))
    BY OperatorIs DEF Closes
  <2>5. Closes(b, token) /\ outer = <<>> => ReadOperator(b, outer, token) = <<>>
    BY OperatorIs DEF Closes
  <2>6. ~Changes(b, token) /\ ~Closes(b, token) => ReadOperator(b, outer, token) = <<>>
    <3>1. ~Changes(b, token) /\ ~Closes(b, token) => token \notin {"&", "|", ")"}
      BY <1>5, <2>0 DEF Changes, Closes
    <3> QED BY <3>1, OperatorIs
  <2> QED BY <1>2, <2>0, <2>1, <2>2, <2>3, <2>4, <2>5, <2>6
<1> QED BY <1>1, <1>4, <1>5

LEMMA ReadClosesLast ==
  ASSUME NEW b \in Bracket, NEW outer \in Seq(Bracket), NEW token,
         Closes(b, token), outer = <<>>
  PROVE  ReadToken(Push(b, outer), token) = <<>>
BY ReadIs

LEMMA PushEmpty == ASSUME NEW S, NEW a \in S, NEW s \in Seq(S) PROVE Push(a, s) # <<>>
BY OneBefore

LEMMA ReadNothing == ASSUME NEW token PROVE ReadToken(<<>>, token) = <<>>
BY DEF ReadToken

LEMMA ReadType ==
  ASSUME NEW open \in Seq(Bracket), NEW token PROVE ReadToken(open, token) \in Seq(Bracket)
<1>1. CASE open = <<>>
  BY <1>1, ReadNothing
<1>2. CASE open # <<>>
  <2> DEFINE b == Head(open)
             o == Tail(open)
  <2>1. b \in Bracket /\ o \in Seq(Bracket) /\ open = Push(b, o)
    BY <1>2, FirstAndOthers
  <2> HIDE DEF b, o
  <2>2. Push(Empty, Push(b, o)) \in Seq(Bracket)
    BY <2>1, OneBefore, BracketTypes
  <2>3. CASE Changes(b, token)
    <3>1. ReadToken(open, token) = Push(Changed(b, token), o) /\ Changed(b, token) \in Bracket
      BY <2>1, <2>3, ReadIs
    <3> QED BY <2>1, <3>1, OneBefore
  <2>4. CASE Closes(b, token) /\ o # <<>>
    <3>1. Head(o) \in Bracket /\ Tail(o) \in Seq(Bracket)
      BY <2>1, <2>4, FirstAndOthers
    <3>2. Operand(Head(o), Value(b)) \in Bracket
      BY <2>1, <3>1, BracketTypes
    <3>3. ReadToken(open, token) = Push(Operand(Head(o), Value(b)), Tail(o))
      BY <2>1, <2>4, ReadIs
    <3>4. Push(Operand(Head(o), Value(b)), Tail(o)) \in Seq(Bracket)
      BY <3>1, <3>2, OneBefore
    <3> QED BY <3>3, <3>4
  <2>5. CASE Opens(b, token)
    <3>1. ReadToken(open, token) = Push(Empty, Push(b, o))
      BY <2>1, <2>5, ReadIs
    <3> QED BY <2>2, <3>1
  <2>6. CASE ~Changes(b, token) /\ ~(Closes(b, token) /\ o # <<>>) /\ ~Opens(b, token)
    <3>1. ReadToken(open, token) = <<>>
      BY <2>1, <2>6, ReadIs
    <3> QED BY <3>1
  <2> QED BY <2>3, <2>4, <2>5, <2>6
<1> QED BY <1>1, <1>2

Delta(token) == IF token = "(" THEN 1 ELSE IF token = ")" THEN -1 ELSE 0

LEMMA DeltaIs ==
  ASSUME NEW b \in Bracket, NEW token
  PROVE  /\ Changes(b, token) => Delta(token) = 0
         /\ Opens(b, token) => Delta(token) = 1
         /\ Closes(b, token) => Delta(token) = -1
BY DEF Changes, Opens, Closes, Delta, Booleans

LEMMA ReadLength ==
  ASSUME NEW open \in Seq(Bracket), open # <<>>, NEW token, ReadToken(open, token) # <<>>
  PROVE  Len(ReadToken(open, token)) = Len(open) + Delta(token)
<1> DEFINE b == Head(open)
           o == Tail(open)
<1>1. b \in Bracket /\ o \in Seq(Bracket) /\ open = Push(b, o) /\ Len(open) = Len(o) + 1
      /\ Len(o) \in Nat
  BY FirstAndOthers
<1> HIDE DEF b, o
<1>2. CASE Changes(b, token)
  <2>1. ReadToken(open, token) = Push(Changed(b, token), o) /\ Changed(b, token) \in Bracket
    BY <1>1, <1>2, ReadIs
  <2>2. Len(Push(Changed(b, token), o)) = Len(o) + 1
    BY <1>1, <2>1, OneBefore
  <2> QED BY <1>1, <1>2, <2>1, <2>2, DeltaIs
<1>3. CASE Closes(b, token)
  <2>1. o # <<>>
    BY <1>1, <1>3, ReadIs
  <2>2. Head(o) \in Bracket /\ Tail(o) \in Seq(Bracket) /\ Len(o) = Len(Tail(o)) + 1 /\ Len(Tail(o)) \in Nat
    BY <1>1, <2>1, FirstAndOthers
  <2>3. Operand(Head(o), Value(b)) \in Bracket
    BY <1>1, <2>2, BracketTypes
  <2>4. ReadToken(open, token) = Push(Operand(Head(o), Value(b)), Tail(o))
    BY <1>1, <1>3, <2>1, ReadIs
  <2>5. Len(Push(Operand(Head(o), Value(b)), Tail(o))) = Len(Tail(o)) + 1
    BY <2>2, <2>3, OneBefore
  <2> QED BY <1>1, <1>3, <2>2, <2>4, <2>5, DeltaIs
<1>4. CASE Opens(b, token)
  <2>1. ReadToken(open, token) = Push(Empty, Push(b, o))
    BY <1>1, <1>4, ReadIs
  <2>2. Push(b, o) \in Seq(Bracket) /\ Len(Push(b, o)) = Len(o) + 1
    BY <1>1, OneBefore
  <2>3. Len(Push(Empty, Push(b, o))) = Len(Push(b, o)) + 1
    <3> DEFINE s == Push(b, o)
    <3>1. Empty \in Bracket /\ s \in Seq(Bracket)
      BY <2>2, BracketTypes
    <3> HIDE DEF s
    <3>2. Len(Push(Empty, s)) = Len(s) + 1
      BY <3>1, OneBefore
    <3> QED BY <3>2 DEF s
  <2> QED BY <1>1, <1>4, <2>1, <2>2, <2>3, DeltaIs
<1>5. Changes(b, token) \/ Closes(b, token) \/ Opens(b, token)
  BY <1>1, ReadIs
<1> QED BY <1>2, <1>3, <1>4, <1>5

\* Brackets around those.
Over(u, t) == u \o t

LEMMA OverIs ==
  ASSUME NEW S, NEW a \in S, NEW s \in Seq(S), NEW t \in Seq(S)
  PROVE  Over(s, t) \in Seq(S) /\ Over(Push(a, s), t) = Push(a, Over(s, t)) /\ Over(<<>>, t) = t
BY DEF Over, Push

\* What is open around does not matter for what is read inside.
LEMMA ReadLocal ==
  ASSUME NEW u \in Seq(Bracket), u # <<>>, NEW t \in Seq(Bracket), NEW token
  PROVE  /\ ReadToken(u, token) # <<>> => ReadToken(Over(u, t), token) = Over(ReadToken(u, token), t)
         /\ ReadToken(Over(u, t), token) # <<>> /\ ~(token = ")" /\ Len(u) = 1) => ReadToken(u, token) # <<>>
<1> DEFINE b == Head(u)
           o == Tail(u)
<1>1. b \in Bracket /\ o \in Seq(Bracket) /\ u = Push(b, o) /\ (o = <<>> <=> Len(u) = 1)
  BY FirstAndOthers
<1> HIDE DEF b, o
<1>2. Over(o, t) \in Seq(Bracket) /\ Over(u, t) = Push(b, Over(o, t))
  BY <1>1, OverIs
<1>3. CASE Changes(b, token)
  <2>1. ReadToken(u, token) = Push(Changed(b, token), o) /\ Changed(b, token) \in Bracket
    BY <1>1, <1>3, ReadIs
  <2>2. ReadToken(Over(u, t), token) = Push(Changed(b, token), Over(o, t))
    BY <1>1, <1>2, <1>3, ReadIs
  <2>3. Over(Push(Changed(b, token), o), t) = Push(Changed(b, token), Over(o, t))
    BY <1>1, <2>1, OverIs
  <2>4. Push(Changed(b, token), o) # <<>>
    BY <1>1, <2>1, PushEmpty
  <2> QED BY <2>1, <2>2, <2>3, <2>4
<1>4. CASE Opens(b, token)
  <2>1. ReadToken(u, token) = Push(Empty, Push(b, o))
    BY <1>1, <1>4, ReadIs
  <2>2. ReadToken(Over(u, t), token) = Push(Empty, Push(b, Over(o, t)))
    BY <1>1, <1>2, <1>4, ReadIs
  <2>3. Empty \in Bracket /\ Push(b, o) \in Seq(Bracket)
    BY <1>1, OneBefore, BracketTypes
  <2>4. Over(Push(Empty, Push(b, o)), t) = Push(Empty, Over(Push(b, o), t))
    BY <2>3, OverIs
  <2>5. Over(Push(b, o), t) = Push(b, Over(o, t))
    BY <1>1, OverIs
  <2>6. Push(Empty, Push(b, o)) # <<>>
    BY <2>3, PushEmpty
  <2> QED BY <2>1, <2>2, <2>4, <2>5, <2>6
<1>5. CASE Closes(b, token) /\ o # <<>>
  <2> DEFINE h == Head(o)
             l == Tail(o)
  <2>1. h \in Bracket /\ l \in Seq(Bracket) /\ o = Push(h, l)
    BY <1>1, <1>5, FirstAndOthers
  <2> DEFINE c == Operand(h, Value(b))
             r == Over(l, t)
  <2>2. ReadToken(u, token) = Push(c, l)
    BY <1>1, <1>5, ReadIs
  <2>3. Over(o, t) = Push(h, r) /\ r \in Seq(Bracket)
    <3> HIDE DEF h, l, c
    <3> QED BY <2>1, OverIs
  <2>4. Push(h, r) # <<>> /\ Head(Push(h, r)) = h /\ Tail(Push(h, r)) = r
    <3> HIDE DEF h, l, c, r
    <3> QED BY <2>1, <2>3, OneBefore
  <2>5. c \in Bracket
    <3> HIDE DEF h, l
    <3> QED BY <1>1, <2>1, BracketTypes
  <2>6. ReadToken(Over(u, t), token) = Push(c, r)
    <3> DEFINE w == Over(o, t)
    <3>1. w \in Seq(Bracket) /\ w # <<>> /\ Head(w) = h /\ Tail(w) = r
      BY <1>2, <2>3, <2>4
    <3> HIDE DEF w, h, l, r, c
    <3>2. ReadToken(Push(b, w), token) = Push(Operand(Head(w), Value(b)), Tail(w))
      BY <1>1, <1>5, <3>1, ReadIs
    <3> QED BY <1>2, <3>1, <3>2 DEF w, c
  <2> HIDE DEF c, h, l
  <2>7. Over(Push(c, l), t) = Push(c, r)
    BY <2>1, <2>5, OverIs
  <2>8. Push(c, l) # <<>>
    BY <2>1, <2>5, PushEmpty
  <2> QED BY <2>2, <2>6, <2>7, <2>8
<1>6. CASE Closes(b, token) /\ o = <<>>
  <2>1. ReadToken(u, token) = <<>>
    <3>0. b \in Bracket /\ o \in Seq(Bracket)
      BY <1>1
    <3>1. Closes(b, token) /\ o = <<>> => ReadToken(Push(b, o), token) = <<>>
      BY ONLY <3>0, ReadIs
    <3> QED BY <1>1, <1>6, <3>1
  <2>2. token = ")" /\ Len(u) = 1
    BY <1>1, <1>6 DEF Closes
  <2> QED BY <2>1, <2>2
<1>7. CASE ~Changes(b, token) /\ ~Closes(b, token) /\ ~Opens(b, token)
  <2>1. ReadToken(u, token) = <<>> /\ ReadToken(Over(u, t), token) = <<>>
    BY <1>1, <1>2, <1>7, ReadIs
  <2> QED BY <2>1
<1> QED BY <1>3, <1>4, <1>5, <1>6, <1>7

\* Where an operand is expected does not depend on values.
SameShape(u, w) == Len(u) = Len(w) /\ \A k \in 1..Len(u) : u[k].expected = w[k].expected

Alike(token, other) == token = other \/ (token \in Booleans /\ other \in Booleans)

LEMMA PushShape ==
  ASSUME NEW a \in Bracket, NEW b \in Bracket, NEW u \in Seq(Bracket), NEW w \in Seq(Bracket)
  PROVE  SameShape(Push(a, u), Push(b, w)) <=> a.expected = b.expected /\ SameShape(u, w)
<1> DEFINE x == Push(a, u)
           y == Push(b, w)
<1>1. Len(x) = Len(u) + 1 /\ Len(y) = Len(w) + 1 /\ Len(u) \in Nat /\ Len(w) \in Nat
      /\ x[1] = a /\ y[1] = b
  BY DEF Push
<1>2. (\A k \in 1..Len(u) : x[k + 1] = u[k]) /\ (\A k \in 1..Len(w) : y[k + 1] = w[k])
  BY DEF Push
<1> HIDE DEF x, y
<1>3. ASSUME a.expected = b.expected, SameShape(u, w) PROVE SameShape(x, y)
  <2>1. ASSUME NEW k \in 1..Len(x) PROVE x[k].expected = y[k].expected
    <3>1. CASE k = 1
      BY <1>1, <1>3, <3>1
    <3>2. CASE k # 1
      <4>1. k - 1 \in 1..Len(u) /\ k - 1 \in 1..Len(w) /\ (k - 1) + 1 = k
        BY <1>1, <1>3, <3>2 DEF SameShape
      <4>2. x[k] = u[k - 1] /\ y[k] = w[k - 1]
        BY <1>2, <4>1
      <4> QED BY <1>3, <4>1, <4>2 DEF SameShape
    <3> QED BY <3>1, <3>2
  <2> QED BY <1>1, <1>3, <2>1 DEF SameShape
<1>4. ASSUME SameShape(x, y) PROVE a.expected = b.expected /\ SameShape(u, w)
  <2>1. Len(u) = Len(w)
    BY <1>1, <1>4 DEF SameShape
  <2>2. 1 \in 1..Len(x)
    BY <1>1
  <2>3. a.expected = b.expected
    BY <1>1, <1>4, <2>2 DEF SameShape
  <2>4. ASSUME NEW k \in 1..Len(u) PROVE u[k].expected = w[k].expected
    <3>1. k + 1 \in 1..Len(x)
      BY <1>1
    <3>2. x[k + 1] = u[k] /\ y[k + 1] = w[k]
      BY <1>2, <2>1
    <3> QED BY <1>4, <3>1, <3>2 DEF SameShape
  <2> QED BY <2>1, <2>3, <2>4 DEF SameShape
<1> QED BY <1>3, <1>4 DEF x, y

LEMMA ReadShape ==
  ASSUME NEW u \in Seq(Bracket), NEW w \in Seq(Bracket), SameShape(u, w),
         NEW token, NEW other, Alike(token, other)
  PROVE  SameShape(ReadToken(u, token), ReadToken(w, other))
<1>0. SameShape(<<>>, <<>>)
  BY DEF SameShape
<1>1. CASE u = <<>>
  <2>1. w = <<>>
    <3>1. Len(w) = 0
      BY <1>1 DEF SameShape
    <3> QED BY <3>1, EmptySeq
  <2> QED BY <1>0, <1>1, <2>1, ReadNothing
<1>2. CASE u # <<>>
  <2>1. w # <<>>
    <3>1. Len(u) \in Nat \ {0}
      BY <1>2, EmptySeq
    <3> QED BY <3>1 DEF SameShape
  <2> DEFINE b == Head(u)
             o == Tail(u)
             c == Head(w)
             p == Tail(w)
  <2>2. b \in Bracket /\ o \in Seq(Bracket) /\ u = Push(b, o)
    BY <1>2, FirstAndOthers
  <2>3. c \in Bracket /\ p \in Seq(Bracket) /\ w = Push(c, p)
    BY <2>1, FirstAndOthers
  <2> HIDE DEF b, o, c, p
  <2>4. b.expected = c.expected /\ SameShape(o, p)
    BY <2>2, <2>3, PushShape
  <2>5. (Changes(b, token) <=> Changes(c, other)) /\ (Opens(b, token) <=> Opens(c, other))
        /\ (Closes(b, token) <=> Closes(c, other))
    <3>1. CASE token = other
      BY <2>4, <3>1 DEF Changes, Opens, Closes
    <3>2. CASE token \in Booleans /\ other \in Booleans
      BY <2>4, <3>2 DEF Changes, Opens, Closes, Booleans
    <3> QED BY <3>1, <3>2 DEF Alike
  <2>6. CASE Changes(b, token)
    <3>1. ReadToken(u, token) = Push(Changed(b, token), o) /\ Changed(b, token) \in Bracket
      BY <2>2, <2>6, ReadIs
    <3>2. ReadToken(w, other) = Push(Changed(c, other), p) /\ Changed(c, other) \in Bracket
      BY <2>3, <2>5, <2>6, ReadIs
    <3>3. Changed(b, token).expected = Changed(c, other).expected
      <4>0. Bit(token) \in {0, 1} /\ Bit(other) \in {0, 1}
        BY DEF Bit
      <4>1. b.expected # "operand" => Changed(b, token).expected = "operand" /\ Changed(c, other).expected = "operand"
        BY <2>2, <2>3, <2>4, BracketTypes DEF Changed
      <4>2. b.expected = "operand" /\ token = "!" => Changed(b, token).expected = "operand" /\ Changed(c, other).expected = "operand"
        <5>1. token = "!" => other = "!"
          BY DEF Alike, Booleans
        <5> QED BY <2>2, <2>3, <2>4, <5>1, BracketTypes DEF Changed
      <4>3. b.expected = "operand" /\ token # "!" => Changed(b, token).expected = "operator" /\ Changed(c, other).expected = "operator"
        <5>1. token # "!" => other # "!"
          BY DEF Alike, Booleans
        <5>2. Operand(b, Bit(token)).expected = "operator" /\ Operand(c, Bit(other)).expected = "operator"
          BY <2>2, <2>3, <4>0, BracketTypes
        <5> QED BY <2>4, <5>1, <5>2 DEF Changed
      <4> QED BY <4>1, <4>2, <4>3
    <3> QED BY <2>2, <2>3, <2>4, <3>1, <3>2, <3>3, PushShape
  <2>7. CASE Opens(b, token)
    <3>1. ReadToken(u, token) = Push(Empty, u)
      BY <2>2, <2>7, ReadIs
    <3>2. ReadToken(w, other) = Push(Empty, w)
      BY <2>3, <2>5, <2>7, ReadIs
    <3>3. Empty \in Bracket
      BY BracketTypes
    <3> QED BY <3>1, <3>2, <3>3, PushShape
  <2>8. CASE Closes(b, token) /\ o # <<>>
    <3>1. p # <<>>
      <4>1. Len(o) \in Nat \ {0}
        BY <2>2, <2>8, EmptySeq
      <4> QED BY <2>4, <4>1 DEF SameShape
    <3> DEFINE h == Head(o)
               l == Tail(o)
               j == Head(p)
               m == Tail(p)
    <3>2. h \in Bracket /\ l \in Seq(Bracket) /\ o = Push(h, l)
      BY <2>2, <2>8, FirstAndOthers
    <3>3. j \in Bracket /\ m \in Seq(Bracket) /\ p = Push(j, m)
      BY <2>3, <3>1, FirstAndOthers
    <3>5. ReadToken(u, token) = Push(Operand(h, Value(b)), l)
      BY <2>2, <2>8, ReadIs
    <3>6. ReadToken(w, other) = Push(Operand(j, Value(c)), m)
      BY <2>3, <2>5, <2>8, <3>1, ReadIs
    <3> HIDE DEF h, l, j, m
    <3>4. SameShape(l, m)
      BY <2>4, <3>2, <3>3, PushShape
    <3>7. Value(b) \in {0, 1} /\ Value(c) \in {0, 1}
      BY <2>2, <2>3, BracketTypes
    <3> DEFINE x == Operand(h, Value(b))
               y == Operand(j, Value(c))
    <3>8. x \in Bracket /\ x.expected = "operator"
      BY <3>2, <3>7, BracketTypes
    <3>9. y \in Bracket /\ y.expected = "operator"
      BY <3>3, <3>7, BracketTypes
    <3> HIDE DEF x, y
    <3>10. SameShape(Push(x, l), Push(y, m))
      BY <3>2, <3>3, <3>4, <3>8, <3>9, PushShape
    <3> QED BY <3>5, <3>6, <3>10 DEF x, y
  <2>9. CASE Closes(b, token) /\ o = <<>>
    <3>1. p = <<>>
      <4>1. Len(p) = 0
        BY <2>4, <2>9 DEF SameShape
      <4> QED BY <2>3, <4>1, EmptySeq
    <3>2. ReadToken(u, token) = <<>>
      BY <2>2, <2>9, ReadClosesLast
    <3>4. Closes(c, other)
      BY <2>5, <2>9
    <3>3. ReadToken(w, other) = <<>>
      BY <2>3, <3>1, <3>4, ReadClosesLast
    <3> QED BY <1>0, <3>2, <3>3
  <2>10. CASE ~Changes(b, token) /\ ~Closes(b, token) /\ ~Opens(b, token)
    <3>1. ReadToken(u, token) = <<>> /\ ReadToken(w, other) = <<>>
      BY <2>2, <2>3, <2>5, <2>10, ReadIs
    <3> QED BY <1>0, <3>1
  <2> QED BY <2>6, <2>7, <2>8, <2>9, <2>10
<1> QED BY <1>1, <1>2

-----------------------------------------------------------------------------
(* How deep a text is in brackets.                                         *)

LEMMA ConstantsAreTokens == ASSUME NEW x \in Seq(Constants) PROVE x \in Seq(Tokens)
BY SeqMonotonic DEF Tokens

DepthStep == [st \in Int \X Tokens |-> st[1] + Delta(st[2])]

\* Below the first bracket there is nothing more to say.
Levels == Nat \cup {-1}
LevelStep == [st \in Levels \X Tokens |-> IF st[1] = -1 THEN -1 ELSE st[1] + Delta(st[2])]

Balanced(x) == Run(LevelStep, 0, x) = 0

LEMMA DepthStepIs ==
  /\ DepthStep \in [Int \X Tokens -> Int]
  /\ \A d \in Int : \A t \in Tokens : DepthStep[<<d, t>>] = d + Delta(t)
<1>1. \A t : Delta(t) \in {-1, 0, 1}
  BY DEF Delta
<1> QED BY <1>1 DEF DepthStep

LEMMA LevelStepIs ==
  /\ LevelStep \in [Levels \X Tokens -> Levels]
  /\ \A d \in Levels : \A t \in Tokens :
       LevelStep[<<d, t>>] = IF d = -1 THEN -1 ELSE d + Delta(t)
<1>1. \A t : Delta(t) \in {-1, 0, 1}
  BY DEF Delta
<1>2. ASSUME NEW d \in Levels, NEW t \in Tokens
      PROVE  (IF d = -1 THEN -1 ELSE d + Delta(t)) \in Levels
  <2>1. Delta(t) \in {-1, 0, 1}
    BY <1>1
  <2> QED BY <2>1 DEF Levels
<1>3. LevelStep \in [Levels \X Tokens -> Levels]
  <2>1. ASSUME NEW st \in Levels \X Tokens
        PROVE  (IF st[1] = -1 THEN -1 ELSE st[1] + Delta(st[2])) \in Levels
    <3>1. st[1] \in Levels /\ st[2] \in Tokens
      OBVIOUS
    <3> QED BY <1>2, <3>1
  <2> QED BY <2>1 DEF LevelStep
<1>4. \A d \in Levels : \A t \in Tokens :
       LevelStep[<<d, t>>] = IF d = -1 THEN -1 ELSE d + Delta(t)
  BY DEF LevelStep
<1> QED BY <1>3, <1>4

LEMMA LevelType ==
  ASSUME NEW d \in Levels, NEW x \in Seq(Tokens) PROVE Run(LevelStep, d, x) \in Levels
BY LevelStepIs, RunType

LEMMA LevelAppend ==
  ASSUME NEW d \in Levels, NEW x \in Seq(Tokens), NEW t \in Tokens
  PROVE  Run(LevelStep, d, Append(x, t))
           = IF Run(LevelStep, d, x) = -1 THEN -1 ELSE Run(LevelStep, d, x) + Delta(t)
<1>1. Run(LevelStep, d, x) \in Levels
  BY LevelType
<1>2. Run(LevelStep, d, Append(x, t)) = LevelStep[<<Run(LevelStep, d, x), t>>]
  BY RunAppend
<1> QED BY <1>1, <1>2, LevelStepIs

LEMMA DepthAppend ==
  ASSUME NEW d \in Int, NEW x \in Seq(Tokens), NEW t \in Tokens
  PROVE  /\ Run(DepthStep, d, x) \in Int
         /\ Run(DepthStep, d, Append(x, t)) = Run(DepthStep, d, x) + Delta(t)
<1>1. Run(DepthStep, d, x) \in Int
  BY DepthStepIs, RunType
<1>2. Run(DepthStep, d, Append(x, t)) = DepthStep[<<Run(DepthStep, d, x), t>>]
  BY RunAppend
<1> QED BY <1>1, <1>2, DepthStepIs

LEMMA DeltaType == ASSUME NEW t PROVE Delta(t) \in {-1, 0, 1}
BY DEF Delta

\* How levels go together with each other and with depth.
LEMMA LevelFacts ==
  ASSUME NEW x \in Seq(Tokens)
  PROVE  /\ Run(LevelStep, -1, x) = -1
         /\ \A d, m \in Nat : Run(LevelStep, d, x) # -1 =>
              Run(LevelStep, d + m, x) = Run(LevelStep, d, x) + m
         /\ \A d \in Nat : Run(LevelStep, d, x) # -1 =>
              Run(DepthStep, 0, x) = Run(LevelStep, d, x) - d
         /\ \A d \in Int : Run(DepthStep, d, x) = d + Run(DepthStep, 0, x)
<1> DEFINE G1 == {y \in Seq(Tokens) : Run(LevelStep, -1, y) = -1}
           G2 == {y \in Seq(Tokens) : \A d, m \in Nat : Run(LevelStep, d, y) # -1 =>
                    Run(LevelStep, d + m, y) = Run(LevelStep, d, y) + m}
           G3 == {y \in Seq(Tokens) : \A d \in Nat : Run(LevelStep, d, y) # -1 =>
                    Run(DepthStep, 0, y) = Run(LevelStep, d, y) - d}
           G4 == {y \in Seq(Tokens) : \A d \in Int : Run(DepthStep, d, y) = d + Run(DepthStep, 0, y)}
<1>0. -1 \in Levels /\ Nat \subseteq Levels /\ 0 \in Int
  BY DEF Levels
<1>1. <<>> \in G1 /\ <<>> \in G2 /\ <<>> \in G3 /\ <<>> \in G4
  BY RunNothing
<1>2. ASSUME NEW y \in Seq(Tokens), NEW t \in Tokens, y \in G1 PROVE Append(y, t) \in G1
  <2>1. Run(LevelStep, -1, Append(y, t)) = -1
    BY <1>0, <1>2, LevelAppend
  <2> QED BY <2>1, AppendProperties
<1>3. ASSUME NEW y \in Seq(Tokens), NEW t \in Tokens, y \in G2 PROVE Append(y, t) \in G2
  <2>1. ASSUME NEW d \in Nat, NEW m \in Nat, Run(LevelStep, d, Append(y, t)) # -1
        PROVE  Run(LevelStep, d + m, Append(y, t)) = Run(LevelStep, d, Append(y, t)) + m
    <3>1. Run(LevelStep, d, y) # -1 /\ Run(LevelStep, d, Append(y, t)) = Run(LevelStep, d, y) + Delta(t)
      BY <1>0, <2>1, LevelAppend
    <3>2. Run(LevelStep, d, y) \in Levels
      BY <1>0, LevelType
    <3>3. Run(LevelStep, d + m, y) = Run(LevelStep, d, y) + m
      BY <1>3, <3>1
    <3>4. Run(LevelStep, d + m, y) # -1
      BY <3>1, <3>2, <3>3 DEF Levels
    <3>5. d + m \in Levels
      BY <1>0
    <3>6. Run(LevelStep, d + m, Append(y, t)) = Run(LevelStep, d + m, y) + Delta(t)
      BY <3>4, <3>5, LevelAppend
    <3> QED BY <3>1, <3>2, <3>3, <3>6, DeltaType DEF Levels
  <2> QED BY <2>1, AppendProperties
<1>4. ASSUME NEW y \in Seq(Tokens), NEW t \in Tokens, y \in G3 PROVE Append(y, t) \in G3
  <2>1. ASSUME NEW d \in Nat, Run(LevelStep, d, Append(y, t)) # -1
        PROVE  Run(DepthStep, 0, Append(y, t)) = Run(LevelStep, d, Append(y, t)) - d
    <3>1. Run(LevelStep, d, y) # -1 /\ Run(LevelStep, d, Append(y, t)) = Run(LevelStep, d, y) + Delta(t)
      BY <1>0, <2>1, LevelAppend
    <3>2. Run(LevelStep, d, y) \in Levels
      BY <1>0, LevelType
    <3>3. Run(DepthStep, 0, y) = Run(LevelStep, d, y) - d
      BY <1>4, <3>1
    <3>4. Run(DepthStep, 0, Append(y, t)) = Run(DepthStep, 0, y) + Delta(t)
      BY <1>0, DepthAppend
    <3> QED BY <3>1, <3>2, <3>3, <3>4, DeltaType DEF Levels
  <2> QED BY <2>1, AppendProperties
<1>5. ASSUME NEW y \in Seq(Tokens), NEW t \in Tokens, y \in G4 PROVE Append(y, t) \in G4
  <2>1. ASSUME NEW d \in Int
        PROVE  Run(DepthStep, d, Append(y, t)) = d + Run(DepthStep, 0, Append(y, t))
    <3>1. Run(DepthStep, d, Append(y, t)) = Run(DepthStep, d, y) + Delta(t)
      BY DepthAppend
    <3>2. Run(DepthStep, 0, Append(y, t)) = Run(DepthStep, 0, y) + Delta(t) /\ Run(DepthStep, 0, y) \in Int
      BY <1>0, DepthAppend
    <3>3. Run(DepthStep, d, y) = d + Run(DepthStep, 0, y)
      BY <1>5
    <3> QED BY <3>1, <3>2, <3>3, DeltaType
  <2> QED BY <2>1, AppendProperties
<1> HIDE DEF G1, G2, G3, G4
<1>6. Seq(Tokens) \subseteq G1
  BY <1>1, <1>2, SequencesByAppending
<1>7. Seq(Tokens) \subseteq G2
  BY <1>1, <1>3, SequencesByAppending
<1>8. Seq(Tokens) \subseteq G3
  BY <1>1, <1>4, SequencesByAppending
<1>9. Seq(Tokens) \subseteq G4
  BY <1>1, <1>5, SequencesByAppending
<1>10. x \in G1 /\ x \in G2 /\ x \in G3 /\ x \in G4
  BY <1>6, <1>7, <1>8, <1>9
<1> QED BY <1>10 DEF G1, G2, G3, G4

\* The prefixes of a sequence are parts of it.
LEMMA CutIn ==
  ASSUME NEW A, NEW x \in Seq(A), NEW n \in 0..Len(x)
  PROVE  /\ SubSeq(x, 1, n) \in Seq(A) /\ SubSeq(x, n + 1, Len(x)) \in Seq(A)
         /\ Over(SubSeq(x, 1, n), SubSeq(x, n + 1, Len(x))) = x
         /\ Len(SubSeq(x, 1, n)) = n /\ Len(SubSeq(x, n + 1, Len(x))) = Len(x) - n
<1> DEFINE u == SubSeq(x, 1, n)
           v == SubSeq(x, n + 1, Len(x))
<1>1. /\ u \in Seq(A) /\ Len(u) = n /\ \A i \in 1..n : u[i] = x[i]
      /\ v \in Seq(A) /\ Len(v) = Len(x) - n /\ \A i \in 1..(Len(x) - n) : v[i] = x[n + i]
  <2>1. u \in Seq(A) /\ Len(u) = n /\ \A i \in 1..n : u[i] = x[i]
    OBVIOUS
  <2>2. v \in Seq(A) /\ Len(v) = Len(x) - n
    OBVIOUS
  <2>3. ASSUME NEW i \in 1..(Len(x) - n) PROVE v[i] = x[n + i]
    OBVIOUS
  <2> QED BY <2>1, <2>2, <2>3
<1> HIDE DEF u, v
<1>0. n \in Nat /\ Len(x) \in Nat
  OBVIOUS
<1> DEFINE w == u \o v
<1>2. w \in Seq(A) /\ Len(w) = Len(x)
  <2>1. w \in Seq(A) /\ Len(w) = Len(u) + Len(v)
    BY <1>1, ConcatProperties
  <2> HIDE DEF w
  <2> QED BY <1>0, <1>1, <2>1
<1>3. ASSUME NEW i \in 1..Len(x) PROVE w[i] = x[i]
  <2>1. CASE i <= n
    BY <1>1, <2>1
  <2>2. CASE i > n
    <3>1. i - n \in 1..(Len(x) - n) /\ n + (i - n) = i
      BY <2>2
    <3>2. v[i - n] = x[i]
      BY <1>1, <3>1
    <3>3. w[i] = v[i - n]
      BY <1>1, <2>2
    <3> QED BY <3>2, <3>3
  <2> HIDE DEF w
  <2> QED BY <1>0, <2>1, <2>2
<1> HIDE DEF w
<1>4. w = x
  BY <1>2, <1>3, SeqEqual
<1> QED BY <1>1, <1>4 DEF u, v, w, Over

\* Runs over one sequence and then another.
LEMMA RunOver ==
  ASSUME NEW step, NEW s, NEW A, NEW x \in Seq(A), NEW y \in Seq(A)
  PROVE  Run(step, s, Over(x, y)) = Run(step, Run(step, s, x), y) /\ Over(x, y) \in Seq(A)
<1>1. Run(step, s, x \o y) = Run(step, Run(step, s, x), y)
  BY RunConcat
<1>2. x \o y \in Seq(A)
  BY ConcatProperties
<1> QED BY <1>1, <1>2 DEF Over

LEMMA LevelPrefix ==
  ASSUME NEW x \in Seq(Tokens), NEW d \in Nat, Run(LevelStep, d, x) # -1, NEW n \in 0..Len(x)
  PROVE  Run(LevelStep, d, SubSeq(x, 1, n)) # -1
<1> DEFINE u == SubSeq(x, 1, n)
           v == SubSeq(x, n + 1, Len(x))
<1>1. u \in Seq(Tokens) /\ v \in Seq(Tokens) /\ Over(u, v) = x
  BY CutIn
<1> HIDE DEF u, v
<1>2. Run(LevelStep, d, Over(u, v)) = Run(LevelStep, Run(LevelStep, d, u), v)
  BY <1>1, RunOver
<1>3. Run(LevelStep, -1, v) = -1
  BY <1>1, LevelFacts
<1>4. Run(LevelStep, d, u) # -1
  BY <1>1, <1>2, <1>3
<1> QED BY <1>4 DEF u

LEMMA LevelOfDepths ==
  ASSUME NEW x \in Seq(Tokens), NEW d \in Nat,
         \A n \in 0..Len(x) : Run(DepthStep, d, SubSeq(x, 1, n)) >= 0
  PROVE  Run(LevelStep, d, x) = Run(DepthStep, d, x)
<1> DEFINE N == Len(x)
           G == {n \in 0..N : Run(LevelStep, d, SubSeq(x, 1, n)) = Run(DepthStep, d, SubSeq(x, 1, n))}
<1>0. N \in Nat /\ d \in Levels /\ d \in Int
  BY DEF Levels
<1>1. 0 \in G
  <2>1. SubSeq(x, 1, 0) = <<>>
    OBVIOUS
  <2>2. Run(LevelStep, d, <<>>) = d /\ Run(DepthStep, d, <<>>) = d
    BY RunNothing
  <2>3. Run(LevelStep, d, SubSeq(x, 1, 0)) = Run(DepthStep, d, SubSeq(x, 1, 0))
    BY <2>1, <2>2
  <2> QED BY <1>0, <2>3
<1>2. ASSUME NEW n \in 0..(N - 1), n \in G PROVE n + 1 \in G
  <2> DEFINE y == SubSeq(x, 1, n)
  <2>1. y \in Seq(Tokens) /\ x[n + 1] \in Tokens /\ SubSeq(x, 1, n + 1) = Append(y, x[n + 1]) /\ n + 1 \in 0..N
    OBVIOUS
  <2>2. Run(LevelStep, d, y) = Run(DepthStep, d, y)
    BY <1>2
  <2>3. Run(DepthStep, d, y) >= 0
    BY <1>0
  <2> HIDE DEF y
  <2>4. Run(DepthStep, d, Append(y, x[n + 1])) = Run(DepthStep, d, y) + Delta(x[n + 1])
        /\ Run(DepthStep, d, y) \in Int
    BY <1>0, <2>1, DepthAppend
  <2>5. Run(LevelStep, d, y) # -1
    BY <2>2, <2>3, <2>4
  <2>6. Run(LevelStep, d, Append(y, x[n + 1])) = Run(LevelStep, d, y) + Delta(x[n + 1])
    BY <1>0, <2>1, <2>5, LevelAppend
  <2> QED BY <2>1, <2>2, <2>4, <2>6
<1> HIDE DEF G
<1>3. \A n \in 0..N : n \in G
  BY <1>0, <1>1, <1>2, UpTo
<1>4. N \in G /\ SubSeq(x, 1, N) = x
  <2>1. N \in 0..N
    BY <1>0
  <2>2. N \in G
    BY <1>3, <2>1
  <2> HIDE DEF G
  <2> QED BY <2>2
<1> QED BY <1>4 DEF G

\* Depth(e, i) is that of the tokens before i.
LEMMA DepthIs ==
  ASSUME NEW e \in Seq(Tokens), NEW n \in 0..Len(e)
  PROVE  Depth(e, n + 1) = Run(DepthStep, 0, SubSeq(e, 1, n))
<1> DEFINE D(t) == CASE t = "(" -> 1 [] t = ")" -> -1 [] OTHER -> 0
           Is(f) == f = [k \in 0..((n + 1) - 1) |-> IF k = 0 THEN 0 ELSE f[k - 1] + D(e[k])]
           depth == CHOOSE f : Is(f)
<1>0. n \in Nat /\ (n + 1) - 1 = n /\ n <= Len(e) /\ Len(e) \in Nat
  OBVIOUS
<1>1. PICK g : Running(DepthStep, 0, e, n, g)
  BY <1>0, RunningExists
<1>2. g[0] = 0 /\ \A k \in 1..n : g[k] = DepthStep[<<g[k - 1], e[k]>>]
  BY <1>0, <1>1 DEF Running
<1>3. \A t : D(t) = Delta(t)
  BY DEF Delta
<1> HIDE DEF D
<1>4. \A k \in 1..n : e[k] \in Tokens
  BY <1>0
<1> DEFINE G == {k \in 0..n : g[k] \in Int}
<1>5. 0 \in G
  BY <1>0, <1>2
<1>6. ASSUME NEW k \in 0..(n - 1), k \in G PROVE k + 1 \in G
  <2>1. k + 1 \in 1..n /\ (k + 1) - 1 = k /\ g[k] \in Int
    BY <1>0, <1>6
  <2>2. g[k + 1] = DepthStep[<<g[k], e[k + 1]>>]
    BY <1>2, <2>1
  <2>3. g[k + 1] = g[k] + Delta(e[k + 1])
    BY <1>4, <2>1, <2>2, DepthStepIs
  <2> QED BY <2>1, <2>3, DeltaType
<1> HIDE DEF G
<1>7. \A k \in 0..n : k \in G
  BY <1>0, <1>5, <1>6, UpTo
<1>8. \A k \in 1..n : k - 1 \in 0..n /\ g[k - 1] \in Int
  BY <1>0, <1>7 DEF G
<1>9. \A k \in 1..n : g[k] = g[k - 1] + D(e[k])
  BY <1>2, <1>3, <1>4, <1>8, DepthStepIs
<1>10. Is(g)
  <2>1. \A k \in 0..n : k = 0 \/ k \in 1..n
    BY <1>0
  <2>2. \A k \in 0..n : g[k] = IF k = 0 THEN 0 ELSE g[k - 1] + D(e[k])
    BY <1>2, <1>9, <2>1
  <2>3. g = [k \in 0..n |-> g[k]]
    BY <1>0, <1>1 DEF Running
  <2>4. g = [k \in 0..n |-> IF k = 0 THEN 0 ELSE g[k - 1] + D(e[k])]
    BY <2>2, <2>3
  <2> QED BY <1>0, <2>4
<1>11. Is(depth)
  BY <1>10
<1>12. Depth(e, n + 1) = depth[n]
  BY <1>0 DEF Depth, D
<1> HIDE DEF depth
<1>13. depth[0] = 0 /\ \A k \in 1..n : depth[k] = depth[k - 1] + D(e[k])
  BY <1>0, <1>11
<1> DEFINE H == {k \in 0..n : depth[k] = g[k]}
<1>14. 0 \in H
  BY <1>0, <1>2, <1>13
<1>15. ASSUME NEW k \in 0..(n - 1), k \in H PROVE k + 1 \in H
  <2>1. k + 1 \in 1..n /\ (k + 1) - 1 = k /\ depth[k] = g[k]
    BY <1>0, <1>15
  <2>2. depth[k + 1] = depth[k] + D(e[k + 1]) /\ g[k + 1] = g[k] + D(e[k + 1])
    BY <1>9, <1>13, <2>1
  <2> QED BY <2>1, <2>2
<1> HIDE DEF H
<1>16. \A k \in 0..n : k \in H
  BY <1>0, <1>14, <1>15, UpTo
<1>17. depth[n] = g[n]
  BY <1>0, <1>16 DEF H
<1>18. g[n] = Run(DepthStep, 0, SubSeq(e, 1, n))
  <2>1. Computes(DepthStep, 0, e, n, g)
    BY <1>2 DEF Computes
  <2> QED BY <1>0, <2>1, RunIs
<1> QED BY <1>12, <1>17, <1>18

-----------------------------------------------------------------------------
(* What is open after a text.                                              *)

ReadStep == [st \in Seq(Bracket) \X Constants |-> ReadToken(st[1], st[2])]

\* What is open after x, where this was open before it.
After(open, x) == Run(ReadStep, open, x)

LEMMA ReadStepIs ==
  /\ ReadStep \in [Seq(Bracket) \X Constants -> Seq(Bracket)]
  /\ \A o \in Seq(Bracket) : \A t \in Constants : ReadStep[<<o, t>>] = ReadToken(o, t)
<1>1. \A o \in Seq(Bracket) : \A t \in Constants : ReadToken(o, t) \in Seq(Bracket)
  BY ReadType
<1> QED BY <1>1 DEF ReadStep

LEMMA AfterAppend ==
  ASSUME NEW o \in Seq(Bracket), NEW x \in Seq(Constants), NEW t \in Constants
  PROVE  After(o, x) \in Seq(Bracket) /\ After(o, Append(x, t)) = ReadToken(After(o, x), t)
<1>1. Run(ReadStep, o, x) \in Seq(Bracket)
  BY ReadStepIs, RunType
<1>2. Run(ReadStep, o, Append(x, t)) = ReadStep[<<Run(ReadStep, o, x), t>>]
  BY RunAppend
<1> QED BY <1>1, <1>2, ReadStepIs DEF After

LEMMA AfterType ==
  ASSUME NEW o \in Seq(Bracket), NEW x \in Seq(Constants)
  PROVE  After(o, x) \in Seq(Bracket)
BY ReadStepIs, RunType DEF After

LEMMA AfterNothing == ASSUME NEW o PROVE After(o, <<>>) = o
BY RunNothing DEF After

LEMMA AfterOver ==
  ASSUME NEW o, NEW x \in Seq(Constants), NEW y \in Seq(Constants)
  PROVE  After(o, Over(x, y)) = After(After(o, x), y) /\ Over(x, y) \in Seq(Constants)
BY RunOver DEF After

LEMMA AfterOne ==
  ASSUME NEW o \in Seq(Bracket), NEW t \in Constants
  PROVE  After(o, <<t>>) = ReadToken(o, t)
<1>1. Run(ReadStep, o, <<t>>) = ReadStep[<<o, t>>]
  BY RunOne
<1> QED BY <1>1, ReadStepIs DEF After

LEMMA AfterError == ASSUME NEW x \in Seq(Constants) PROVE After(<<>>, x) = <<>>
<1> DEFINE G == {y \in Seq(Constants) : After(<<>>, y) = <<>>}
<1>1. <<>> \in G
  BY AfterNothing
<1>2. ASSUME NEW y \in Seq(Constants), NEW t \in Constants, y \in G PROVE Append(y, t) \in G
  <2> DEFINE o == <<>>
  <2>1. o \in Seq(Bracket) /\ After(o, y) = <<>>
    BY <1>2
  <2> HIDE DEF o
  <2>2. After(o, Append(y, t)) = ReadToken(<<>>, t)
    BY <2>1, AfterAppend
  <2>3. After(o, Append(y, t)) = <<>>
    BY <2>2, ReadNothing
  <2> QED BY <2>3, AppendProperties DEF o
<1> HIDE DEF G
<1>3. Seq(Constants) \subseteq G
  BY <1>1, <1>2, SequencesByAppending
<1> QED BY <1>3 DEF G

Outermost == <<Empty>>

LEMMA OutermostIs == Outermost \in Seq(Bracket) /\ Outermost # <<>> /\ Len(Outermost) = 1
<1>1. Empty \in Bracket
  BY BracketTypes
<1> QED BY <1>1 DEF Outermost

LEMMA OpenIs ==
  ASSUME NEW e \in Seq(Constants), NEW n \in Nat, n = Len(e) PROVE OpenAfter(e) = After(Outermost, e)
<1> DEFINE Is(f) == f = [k \in 0..Len(e) |-> IF k = 0 THEN <<Empty>> ELSE ReadToken(f[k - 1], e[k])]
           open == CHOOSE f : Is(f)
<1>0. n \in Nat /\ n = Len(e)
  OBVIOUS
<1>1. PICK g : Running(ReadStep, Outermost, e, n, g)
  BY RunningExists
<1>2. g[0] = Outermost /\ \A k \in 1..n : g[k] = ReadStep[<<g[k - 1], e[k]>>]
  BY <1>0, <1>1 DEF Running
<1>3. g = [k \in 0..n |-> g[k]]
  BY <1>0, <1>1 DEF Running
<1>4. \A k \in 1..n : e[k] \in Constants
  BY <1>0
<1> DEFINE G == {k \in 0..n : g[k] \in Seq(Bracket)}
<1>5. 0 \in G
  BY <1>0, <1>2, OutermostIs
<1>6. ASSUME NEW k \in 0..(n - 1), k \in G PROVE k + 1 \in G
  <2>1. k + 1 \in 1..n /\ (k + 1) - 1 = k /\ g[k] \in Seq(Bracket)
    BY <1>0, <1>6
  <2>2. g[k + 1] = ReadStep[<<g[k], e[k + 1]>>]
    BY <1>2, <2>1
  <2>3. g[k + 1] = ReadToken(g[k], e[k + 1])
    BY <1>4, <2>1, <2>2, ReadStepIs
  <2>4. g[k + 1] \in Seq(Bracket)
    BY <2>1, <2>3, ReadType
  <2> QED BY <2>1, <2>4
<1> HIDE DEF G
<1>7. \A k \in 0..n : k \in G
  BY <1>0, <1>5, <1>6, UpTo
<1>8. \A k \in 1..n : k - 1 \in 0..n /\ g[k - 1] \in Seq(Bracket)
  BY <1>0, <1>7 DEF G
<1>9. \A k \in 1..n : g[k] = ReadToken(g[k - 1], e[k])
  BY <1>2, <1>4, <1>8, ReadStepIs
<1>10. Is(g)
  <2>1. \A k \in 0..n : k = 0 \/ k \in 1..n
    BY <1>0
  <2>2. \A k \in 0..n : g[k] = IF k = 0 THEN <<Empty>> ELSE ReadToken(g[k - 1], e[k])
    BY <1>2, <1>9, <2>1 DEF Outermost
  <2>4. g = [k \in 0..n |-> IF k = 0 THEN <<Empty>> ELSE ReadToken(g[k - 1], e[k])]
    BY <1>3, <2>2
  <2> QED BY <1>0, <2>4
<1>11. Is(open)
  BY <1>10
<1>12. OpenAfter(e) = open[n]
  BY <1>0 DEF OpenAfter
<1> HIDE DEF open
<1>13. open[0] = Outermost /\ \A k \in 1..n : open[k] = ReadToken(open[k - 1], e[k])
  BY <1>0, <1>11 DEF Outermost
<1> DEFINE H == {k \in 0..n : open[k] = g[k]}
<1>14. 0 \in H
  BY <1>0, <1>2, <1>13
<1>15. ASSUME NEW k \in 0..(n - 1), k \in H PROVE k + 1 \in H
  <2>1. k + 1 \in 1..n /\ (k + 1) - 1 = k /\ open[k] = g[k]
    BY <1>0, <1>15
  <2>2. open[k + 1] = ReadToken(open[k], e[k + 1]) /\ g[k + 1] = ReadToken(g[k], e[k + 1])
    BY <1>9, <1>13, <2>1
  <2> QED BY <2>1, <2>2
<1> HIDE DEF H
<1>16. \A k \in 0..n : k \in H
  BY <1>0, <1>14, <1>15, UpTo
<1>17. open[n] = g[n]
  BY <1>0, <1>16 DEF H
<1>18. g[n] = Run(ReadStep, Outermost, e)
  <2>1. Computes(ReadStep, Outermost, e, n, g)
    BY <1>2 DEF Computes
  <2>2. SubSeq(e, 1, n) = e
    BY <1>0
  <2>3. g[n] = Run(ReadStep, Outermost, SubSeq(e, 1, n))
    BY <1>0, <2>1, RunIs
  <2> QED BY <2>2, <2>3
<1> QED BY <1>12, <1>17, <1>18 DEF After

\* Text inside brackets is read as it is alone.
LEMMA AfterLocal ==
  ASSUME NEW u \in Seq(Bracket), u # <<>>, NEW t \in Seq(Bracket), NEW x \in Seq(Constants),
         After(u, x) # <<>>
  PROVE  After(Over(u, t), x) = Over(After(u, x), t)
<1> DEFINE G == {y \in Seq(Constants) : After(u, y) # <<>> => After(Over(u, t), y) = Over(After(u, y), t)}
<1>0. Over(u, t) \in Seq(Bracket)
  BY ConcatProperties DEF Over
<1>1. <<>> \in G
  BY AfterNothing
<1>2. ASSUME NEW y \in Seq(Constants), NEW a \in Constants, y \in G PROVE Append(y, a) \in G
  <2>1. SUFFICES ASSUME After(u, Append(y, a)) # <<>>
                 PROVE  After(Over(u, t), Append(y, a)) = Over(After(u, Append(y, a)), t)
    BY AppendProperties
  <2>2. After(u, y) \in Seq(Bracket) /\ After(u, Append(y, a)) = ReadToken(After(u, y), a)
    BY AfterAppend
  <2>3. After(u, y) # <<>>
    BY <2>1, <2>2, ReadNothing
  <2>4. After(Over(u, t), y) = Over(After(u, y), t)
    BY <1>2, <2>3
  <2>5. After(Over(u, t), Append(y, a)) = ReadToken(Over(After(u, y), t), a)
    BY <1>0, <2>4, AfterAppend
  <2>6. ReadToken(After(u, y), a) # <<>>
    BY <2>1, <2>2
  <2>7. ReadToken(Over(After(u, y), t), a) = Over(ReadToken(After(u, y), a), t)
    BY <2>2, <2>3, <2>6, ReadLocal
  <2> QED BY <2>2, <2>5, <2>7
<1> HIDE DEF G
<1>3. Seq(Constants) \subseteq G
  BY <1>1, <1>2, SequencesByAppending
<1> QED BY <1>3 DEF G

\* As many brackets are open as were opened and not closed.
LEMMA AfterLevel ==
  ASSUME NEW u \in Seq(Bracket), u # <<>>, NEW x \in Seq(Constants), After(u, x) # <<>>
  PROVE  Run(LevelStep, Len(u) - 1, x) = Len(After(u, x)) - 1
<1> DEFINE d == Len(u) - 1
           G == {y \in Seq(Constants) : After(u, y) # <<>> => Run(LevelStep, d, y) = Len(After(u, y)) - 1}
<1>0. d \in Nat /\ d = Len(u) - 1 /\ d \in Levels
  <2>1. Len(u) \in Nat \ {0}
    BY EmptySeq
  <2> QED BY <2>1 DEF Levels
<1> HIDE DEF d
<1>1. <<>> \in G
  BY <1>0, AfterNothing, RunNothing
<1>2. ASSUME NEW y \in Seq(Constants), NEW a \in Constants, y \in G PROVE Append(y, a) \in G
  <2>1. SUFFICES ASSUME After(u, Append(y, a)) # <<>>
                 PROVE  Run(LevelStep, d, Append(y, a)) = Len(After(u, Append(y, a))) - 1
    BY AppendProperties
  <2> DEFINE w == After(u, y)
  <2>2. w \in Seq(Bracket) /\ After(u, Append(y, a)) = ReadToken(w, a)
    BY AfterAppend
  <2>3. w # <<>>
    BY <2>1, <2>2, ReadNothing
  <2>4. Run(LevelStep, d, y) = Len(w) - 1
    BY <1>2, <2>3
  <2> HIDE DEF w
  <2>5. Len(w) \in Nat \ {0}
    BY <2>2, <2>3, EmptySeq
  <2>6. y \in Seq(Tokens) /\ a \in Tokens
    BY ConstantsAreTokens DEF Tokens
  <2>7. Run(LevelStep, d, Append(y, a)) = Run(LevelStep, d, y) + Delta(a)
    BY <1>0, <2>4, <2>5, <2>6, LevelAppend
  <2>8. Len(ReadToken(w, a)) = Len(w) + Delta(a)
    BY <2>1, <2>2, <2>3, ReadLength
  <2> QED BY <2>2, <2>4, <2>5, <2>7, <2>8, DeltaType
<1> HIDE DEF G
<1>3. Seq(Constants) \subseteq G
  BY <1>1, <1>2, SequencesByAppending
<1>4. x \in G
  BY <1>3
<1> QED BY <1>0, <1>4 DEF G

\* Text that closes no bracket around it is read without error alone, if it is inside.
LEMMA AfterInside ==
  ASSUME NEW u \in Seq(Bracket), u # <<>>, NEW t \in Seq(Bracket), NEW x \in Seq(Constants),
         After(Over(u, t), x) # <<>>, Run(LevelStep, Len(u) - 1, x) # -1
  PROVE  After(u, x) # <<>>
<1> DEFINE d == Len(u) - 1
           G == {y \in Seq(Constants) : After(Over(u, t), y) # <<>> /\ Run(LevelStep, d, y) # -1 => After(u, y) # <<>>}
<1>0. d \in Nat /\ d = Len(u) - 1 /\ d \in Levels
  <2>1. Len(u) \in Nat \ {0}
    BY EmptySeq
  <2> QED BY <2>1 DEF Levels
<1> HIDE DEF d
<1>01. Over(u, t) \in Seq(Bracket)
  BY ConcatProperties DEF Over
<1>1. <<>> \in G
  BY AfterNothing
<1>2. ASSUME NEW y \in Seq(Constants), NEW a \in Constants, y \in G PROVE Append(y, a) \in G
  <2>1. SUFFICES ASSUME After(Over(u, t), Append(y, a)) # <<>>, Run(LevelStep, d, Append(y, a)) # -1
                 PROVE  After(u, Append(y, a)) # <<>>
    BY AppendProperties
  <2>2. After(Over(u, t), Append(y, a)) = ReadToken(After(Over(u, t), y), a)
    BY <1>01, AfterAppend
  <2>3. After(Over(u, t), y) # <<>>
    BY <2>1, <2>2, ReadNothing
  <2>4. y \in Seq(Tokens) /\ a \in Tokens
    BY ConstantsAreTokens DEF Tokens
  <2>5. Run(LevelStep, d, y) # -1 /\ Run(LevelStep, d, Append(y, a)) = Run(LevelStep, d, y) + Delta(a)
    BY <1>0, <2>1, <2>4, LevelAppend
  <2> DEFINE w == After(u, y)
  <2>6. w # <<>>
    BY <1>2, <2>3, <2>5
  <2>7. After(Over(u, t), y) = Over(w, t)
    BY <2>6, AfterLocal
  <2>8. Run(LevelStep, d, y) = Len(w) - 1
    BY <1>0, <2>6, AfterLevel
  <2>9. w \in Seq(Bracket) /\ After(u, Append(y, a)) = ReadToken(w, a)
    BY AfterAppend
  <2> HIDE DEF w
  <2>10. ~(a = ")" /\ Len(w) = 1)
    BY <2>1, <2>5, <2>8 DEF Delta
  <2>11. ReadToken(Over(w, t), a) # <<>>
    BY <2>1, <2>2, <2>7
  <2>12. ReadToken(w, a) # <<>>
    BY <2>6, <2>9, <2>10, <2>11, ReadLocal
  <2> QED BY <2>9, <2>12
<1> HIDE DEF G
<1>3. Seq(Constants) \subseteq G
  BY <1>1, <1>2, SequencesByAppending
<1>4. x \in G
  BY <1>3
<1> QED BY <1>0, <1>4 DEF G

\* Texts that differ in values only are read alike.
LEMMA AfterShape ==
  ASSUME NEW x \in Seq(Constants), NEW y \in Seq(Constants), Len(x) = Len(y),
         \A k \in 1..Len(x) : Alike(x[k], y[k])
  PROVE  SameShape(After(Outermost, x), After(Outermost, y))
<1> DEFINE n == Len(x)
           X(k) == SubSeq(x, 1, k)
           Y(k) == SubSeq(y, 1, k)
           G == {k \in 0..n : SameShape(After(Outermost, X(k)), After(Outermost, Y(k)))}
<1>0. n \in Nat /\ n = Len(x) /\ n = Len(y) /\ X(0) = <<>> /\ Y(0) = <<>> /\ X(n) = x /\ Y(n) = y
  OBVIOUS
<1>1. 0 \in G
  <2>1. After(Outermost, X(0)) = Outermost /\ After(Outermost, Y(0)) = Outermost
    BY <1>0, AfterNothing
  <2>2. SameShape(Outermost, Outermost)
    BY DEF SameShape
  <2> HIDE DEF X, Y
  <2> QED BY <1>0, <2>1, <2>2
<1>2. ASSUME NEW k \in 0..(n - 1), k \in G PROVE k + 1 \in G
  <2>1. k + 1 \in 0..n /\ k + 1 \in 1..n
    BY <1>0
  <2>2. X(k) \in Seq(Constants) /\ x[k + 1] \in Constants /\ X(k + 1) = Append(X(k), x[k + 1])
    BY <1>0, <2>1
  <2>3. Y(k) \in Seq(Constants) /\ y[k + 1] \in Constants /\ Y(k + 1) = Append(Y(k), y[k + 1])
    BY <1>0, <2>1
  <2>4. Alike(x[k + 1], y[k + 1])
    BY <1>0, <2>1
  <2>5. SameShape(After(Outermost, X(k)), After(Outermost, Y(k)))
    BY <1>2
  <2> HIDE DEF X, Y
  <2>6. /\ After(Outermost, X(k)) \in Seq(Bracket)
        /\ After(Outermost, X(k + 1)) = ReadToken(After(Outermost, X(k)), x[k + 1])
    <3>1. Outermost \in Seq(Bracket)
      BY OutermostIs
    <3>2. /\ After(Outermost, X(k)) \in Seq(Bracket)
          /\ After(Outermost, Append(X(k), x[k + 1])) = ReadToken(After(Outermost, X(k)), x[k + 1])
      BY <2>2, <3>1, AfterAppend
    <3> QED BY <2>2, <3>2
  <2>7. /\ After(Outermost, Y(k)) \in Seq(Bracket)
        /\ After(Outermost, Y(k + 1)) = ReadToken(After(Outermost, Y(k)), y[k + 1])
    <3>1. Outermost \in Seq(Bracket)
      BY OutermostIs
    <3>2. /\ After(Outermost, Y(k)) \in Seq(Bracket)
          /\ After(Outermost, Append(Y(k), y[k + 1])) = ReadToken(After(Outermost, Y(k)), y[k + 1])
      BY <2>3, <3>1, AfterAppend
    <3> QED BY <2>3, <3>2
  <2>8. SameShape(After(Outermost, X(k + 1)), After(Outermost, Y(k + 1)))
    BY <2>4, <2>5, <2>6, <2>7, ReadShape
  <2> QED BY <2>1, <2>8
<1> HIDE DEF G, X, Y
<1>3. \A k \in 0..n : k \in G
  BY <1>0, <1>1, <1>2, UpTo
<1>4. n \in G
  BY <1>0, <1>3
<1>5. SameShape(After(Outermost, X(n)), After(Outermost, Y(n)))
  BY <1>4 DEF G
<1> QED BY <1>0, <1>5

-----------------------------------------------------------------------------
(* Recursive functions.                                                    *)

\* Every set of elements of S has one with no other below it.
Minimal(S, R) == \A T \in SUBSET S : T # {} => \E x \in T : \A y \in T : <<y, x>> \notin R

\* What E makes of an element and a function depends on what the function has below it.
DependsBelow(S, R, V, E) ==
  \A x \in S : \A f, g \in [S -> V] :
    (\A y \in S : <<y, x>> \in R => f[y] = g[y]) => E[<<x, f>>] = E[<<x, g>>]

\* f is as E says on D, which has whatever is below its elements.
SolvesOn(S, R, V, E, D, f) ==
  /\ f \in [S -> V]
  /\ \A x \in D : f[x] = E[<<x, f>>]
  /\ \A x \in D : \A y \in S : <<y, x>> \in R => y \in D

LEMMA SolutionsAgree ==
  ASSUME NEW S, NEW R, NEW V, NEW E, Minimal(S, R), DependsBelow(S, R, V, E),
         NEW C \in SUBSET S, NEW f, SolvesOn(S, R, V, E, C, f),
         NEW D \in SUBSET S, NEW g, SolvesOn(S, R, V, E, D, g)
  PROVE  \A x \in C \cap D : f[x] = g[x]
<1> DEFINE T == {x \in C \cap D : f[x] # g[x]}
<1> SUFFICES ASSUME T # {} PROVE FALSE
  OBVIOUS
<1>1. T \in SUBSET S
  OBVIOUS
<1>2. PICK x \in T : \A y \in T : <<y, x>> \notin R
  <2> HIDE DEF T
  <2> QED BY <1>1 DEF Minimal
<1>3. \A y \in S : <<y, x>> \in R => f[y] = g[y]
  BY <1>2 DEF SolvesOn
<1>4. E[<<x, f>>] = E[<<x, g>>]
  <2>1. x \in S /\ f \in [S -> V] /\ g \in [S -> V]
    BY <1>1, <1>2 DEF SolvesOn
  <2> QED BY <2>1, <1>3 DEF DependsBelow
<1> QED BY <1>2, <1>4 DEF SolvesOn

Recursive(S, R, V, E) ==
  /\ E \in [S \X [S -> V] -> V] /\ V # {}
  /\ Minimal(S, R) /\ DependsBelow(S, R, V, E)

Solves(S, V, E, f) == f \in [S -> V] /\ \A x \in S : f[x] = E[<<x, f>>]

\* Where nothing goes down forever, a recursive definition defines a function.
LEMMA Recursion ==
  ASSUME NEW S, NEW R, NEW V, NEW E, Recursive(S, R, V, E)
  PROVE  \E f : Solves(S, V, E, f)
<1>0. E \in [S \X [S -> V] -> V] /\ V # {} /\ Minimal(S, R) /\ DependsBelow(S, R, V, E)
  BY DEF Recursive
<1> DEFINE Is(x, v) == \E D \in SUBSET S : \E f : SolvesOn(S, R, V, E, D, f) /\ x \in D /\ v = f[x]
           D0 == {x \in S : \E v \in V : Is(x, v)}
           h == [x \in S |-> IF x \in D0 THEN CHOOSE v \in V : Is(x, v) ELSE CHOOSE v \in V : TRUE]
<1>1. \A x \in D0 : Is(x, h[x])
  <2>1. \A x \in D0 : \E v \in V : Is(x, v)
    OBVIOUS
  <2>2. \A x \in D0 : h[x] = CHOOSE v \in V : Is(x, v)
    OBVIOUS
  <2> HIDE DEF Is, D0, h
  <2> QED BY <2>1, <2>2
<1>2. h \in [S -> V]
  <2>1. \A x \in S : (IF x \in D0 THEN CHOOSE v \in V : Is(x, v) ELSE CHOOSE v \in V : TRUE) \in V
    <3>1. \A x \in D0 : \E v \in V : Is(x, v)
      OBVIOUS
    <3> HIDE DEF Is, D0
    <3> QED BY <3>1, <1>0
  <2> HIDE DEF D0, Is
  <2> QED BY <2>1
<1>3. ASSUME NEW D \in SUBSET S, NEW f, SolvesOn(S, R, V, E, D, f)
      PROVE  D \in SUBSET D0 /\ \A x \in D : h[x] = f[x]
  <2>1. \A x \in D : f[x] \in V /\ Is(x, f[x])
    BY <1>3 DEF SolvesOn
  <2>2. D \in SUBSET D0
    BY <2>1
  <2>3. ASSUME NEW x \in D PROVE h[x] = f[x]
    <3>0. PICK C \in SUBSET S : \E g : SolvesOn(S, R, V, E, C, g) /\ x \in C /\ h[x] = g[x]
      BY <1>1, <2>2
    <3>1. PICK g : SolvesOn(S, R, V, E, C, g) /\ x \in C /\ h[x] = g[x]
      BY <3>0
    <3> HIDE DEF h, D0, Is
    <3>2. \A z \in D \cap C : f[z] = g[z]
      <4>1. SolvesOn(S, R, V, E, C, g)
        BY <3>1
      <4> QED BY ONLY <1>0, D \in SUBSET S, C \in SUBSET S, <1>3, <4>1, SolutionsAgree
    <3> QED BY <3>1, <3>2
  <2> QED BY <2>2, <2>3
<1>4. SolvesOn(S, R, V, E, D0, h)
  <2>1. ASSUME NEW x \in D0
        PROVE  h[x] = E[<<x, h>>] /\ \A y \in S : <<y, x>> \in R => y \in D0
    <3>0. PICK D \in SUBSET S : \E f : SolvesOn(S, R, V, E, D, f) /\ x \in D
      BY <1>1
    <3>1. PICK f : SolvesOn(S, R, V, E, D, f) /\ x \in D
      BY <3>0
    <3>2. D \in SUBSET D0 /\ \A y \in D : h[y] = f[y]
      BY <1>3, <3>1
    <3> HIDE DEF h, D0, Is
    <3>3. \A y \in S : <<y, x>> \in R => y \in D /\ f[y] = h[y]
      BY <3>1, <3>2 DEF SolvesOn
    <3>4. E[<<x, f>>] = E[<<x, h>>]
      BY <3>1, <3>3, <1>0, <1>2 DEF SolvesOn, DependsBelow
    <3> QED BY <3>1, <3>2, <3>3, <3>4 DEF SolvesOn
  <2> HIDE DEF h, D0, Is
  <2> QED BY <2>1, <1>2 DEF SolvesOn
<1>5. D0 = S
  <2> SUFFICES ASSUME S \ D0 # {} PROVE FALSE
    OBVIOUS
  <2>1. PICK x \in S \ D0 : \A y \in S \ D0 : <<y, x>> \notin R
    <3> HIDE DEF h, D0, Is
    <3>1. S \ D0 \in SUBSET S
      OBVIOUS
    <3> QED BY <1>0, <3>1 DEF Minimal
  <2> DEFINE k == [h EXCEPT ![x] = E[<<x, h>>]]
             D1 == D0 \cup {x}
  <2>2. D1 \in SUBSET S
    OBVIOUS
  <2>3. SolvesOn(S, R, V, E, D1, k)
    <3> HIDE DEF h, D0, Is
    <3>1. <<x, h>> \in S \X [S -> V]
      BY <1>2
    <3>2. E[<<x, h>>] \in V
      BY <1>0, <3>1
    <3>3. k \in [S -> V]
      BY <3>2, <1>2
    <3>4. \A y \in S \ {x} : k[y] = h[y]
      BY <1>2
    <3>5. k[x] = E[<<x, h>>]
      BY <1>2
    <3> HIDE DEF k
    <3>6. \A y \in D1 : \A z \in S : <<z, y>> \in R => z \in D0
      BY <1>4, <2>1 DEF SolvesOn
    <3>7. ASSUME NEW y \in D1 PROVE k[y] = E[<<y, k>>]
      <4>1. \A z \in S : <<z, y>> \in R => h[z] = k[z]
        BY <3>4, <3>6, <2>1
      <4>2. y \in S
        BY <2>2
      <4>3. E[<<y, h>>] = E[<<y, k>>]
        BY <4>1, <4>2, <3>3, <1>0, <1>2 DEF DependsBelow
      <4>4. k[y] = E[<<y, h>>]
        BY <3>4, <3>5, <1>4, <4>2 DEF SolvesOn
      <4> QED BY <4>3, <4>4
    <3> QED BY <3>3, <3>6, <3>7 DEF SolvesOn
  <2>4. x \in D0
    <3> HIDE DEF h, D0, Is, k
    <3>1. D1 \in SUBSET D0
      BY <1>3, <2>2, <2>3
    <3> QED BY <3>1
  <2> QED BY <2>1, <2>4
<1> HIDE DEF h, D0, Is
<1>6. Solves(S, V, E, h)
  BY <1>4, <1>5, <1>2 DEF SolvesOn, Solves
<1> QED BY <1>6

-----------------------------------------------------------------------------
(* Replacing a text.                                                       *)

\* Replace, from each token on.
Replacing(e, n, old, new, f) ==
  f = [i \in 1..(n + 1) |-> IF i > n THEN <<>>
                            ELSE IF StandsAt(old, e, i) THEN new \o f[i + Len(old)]
                            ELSE <<e[i]>> \o f[i + 1]]

LEMMA StandsIs ==
  ASSUME NEW old, NEW e, NEW i, StandsAt(old, e, i)
  PROVE  i + Len(old) - 1 <= Len(e) /\ SubSeq(e, i, i + Len(old) - 1) = old
BY DEF StandsAt

LEMMA NotEmpty == ASSUME NEW A, NEW s \in Seq(A), s # <<>> PROVE Len(s) \in Nat /\ Len(s) > 0
BY EmptySeq

LEMMA ReplacingExists ==
  ASSUME NEW A, NEW e \in Seq(A), NEW n \in Nat, n = Len(e), NEW old \in Seq(A), old # <<>>, NEW new \in Seq(A)
  PROVE  \E f : Replacing(e, n, old, new, f) /\ f \in [1..(n + 1) -> Seq(A)]
<1> DEFINE S == 1..(n + 1)
           V == Seq(A)
           R == {yx \in S \X S : yx[2] < yx[1]}
           At(i, f) == IF i > n THEN <<>>
                       ELSE IF StandsAt(old, e, i) THEN new \o f[i + Len(old)]
                       ELSE <<e[i]>> \o f[i + 1]
           E == [st \in S \X [S -> V] |-> At(st[1], st[2])]
<1>1. Len(old) \in Nat /\ Len(old) > 0
  BY NotEmpty
<1>2. Minimal(S, R)
  <2> SUFFICES ASSUME NEW T \in SUBSET S, T # {} PROVE \E x \in T : \A y \in T : <<y, x>> \notin R
    BY DEF Minimal
  <2> DEFINE U == {n + 1 - t : t \in T}
  <2>1. U \in SUBSET Nat /\ U # {}
    <3> HIDE DEF V, R, E, At
    <3>1. \A t \in T : t \in 1..(n + 1)
      OBVIOUS
    <3>2. \A t \in T : n + 1 - t \in Nat
      BY <3>1
    <3> QED BY <3>2
  <2>2. PICK u \in U : \A v \in U : u <= v
    <3> HIDE DEF U
    <3> QED BY <2>1, Smallest
  <2>3. PICK x \in T : u = n + 1 - x
    BY <2>2
  <2>4. ASSUME NEW y \in T PROVE <<y, x>> \notin R
    <3>1. n + 1 - y \in U
      OBVIOUS
    <3>2. n + 1 - x <= n + 1 - y
      BY <2>2, <2>3, <3>1
    <3>3. x \in Int /\ y \in Int
      OBVIOUS
    <3>4. ~(x < y)
      BY <3>2, <3>3
    <3> QED BY <3>4
  <2> QED BY <2>4
<1>3. ASSUME NEW i \in S, NEW f \in [S -> V] PROVE At(i, f) \in V
  <2>1. CASE i > n
    BY <2>1
  <2>2. CASE i <= n
    <3>1. StandsAt(old, e, i) => new \o f[i + Len(old)] \in Seq(A)
      <4>1. StandsAt(old, e, i) => i + Len(old) \in S
        BY <1>1, StandsIs
      <4>2. StandsAt(old, e, i) => f[i + Len(old)] \in Seq(A)
        BY <4>1
      <4> QED BY <4>2, ConcatProperties
    <3>2. <<e[i]>> \o f[i + 1] \in Seq(A)
      <4>1. i + 1 \in S /\ e[i] \in A
        BY <2>2
      <4>2. <<e[i]>> \in Seq(A) /\ f[i + 1] \in Seq(A)
        BY <4>1
      <4> QED BY <4>2, ConcatProperties
    <3> QED BY <2>2, <3>1, <3>2
  <2> QED BY <2>1, <2>2
<1>4. DependsBelow(S, R, V, E)
  <2> SUFFICES ASSUME NEW x \in S, NEW f \in [S -> V], NEW g \in [S -> V],
                      \A y \in S : <<y, x>> \in R => f[y] = g[y]
               PROVE  E[<<x, f>>] = E[<<x, g>>]
    BY DEF DependsBelow
  <2>1. E[<<x, f>>] = At(x, f) /\ E[<<x, g>>] = At(x, g)
    <3> HIDE DEF At, S, V
    <3> QED OBVIOUS
  <2>2. \A y \in S : x < y => f[y] = g[y]
    OBVIOUS
  <2>3. StandsAt(old, e, x) => x + Len(old) \in S /\ x < x + Len(old)
    BY <1>1, StandsIs
  <2>4. x <= n => x + 1 \in S /\ x < x + 1
    OBVIOUS
  <2>5. At(x, f) = At(x, g)
    <3> HIDE DEF S, V, R, E
    <3>1. StandsAt(old, e, x) => f[x + Len(old)] = g[x + Len(old)]
      BY <2>2, <2>3
    <3>2. x <= n => f[x + 1] = g[x + 1]
      BY <2>2, <2>4
    <3>3. x > n \/ x <= n
      BY DEF S
    <3> QED BY <3>1, <3>2, <3>3
  <2> QED BY <2>1, <2>5
<1>5. E \in [S \X [S -> V] -> V]
  <2> HIDE DEF At, S, V
  <2>1. ASSUME NEW st \in S \X [S -> V] PROVE At(st[1], st[2]) \in V
    BY <1>3
  <2> QED BY <2>1
<1>6. V # {}
  OBVIOUS
<1>7. Recursive(S, R, V, E)
  <2> HIDE DEF S, R, V, E
  <2> QED BY <1>2, <1>4, <1>5, <1>6 DEF Recursive
<1>8. PICK f : Solves(S, V, E, f)
  <2> HIDE DEF S, R, V, E
  <2> QED BY <1>7, Recursion
<1>9. f \in [S -> V] /\ \A x \in S : f[x] = E[<<x, f>>]
  <2> HIDE DEF S, V, E
  <2> QED BY <1>8 DEF Solves
<1>10. \A x \in S : f[x] = At(x, f)
  <2> HIDE DEF At, S, V
  <2> QED BY <1>9
<1>11. f = [i \in S |-> At(i, f)]
  <2> HIDE DEF At, S, V, E
  <2> QED BY <1>9, <1>10
<1> QED BY <1>9, <1>11 DEF Replacing

\* The text from i on.
From(x, i) == SubSeq(x, i, Len(x))

LEMMA FromIs ==
  ASSUME NEW A, NEW x \in Seq(A), NEW n \in Nat, n = Len(x), NEW i \in 1..(n + 1)
  PROVE  From(x, i) \in Seq(A) /\ Len(From(x, i)) = n + 1 - i
         /\ \A k \in 1..(n + 1 - i) : From(x, i)[k] = x[i + k - 1]
<1>1. From(x, i) \in Seq(A) /\ Len(From(x, i)) = n + 1 - i
  BY DEF From
<1>2. ASSUME NEW k \in 1..(n + 1 - i) PROVE From(x, i)[k] = x[i + k - 1]
  BY DEF From
<1> QED BY <1>1, <1>2

\* The same with a name, for texts whose beginning is a sum.
IsFrom(A, u, x, n, i) ==
  u \in Seq(A) /\ Len(u) = n + 1 - i /\ \A k \in 1..(n + 1 - i) : u[k] = x[i + k - 1]

LEMMA FromFits ==
  ASSUME NEW A, NEW x \in Seq(A), NEW n \in Nat, n = Len(x), NEW i \in 1..(n + 1)
  PROVE  IsFrom(A, From(x, i), x, n, i)
<1>1. From(x, i) \in Seq(A) /\ Len(From(x, i)) = n + 1 - i
  BY FromIs
<1>2. \A k \in 1..(n + 1 - i) : From(x, i)[k] = x[i + k - 1]
  BY FromIs
<1> QED BY <1>1, <1>2 DEF IsFrom

LEMMA FromOne ==
  ASSUME NEW A, NEW x \in Seq(A), NEW n \in Nat, n = Len(x), NEW i \in 1..n
  PROVE  From(x, i) = Push(x[i], From(x, i + 1)) /\ x[i] \in A
<1> DEFINE u == From(x, i)
           v == From(x, i + 1)
<1>0. i + 1 \in 1..(n + 1) /\ i \in 1..(n + 1) /\ n + 1 - (i + 1) = n - i /\ x[i] \in A
  OBVIOUS
<1>1. u \in Seq(A) /\ Len(u) = n + 1 - i /\ \A k \in 1..(n + 1 - i) : u[k] = x[i + k - 1]
  <2>1. IsFrom(A, u, x, n, i)
    BY <1>0, FromFits
  <2> HIDE DEF u
  <2> QED BY <2>1 DEF IsFrom
<1>2. v \in Seq(A) /\ Len(v) = n - i /\ \A k \in 1..(n - i) : v[k] = x[i + 1 + k - 1]
  <2>1. PICK j \in 1..(n + 1) : j = i + 1
    BY <1>0
  <2>2. From(x, j) \in Seq(A) /\ Len(From(x, j)) = n + 1 - j
         /\ \A k \in 1..(n + 1 - j) : From(x, j)[k] = x[j + k - 1]
    <3>1. IsFrom(A, From(x, j), x, n, j)
      BY FromFits
    <3> QED BY <3>1 DEF IsFrom
  <2>3. n + 1 - j = n - i
    BY <2>1
  <2> QED BY <2>1, <2>2, <2>3
<1> HIDE DEF u, v
<1> DEFINE w == <<x[i]>> \o v
<1>3. w \in Seq(A) /\ Len(w) = n + 1 - i
  <2>1. v \in Seq(A) /\ Len(v) = n - i /\ x[i] \in A
    BY <1>0, <1>2
  <2>2. Push(x[i], v) \in Seq(A) /\ Len(Push(x[i], v)) = Len(v) + 1
    BY <2>1, OneBefore
  <2>3. w = Push(x[i], v)
    BY DEF Push
  <2> HIDE DEF w
  <2> QED BY <2>1, <2>2, <2>3
<1>4. ASSUME NEW k \in 1..(n + 1 - i) PROVE w[k] = u[k]
  <2>1. CASE k = 1
    <3>1. v \in Seq(A)
      BY <1>2
    <3>2. w[1] = x[i]
      BY <3>1
    <3>3. u[k] = x[i + k - 1] /\ i + k - 1 = i
      BY <1>1, <2>1
    <3> HIDE DEF w
    <3> QED BY <2>1, <3>2, <3>3
  <2>2. CASE k # 1
    <3>1. k - 1 \in 1..(n - i) /\ i + 1 + (k - 1) - 1 = i + k - 1
      BY <2>2
    <3>2. w[k] = v[k - 1]
      BY <1>2, <3>1, <2>2
    <3> QED BY <1>1, <1>2, <3>1, <3>2
  <2> QED BY <2>1, <2>2
<1> HIDE DEF w
<1>5. w = u
  BY <1>1, <1>3, <1>4, SeqEqual
<1> QED BY <1>0, <1>5 DEF u, v, w, Push

LEMMA FromStanding ==
  ASSUME NEW A, NEW x \in Seq(A), NEW n \in Nat, n = Len(x), NEW i \in 1..n,
         NEW old \in Seq(A), StandsAt(old, x, i)
  PROVE  From(x, i) = Over(old, From(x, i + Len(old))) /\ i + Len(old) \in 1..(n + 1)
<1> DEFINE m == Len(old)
           u == From(x, i)
           v == From(x, i + m)
<1>0. m \in Nat /\ i + m \in 1..(n + 1) /\ i \in 1..(n + 1) /\ i + m - 1 <= n
  BY StandsIs
<1>00. \A k \in 1..m : old[k] = x[i + k - 1]
  <2>1. SubSeq(x, i, i + m - 1) = old
    BY StandsIs
  <2>2. ASSUME NEW k \in 1..m PROVE SubSeq(x, i, i + m - 1)[k] = x[i + k - 1]
    BY <1>0
  <2> QED BY <2>1, <2>2
<1>01. Len(old) = m
  OBVIOUS
<1>1. u \in Seq(A) /\ Len(u) = n + 1 - i /\ \A k \in 1..(n + 1 - i) : u[k] = x[i + k - 1]
  <2>1. IsFrom(A, u, x, n, i)
    BY <1>0, FromFits
  <2> HIDE DEF u
  <2> QED BY <2>1 DEF IsFrom
<1>2. v \in Seq(A) /\ Len(v) = n + 1 - (i + m) /\ \A k \in 1..(n + 1 - (i + m)) : v[k] = x[(i + m) + k - 1]
  <2>1. PICK j \in 1..(n + 1) : j = i + m
    BY <1>0
  <2>2. IsFrom(A, From(x, j), x, n, j)
    BY FromFits
  <2>3. IsFrom(A, v, x, n, i + m)
    BY <2>1, <2>2
  <2> HIDE DEF v, m
  <2> QED BY <2>3 DEF IsFrom
<1> HIDE DEF u, v, m
<1> DEFINE w == old \o v
<1>3. w \in Seq(A) /\ Len(w) = n + 1 - i
  <2>1. v \in Seq(A)
    BY <1>2
  <2>2. w \in Seq(A) /\ Len(w) = Len(old) + Len(v)
    BY <2>1, ConcatProperties
  <2> HIDE DEF w
  <2> QED BY <1>0, <1>01, <1>2, <2>2
<1>4. ASSUME NEW k \in 1..(n + 1 - i) PROVE w[k] = u[k]
  <2>1. CASE k <= m
    <3>1. k \in 1..m
      BY <1>0, <2>1
    <3>2. w[k] = old[k]
      BY <1>0, <1>01, <1>2, <3>1
    <3> HIDE DEF w
    <3> QED BY <1>00, <1>1, <3>1, <3>2
  <2>2. CASE k > m
    <3>1. k - m \in 1..(n + 1 - (i + m)) /\ (i + m) + (k - m) - 1 = i + k - 1
      BY <1>0, <2>2
    <3>2. w[k] = v[k - m]
      BY <1>0, <1>01, <1>2, <3>1, <2>2
    <3> QED BY <1>1, <1>2, <3>1, <3>2
  <2> HIDE DEF w
  <2>3. k <= m \/ k > m
    BY <1>0
  <2> QED BY <2>1, <2>2, <2>3
<1> HIDE DEF w
<1>5. w = u
  BY <1>1, <1>3, <1>4, SeqEqual
<1> QED BY <1>0, <1>5 DEF u, v, w, m, Over

\* Whether old stands at i is decided by the text from i on.
LEMMA StandsFrom ==
  ASSUME NEW A, NEW x \in Seq(A), NEW n \in Nat, n = Len(x), NEW i \in 1..n,
         NEW old \in Seq(A), StandsAt(old, From(x, i), 1)
  PROVE  StandsAt(old, x, i)
<1> DEFINE u == From(x, i)
           m == Len(old)
<1>1. u \in Seq(A) /\ Len(u) = n + 1 - i /\ \A k \in 1..(n + 1 - i) : u[k] = x[i + k - 1]
  <2>1. i \in 1..(n + 1)
    OBVIOUS
  <2>2. IsFrom(A, u, x, n, i)
    BY <2>1, FromFits
  <2> HIDE DEF u
  <2> QED BY <2>2 DEF IsFrom
<1> HIDE DEF u
<1>2. m \in Nat /\ m <= n + 1 - i /\ SubSeq(u, 1, m) = old
  <2>1. StandsAt(old, u, 1)
    BY DEF u
  <2>2. 1 + m - 1 <= Len(u) /\ SubSeq(u, 1, 1 + m - 1) = old
    <3>1. 1 + Len(old) - 1 <= Len(u) /\ SubSeq(u, 1, 1 + Len(old) - 1) = old
      BY <2>1, StandsIs
    <3> QED BY <3>1
  <2>4. m \in Nat
    OBVIOUS
  <2>3. 1 + m - 1 = m
    BY <2>4
  <2> QED BY <1>1, <2>2, <2>3, <2>4
<1> DEFINE s == SubSeq(x, i, i + m - 1)
<1>3. s \in Seq(A) /\ Len(s) = m /\ \A k \in 1..m : s[k] = x[i + k - 1]
  <2>0. i + m - 1 <= n
    BY <1>2
  <2>1. s \in Seq(A) /\ Len(s) = m
    BY <1>2, <2>0
  <2>2. ASSUME NEW k \in 1..m PROVE s[k] = x[i + k - 1]
    BY <1>2, <2>0
  <2> QED BY <2>1, <2>2
<1>4. \A k \in 1..m : old[k] = x[i + k - 1]
  <2>1. ASSUME NEW k \in 1..m PROVE old[k] = x[i + k - 1]
    <3>1. SubSeq(u, 1, m)[k] = u[k]
      BY <1>1, <1>2
    <3>2. k \in 1..(n + 1 - i)
      BY <1>2
    <3> QED BY <1>1, <1>2, <3>1, <3>2
  <2> QED BY <2>1
<1> HIDE DEF s
<1>5. s = old
  <2>1. \A k \in 1..Len(s) : s[k] = old[k]
    BY <1>3, <1>4
  <2>2. Len(s) = Len(old)
    BY <1>3
  <2> HIDE DEF m
  <2> QED BY <1>3, <2>1, <2>2, SeqEqual
<1> QED BY <1>2, <1>5 DEF StandsAt, s, m

LEMMA ReplaceIs ==
  ASSUME NEW A, NEW e \in Seq(A), NEW n \in Nat, n = Len(e), NEW old \in Seq(A), old # <<>>, NEW new \in Seq(A)
  PROVE  \E f : Replacing(e, n, old, new, f) /\ Replace(e, old, new) = f[1]
<1> DEFINE from == CHOOSE f : Replacing(e, n, old, new, f)
<1>1. Replacing(e, n, old, new, from)
  BY ReplacingExists
<1>2. Replace(e, old, new) = from[1]
  BY DEF Replace, Replacing
<1> HIDE DEF from
<1> QED BY <1>1, <1>2

\* What holds of a text and of what replacing makes of it.
ReplacedAs(Rel, A, old, new) ==
  /\ Rel \subseteq Seq(A) \X Seq(A)
  /\ <<<<>>, <<>>>> \in Rel
  /\ \A x, y \in Seq(A) : <<x, y>> \in Rel => <<Over(old, x), Over(new, y)>> \in Rel
  /\ \A x, y \in Seq(A) : \A a \in A : <<x, y>> \in Rel /\ ~StandsAt(old, Push(a, x), 1)
       => <<Push(a, x), Push(a, y)>> \in Rel

LEMMA ReplaceInduction ==
  ASSUME NEW A, NEW e \in Seq(A), NEW old \in Seq(A), old # <<>>, NEW new \in Seq(A),
         NEW Rel, ReplacedAs(Rel, A, old, new)
  PROVE  <<e, Replace(e, old, new)>> \in Rel
<1> DEFINE n == Len(e)
<1>0. n \in Nat /\ n = Len(e)
  OBVIOUS
<1> HIDE DEF n
<1>1. PICK f : Replacing(e, n, old, new, f) /\ Replace(e, old, new) = f[1]
  BY <1>0, ReplaceIs
<1>2. /\ f[n + 1] = <<>>
      /\ \A i \in 1..n : f[i] = IF StandsAt(old, e, i) THEN Over(new, f[i + Len(old)]) ELSE Push(e[i], f[i + 1])
  <2>1. f = [i \in 1..(n + 1) |-> IF i > n THEN <<>>
                                  ELSE IF StandsAt(old, e, i) THEN new \o f[i + Len(old)]
                                  ELSE <<e[i]>> \o f[i + 1]]
    BY <1>1 DEF Replacing
  <2>2. n + 1 \in 1..(n + 1) /\ n + 1 > n
    BY <1>0
  <2>3. f[n + 1] = <<>>
    BY <2>1, <2>2
  <2>4. ASSUME NEW i \in 1..n
        PROVE  f[i] = IF StandsAt(old, e, i) THEN Over(new, f[i + Len(old)]) ELSE Push(e[i], f[i + 1])
    <3>1. i \in 1..(n + 1) /\ ~(i > n)
      BY <1>0
    <3> QED BY <2>1, <3>1 DEF Over, Push
  <2> QED BY <2>3, <2>4
<1>3. Len(old) \in Nat /\ Len(old) > 0
  BY NotEmpty
<1> DEFINE Good(i) == <<From(e, i), f[i]>> \in Rel
           T == {k \in 0..n : ~Good(n + 1 - k)}
<1>4. T = {}
  <2> SUFFICES ASSUME T # {} PROVE FALSE
    OBVIOUS
  <2>1. PICK k \in T : \A j \in T : k <= j
    <3>1. T \in SUBSET Nat
      OBVIOUS
    <3> HIDE DEF T
    <3> QED BY <3>1, Smallest
  <2> DEFINE i == n + 1 - k
  <2>2. i \in 1..(n + 1) /\ ~Good(i) /\ \A j \in (i + 1)..(n + 1) : Good(j)
    <3>1. k \in 0..n /\ ~Good(n + 1 - k)
      OBVIOUS
    <3>2. i \in 1..(n + 1)
      BY <1>0, <3>1
    <3>3. ASSUME NEW j \in (i + 1)..(n + 1) PROVE Good(j)
      <4>1. n + 1 - j \in 0..n /\ ~(k <= n + 1 - j) /\ n + 1 - (n + 1 - j) = j
        BY <1>0, <3>1
      <4>2. n + 1 - j \notin T
        BY <2>1, <4>1
      <4>3. Good(n + 1 - (n + 1 - j))
        <5> HIDE DEF Good
        <5> QED BY <4>1, <4>2
      <4> QED BY <4>1, <4>3
    <3> QED BY <3>1, <3>2, <3>3
  <2> HIDE DEF i, T
  <2>6. i # n + 1 => i \in 1..n
    <3>1. n \in Nat
      BY <1>0
    <3>2. i \in 1..(n + 1)
      BY <2>2
    <3> HIDE DEF Good, n
    <3> QED BY <3>1, <3>2
  <2>3. CASE i = n + 1
    <3>1. From(e, i) \in Seq(A) /\ Len(From(e, i)) = 0
      <4>1. From(e, i) \in Seq(A) /\ Len(From(e, i)) = n + 1 - i
        <5>1. PICK j \in 1..(n + 1) : j = i
          BY <2>2
        <5>2. From(e, j) \in Seq(A) /\ Len(From(e, j)) = n + 1 - j
          BY <1>0, FromIs
        <5> QED BY <5>1, <5>2
      <4> QED BY <1>0, <2>3, <4>1
    <3>2. From(e, i) = <<>>
      BY <3>1, EmptySeq
    <3> QED BY <1>2, <2>2, <2>3, <3>2 DEF ReplacedAs
  <2>4. CASE i # n + 1 /\ StandsAt(old, e, i)
    <3>1. i \in 1..n
      BY <2>6, <2>4
    <3>2. From(e, i) = Over(old, From(e, i + Len(old))) /\ i + Len(old) \in 1..(n + 1)
      BY <1>0, <2>4, <3>1, FromStanding
    <3>3. i + Len(old) \in (i + 1)..(n + 1)
      BY <1>0, <1>3, <3>1, <3>2
    <3>4. <<From(e, i + Len(old)), f[i + Len(old)]>> \in Rel
      BY <2>2, <3>3
    <3>5. f[i] = Over(new, f[i + Len(old)])
      BY <1>2, <2>4, <3>1
    <3>6. From(e, i + Len(old)) \in Seq(A) /\ f[i + Len(old)] \in Seq(A)
      BY <3>4 DEF ReplacedAs
    <3>7. <<Over(old, From(e, i + Len(old))), Over(new, f[i + Len(old)])>> \in Rel
      BY <3>4, <3>6 DEF ReplacedAs
    <3> QED BY <2>2, <3>2, <3>5, <3>7
  <2>5. CASE i # n + 1 /\ ~StandsAt(old, e, i)
    <3>1. i \in 1..n
      BY <2>6, <2>5
    <3>2. From(e, i) = Push(e[i], From(e, i + 1)) /\ e[i] \in A
      BY <1>0, <3>1, FromOne
    <3>3. i + 1 \in (i + 1)..(n + 1)
      BY <1>0, <3>1
    <3>4. <<From(e, i + 1), f[i + 1]>> \in Rel
      BY <2>2, <3>3
    <3>5. f[i] = Push(e[i], f[i + 1])
      BY <1>2, <2>5, <3>1
    <3>6. From(e, i + 1) \in Seq(A) /\ f[i + 1] \in Seq(A)
      BY <3>4 DEF ReplacedAs
    <3>7. ~StandsAt(old, Push(e[i], From(e, i + 1)), 1)
      BY <1>0, <2>5, <3>1, <3>2, StandsFrom
    <3>8. <<Push(e[i], From(e, i + 1)), Push(e[i], f[i + 1])>> \in Rel
      BY <3>2, <3>4, <3>6, <3>7 DEF ReplacedAs
    <3> QED BY <2>2, <3>2, <3>5, <3>8
  <2> QED BY <2>3, <2>4, <2>5
<1>5. Good(1)
  <2>1. n \in 0..n /\ n + 1 - n = 1
    BY <1>0
  <2>2. Good(n + 1 - n)
    <3> HIDE DEF Good
    <3> QED BY <1>4, <2>1
  <2> QED BY <2>1, <2>2
<1>6. From(e, 1) = e
  BY DEF From
<1> QED BY <1>1, <1>5, <1>6

LEMMA RunPush ==
  ASSUME NEW step, NEW s, NEW A, NEW a \in A, NEW x \in Seq(A)
  PROVE  Run(step, s, Push(a, x)) = Run(step, step[<<s, a>>], x) /\ Push(a, x) \in Seq(A)
<1> DEFINE u == <<a>>
<1>1. u \in Seq(A) /\ Push(a, x) = Over(u, x) /\ Run(step, s, u) = step[<<s, a>>]
  BY RunOne DEF Push, Over
<1> HIDE DEF u
<1>2. Run(step, s, Over(u, x)) = Run(step, Run(step, s, u), x) /\ Over(u, x) \in Seq(A)
  BY <1>1, RunOver
<1> QED BY <1>1, <1>2

\* A state that nothing leaves.
Stays(step, bad, A) == \A a \in A : step[<<bad, a>>] = bad

LEMMA RunStays ==
  ASSUME NEW step, NEW bad, NEW A, Stays(step, bad, A), NEW x \in Seq(A)
  PROVE  Run(step, bad, x) = bad
<1> DEFINE G == {y \in Seq(A) : Run(step, bad, y) = bad}
<1>1. <<>> \in G
  BY RunNothing
<1>2. ASSUME NEW y \in Seq(A), NEW a \in A, y \in G PROVE Append(y, a) \in G
  <2>1. Append(y, a) \in Seq(A) /\ Run(step, bad, Append(y, a)) = step[<<Run(step, bad, y), a>>]
    BY AppendProperties, RunAppend
  <2> QED BY <1>2, <2>1 DEF Stays
<1> HIDE DEF G
<1>3. Seq(A) \subseteq G
  BY <1>1, <1>2, SequencesByAppending
<1> QED BY <1>3 DEF G

\* A run that does not get there does not tell old from new.
SameTo(step, S, bad, old, new) ==
  \A s \in S : Run(step, s, old) # bad => Run(step, s, new) = Run(step, s, old)

Machine(step, S, bad, A) == step \in [S \X A -> S] /\ bad \in S /\ Stays(step, bad, A)

LEMMA RunReplace ==
  ASSUME NEW S, NEW A, NEW step, NEW bad, Machine(step, S, bad, A),
         NEW x \in Seq(A), NEW old \in Seq(A), old # <<>>, NEW new \in Seq(A), SameTo(step, S, bad, old, new)
  PROVE  \A s \in S : Run(step, s, x) # bad => Run(step, s, Replace(x, old, new)) = Run(step, s, x)
<1>0. step \in [S \X A -> S] /\ bad \in S /\ Stays(step, bad, A)
  BY DEF Machine
<1> DEFINE Rel == {uw \in Seq(A) \X Seq(A) :
                     \A s \in S : Run(step, s, uw[1]) # bad => Run(step, s, uw[2]) = Run(step, s, uw[1])}
<1>1. <<<<>>, <<>>>> \in Rel
  <2> DEFINE o == <<>>
  <2>1. o \in Seq(A)
    OBVIOUS
  <2> HIDE DEF o
  <2>2. <<o, o>> \in Rel
    BY <2>1
  <2> QED BY <2>2 DEF o
<1>2. ASSUME NEW u \in Seq(A), NEW w \in Seq(A), <<u, w>> \in Rel PROVE <<Over(old, u), Over(new, w)>> \in Rel
  <2>1. \A s \in S : Run(step, s, u) # bad => Run(step, s, w) = Run(step, s, u)
    BY <1>2
  <2>2. Over(old, u) \in Seq(A) /\ Over(new, w) \in Seq(A)
    BY RunOver
  <2>3. ASSUME NEW s \in S, Run(step, s, Over(old, u)) # bad
        PROVE  Run(step, s, Over(new, w)) = Run(step, s, Over(old, u))
    <3>1. Run(step, s, Over(old, u)) = Run(step, Run(step, s, old), u)
      BY RunOver
    <3>2. Run(step, s, Over(new, w)) = Run(step, Run(step, s, new), w)
      BY RunOver
    <3>3. Run(step, s, old) # bad
      BY <1>0, <2>3, <3>1, RunStays
    <3>4. Run(step, s, new) = Run(step, s, old)
      BY <3>3 DEF SameTo
    <3>5. Run(step, s, old) \in S
      BY <1>0, RunType
    <3> QED BY <2>1, <2>3, <3>1, <3>2, <3>4, <3>5
  <2> QED BY <2>2, <2>3
<1>3. ASSUME NEW u \in Seq(A), NEW w \in Seq(A), NEW a \in A, <<u, w>> \in Rel PROVE <<Push(a, u), Push(a, w)>> \in Rel
  <2>1. \A s \in S : Run(step, s, u) # bad => Run(step, s, w) = Run(step, s, u)
    BY <1>3
  <2>2. Push(a, u) \in Seq(A) /\ Push(a, w) \in Seq(A)
    BY RunPush
  <2>3. ASSUME NEW s \in S, Run(step, s, Push(a, u)) # bad
        PROVE  Run(step, s, Push(a, w)) = Run(step, s, Push(a, u))
    <3>1. Run(step, s, Push(a, u)) = Run(step, step[<<s, a>>], u)
      BY <1>0, RunPush
    <3>2. Run(step, s, Push(a, w)) = Run(step, step[<<s, a>>], w)
      BY <1>0, RunPush
    <3>3. step[<<s, a>>] \in S
      BY <1>0
    <3> QED BY <2>1, <2>3, <3>1, <3>2, <3>3
  <2> QED BY <2>2, <2>3
<1>4. Rel \subseteq Seq(A) \X Seq(A)
  OBVIOUS
<1> HIDE DEF Rel
<1>5. ReplacedAs(Rel, A, old, new)
  BY <1>1, <1>2, <1>3, <1>4 DEF ReplacedAs
<1>6. <<x, Replace(x, old, new)>> \in Rel
  BY <1>5, ReplaceInduction
<1> QED BY <1>6 DEF Rel

LEMMA ReplaceType ==
  ASSUME NEW A, NEW x \in Seq(A), NEW old \in Seq(A), old # <<>>, NEW new \in Seq(A)
  PROVE  Replace(x, old, new) \in Seq(A)
<1> DEFINE Rel == Seq(A) \X Seq(A)
<1>1. <<<<>>, <<>>>> \in Rel
  <2> DEFINE o == <<>>
  <2>1. o \in Seq(A)
    OBVIOUS
  <2> HIDE DEF o
  <2>2. <<o, o>> \in Rel
    BY <2>1
  <2> QED BY <2>2 DEF o
<1>2. ASSUME NEW u \in Seq(A), NEW w \in Seq(A) PROVE <<Over(old, u), Over(new, w)>> \in Rel
  BY RunOver
<1>3. ASSUME NEW u \in Seq(A), NEW w \in Seq(A), NEW a \in A PROVE <<Push(a, u), Push(a, w)>> \in Rel
  BY RunPush
<1>4. ReplacedAs(Rel, A, old, new)
  BY <1>1, <1>2, <1>3 DEF ReplacedAs
<1> HIDE DEF Rel
<1>5. <<x, Replace(x, old, new)>> \in Rel
  BY <1>4, ReplaceInduction
<1> QED BY <1>5 DEF Rel

\* Where there is something to replace, replacing it with something shorter makes the text
\* shorter.
LEMMA ReplaceShortens ==
  ASSUME NEW A, NEW x \in Seq(A), NEW old \in Seq(A), old # <<>>, NEW new \in Seq(A), Len(new) < Len(old)
  PROVE  /\ Len(Replace(x, old, new)) <= Len(x)
         /\ Occurrences(old, x) # {} => Len(Replace(x, old, new)) < Len(x)
<1> DEFINE Rel == {uw \in Seq(A) \X Seq(A) :
                     /\ Len(uw[2]) <= Len(uw[1])
                     /\ Occurrences(old, uw[1]) # {} => Len(uw[2]) < Len(uw[1])}
<1>0. Len(old) \in Nat /\ Len(new) \in Nat
  OBVIOUS
<1>1. <<<<>>, <<>>>> \in Rel
  <2>1. DOMAIN <<>> = {}
    OBVIOUS
  <2>2. Occurrences(old, <<>>) = {}
    BY <2>1 DEF Occurrences
  <2> DEFINE o == <<>>
  <2>3. o \in Seq(A) /\ Occurrences(old, o) = {} /\ Len(o) <= Len(o)
    BY <2>2
  <2> HIDE DEF o
  <2>4. <<o, o>> \in Rel
    BY <2>3
  <2> QED BY <2>4 DEF o
<1>2. ASSUME NEW u \in Seq(A), NEW w \in Seq(A), <<u, w>> \in Rel PROVE <<Over(old, u), Over(new, w)>> \in Rel
  <2>1. Len(w) <= Len(u) /\ Len(u) \in Nat /\ Len(w) \in Nat
    BY <1>2
  <2>2. Over(old, u) \in Seq(A) /\ Len(Over(old, u)) = Len(old) + Len(u)
    BY DEF Over
  <2>3. Over(new, w) \in Seq(A) /\ Len(Over(new, w)) = Len(new) + Len(w)
    BY DEF Over
  <2>4. Len(Over(new, w)) < Len(Over(old, u)) /\ Len(Over(new, w)) <= Len(Over(old, u))
    BY <1>0, <2>1, <2>2, <2>3
  <2> QED BY <2>2, <2>3, <2>4
<1>3. ASSUME NEW u \in Seq(A), NEW w \in Seq(A), NEW a \in A, <<u, w>> \in Rel, ~StandsAt(old, Push(a, u), 1)
      PROVE <<Push(a, u), Push(a, w)>> \in Rel
  <2>1. Len(w) <= Len(u) /\ Len(u) \in Nat /\ Len(w) \in Nat /\ (Occurrences(old, u) # {} => Len(w) < Len(u))
    BY <1>3
  <2>2. Push(a, u) \in Seq(A) /\ Len(Push(a, u)) = Len(u) + 1
    BY OneBefore
  <2>3. Push(a, w) \in Seq(A) /\ Len(Push(a, w)) = Len(w) + 1
    BY OneBefore
  <2>4. Occurrences(old, Push(a, u)) # {} => Occurrences(old, u) # {}
    <3> SUFFICES ASSUME Occurrences(old, Push(a, u)) # {} PROVE Occurrences(old, u) # {}
      OBVIOUS
    <3>1. PICK i \in DOMAIN Push(a, u) : StandsAt(old, Push(a, u), i)
      BY DEF Occurrences
    <3>2. i \in 1..(Len(u) + 1) /\ i # 1
      <4>1. DOMAIN Push(a, u) = 1..Len(Push(a, u))
        BY <2>2
      <4> QED BY <1>3, <2>2, <3>1, <4>1
    <3> DEFINE v == Push(a, u)
               m == Len(old)
    <3>3. v \in Seq(A) /\ Len(v) = Len(u) + 1 /\ \A k \in 1..Len(u) : v[k + 1] = u[k]
      BY DEF Push
    <3>4. i + m - 1 <= Len(v) /\ SubSeq(v, i, i + m - 1) = old
      BY <3>1, StandsIs
    <3> HIDE DEF v
    <3> DEFINE j == i - 1
               s == SubSeq(u, j, j + m - 1)
    <3>5. j \in 1..Len(u) /\ j + m - 1 <= Len(u)
      BY <1>0, <2>1, <3>2, <3>3, <3>4
    <3>6. s = old
      <4>1. s \in Seq(A) /\ Len(s) = m /\ \A k \in 1..m : s[k] = u[j + k - 1]
        <5>1. s \in Seq(A) /\ Len(s) = m
          <6>1. m \in Nat /\ j \in 1..Len(u) /\ j + m - 1 <= Len(u)
            BY <1>0, <3>5
          <6> HIDE DEF j, m
          <6>2. s \in Seq(A)
            BY <6>1
          <6>3. Len(s) = j + m - 1 - j + 1
            BY <6>1
          <6> QED BY <6>1, <6>2, <6>3
        <5>2. ASSUME NEW k \in 1..m PROVE s[k] = u[j + k - 1]
          <6>1. m \in Nat /\ j \in 1..Len(u) /\ j + m - 1 <= Len(u)
            BY <1>0, <3>5
          <6> HIDE DEF j, m
          <6> QED BY <6>1
        <5> QED BY <5>1, <5>2
      <4>2. ASSUME NEW k \in 1..m PROVE old[k] = u[j + k - 1]
        <5>1. SubSeq(v, i, i + m - 1)[k] = v[i + k - 1]
          BY <1>0, <3>2, <3>3, <3>4
        <5>2. j + k - 1 \in 1..Len(u) /\ (j + k - 1) + 1 = i + k - 1
          <6>1. m \in Nat /\ Len(u) \in Nat /\ i \in Nat /\ j \in Nat /\ j = i - 1 /\ j >= 1 /\ j + m - 1 <= Len(u)
            BY <1>0, <2>1, <3>2, <3>5
          <6>2. k \in Nat /\ 1 <= k /\ k <= m
            BY <1>0
          <6> HIDE DEF m, j
          <6> QED BY <6>1, <6>2
        <5> QED BY <3>3, <3>4, <5>1, <5>2
      <4> HIDE DEF s, m, j
      <4>3. m = Len(old)
        BY DEF m
      <4>4. \A k \in 1..Len(s) : s[k] = old[k]
        BY <4>1, <4>2
      <4> QED BY <4>1, <4>3, <4>4, SeqEqual
    <3>7. StandsAt(old, u, j)
      BY <3>5, <3>6 DEF StandsAt
    <3>8. j \in DOMAIN u
      BY <3>5
    <3> QED BY <3>7, <3>8 DEF Occurrences
  <2>5. Len(Push(a, w)) <= Len(Push(a, u))
        /\ (Occurrences(old, Push(a, u)) # {} => Len(Push(a, w)) < Len(Push(a, u)))
    BY <2>1, <2>2, <2>3, <2>4
  <2> QED BY <2>2, <2>3, <2>5
<1>4. Rel \subseteq Seq(A) \X Seq(A)
  OBVIOUS
<1> HIDE DEF Rel
<1>5. ReplacedAs(Rel, A, old, new)
  BY <1>1, <1>2, <1>3, <1>4 DEF ReplacedAs
<1>6. <<x, Replace(x, old, new)>> \in Rel
  BY <1>5, ReplaceInduction
<1> QED BY <1>6 DEF Rel

-----------------------------------------------------------------------------
(* Negated brackets.                                                       *)

LEMMA TokensAreConstants ==
  /\ \A c \in {"!", "(", ")", "&", "|", "true", "false"} : c \in Constants /\ c \in Tokens
  /\ \A c \in Constants : c \in {"!", "(", ")", "&", "|", "true", "false"}
BY DEF Constants, Tokens, Operators, Booleans

LEMMA NegatedBracketIs ==
  /\ NegatedBracket \in Seq(Constants) /\ Len(NegatedBracket) = 2
  /\ NegatedBracket[1] = "!" /\ NegatedBracket[2] = "("
BY TokensAreConstants DEF NegatedBracket

\* Two tokens next to each other.
LEMMA PairOf ==
  ASSUME NEW A, NEW x \in Seq(A), NEW i \in 1..(Len(x) - 1)
  PROVE  SubSeq(x, i, i + 1) = <<x[i], x[i + 1]>>
<1> DEFINE u == SubSeq(x, i, i + 1)
           v == <<x[i], x[i + 1]>>
<1>0. i \in Nat /\ i + 1 \in Nat /\ 1 <= i /\ i + 1 <= Len(x) /\ Len(x) \in Nat /\ i + 1 - i + 1 = 2
  OBVIOUS
<1>1. x[i] \in A /\ x[i + 1] \in A
  BY <1>0
<1>2. u \in Seq(A) /\ Len(u) = i + 1 - i + 1 /\ \A k \in 1..(i + 1 - i + 1) : u[k] = x[i + k - 1]
  BY <1>0, SubSeqProperties
<1>3. u[1] = x[i] /\ u[2] = x[i + 1] /\ Len(u) = 2
  <2>1. Len(u) = 2 /\ \A k \in 1..2 : u[k] = x[i + k - 1]
    BY <1>0, <1>2
  <2>2. i + 1 - 1 = i /\ i + 2 - 1 = i + 1 /\ 1 \in 1..2 /\ 2 \in 1..2
    BY <1>0
  <2> HIDE DEF u
  <2> QED BY <2>1, <2>2
<1>4. v \in Seq(A) /\ Len(v) = 2 /\ v[1] = x[i] /\ v[2] = x[i + 1]
  BY <1>1
<1> HIDE DEF u, v
<1>5. \A k \in 1..Len(u) : u[k] = v[k]
  BY <1>3, <1>4
<1>6. u = v
  BY <1>2, <1>3, <1>4, <1>5, SeqEqual
<1> QED BY <1>6 DEF u, v

LEMMA NegatedAt ==
  ASSUME NEW A, NEW x \in Seq(A), NEW i
  PROVE  i \in Occurrences(NegatedBracket, x) <=> i \in 1..(Len(x) - 1) /\ x[i] = "!" /\ x[i + 1] = "("
<1>0. Len(x) \in Nat /\ DOMAIN x = 1..Len(x)
  OBVIOUS
<1>1. ASSUME i \in Occurrences(NegatedBracket, x)
      PROVE  i \in 1..(Len(x) - 1) /\ x[i] = "!" /\ x[i + 1] = "("
  <2>1. i \in 1..Len(x) /\ i + 2 - 1 <= Len(x) /\ SubSeq(x, i, i + 2 - 1) = NegatedBracket
    BY <1>0, <1>1, NegatedBracketIs DEF Occurrences, StandsAt
  <2>2. i \in 1..(Len(x) - 1) /\ i + 2 - 1 = i + 1
    BY <1>0, <2>1
  <2>3. SubSeq(x, i, i + 1)[1] = x[i] /\ SubSeq(x, i, i + 1)[2] = x[i + 1]
    <3> DEFINE s == SubSeq(x, i, i + 1)
    <3>1. s = <<x[i], x[i + 1]>>
      BY <2>2, PairOf
    <3> HIDE DEF s
    <3>2. s[1] = x[i] /\ s[2] = x[i + 1]
      BY <3>1
    <3> QED BY <3>2 DEF s
  <2> QED BY <2>1, <2>2, <2>3, NegatedBracketIs
<1>2. ASSUME i \in 1..(Len(x) - 1), x[i] = "!", x[i + 1] = "("
      PROVE  i \in Occurrences(NegatedBracket, x)
  <2>1. i \in 1..Len(x) /\ i + 2 - 1 <= Len(x) /\ i + 2 - 1 = i + 1
    BY <1>0, <1>2
  <2>2. SubSeq(x, i, i + 1) = <<x[i], x[i + 1]>>
    BY <1>0, <1>2, PairOf
  <2>3. SubSeq(x, i, i + 1) = NegatedBracket
    BY <1>2, <2>2 DEF NegatedBracket
  <2> QED BY <1>0, <2>1, <2>3, NegatedBracketIs DEF Occurrences, StandsAt
<1> QED BY <1>1, <1>2

\* The first negated brackets.
LEMMA FirstNegated ==
  ASSUME NEW x \in Seq(Constants), HasNegatedBracket(x)
  PROVE  Min(Occurrences(NegatedBracket, x)) \in Occurrences(NegatedBracket, x)
<1>1. Occurrences(NegatedBracket, x) \in SUBSET Nat /\ Occurrences(NegatedBracket, x) # {}
  BY DEF HasNegatedBracket, Occurrences
<1> QED BY <1>1, FirstPosition

ClosingOf(e, open) == {i \in (open + 1)..Len(e) : e[i] = ")" /\ Depth(e, i) = Depth(e, open) + 1}

LEMMA ResolveType ==
  ASSUME NEW x \in Seq(Constants), HasNegatedBracket(x)
  PROVE  resolveBracketExpression(x) \in Seq(Constants) /\ Len(resolveBracketExpression(x)) < Len(x)
<1> DEFINE m == Min(Occurrences(NegatedBracket, x))
           open == m + 1
           closing == ClosingOf(x, open)
           upto == IF closing = {} THEN Len(x) ELSE Min(closing) - 1
<1>0. Len(x) \in Nat
  OBVIOUS
<1>1. m \in 1..(Len(x) - 1)
  <2>1. m \in Occurrences(NegatedBracket, x)
    BY FirstNegated
  <2> HIDE DEF m
  <2> QED BY <2>1, NegatedAt
<1>2. resolveBracketExpression(x) = SubSeq(x, open + 1, upto)
  BY DEF resolveBracketExpression, ClosingOf
<1> HIDE DEF m
<1>3. upto \in Int /\ open <= upto /\ upto <= Len(x)
  <2>1. closing # {} => Min(closing) \in closing
    <3>1. closing \in SUBSET Nat
      BY <1>0, <1>1 DEF ClosingOf
    <3> HIDE DEF closing
    <3> QED BY <3>1, FirstPosition
  <2>2. closing # {} => Min(closing) \in (open + 1)..Len(x)
    BY <2>1 DEF ClosingOf
  <2> HIDE DEF closing
  <2> QED BY <1>0, <1>1, <2>2
<1> HIDE DEF closing, upto
<1>4. open \in Nat /\ open >= 2
  BY <1>0, <1>1
<1> HIDE DEF open
<1>5. SubSeq(x, open + 1, upto) \in Seq(Constants)
  BY <1>0, <1>3, <1>4
<1>6. Len(SubSeq(x, open + 1, upto)) = upto - open
  BY <1>0, <1>3, <1>4
<1> QED BY <1>0, <1>2, <1>3, <1>4, <1>5, <1>6

\* The text of negated brackets around this.
Around(inner) == NegatedBracket \o inner \o <<")">>

LEMMA AroundIs ==
  ASSUME NEW x \in Seq(Constants)
  PROVE  /\ Around(x) = Over(NegatedBracket, Over(x, <<")">>)) /\ Around(x) \in Seq(Constants)
         /\ Around(x) # <<>> /\ Len(Around(x)) = Len(x) + 3
<1> DEFINE c == <<")">>
<1>1. c \in Seq(Constants) /\ Len(c) = 1
  BY TokensAreConstants
<1> HIDE DEF c
<1> DEFINE b == NegatedBracket
<1>2. b \in Seq(Constants) /\ Len(b) = 2
  BY NegatedBracketIs
<1> HIDE DEF b
<1>3. b \o x \o c = b \o (x \o c)
  BY <1>1, <1>2, ConcatAssociative
<1> DEFINE d == b \o x
<1>4. d \in Seq(Constants) /\ Len(d) = Len(b) + Len(x)
  BY <1>2, ConcatProperties
<1> HIDE DEF d
<1>5. d \o c \in Seq(Constants) /\ Len(d \o c) = Len(d) + Len(c)
  BY <1>1, <1>4, ConcatProperties
<1>6. Len(Around(x)) = Len(x) + 3 /\ Around(x) \in Seq(Constants) /\ Len(x) \in Nat
  <2>1. Around(x) = d \o c
    BY DEF Around, b, c, d
  <2>2. Len(x) \in Nat /\ Len(d) + Len(c) = Len(x) + 3
    BY <1>1, <1>2, <1>4
  <2> QED BY <1>5, <2>1, <2>2
<1>7. Around(x) # <<>>
  BY <1>6, EmptySeq
<1> QED BY <1>3, <1>6, <1>7 DEF Around, Over, b, c

Opposite(e) == <<ToBoolean(evaluateExp(e) # "true")>>

LEMMA OppositeIs == ASSUME NEW e PROVE Opposite(e) \in Seq(Constants) /\ Len(Opposite(e)) = 1
                                       /\ Opposite(e)[1] \in Booleans
<1>1. ToBoolean(evaluateExp(e) # "true") \in {"true", "false"}
  BY DEF ToBoolean
<1>2. ToBoolean(evaluateExp(e) # "true") \in Constants
  BY <1>1, TokensAreConstants
<1> QED BY <1>1, <1>2 DEF Opposite, Booleans

\* What evaluateBrackets makes of a text.
LEMMA EvaluateIs ==
  /\ evaluateBrackets \in [Seq(Constants) -> Seq(Constants)]
  /\ \A e \in Seq(Constants) :
       evaluateBrackets[e] = IF HasNegatedBracket(e)
                             THEN Replace(e, Around(resolveBracketExpression(e)), evaluateBrackets[resolveBracketExpression(e)])
                             ELSE Opposite(e)
<1> DEFINE S == Seq(Constants)
           R == {xy \in S \X S : Len(xy[1]) < Len(xy[2])}
           At(e, f) == IF HasNegatedBracket(e)
                       THEN Replace(e, Around(resolveBracketExpression(e)), f[resolveBracketExpression(e)])
                       ELSE Opposite(e)
           E == [st \in S \X [S -> S] |-> At(st[1], st[2])]
<1>1. Minimal(S, R)
  <2> SUFFICES ASSUME NEW T \in SUBSET S, T # {} PROVE \E x \in T : \A y \in T : <<y, x>> \notin R
    BY DEF Minimal
  <2> DEFINE U == {Len(t) : t \in T}
  <2>1. U \in SUBSET Nat /\ U # {}
    <3>1. \A t \in T : Len(t) \in Nat
      <4> HIDE DEF R, At, E
      <4> QED OBVIOUS
    <3> QED BY <3>1
  <2>2. PICK u \in U : \A v \in U : u <= v
    <3> HIDE DEF U
    <3> QED BY <2>1, Smallest
  <2>3. PICK x \in T : u = Len(x)
    BY <2>2
  <2>4. ASSUME NEW y \in T PROVE <<y, x>> \notin R
    <3>1. Len(y) \in U
      OBVIOUS
    <3>2. Len(x) <= Len(y) /\ Len(x) \in Nat /\ Len(y) \in Nat
      BY <2>2, <2>3, <3>1
    <3>3. ~(Len(y) < Len(x))
      BY <3>2
    <3> QED BY <3>3
  <2> QED BY <2>4
<1>2. ASSUME NEW e \in S, NEW f \in [S -> S] PROVE At(e, f) \in S
  <2>1. CASE HasNegatedBracket(e)
    <3> DEFINE i == resolveBracketExpression(e)
    <3>1. i \in S
      BY <2>1, ResolveType
    <3>2. f[i] \in S
      BY <3>1
    <3>3. Around(i) \in S /\ Around(i) # <<>>
      <4> HIDE DEF i
      <4> QED BY <3>1, AroundIs
    <3> DEFINE a == Around(i)
               v == f[i]
    <3>4. Replace(e, a, v) \in S
      <4> HIDE DEF a, v, i
      <4>1. a \in Seq(Constants) /\ a # <<>> /\ v \in Seq(Constants)
        BY <3>2, <3>3 DEF a, v
      <4> QED BY <4>1, ReplaceType
    <3> QED BY <2>1, <3>4
  <2>2. CASE ~HasNegatedBracket(e)
    BY <2>2, OppositeIs
  <2> QED BY <2>1, <2>2
<1>3. DependsBelow(S, R, S, E)
  <2> SUFFICES ASSUME NEW x \in S, NEW f \in [S -> S], NEW g \in [S -> S],
                      \A y \in S : <<y, x>> \in R => f[y] = g[y]
               PROVE  E[<<x, f>>] = E[<<x, g>>]
    BY DEF DependsBelow
  <2>1. E[<<x, f>>] = At(x, f) /\ E[<<x, g>>] = At(x, g)
    <3> HIDE DEF At, S
    <3> QED OBVIOUS
  <2>2. \A y \in S : Len(y) < Len(x) => f[y] = g[y]
    OBVIOUS
  <2>3. HasNegatedBracket(x) => f[resolveBracketExpression(x)] = g[resolveBracketExpression(x)]
    BY <2>2, ResolveType
  <2>4. At(x, f) = At(x, g)
    BY <2>3
  <2> HIDE DEF At, E
  <2> QED BY <2>1, <2>4
<1>4. E \in [S \X [S -> S] -> S]
  <2> HIDE DEF At, S
  <2>1. ASSUME NEW st \in S \X [S -> S] PROVE At(st[1], st[2]) \in S
    BY <1>2
  <2> QED BY <2>1
<1>5. S # {}
  BY NegatedBracketIs
<1>6. Recursive(S, R, S, E)
  <2> HIDE DEF S, R, E
  <2> QED BY <1>1, <1>3, <1>4, <1>5 DEF Recursive
<1>7. PICK f : Solves(S, S, E, f)
  <2> HIDE DEF S, R, E
  <2> QED BY <1>6, Recursion
<1>8. f \in [S -> S] /\ \A x \in S : f[x] = E[<<x, f>>]
  <2> HIDE DEF S, E
  <2> QED BY <1>7 DEF Solves
<1>9. \A x \in S : f[x] = At(x, f)
  <2> HIDE DEF At, S
  <2> QED BY <1>8
<1> DEFINE Is(g) == g = [e \in S |-> At(e, g)]
<1>10. Is(f)
  <2> HIDE DEF At, S, E
  <2> QED BY <1>8, <1>9
<1>11. evaluateBrackets = CHOOSE g : Is(g)
  BY DEF evaluateBrackets, Around, Opposite
<1> HIDE DEF E, R, At
<1>12. Is(evaluateBrackets)
  <2> HIDE DEF Is
  <2> QED BY <1>10, <1>11
<1> DEFINE h == evaluateBrackets
<1>13. h = [e \in S |-> At(e, h)]
  BY <1>12
<1> HIDE DEF h
<1>14. \A e \in S : h[e] = At(e, h)
  BY <1>13
\* Every value is a text: of no shortest text is it not.
<1> DEFINE T == {e \in S : h[e] \notin S}
<1>15. T = {}
  <2> SUFFICES ASSUME T # {} PROVE FALSE
    OBVIOUS
  <2>1. PICK x \in T : \A y \in T : <<y, x>> \notin R
    <3>1. T \in SUBSET S
      BY DEF T
    <3> HIDE DEF T, S
    <3> QED BY <1>1, <3>1 DEF Minimal
  <2>2. x \in S /\ h[x] \notin S
    OBVIOUS
  <2>3. CASE HasNegatedBracket(x)
    <3> DEFINE i == resolveBracketExpression(x)
    <3>1. i \in S /\ Len(i) < Len(x)
      BY <2>2, <2>3, ResolveType
    <3>2. <<i, x>> \in R
      BY <2>2, <3>1 DEF R
    <3>3. h[i] \in S
      <4> HIDE DEF i
      <4> QED BY <2>1, <3>1, <3>2
    <3>4. h[x] = Replace(x, Around(i), h[i])
      BY <1>14, <2>2, <2>3 DEF At
    <3> HIDE DEF i
    <3>5. Around(i) \in S /\ Around(i) # <<>>
      BY <3>1, AroundIs
    <3>6. Replace(x, Around(i), h[i]) \in S
      BY <2>2, <3>3, <3>5, ReplaceType
    <3> QED BY <2>2, <3>4, <3>6
  <2>4. CASE ~HasNegatedBracket(x)
    <3>1. h[x] = Opposite(x)
      BY <1>14, <2>2, <2>4 DEF At
    <3> QED BY <2>2, <3>1, OppositeIs
  <2> QED BY <2>3, <2>4
<1>16. h \in [S -> S]
  BY <1>13, <1>15
<1> QED BY <1>14, <1>16 DEF h, At

-----------------------------------------------------------------------------
(* What can stand for each other.                                          *)

\* Two tokens, one after the other.
Two(a, b) == <<a, b>>

LEMMA TwoIs ==
  ASSUME NEW A, NEW a \in A, NEW b \in A
  PROVE  Two(a, b) \in Seq(A) /\ Append(<<a>>, b) = Two(a, b) /\ Push(a, <<b>>) = Two(a, b)
<1> DEFINE u == <<a>>
           v == <<b>>
           w == <<a, b>>
<1>1. u \in Seq(A) /\ Len(u) = 1 /\ u[1] = a
  OBVIOUS
<1>2. v \in Seq(A) /\ Len(v) = 1 /\ v[1] = b
  OBVIOUS
<1>3. w \in Seq(A) /\ Len(w) = 2 /\ w[1] = a /\ w[2] = b
  OBVIOUS
<1> HIDE DEF u, v, w
<1> DEFINE x == Append(u, b)
           y == u \o v
<1>4. x \in Seq(A) /\ Len(x) = 2 /\ x[1] = a /\ x[2] = b
  <2>1. x \in Seq(A) /\ Len(x) = Len(u) + 1
    BY <1>1, AppendProperties
  <2>2. x[Len(u) + 1] = b
    BY <1>1, AppendProperties
  <2>3. \A i \in 1..Len(u) : x[i] = u[i]
    BY <1>1, AppendProperties
  <2> HIDE DEF x
  <2>4. 1 \in 1..Len(u) /\ Len(u) + 1 = 2
    BY <1>1
  <2> QED BY <1>1, <2>1, <2>2, <2>3, <2>4
<1>5. y \in Seq(A) /\ Len(y) = 2 /\ y[1] = a /\ y[2] = b
  <2>1. y \in Seq(A) /\ Len(y) = Len(u) + Len(v)
    BY <1>1, <1>2, ConcatProperties
  <2>4. \A i \in 1..(Len(u) + Len(v)) : y[i] = IF i <= Len(u) THEN u[i] ELSE v[i - Len(u)]
    BY <1>1, <1>2, ConcatProperties
  <2>5. 1 \in 1..(Len(u) + Len(v)) /\ 2 \in 1..(Len(u) + Len(v)) /\ 1 <= Len(u) /\ ~(2 <= Len(u)) /\ 2 - Len(u) = 1
    BY <1>1, <1>2
  <2>2. y[1] = u[1]
    BY <2>4, <2>5
  <2>3. y[2] = v[1]
    BY <2>4, <2>5
  <2> HIDE DEF y
  <2> QED BY <1>1, <1>2, <2>1, <2>2, <2>3
<1> HIDE DEF x, y
<1>6. x = w
  <2>1. \A k \in 1..Len(x) : x[k] = w[k]
    BY <1>3, <1>4
  <2> QED BY <1>3, <1>4, <2>1, SeqEqual
<1>7. y = w
  <2>1. \A k \in 1..Len(y) : y[k] = w[k]
    BY <1>3, <1>5
  <2> QED BY <1>3, <1>5, <2>1, SeqEqual
<1> QED BY <1>3, <1>6, <1>7 DEF u, v, w, x, y, Two, Push

LEMMA RunTwo ==
  ASSUME NEW step, NEW s, NEW A, NEW a \in A, NEW b \in A
  PROVE  Run(step, s, <<a, b>>) = step[<<step[<<s, a>>], b>>]
<1> DEFINE u == <<a>>
<1>1. u \in Seq(A)
  OBVIOUS
<1>2. Append(u, b) = Two(a, b)
  BY TwoIs
<1>3. Run(step, s, u) = step[<<s, a>>]
  BY RunOne
<1> HIDE DEF u
<1>4. Run(step, s, Append(u, b)) = step[<<Run(step, s, u), b>>]
  BY <1>1, RunAppend
<1> QED BY <1>2, <1>3, <1>4 DEF Two

LEMMA AfterTwo ==
  ASSUME NEW o \in Seq(Bracket), NEW a \in Constants, NEW b \in Constants
  PROVE  After(o, <<a, b>>) = ReadToken(ReadToken(o, a), b)
<1> DEFINE u == <<a>>
<1>1. u \in Seq(Constants) /\ Append(u, b) = Two(a, b)
  <2>1. u \in Seq(Constants)
    OBVIOUS
  <2>2. Append(u, b) = Two(a, b)
    BY TwoIs
  <2> QED BY <2>1, <2>2
<1>2. After(o, u) = ReadToken(o, a)
  BY AfterOne
<1> HIDE DEF u
<1>3. After(o, Append(u, b)) = ReadToken(After(o, u), b)
  BY <1>1, AfterAppend
<1> QED BY <1>1, <1>2, <1>3 DEF Two

LEMMA LevelTwo ==
  ASSUME NEW d \in Levels, NEW a \in Tokens, NEW b \in Tokens
  PROVE  Run(LevelStep, d, <<a, b>>) = LevelStep[<<LevelStep[<<d, a>>], b>>]
BY RunTwo

\* A negation of an operand's value.
LEMMA NegatedOperand ==
  ASSUME NEW b \in Bracket, NEW v \in {0, 1}
  PROVE  Operand([b EXCEPT !.negated = 1 - @], v) = Operand(b, 1 - v)
<1> DEFINE c == [b EXCEPT !.negated = 1 - @]
<1>1. c \in Bracket /\ c.negated = 1 - b.negated /\ c.ands = b.ands /\ c.ors = b.ors /\ b.negated \in {0, 1}
  BY DEF Bracket
<1> HIDE DEF c
<1>2. \A d \in Bracket : \A w \in {0, 1} :
        /\ Operand(d, w) \in Bracket /\ Operand(d, w).ors = d.ors
        /\ Operand(d, w).ands = IF d.ands = 1 /\ w # d.negated THEN 1 ELSE 0
        /\ Operand(d, w).negated = 0 /\ Operand(d, w).expected = "operator"
  BY DEF Operand, Bracket
<1>3. (v # 1 - b.negated) <=> (1 - v # b.negated)
  BY <1>1
<1>4. 1 - v \in {0, 1}
  OBVIOUS
<1> DEFINE x == Operand(c, v)
           y == Operand(b, 1 - v)
<1>5. x \in Bracket /\ y \in Bracket /\ x.ors = y.ors /\ x.ands = y.ands /\ x.negated = y.negated
      /\ x.expected = y.expected
  BY <1>1, <1>2, <1>3, <1>4
<1> HIDE DEF x, y
<1>6. x = y
  BY <1>5 DEF Bracket
<1> QED BY <1>6 DEF x, y, c

\* What is open where nothing, an operator or an operand is expected.
LEMMA OpenCases ==
  ASSUME NEW o \in Seq(Bracket)
  PROVE  \/ o = <<>>
         \/ \E b \in Bracket : \E outer \in Seq(Bracket) : o = Push(b, outer) /\ b.expected \in {"operand", "operator"}
<1>1. CASE o # <<>>
  <2>1. Head(o) \in Bracket /\ Tail(o) \in Seq(Bracket) /\ o = Push(Head(o), Tail(o))
    BY <1>1, FirstAndOthers
  <2> DEFINE b == Head(o)
  <2>2. b \in Bracket
    BY <2>1
  <2> HIDE DEF b
  <2>3. b.expected \in {"operand", "operator"}
    BY <2>2 DEF Bracket
  <2> QED BY <2>1, <2>3 DEF b
<1> QED BY <1>1

\* Where no operand is expected a text that begins with ! or a value is an error.
LEMMA NotExpected ==
  ASSUME NEW o \in Seq(Bracket), NEW t \in Booleans \cup {"!"},
         o = <<>> \/ \E b \in Bracket : \E outer \in Seq(Bracket) : o = Push(b, outer) /\ b.expected = "operator"
  PROVE  ReadToken(o, t) = <<>>
<1>1. CASE o = <<>>
  BY <1>1, ReadNothing
<1>2. ASSUME NEW b \in Bracket, NEW outer \in Seq(Bracket), o = Push(b, outer), b.expected = "operator"
      PROVE  ReadToken(o, t) = <<>>
  <2>1. t \notin {"&", "|", "(", ")"}
    BY DEF Booleans
  <2>2. ~Changes(b, t) /\ ~Opens(b, t) /\ ~Closes(b, t)
    BY <1>2, <2>1 DEF Changes, Opens, Closes
  <2> QED BY <1>2, <2>2, ReadIs
<1> QED BY <1>1, <1>2

\* Where an operand is expected: a value, a negation and a bracket.
LEMMA Expected ==
  ASSUME NEW b \in Bracket, NEW outer \in Seq(Bracket), b.expected = "operand"
  PROVE  /\ \A t \in Booleans : ReadToken(Push(b, outer), t) = Push(Operand(b, Bit(t)), outer)
         /\ ReadToken(Push(b, outer), "!") = Push([b EXCEPT !.negated = 1 - @], outer)
         /\ ReadToken(Push(b, outer), "(") = Push(Empty, Push(b, outer))
<1>1. ASSUME NEW t \in Booleans PROVE ReadToken(Push(b, outer), t) = Push(Operand(b, Bit(t)), outer)
  <2>1. Changes(b, t) /\ t # "!"
    BY DEF Changes, Booleans
  <2>2. Changed(b, t) = Operand(b, Bit(t))
    BY <2>1 DEF Changed
  <2> QED BY <2>1, <2>2, ReadIs
<1>2. ReadToken(Push(b, outer), "!") = Push([b EXCEPT !.negated = 1 - @], outer)
  <2> DEFINE t == "!"
  <2>1. Changes(b, t)
    BY DEF Changes
  <2>2. Changed(b, t) = [b EXCEPT !.negated = 1 - @]
    BY DEF Changed
  <2> HIDE DEF t
  <2>3. ReadToken(Push(b, outer), t) = Push(Changed(b, t), outer)
    BY <2>1, ReadIs
  <2> QED BY <2>2, <2>3 DEF t
<1>3. ReadToken(Push(b, outer), "(") = Push(Empty, Push(b, outer))
  <2>1. Opens(b, "(")
    BY DEF Opens
  <2> QED BY <2>1, ReadIs
<1> QED BY <1>1, <1>2, <1>3

\* The value of a text alone, and what stands for its negation.
Not(t) == IF t = "true" THEN "false" ELSE "true"

LEMMA NegatedValue ==
  ASSUME NEW o \in Seq(Bracket), NEW t \in Booleans
  PROVE  After(o, <<"!", t>>) = After(o, <<Not(t)>>)
<1>0. t \in Constants /\ Not(t) \in Constants /\ Not(t) \in Booleans /\ "!" \in Constants
  BY TokensAreConstants DEF Not, Booleans
<1>1. After(o, <<Not(t)>>) = ReadToken(o, Not(t))
  BY <1>0, AfterOne
<1>2. After(o, <<"!", t>>) = ReadToken(ReadToken(o, "!"), t)
  BY <1>0, AfterTwo
<1>3. CASE o = <<>> \/ \E b \in Bracket : \E outer \in Seq(Bracket) : o = Push(b, outer) /\ b.expected = "operator"
  <2>1. ReadToken(o, Not(t)) = <<>>
    BY <1>0, <1>3, NotExpected
  <2>2. ReadToken(o, "!") = <<>>
    BY <1>3, NotExpected
  <2> QED BY <1>1, <1>2, <2>1, <2>2, ReadNothing
<1>4. ASSUME NEW b \in Bracket, NEW outer \in Seq(Bracket), o = Push(b, outer), b.expected = "operand"
      PROVE  After(o, <<"!", t>>) = After(o, <<Not(t)>>)
  <2> DEFINE c == [b EXCEPT !.negated = 1 - @]
  <2>1. c \in Bracket /\ c.expected = "operand"
    BY <1>4, BracketTypes
  <2>2. ReadToken(o, "!") = Push(c, outer)
    BY <1>4, Expected
  <2>3. ReadToken(o, Not(t)) = Push(Operand(b, Bit(Not(t))), outer)
    BY <1>0, <1>4, Expected
  <2>4. Operand(c, Bit(t)) = Operand(b, 1 - Bit(t))
    <3>1. Bit(t) \in {0, 1}
      BY DEF Bit
    <3> QED BY <3>1, NegatedOperand
  <2> HIDE DEF c
  <2>5. ReadToken(Push(c, outer), t) = Push(Operand(c, Bit(t)), outer)
    BY <2>1, Expected
  <2>6. Bit(Not(t)) = 1 - Bit(t)
    BY DEF Bit, Not, Booleans
  <2> QED BY <1>1, <1>2, <2>2, <2>3, <2>4, <2>5, <2>6
<1> QED BY <1>3, <1>4, OpenCases

\* Brackets that mean something alone can stand negated for the opposite.
LEMMA NegatedAround ==
  ASSUME NEW o \in Seq(Bracket), NEW x \in Seq(Constants), NEW b \in Bracket, b.expected = "operator",
         After(Outermost, x) = <<b>>
  PROVE  After(o, Around(x)) = After(o, <<ToBoolean(Value(b) # 1)>>)
<1> DEFINE t == ToBoolean(Value(b) # 1)
           c == <<")">>
<1>0. t \in Constants /\ t \in Booleans /\ "!" \in Constants /\ "(" \in Constants /\ ")" \in Constants
      /\ c \in Seq(Constants)
  BY TokensAreConstants DEF ToBoolean, Booleans
<1> HIDE DEF t, c
<1>1. After(o, <<t>>) = ReadToken(o, t)
  BY <1>0, AfterOne
<1> DEFINE p == ReadToken(ReadToken(o, "!"), "(")
<1>2. p \in Seq(Bracket) /\ After(o, Around(x)) = ReadToken(After(p, x), ")")
  <2>1. ReadToken(o, "!") \in Seq(Bracket) /\ p \in Seq(Bracket)
    BY ReadType
  <2>2. After(o, NegatedBracket) = p
    BY <1>0, AfterTwo DEF NegatedBracket
  <2> HIDE DEF p
  <2>3. Around(x) = Over(NegatedBracket, Over(x, c))
    BY AroundIs DEF c
  <2>4. After(p, Over(x, c)) = After(After(p, x), c) /\ Over(x, c) \in Seq(Constants)
    BY <1>0, AfterOver
  <2>5. After(o, Over(NegatedBracket, Over(x, c))) = After(After(o, NegatedBracket), Over(x, c))
    <3>1. NegatedBracket \in Seq(Constants)
      BY NegatedBracketIs
    <3> QED BY <2>4, <3>1, AfterOver
  <2>6. After(p, x) \in Seq(Bracket)
    BY <2>1, AfterType
  <2>7. After(After(p, x), c) = ReadToken(After(p, x), ")")
    BY <1>0, <2>6, AfterOne DEF c
  <2> QED BY <2>1, <2>2, <2>3, <2>4, <2>5, <2>7
<1>3. CASE o = <<>> \/ \E d \in Bracket : \E outer \in Seq(Bracket) : o = Push(d, outer) /\ d.expected = "operator"
  <2>1. ReadToken(o, t) = <<>>
    BY <1>0, <1>3, NotExpected
  <2>2. ReadToken(o, "!") = <<>>
    BY <1>3, NotExpected
  <2>3. p = <<>>
    BY <2>2, ReadNothing
  <2>4. After(p, x) = <<>>
    BY <2>3, AfterError
  <2> HIDE DEF p
  <2>5. ReadToken(After(p, x), ")") = <<>>
    BY <2>4, ReadNothing
  <2> QED BY <1>1, <1>2, <2>1, <2>5 DEF t
<1>4. ASSUME NEW d \in Bracket, NEW outer \in Seq(Bracket), o = Push(d, outer), d.expected = "operand"
      PROVE  After(o, Around(x)) = After(o, <<ToBoolean(Value(b) # 1)>>)
  <2> DEFINE n == [d EXCEPT !.negated = 1 - @]
             r == Push(n, outer)
  <2>1. n \in Bracket /\ n.expected = "operand"
    BY <1>4, BracketTypes
  <2>2. ReadToken(o, "!") = Push(n, outer)
    BY <1>4, Expected
  <2>3. ReadToken(o, t) = Push(Operand(d, Bit(t)), outer)
    BY <1>0, <1>4, Expected
  <2>4. Value(b) \in {0, 1}
    BY BracketTypes
  <2>5. Operand(n, Value(b)) = Operand(d, 1 - Value(b))
    BY <2>4, NegatedOperand
  <2>6. 1 - Value(b) = Bit(t)
    BY <2>4 DEF t, Bit, ToBoolean
  <2> HIDE DEF n
  <2>7. r \in Seq(Bracket) /\ r # <<>> /\ Head(r) = n /\ Tail(r) = outer
    BY <2>1, OneBefore
  <2>8. p = Push(Empty, r)
    <3>1. ReadToken(Push(n, outer), "(") = Push(Empty, Push(n, outer))
      BY <2>1, Expected
    <3> QED BY <2>2, <3>1
  <2> HIDE DEF r
  <2>9. p = Over(Outermost, r)
    BY <2>8 DEF Push, Over, Outermost
  <2>10. After(Over(Outermost, r), x) = Over(After(Outermost, x), r)
    <3>1. Outermost \in Seq(Bracket) /\ Outermost # <<>>
      BY OutermostIs
    <3>2. After(Outermost, x) # <<>>
      OBVIOUS
    <3> QED BY <2>7, <3>1, <3>2, AfterLocal
  <2>11. After(p, x) = Push(b, r)
    BY <2>9, <2>10 DEF Over, Push
  <2>12. ReadToken(Push(b, r), ")") = Push(Operand(Head(r), Value(b)), Tail(r))
    <3>1. Closes(b, ")")
      BY DEF Closes
    <3> QED BY <2>7, <3>1, ReadIs
  <2> HIDE DEF p
  <2>13. After(o, Around(x)) = Push(Operand(n, Value(b)), outer)
    BY <1>2, <2>7, <2>11, <2>12
  <2> QED BY <1>1, <2>3, <2>5, <2>6, <2>13 DEF t
<1> QED BY <1>3, <1>4, OpenCases

LEMMA BalancedIs ==
  ASSUME NEW x \in Seq(Tokens), Balanced(x)
  PROVE  \A d \in Levels : Run(LevelStep, d, x) = d
<1>1. Run(LevelStep, -1, x) = -1 /\ Run(LevelStep, 0, x) = 0
  BY LevelFacts DEF Balanced
<1>2. ASSUME NEW d \in Nat PROVE Run(LevelStep, d, x) = d
  <2>1. \A c, m \in Nat : Run(LevelStep, c, x) # -1 => Run(LevelStep, c + m, x) = Run(LevelStep, c, x) + m
    BY LevelFacts
  <2>2. Run(LevelStep, 0 + d, x) = Run(LevelStep, 0, x) + d
    BY <1>1, <2>1
  <2> QED BY <1>1, <2>2
<1> QED BY <1>1, <1>2 DEF Levels

LEMMA LevelAround ==
  ASSUME NEW x \in Seq(Constants), Balanced(x)
  PROVE  \A d \in Levels : Run(LevelStep, d, Around(x)) = d
<1> DEFINE c == <<")">>
<1>0. "!" \in Tokens /\ "(" \in Tokens /\ ")" \in Tokens /\ c \in Seq(Tokens) /\ NegatedBracket \in Seq(Tokens)
      /\ x \in Seq(Tokens)
  <2>1. NegatedBracket \in Seq(Tokens)
    BY NegatedBracketIs, ConstantsAreTokens
  <2>2. x \in Seq(Tokens)
    BY ConstantsAreTokens
  <2> QED BY <2>1, <2>2, TokensAreConstants
<1>1. Delta("!") = 0 /\ Delta("(") = 1 /\ Delta(")") = -1
  BY DEF Delta
<1> SUFFICES ASSUME NEW d \in Levels PROVE Run(LevelStep, d, Around(x)) = d
  OBVIOUS
<1>2. Run(LevelStep, d, NegatedBracket) = LevelStep[<<LevelStep[<<d, "!">>], "(">>]
  BY <1>0, LevelTwo DEF NegatedBracket
<1> DEFINE e == IF d = -1 THEN -1 ELSE d + 1
<1>3. e \in Levels /\ Run(LevelStep, d, NegatedBracket) = e
  <2>1. LevelStep[<<d, "!">>] = d
    BY <1>0, <1>1, LevelStepIs DEF Levels
  <2>2. LevelStep[<<d, "(">>] = e
    BY <1>0, <1>1, LevelStepIs
  <2> QED BY <1>2, <2>1, <2>2 DEF Levels
<1>4. Run(LevelStep, e, x) = e
  <2> HIDE DEF e
  <2> QED BY <1>0, <1>3, BalancedIs
<1>5. Run(LevelStep, e, c) = d
  <2>1. Run(LevelStep, e, c) = LevelStep[<<e, ")">>]
    BY <1>0, RunOne
  <2>2. LevelStep[<<e, ")">>] = IF e = -1 THEN -1 ELSE e + Delta(")")
    <3> HIDE DEF e
    <3> QED BY <1>0, <1>3, LevelStepIs
  <2> QED BY <1>1, <2>1, <2>2 DEF Levels
<1> HIDE DEF e, c
<1>6. Around(x) = Over(NegatedBracket, Over(x, c))
  BY AroundIs DEF c
<1>7. Run(LevelStep, e, Over(x, c)) = Run(LevelStep, Run(LevelStep, e, x), c) /\ Over(x, c) \in Seq(Tokens)
  BY <1>0, RunOver
<1>8. Run(LevelStep, d, Over(NegatedBracket, Over(x, c))) = Run(LevelStep, Run(LevelStep, d, NegatedBracket), Over(x, c))
  BY <1>0, <1>7, RunOver
<1> QED BY <1>3, <1>4, <1>5, <1>6, <1>7, <1>8

-----------------------------------------------------------------------------
(* What negated brackets are around.                                       *)

LEMMA PartIs ==
  ASSUME NEW A, NEW x \in Seq(A), NEW i \in 0..Len(x), NEW j \in i..Len(x)
  PROVE  /\ SubSeq(x, i + 1, j) \in Seq(A) /\ Len(SubSeq(x, i + 1, j)) = j - i
         /\ \A k \in 1..(j - i) : SubSeq(x, i + 1, j)[k] = x[i + k]
<1>0. i \in Nat /\ j \in Nat /\ i <= j /\ j <= Len(x) /\ Len(x) \in Nat
  OBVIOUS
<1>1. SubSeq(x, i + 1, j) \in Seq(A) /\ Len(SubSeq(x, i + 1, j)) = j - i
  BY <1>0
<1>2. ASSUME NEW k \in 1..(j - i) PROVE SubSeq(x, i + 1, j)[k] = x[i + k]
  BY <1>0
<1> QED BY <1>1, <1>2

IsPart(A, v, x, i, j) ==
  v \in Seq(A) /\ Len(v) = j - i /\ \A k \in 1..(j - i) : v[k] = x[i + k]

LEMMA PartFits ==
  ASSUME NEW A, NEW x \in Seq(A), NEW i \in 0..Len(x), NEW j \in i..Len(x)
  PROVE  IsPart(A, SubSeq(x, i + 1, j), x, i, j)
BY PartIs DEF IsPart

\* Equal where they have the same tokens.
LEMMA SameTokens ==
  ASSUME NEW A, NEW x \in Seq(A), NEW y \in Seq(A), NEW n \in Nat, Len(x) = n, Len(y) = n,
         \A k \in 1..n : x[k] = y[k]
  PROVE  x = y
BY SeqEqual

\* The tokens of one text after those of another.
Joined(A, x, y, w) ==
  /\ w \in Seq(A) /\ Len(w) = Len(x) + Len(y)
  /\ \A k \in 1..Len(x) : w[k] = x[k]
  /\ \A k \in 1..Len(y) : w[Len(x) + k] = y[k]

LEMMA OverElements ==
  ASSUME NEW A, NEW x \in Seq(A), NEW y \in Seq(A)
  PROVE  Joined(A, x, y, Over(x, y))
<1> DEFINE w == x \o y
<1>0. Len(x) \in Nat /\ Len(y) \in Nat
  OBVIOUS
<1>1. w \in Seq(A) /\ Len(w) = Len(x) + Len(y)
      /\ \A i \in 1..(Len(x) + Len(y)) : w[i] = IF i <= Len(x) THEN x[i] ELSE y[i - Len(x)]
  BY ConcatProperties
<1> HIDE DEF w
<1>2. ASSUME NEW k \in 1..Len(x) PROVE w[k] = x[k]
  <2>1. k \in 1..(Len(x) + Len(y)) /\ k <= Len(x)
    BY <1>0
  <2> QED BY <1>1, <2>1
<1>3. ASSUME NEW k \in 1..Len(y) PROVE w[Len(x) + k] = y[k]
  <2>1. Len(x) + k \in 1..(Len(x) + Len(y)) /\ ~(Len(x) + k <= Len(x)) /\ Len(x) + k - Len(x) = k
    BY <1>0
  <2> QED BY <1>1, <2>1
<1> QED BY <1>1, <1>2, <1>3 DEF w, Over, Joined

LEMMA PartsJoin ==
  ASSUME NEW A, NEW x \in Seq(A), NEW h \in 0..Len(x), NEW i \in h..Len(x), NEW j \in i..Len(x)
  PROVE  SubSeq(x, h + 1, j) = Over(SubSeq(x, h + 1, i), SubSeq(x, i + 1, j))
<1> DEFINE u == SubSeq(x, h + 1, i)
           v == SubSeq(x, i + 1, j)
           w == SubSeq(x, h + 1, j)
           o == Over(u, v)
<1>0. h \in Nat /\ i \in Nat /\ j \in Nat /\ h <= i /\ i <= j /\ j <= Len(x) /\ i \in 0..Len(x) /\ j \in h..Len(x)
      /\ Len(x) \in Nat
  OBVIOUS
<1>1. u \in Seq(A) /\ Len(u) = i - h /\ \A k \in 1..(i - h) : u[k] = x[h + k]
  BY PartIs
<1>2. v \in Seq(A) /\ Len(v) = j - i /\ \A k \in 1..(j - i) : v[k] = x[i + k]
  BY <1>0, PartIs
<1>3. w \in Seq(A) /\ Len(w) = j - h /\ \A k \in 1..(j - h) : w[k] = x[h + k]
  BY <1>0, PartIs
<1> HIDE DEF u, v, w
<1>4. /\ o \in Seq(A) /\ Len(o) = Len(u) + Len(v)
      /\ \A k \in 1..Len(u) : o[k] = u[k]
      /\ \A k \in 1..Len(v) : o[Len(u) + k] = v[k]
  <2>1. Joined(A, u, v, o)
    BY <1>1, <1>2, OverElements
  <2> HIDE DEF o
  <2> QED BY <2>1 DEF Joined
<1> HIDE DEF o
<1>5. ASSUME NEW k \in 1..(j - h) PROVE w[k] = o[k]
  <2>1. CASE k <= i - h
    <3>1. k \in 1..(i - h)
      BY <1>0, <2>1
    <3> QED BY <1>1, <1>3, <1>4, <3>1
  <2>2. CASE ~(k <= i - h)
    <3>1. k - (i - h) \in 1..(j - i) /\ Len(u) + (k - (i - h)) = k /\ i + (k - (i - h)) = h + k
      BY <1>0, <1>1, <2>2
    <3>2. o[k] = v[k - (i - h)]
      BY <1>2, <1>4, <3>1
    <3> QED BY <1>2, <1>3, <3>1, <3>2
  <2> QED BY <2>1, <2>2
<1>6. Len(o) = j - h /\ j - h \in Nat
  BY <1>0, <1>1, <1>2, <1>4
<1>7. w = o
  BY <1>3, <1>4, <1>5, <1>6, SameTokens
<1> QED BY <1>7 DEF u, v, w, o

\* How deep a text is after each of its tokens.
Depths(x, D) ==
  /\ D \in [0..Len(x) -> Int] /\ D[0] = 0
  /\ \A n \in 1..Len(x) : D[n] = D[n - 1] + Delta(x[n])
  /\ \A n \in 0..Len(x) : Depth(x, n + 1) = D[n]
  /\ \A i \in 0..Len(x) : \A j \in i..Len(x) : Run(DepthStep, 0, SubSeq(x, i + 1, j)) = D[j] - D[i]

LEMMA DepthType == ASSUME NEW x \in Seq(Tokens) PROVE Run(DepthStep, 0, x) \in Int
<1>1. 0 \in Int
  OBVIOUS
<1> QED BY <1>1, DepthStepIs, RunType

LEMMA DepthsOf == ASSUME NEW x \in Seq(Tokens) PROVE \E D : Depths(x, D)
<1> DEFINE N == Len(x)
           D == [n \in 0..N |-> Run(DepthStep, 0, SubSeq(x, 1, n))]
<1>0. N \in Nat /\ N = Len(x) /\ 0 \in 0..N
  OBVIOUS
<1> HIDE DEF N
<1>01. \A n \in 0..N : D[n] = Run(DepthStep, 0, SubSeq(x, 1, n))
  OBVIOUS
<1>02. \A n \in 0..N : SubSeq(x, 1, n) \in Seq(Tokens)
  BY <1>0, CutIn
<1>1. \A n \in 0..N : D[n] \in Int
  <2>1. \A y \in Seq(Tokens) : Run(DepthStep, 0, y) \in Int
    BY DepthType
  <2> QED BY <1>01, <1>02, <2>1
<1>2. D[0] = 0
  <2>1. SubSeq(x, 1, 0) = <<>>
    OBVIOUS
  <2>2. Run(DepthStep, 0, <<>>) = 0
    BY RunNothing
  <2> QED BY <1>0, <1>01, <2>1, <2>2
<1>3. \A n \in 0..N : Depth(x, n + 1) = D[n]
  BY <1>0, <1>01, DepthIs
<1>4. ASSUME NEW i \in 0..N, NEW j \in i..N PROVE Run(DepthStep, 0, SubSeq(x, i + 1, j)) = D[j] - D[i]
  <2>1. i \in 0..Len(x) /\ j \in i..Len(x) /\ j \in 0..N /\ 0 \in 0..Len(x) /\ i \in 0..N
    BY <1>0
  <2> DEFINE u == SubSeq(x, 1, i)
             v == SubSeq(x, i + 1, j)
             w == SubSeq(x, 1, j)
  <2>2. w = Over(u, v)
    <3>1. SubSeq(x, 0 + 1, j) = Over(SubSeq(x, 0 + 1, i), SubSeq(x, i + 1, j))
      BY <2>1, PartsJoin
    <3> QED BY <3>1
  <2>3. u \in Seq(Tokens) /\ v \in Seq(Tokens)
    BY <1>02, <2>1, PartIs
  <2>4. D[i] = Run(DepthStep, 0, u) /\ D[j] = Run(DepthStep, 0, w) /\ D[i] \in Int /\ D[j] \in Int
    BY <1>01, <1>1, <2>1
  <2> HIDE DEF u, v, w, D
  <2>5. Run(DepthStep, 0, Over(u, v)) = Run(DepthStep, Run(DepthStep, 0, u), v)
    BY <2>3, RunOver
  <2>6. Run(DepthStep, D[i], v) = D[i] + Run(DepthStep, 0, v)
    BY <2>3, <2>4, LevelFacts
  <2>7. Run(DepthStep, 0, v) \in Int
    BY <2>3, DepthType
  <2>8. Run(DepthStep, 0, v) = D[j] - D[i]
    BY <2>2, <2>4, <2>5, <2>6, <2>7
  <2> QED BY <2>8 DEF v
<1>5. ASSUME NEW n \in 1..N PROVE D[n] = D[n - 1] + Delta(x[n])
  <2>1. n - 1 \in 0..N /\ n \in 0..N /\ n - 1 \in 0..Len(x) /\ x[n] \in Tokens /\ n \in Nat /\ n - 1 \in Nat
    BY <1>0
  <2> DEFINE u == SubSeq(x, 1, n - 1)
  <2>2. SubSeq(x, 1, n) = Append(u, x[n])
    BY <1>0, <2>1
  <2>3. u \in Seq(Tokens)
    BY <1>02, <2>1
  <2>4. D[n - 1] = Run(DepthStep, 0, u) /\ D[n] = Run(DepthStep, 0, Append(u, x[n]))
    BY <1>01, <2>1, <2>2
  <2> HIDE DEF u, D
  <2>5. Run(DepthStep, 0, Append(u, x[n])) = Run(DepthStep, 0, u) + Delta(x[n])
    BY <2>1, <2>3, DepthAppend
  <2> QED BY <2>4, <2>5
<1>6. D \in [0..N -> Int]
  BY <1>1
<1> HIDE DEF D
<1>7. Depths(x, D)
  BY <1>0, <1>2, <1>3, <1>4, <1>5, <1>6 DEF Depths
<1> QED BY <1>7

LEMMA BalancedDepths ==
  ASSUME NEW x \in Seq(Tokens), Balanced(x), NEW D, Depths(x, D)
  PROVE  D[Len(x)] = 0 /\ \A n \in 0..Len(x) : D[n] >= 0
<1>0. Len(x) \in Nat /\ 0 \in 0..Len(x)
  OBVIOUS
<1>1. ASSUME NEW n \in 0..Len(x) PROVE D[n] = Run(LevelStep, 0, SubSeq(x, 1, n)) /\ D[n] >= 0
  <2> DEFINE u == SubSeq(x, 1, n)
  <2>1. u \in Seq(Tokens)
    BY CutIn
  <2>2. Run(LevelStep, 0, u) # -1
    <3>1. Run(LevelStep, 0, x) # -1
      BY DEF Balanced
    <3> QED BY <3>1, LevelPrefix
  <2>3. D[n] = Run(DepthStep, 0, u)
    <3>1. n \in 0..Len(x) /\ n \in Nat
      OBVIOUS
    <3>2. Run(DepthStep, 0, SubSeq(x, 0 + 1, n)) = D[n] - D[0]
      BY <1>0, <3>1 DEF Depths
    <3>3. D[0] = 0 /\ D[n] \in Int
      BY DEF Depths
    <3> QED BY <3>2, <3>3
  <2> HIDE DEF u
  <2>4. Run(DepthStep, 0, u) = Run(LevelStep, 0, u) - 0
    <3>1. 0 \in Nat
      OBVIOUS
    <3> QED BY <2>1, <2>2, <3>1, LevelFacts
  <2>5. Run(LevelStep, 0, u) \in Nat
    <3>1. 0 \in Levels
      BY DEF Levels
    <3>2. Run(LevelStep, 0, u) \in Levels
      BY <2>1, <3>1, LevelType
    <3> QED BY <2>2, <3>2 DEF Levels
  <2>6. D[n] = Run(LevelStep, 0, u) /\ D[n] >= 0
    BY <2>3, <2>4, <2>5
  <2> QED BY <2>6 DEF u
<1>2. SubSeq(x, 1, Len(x)) = x /\ Len(x) \in 0..Len(x)
  OBVIOUS
<1>3. D[Len(x)] = 0
  BY <1>1, <1>2 DEF Balanced
<1> QED BY <1>1, <1>3

LEMMA AroundElements ==
  ASSUME NEW x \in Seq(Constants)
  PROVE  /\ Around(x)[1] = "!" /\ Around(x)[2] = "(" /\ Around(x)[Len(x) + 3] = ")"
         /\ \A k \in 1..Len(x) : Around(x)[k + 2] = x[k]
<1> DEFINE c == <<")">>
           b == NegatedBracket
           v == Over(x, c)
           w == Over(b, v)
<1>0. Len(x) \in Nat
  OBVIOUS
<1>1. c \in Seq(Constants) /\ Len(c) = 1 /\ c[1] = ")"
  BY TokensAreConstants
<1>2. b \in Seq(Constants) /\ Len(b) = 2 /\ b[1] = "!" /\ b[2] = "("
  BY NegatedBracketIs
<1>3. Around(x) = w
  BY AroundIs
<1> HIDE DEF b, c
<1>4. v \in Seq(Constants) /\ Len(v) = Len(x) + Len(c)
      /\ (\A k \in 1..Len(x) : v[k] = x[k]) /\ \A k \in 1..Len(c) : v[Len(x) + k] = c[k]
  <2>1. Joined(Constants, x, c, v)
    BY <1>1, OverElements
  <2> HIDE DEF v
  <2> QED BY <2>1 DEF Joined
<1> HIDE DEF v
<1>5. w \in Seq(Constants) /\ Len(w) = Len(b) + Len(v)
      /\ (\A k \in 1..Len(b) : w[k] = b[k]) /\ \A k \in 1..Len(v) : w[Len(b) + k] = v[k]
  <2>1. Joined(Constants, b, v, w)
    BY <1>2, <1>4, OverElements
  <2> HIDE DEF w
  <2> QED BY <2>1 DEF Joined
<1> HIDE DEF w
<1>6. w[1] = "!" /\ w[2] = "("
  BY <1>2, <1>5
<1>7. ASSUME NEW k \in 1..Len(x) PROVE w[k + 2] = x[k]
  <2>1. k \in 1..Len(v) /\ Len(b) + k = k + 2
    BY <1>0, <1>1, <1>2, <1>4
  <2> QED BY <1>4, <1>5, <2>1
<1>8. w[Len(x) + 3] = ")"
  <2>1. Len(x) + 1 \in 1..Len(v) /\ Len(b) + (Len(x) + 1) = Len(x) + 3 /\ 1 \in 1..Len(c)
    BY <1>0, <1>1, <1>2, <1>4
  <2>2. v[Len(x) + 1] = c[1]
    BY <1>4, <2>1
  <2>3. w[Len(b) + (Len(x) + 1)] = v[Len(x) + 1]
    BY <1>5, <2>1
  <2> QED BY <1>1, <2>1, <2>2, <2>3
<1> QED BY <1>3, <1>6, <1>7, <1>8

\* A depth that gets down to d from above gets there with a closing bracket.
LEMMA GetsDown ==
  ASSUME NEW x \in Seq(Tokens), NEW D, Depths(x, D), NEW i \in 0..Len(x), NEW d \in Int, D[i] > d,
         NEW j \in i..Len(x), D[j] <= d
  PROVE  \E n \in (i + 1)..j : /\ x[n] = ")" /\ D[n - 1] = d + 1 /\ D[n] = d
                               /\ \A k \in i..(n - 1) : D[k] > d
<1>0. Len(x) \in Nat /\ i \in Nat /\ j \in Nat /\ i <= j /\ j <= Len(x)
  OBVIOUS
<1> DEFINE T == {k \in i..j : D[k] <= d}
<1>1. PICK n \in T : \A k \in T : n <= k
  <2>1. T \in SUBSET Nat /\ T # {}
    BY <1>0
  <2> HIDE DEF T
  <2> QED BY <2>1, Smallest
<1>2. n \in i..j /\ D[n] <= d /\ n # i
  <2>1. D[i] \in Int
    BY DEF Depths
  <2>2. n \in i..j /\ D[n] <= d
    BY <1>1
  <2> QED BY <2>1, <2>2
<1>3. \A k \in i..(n - 1) : D[k] > d
  <2>1. \A k \in 0..Len(x) : D[k] \in Int
    BY DEF Depths
  <2>2. ASSUME NEW k \in i..(n - 1) PROVE D[k] > d
    <3>1. k \in i..j /\ ~(n <= k) /\ k \in 0..Len(x)
      BY <1>0, <1>2
    <3>2. ~(D[k] <= d)
      BY <1>1, <3>1
    <3> QED BY <2>1, <3>1, <3>2
  <2> QED BY <2>2
<1> HIDE DEF T
<1>4. n \in 1..Len(x) /\ n - 1 \in i..(n - 1) /\ n \in (i + 1)..j /\ n \in 0..Len(x) /\ n - 1 \in 0..Len(x)
  BY <1>0, <1>2
<1>5. D[n] = D[n - 1] + Delta(x[n]) /\ D[n] \in Int /\ D[n - 1] \in Int
  BY <1>4 DEF Depths
<1>6. D[n - 1] > d
  BY <1>3, <1>4
<1>7. Delta(x[n]) = -1
  BY <1>2, <1>5, <1>6, DeltaType
<1>8. x[n] = ")"
  BY <1>7 DEF Delta
<1>9. D[n] = d /\ D[n - 1] = d + 1
  BY <1>2, <1>5, <1>6, <1>7
<1> QED BY <1>3, <1>4, <1>8, <1>9

\* Of a text whose brackets are closed, the first negated brackets are around what
\* resolveBracketExpression finds, and their closing bracket is.
InnerOf(x, a, inner, b) ==
  /\ a \in Seq(Constants) /\ b \in Seq(Constants) /\ inner \in Seq(Constants)
  /\ x = Over(a, Over(Around(inner), b)) /\ Balanced(inner)
  /\ Occurrences(Around(inner), x) # {}

LEMMA InnerIs ==
  ASSUME NEW x \in Seq(Constants), Balanced(x), HasNegatedBracket(x)
  PROVE  \E a, b : InnerOf(x, a, resolveBracketExpression(x), b)
<1> DEFINE m == Min(Occurrences(NegatedBracket, x))
           open == m + 1
           closing == ClosingOf(x, open)
           inner == resolveBracketExpression(x)
           N == Len(x)
<1>0. N \in Nat /\ x \in Seq(Tokens) /\ N = Len(x)
  BY ConstantsAreTokens
<1>1. m \in 1..(N - 1) /\ x[m] = "!" /\ x[m + 1] = "("
  <2>1. m \in Occurrences(NegatedBracket, x)
    BY FirstNegated
  <2> HIDE DEF m
  <2> QED BY <2>1, NegatedAt
<1>2. inner = SubSeq(x, open + 1, IF closing = {} THEN N ELSE Min(closing) - 1)
  BY DEF resolveBracketExpression, ClosingOf
<1> HIDE DEF m, inner, N
<1>3. open \in Nat /\ open \in 2..N /\ open - 1 = m /\ m - 1 \in 0..N
  BY <1>0, <1>1
<1>4. x[open] = "(" /\ Delta(x[open]) = 1
  BY <1>1 DEF Delta
<1>5. PICK D : Depths(x, D)
  BY <1>0, DepthsOf
<1>6. D[N] = 0 /\ \A n \in 0..N : D[n] >= 0 /\ D[n] \in Int
  <2>1. D[N] = 0 /\ \A n \in 0..N : D[n] >= 0
    BY <1>0, <1>5, BalancedDepths
  <2>2. \A n \in 0..N : D[n] \in Int
    BY <1>0, <1>5 DEF Depths
  <2> QED BY <2>1, <2>2
<1> HIDE DEF open
<1> DEFINE d == D[open - 1]
<1>7. open - 1 \in 0..N /\ d \in Int /\ d >= 0 /\ D[open] = d + 1 /\ open \in 0..N /\ open \in 1..N
  <2>1. open - 1 \in 0..N /\ open \in 0..N /\ open \in 1..N
    BY <1>0, <1>3
  <2>2. D[open] = D[open - 1] + Delta(x[open])
    BY <1>0, <1>5, <2>1 DEF Depths
  <2> QED BY <1>4, <1>6, <2>1, <2>2
<1>8. \A i \in 1..N : Depth(x, i) = D[i - 1]
  <2>1. \A n \in 0..N : Depth(x, n + 1) = D[n]
    BY <1>0, <1>5 DEF Depths
  <2>2. ASSUME NEW i \in 1..N PROVE Depth(x, i) = D[i - 1]
    <3>1. i - 1 \in 0..N /\ (i - 1) + 1 = i
      BY <1>0
    <3> QED BY <2>1, <3>1
  <2> QED BY <2>2
<1>9. PICK c \in (open + 1)..N : /\ x[c] = ")" /\ D[c - 1] = d + 1 /\ D[c] = d
                                 /\ \A k \in open..(c - 1) : D[k] > d
  <2>1. N \in open..N /\ D[N] <= d /\ D[open] > d
    BY <1>0, <1>3, <1>6, <1>7
  <2> HIDE DEF d
  <2> QED BY <1>0, <1>5, <1>7, <2>1, GetsDown
<1> HIDE DEF d
<1>10. closing = {i \in (open + 1)..N : x[i] = ")" /\ D[i - 1] = d + 1}
  <2>1. Depth(x, open) = d
    BY <1>7, <1>8 DEF d
  <2>2. \A i \in (open + 1)..N : Depth(x, i) = D[i - 1]
    BY <1>0, <1>3, <1>8
  <2> QED BY <1>0, <2>1, <2>2 DEF ClosingOf
<1>11. closing # {} /\ Min(closing) = c
  <2>1. c \in closing
    BY <1>9, <1>10
  <2>2. closing \in SUBSET Nat
    BY <1>0, <1>3, <1>10
  <2>3. Min(closing) \in closing /\ Min(closing) <= c
    <3> HIDE DEF closing
    <3> QED BY <2>1, <2>2, FirstPosition
  <2>4. ~(Min(closing) < c)
    <3> SUFFICES ASSUME Min(closing) < c PROVE FALSE
      OBVIOUS
    <3> DEFINE n == Min(closing)
    <3>1. n \in (open + 1)..N /\ x[n] = ")" /\ D[n - 1] = d + 1
      BY <1>10, <2>3
    <3>2. n \in open..(c - 1) /\ n \in 1..N /\ n \in Nat
      BY <1>0, <1>3, <1>9, <3>1
    <3> HIDE DEF n
    <3>3. D[n] = D[n - 1] + Delta(x[n])
      BY <1>0, <1>5, <3>2 DEF Depths
    <3>4. D[n] = d
      BY <1>7, <3>1, <3>3 DEF Delta
    <3>5. D[n] > d
      BY <1>9, <3>2
    <3> QED BY <1>7, <3>4, <3>5
  <2>5. Min(closing) \in Nat /\ c \in Nat
    BY <1>0, <1>3, <1>9, <2>2, <2>3
  <2> HIDE DEF closing
  <2> QED BY <2>1, <2>3, <2>4, <2>5
<1>12. inner = SubSeq(x, open + 1, c - 1)
  BY <1>2, <1>11
<1> HIDE DEF closing
<1>13. c - 1 \in open..N /\ c \in Nat /\ c \in open..N /\ c \in 0..N /\ m - 1 \in 0..c /\ c \in (m - 1)..N
  BY <1>0, <1>3, <1>9
<1>14. inner \in Seq(Constants) /\ Len(inner) = (c - 1) - open /\ \A k \in 1..((c - 1) - open) : inner[k] = x[open + k]
  BY <1>0, <1>7, <1>12, <1>13, PartIs
<1> DEFINE part == SubSeq(x, m, c)
<1>15. part \in Seq(Constants) /\ Len(part) = c - (m - 1) /\ \A k \in 1..(c - (m - 1)) : part[k] = x[(m - 1) + k]
  <2>1. (m - 1) + 1 = m
    BY <1>1, <1>3
  <2>2. SubSeq(x, (m - 1) + 1, c) \in Seq(Constants) /\ Len(SubSeq(x, (m - 1) + 1, c)) = c - (m - 1)
         /\ \A k \in 1..(c - (m - 1)) : SubSeq(x, (m - 1) + 1, c)[k] = x[(m - 1) + k]
    <3> DEFINE h == m - 1
    <3>1. h \in 0..Len(x) /\ c \in h..Len(x)
      BY <1>0, <1>3, <1>13
    <3> HIDE DEF h
    <3>2. SubSeq(x, h + 1, c) \in Seq(Constants) /\ Len(SubSeq(x, h + 1, c)) = c - h
         /\ \A k \in 1..(c - h) : SubSeq(x, h + 1, c)[k] = x[h + k]
      BY <3>1, PartIs
    <3> QED BY <3>2 DEF h
  <2> QED BY <2>1, <2>2
<1> HIDE DEF part
<1>16. part = Around(inner)
  <2>1. Len(Around(inner)) = Len(inner) + 3 /\ Around(inner) \in Seq(Constants)
    BY <1>14, AroundIs
  <2>2. Around(inner)[1] = "!" /\ Around(inner)[2] = "(" /\ Around(inner)[Len(inner) + 3] = ")"
         /\ \A k \in 1..Len(inner) : Around(inner)[k + 2] = inner[k]
    BY <1>14, AroundElements
  <2>3. Len(inner) + 3 = c - (m - 1) /\ Len(inner) \in Nat /\ m \in Nat
    BY <1>0, <1>1, <1>3, <1>9, <1>14
  <2> DEFINE n == c - (m - 1)
             y == Around(inner)
  <2> HIDE DEF y
  <2>4. ASSUME NEW k \in 1..n PROVE part[k] = y[k]
    <3>1. part[k] = x[(m - 1) + k] /\ k \in Nat
      BY <1>15, <2>3
    <3>2. CASE k = 1
      <4>1. (m - 1) + 1 = m
        BY <2>3
      <4> QED BY <1>1, <2>2, <3>1, <3>2, <4>1 DEF y
    <3>3. CASE k = 2
      <4>1. (m - 1) + 2 = m + 1
        BY <2>3
      <4> QED BY <1>1, <2>2, <3>1, <3>3, <4>1 DEF y
    <3>4. CASE k = n
      <4>1. (m - 1) + n = c
        BY <2>3, <1>13
      <4>2. part[k] = ")"
        BY <1>9, <3>1, <3>4, <4>1
      <4>3. y[k] = ")"
        BY <2>2, <2>3, <3>4 DEF y
      <4> QED BY <4>2, <4>3
    <3>5. CASE k > 2 /\ k < n
      <4>1. k - 2 \in 1..Len(inner) /\ (k - 2) + 2 = k /\ open + (k - 2) = (m - 1) + k
            /\ k - 2 \in 1..((c - 1) - open)
        BY <1>3, <1>13, <1>14, <2>3, <3>1, <3>5
      <4>2. y[k] = inner[k - 2]
        BY <2>2, <4>1 DEF y
      <4>3. inner[k - 2] = x[open + (k - 2)]
        BY <1>14, <4>1
      <4> QED BY <3>1, <4>1, <4>2, <4>3
    <3>6. k = 1 \/ k = 2 \/ k = n \/ (k > 2 /\ k < n)
      BY <2>3, <3>1, <1>13
    <3> QED BY <3>2, <3>3, <3>4, <3>5, <3>6
  <2>5. n \in Nat /\ Len(part) = n /\ Len(y) = n /\ y \in Seq(Constants)
    BY <1>15, <2>1, <2>3 DEF y
  <2> HIDE DEF n
  <2>6. part = y
    BY <1>15, <2>4, <2>5, SameTokens
  <2> QED BY <2>6 DEF y
<1> DEFINE a == SubSeq(x, 1, m - 1)
           b == SubSeq(x, c + 1, N)
<1>17. a \in Seq(Constants) /\ b \in Seq(Constants) /\ x = Over(a, Over(part, b))
  <2>1. a \in Seq(Constants)
    <3>1. 0 \in 0..Len(x) /\ m - 1 \in 0..Len(x)
      BY <1>0, <1>3
    <3>2. SubSeq(x, 0 + 1, m - 1) \in Seq(Constants)
      BY <3>1, PartIs
    <3> QED BY <3>2
  <2>2. b \in Seq(Constants)
    <3>1. c \in 0..Len(x) /\ N \in c..Len(x)
      BY <1>0, <1>13
    <3> QED BY <3>1, PartIs
  <2>3. SubSeq(x, (m - 1) + 1, N) = Over(SubSeq(x, (m - 1) + 1, c), b)
    <3>1. m - 1 \in 0..Len(x) /\ c \in (m - 1)..Len(x) /\ N \in c..Len(x)
      BY <1>0, <1>3, <1>13
    <3> QED BY <3>1, PartsJoin
  <2>4. SubSeq(x, 0 + 1, N) = Over(SubSeq(x, 0 + 1, m - 1), SubSeq(x, (m - 1) + 1, N))
    <3>1. 0 \in 0..Len(x) /\ m - 1 \in 0..Len(x) /\ N \in (m - 1)..Len(x)
      BY <1>0, <1>3
    <3> QED BY <3>1, PartsJoin
  <2>5. SubSeq(x, 0 + 1, N) = x /\ (m - 1) + 1 = m /\ 0 + 1 = 1
    BY <1>0, <1>1
  <2> QED BY <2>1, <2>2, <2>3, <2>4, <2>5 DEF part
<1>18. Balanced(inner)
  <2>1. inner \in Seq(Tokens) /\ Len(inner) \in Nat /\ 0 \in Nat
    BY <1>14, ConstantsAreTokens
  <2>2. ASSUME NEW n \in 0..Len(inner) PROVE Run(DepthStep, 0, SubSeq(inner, 1, n)) = D[open + n] - D[open]
    <3>1. open + n \in open..Len(x) /\ open \in 0..Len(x) /\ n \in Nat /\ (open + n) - open = n
      BY <1>0, <1>3, <1>13, <1>14, <2>1
    <3>2. SubSeq(inner, 1, n) = SubSeq(x, open + 1, open + n)
      <4> DEFINE u == SubSeq(inner, 1, n)
                 v == SubSeq(x, open + 1, open + n)
      <4>1. u \in Seq(Constants) /\ Len(u) = n /\ \A k \in 1..n : u[k] = inner[k]
        BY <1>14, <2>1
      <4>2. v \in Seq(Constants) /\ Len(v) = (open + n) - open /\ \A k \in 1..((open + n) - open) : v[k] = x[open + k]
        <5>1. IsPart(Constants, v, x, open, open + n)
          BY <3>1, PartFits
        <5> HIDE DEF u, v
        <5> QED BY <5>1 DEF IsPart
      <4>3. \A k \in 1..n : u[k] = v[k]
        <5>1. ASSUME NEW k \in 1..n PROVE u[k] = v[k]
          <6>1. k \in 1..((c - 1) - open)
            BY <1>14, <2>1
          <6> QED BY <1>14, <3>1, <4>1, <4>2, <6>1
        <5> QED BY <5>1
      <4> HIDE DEF u, v
      <4>4. u = v
        BY <3>1, <4>1, <4>2, <4>3, SameTokens
      <4> QED BY <4>4 DEF u, v
    <3> QED BY <1>5, <3>1, <3>2 DEF Depths
  <2>3. ASSUME NEW n \in 0..Len(inner) PROVE Run(DepthStep, 0, SubSeq(inner, 1, n)) >= 0
    <3>1. open + n \in open..(c - 1) /\ open + n \in 0..N
      <4>1. n \in Nat /\ n <= (c - 1) - open
        BY <1>14, <2>1
      <4> QED BY <1>0, <1>3, <1>13, <4>1
    <3>2. D[open + n] > d
      BY <1>9, <3>1
    <3> QED BY <1>6, <1>7, <2>2, <3>1, <3>2
  <2>4. Run(DepthStep, 0, inner) = 0
    <3>1. Len(inner) \in 0..Len(inner) /\ open + Len(inner) = c - 1 /\ SubSeq(inner, 1, Len(inner)) = inner
      <4>1. Len(inner) \in 0..Len(inner)
        BY <2>1
      <4>2. open + Len(inner) = c - 1
        BY <1>3, <1>13, <1>14, <2>1
      <4>3. SubSeq(inner, 1, Len(inner)) = inner
        BY <1>14
      <4> QED BY <4>1, <4>2, <4>3
    <3>2. Run(DepthStep, 0, inner) = D[c - 1] - D[open]
      BY <2>2, <3>1
    <3> QED BY <1>7, <1>9, <3>2
  <2>5. Run(LevelStep, 0, inner) = Run(DepthStep, 0, inner)
    BY <2>1, <2>3, LevelOfDepths
  <2> QED BY <2>4, <2>5 DEF Balanced
<1>19. Occurrences(Around(inner), x) # {}
  <2>1. m \in DOMAIN x
    BY <1>0, <1>1
  <2>2. Len(part) = c - (m - 1) /\ m + Len(part) - 1 = c
    BY <1>1, <1>13, <1>15
  <2>3. StandsAt(part, x, m)
    <3>1. SubSeq(x, m, m + Len(part) - 1) = part
      BY <2>2 DEF part
    <3>2. m + Len(part) - 1 <= Len(x)
      BY <1>0, <1>13, <2>2
    <3> QED BY <3>1, <3>2 DEF StandsAt
  <2> QED BY <1>16, <2>1, <2>3 DEF Occurrences
<1> HIDE DEF a, b
<1>20. InnerOf(x, a, inner, b)
  BY <1>14, <1>16, <1>17, <1>18, <1>19 DEF InnerOf
<1> QED BY <1>20 DEF inner

-----------------------------------------------------------------------------
(* Rounds.                                                                 *)

\* A round of handleNegation.
Round(x) == IF HasNegatedBracket(x) THEN evaluateBrackets[x] ELSE x

RoundStep == [st \in Seq(Constants) \X Constants |-> Round(st[1])]

LEMMA RoundIs ==
  /\ \A x \in Seq(Constants) : Round(x) \in Seq(Constants)
  /\ \A x \in Seq(Constants) : \A t \in Constants : RoundStep[<<x, t>>] = Round(x)
<1>1. \A x \in Seq(Constants) : Round(x) \in Seq(Constants)
  BY EvaluateIs DEF Round
<1> QED BY <1>1 DEF RoundStep

Rounds(x, f) ==
  /\ f[0] = x
  /\ \A k \in 1..Len(x) : f[k] = Round(f[k - 1])
  /\ \A k \in 0..Len(x) : f[k] \in Seq(Constants)
  /\ f[Len(x)] = ReplaceBrackets(x)

LEMMA RoundsOf ==
  ASSUME NEW x \in Seq(Constants), NEW n \in Nat, n = Len(x) PROVE \E f : Rounds(x, f)
<1> DEFINE Is(f) == f = [k \in 0..n |-> IF k = 0 THEN x
                                       ELSE IF HasNegatedBracket(f[k - 1]) THEN evaluateBrackets[f[k - 1]]
                                       ELSE f[k - 1]]
           round == CHOOSE f : Is(f)
<1>1. PICK g : Running(RoundStep, x, x, n, g)
  BY RunningExists
<1>2. g[0] = x /\ \A k \in 1..n : g[k] = RoundStep[<<g[k - 1], x[k]>>]
  BY <1>1 DEF Running
<1>3. g = [k \in 0..n |-> g[k]]
  BY <1>1 DEF Running
<1>4. \A k \in 1..n : x[k] \in Constants
  OBVIOUS
<1> DEFINE G == {k \in 0..n : g[k] \in Seq(Constants)}
<1>5. 0 \in G
  BY <1>2
<1>6. ASSUME NEW k \in 0..(n - 1), k \in G PROVE k + 1 \in G
  <2>1. k + 1 \in 1..n /\ (k + 1) - 1 = k /\ g[k] \in Seq(Constants)
    BY <1>6
  <2>2. g[k + 1] = RoundStep[<<g[k], x[k + 1]>>]
    BY <1>2, <2>1
  <2>3. g[k + 1] \in Seq(Constants)
    BY <1>4, <2>1, <2>2, RoundIs
  <2> QED BY <2>1, <2>3
<1> HIDE DEF G
<1>7. \A k \in 0..n : k \in G
  BY <1>5, <1>6, UpTo
<1>8. \A k \in 0..n : g[k] \in Seq(Constants)
  BY <1>7 DEF G
<1>9. \A k \in 1..n : k - 1 \in 0..n
  OBVIOUS
<1>10. \A k \in 1..n : g[k] = Round(g[k - 1])
  BY <1>2, <1>4, <1>8, <1>9, RoundIs
<1>11. Is(g)
  <2>1. \A k \in 0..n : k = 0 \/ k \in 1..n
    OBVIOUS
  <2>2. \A k \in 0..n : g[k] = IF k = 0 THEN x ELSE IF HasNegatedBracket(g[k - 1]) THEN evaluateBrackets[g[k - 1]]
                               ELSE g[k - 1]
    BY <1>2, <1>10, <2>1 DEF Round
  <2> QED BY <1>3, <2>2
<1>12. Is(round)
  BY <1>11
<1>13. ReplaceBrackets(x) = round[n]
  BY DEF ReplaceBrackets
<1> HIDE DEF round
<1>14. round[0] = x /\ \A k \in 1..n : round[k] = Round(round[k - 1])
  BY <1>12 DEF Round
<1> DEFINE H == {k \in 0..n : round[k] = g[k]}
<1>15. 0 \in H
  BY <1>2, <1>14
<1>16. ASSUME NEW k \in 0..(n - 1), k \in H PROVE k + 1 \in H
  <2>1. k + 1 \in 1..n /\ (k + 1) - 1 = k /\ round[k] = g[k]
    BY <1>16
  <2>2. round[k + 1] = Round(round[k]) /\ g[k + 1] = Round(g[k])
    BY <1>10, <1>14, <2>1
  <2> QED BY <2>1, <2>2
<1> HIDE DEF H
<1>17. \A k \in 0..n : k \in H
  BY <1>15, <1>16, UpTo
<1>18. round[n] = g[n]
  BY <1>17 DEF H
<1>19. Rounds(x, g)
  BY <1>2, <1>8, <1>10, <1>13, <1>18 DEF Rounds
<1> QED BY <1>19

\* What no round changes holds at the end.
LEMMA RoundsKeep ==
  ASSUME NEW x \in Seq(Constants), NEW G, x \in G,
         \A y \in Seq(Constants) : y \in G /\ HasNegatedBracket(y) => evaluateBrackets[y] \in G
  PROVE  ReplaceBrackets(x) \in G /\ ReplaceBrackets(x) \in Seq(Constants)
<1> DEFINE n == Len(x)
<1>0. n \in Nat /\ n = Len(x)
  OBVIOUS
<1> HIDE DEF n
<1>1. PICK f : Rounds(x, f)
  BY <1>0, RoundsOf
<1> DEFINE T == {k \in 0..n : f[k] \in G}
<1>2. 0 \in T
  BY <1>0, <1>1 DEF Rounds
<1>3. ASSUME NEW k \in 0..(n - 1), k \in T PROVE k + 1 \in T
  <2>1. k + 1 \in 1..n /\ (k + 1) - 1 = k /\ f[k] \in G /\ k \in 0..n /\ k + 1 \in 0..n
    BY <1>0, <1>3
  <2>2. f[k + 1] = Round(f[k]) /\ f[k] \in Seq(Constants)
    BY <1>0, <1>1, <2>1 DEF Rounds
  <2>3. f[k + 1] \in G
    BY <2>1, <2>2 DEF Round
  <2> QED BY <2>1, <2>3
<1> HIDE DEF T
<1>4. \A k \in 0..n : k \in T
  BY <1>0, <1>2, <1>3, UpTo
<1>5. n \in T /\ n \in 0..n
  BY <1>0, <1>4
<1> QED BY <1>0, <1>1, <1>5 DEF T, Rounds

\* Of a text whose brackets are closed, evaluateBrackets makes a shorter one.
Shortened(x) ==
  /\ Balanced(evaluateBrackets[x])
  /\ HasNegatedBracket(x) => Len(evaluateBrackets[x]) < Len(x)
  /\ ~HasNegatedBracket(x) => Len(evaluateBrackets[x]) = 1

LEMMA OppositeBalanced == ASSUME NEW e PROVE Balanced(Opposite(e))
<1> DEFINE t == ToBoolean(evaluateExp(e) # "true")
<1>1. t \in Tokens /\ Delta(t) = 0 /\ Opposite(e) = <<t>>
  BY TokensAreConstants DEF ToBoolean, Delta, Opposite
<1> HIDE DEF t
<1>2. Run(LevelStep, 0, <<t>>) = LevelStep[<<0, t>>]
  BY <1>1, RunOne
<1>3. 0 \in Levels
  BY DEF Levels
<1> QED BY <1>1, <1>2, <1>3, LevelStepIs DEF Balanced

LEMMA LevelReplace ==
  ASSUME NEW x \in Seq(Tokens), NEW old \in Seq(Tokens), old # <<>>, NEW new \in Seq(Tokens),
         SameTo(LevelStep, Levels, -1, old, new), NEW d \in Levels, Run(LevelStep, d, x) # -1
  PROVE  Run(LevelStep, d, Replace(x, old, new)) = Run(LevelStep, d, x)
<1> DEFINE bad == -1
<1>1. bad \in Levels
  BY DEF Levels
<1>2. Stays(LevelStep, bad, Tokens)
  <2>1. \A t \in Tokens : LevelStep[<<bad, t>>] = bad
    BY <1>1, LevelStepIs
  <2> HIDE DEF bad
  <2> QED BY <2>1 DEF Stays
<1>3. Machine(LevelStep, Levels, bad, Tokens)
  BY <1>1, <1>2, LevelStepIs DEF Machine
<1>4. SameTo(LevelStep, Levels, bad, old, new) /\ Run(LevelStep, d, x) # bad
  OBVIOUS
<1> HIDE DEF bad
<1>5. Run(LevelStep, d, Replace(x, old, new)) = Run(LevelStep, d, x)
  BY <1>3, <1>4, RunReplace
<1> QED BY <1>4, <1>5

LEMMA EvaluateShortens ==
  ASSUME NEW x \in Seq(Constants), Balanced(x) PROVE Shortened(x)
<1> DEFINE Bad(n) == \E y \in Seq(Constants) : Len(y) = n /\ Balanced(y) /\ ~Shortened(y)
           T == {n \in Nat : Bad(n)}
<1>1. T = {}
  <2> SUFFICES ASSUME T # {} PROVE FALSE
    OBVIOUS
  <2>1. PICK n \in T : \A k \in T : n <= k
    <3>1. T \in SUBSET Nat
      OBVIOUS
    <3> HIDE DEF T
    <3> QED BY <3>1, Smallest
  <2>2. PICK y \in Seq(Constants) : Len(y) = n /\ Balanced(y) /\ ~Shortened(y)
    BY <2>1
  <2>3. ASSUME NEW z \in Seq(Constants), Len(z) < Len(y), Balanced(z) PROVE Shortened(z)
    <3>1. Len(z) \in Nat /\ n \in Nat /\ ~(n <= Len(z))
      BY <2>2, <2>3
    <3>2. Len(z) \notin T
      BY <2>1, <3>1
    <3>3. ~Bad(Len(z))
      BY <3>1, <3>2
    <3> QED BY <2>3, <3>3
  <2> HIDE DEF T, Bad
  <2>4. CASE ~HasNegatedBracket(y)
    <3>1. evaluateBrackets[y] = Opposite(y)
      BY <2>4, EvaluateIs
    <3> QED BY <2>2, <2>4, <3>1, OppositeBalanced, OppositeIs DEF Shortened
  <2>5. CASE HasNegatedBracket(y)
    <3> DEFINE i == resolveBracketExpression(y)
               v == evaluateBrackets[i]
               old == Around(i)
    <3>1. \E a, b : InnerOf(y, a, i, b)
      BY <2>2, <2>5, InnerIs
    <3>2. i \in Seq(Constants) /\ Balanced(i) /\ Occurrences(old, y) # {}
      BY <3>1 DEF InnerOf
    <3>3. Len(i) < Len(y)
      BY <2>5, ResolveType
    <3>4. evaluateBrackets[y] = Replace(y, old, v)
      BY <2>5, EvaluateIs
    <3>5. v \in Seq(Constants)
      BY <3>2, EvaluateIs
    <3> HIDE DEF i
    <3>6. Shortened(i)
      BY <2>3, <3>2, <3>3
    <3>7. old \in Seq(Constants) /\ old # <<>> /\ Len(old) = Len(i) + 3
      BY <3>2, AroundIs
    <3>8. Len(i) \in Nat /\ Len(v) \in Nat /\ Len(v) < Len(old) /\ Balanced(v)
      <4>1. Len(i) \in Nat /\ Len(v) \in Nat
        BY <3>2, <3>5
      <4>2. Balanced(v)
        BY <3>6 DEF Shortened
      <4>5. Len(v) < Len(i) \/ Len(v) = 1
        BY <3>6 DEF Shortened
      <4>3. Len(old) = Len(i) + 3
        BY <3>7
      <4> HIDE DEF v, old
      <4>6. \A p, q, r \in Nat : (p < q \/ p = 1) /\ r = q + 3 => p < r
        OBVIOUS
      <4>7. Len(i) + 3 \in Nat
        BY <4>1
      <4>4. Len(v) < Len(old)
        BY <4>1, <4>3, <4>5, <4>6, <4>7
      <4> QED BY <4>1, <4>2, <4>4
    <3>9. SameTo(LevelStep, Levels, -1, old, v)
      <4>1. v \in Seq(Tokens)
        BY <3>5, ConstantsAreTokens
      <4>2. \A d \in Levels : Run(LevelStep, d, old) = d
        BY <3>2, LevelAround
      <4> HIDE DEF v, old
      <4>3. \A d \in Levels : Run(LevelStep, d, v) = d
        BY <3>8, <4>1, BalancedIs
      <4> QED BY <4>2, <4>3 DEF SameTo
    <3> HIDE DEF v, old
    <3>10. Len(Replace(y, old, v)) < Len(y)
      BY <3>2, <3>5, <3>7, <3>8, ReplaceShortens
    <3>11. Balanced(Replace(y, old, v))
      <4>1. y \in Seq(Tokens) /\ old \in Seq(Tokens) /\ v \in Seq(Tokens)
        BY <3>5, <3>7, ConstantsAreTokens
      <4>2. 0 \in Levels /\ Run(LevelStep, 0, y) # -1
        BY <2>2 DEF Levels, Balanced
      <4>3. Run(LevelStep, 0, Replace(y, old, v)) = Run(LevelStep, 0, y)
        BY <3>7, <3>9, <4>1, <4>2, LevelReplace
      <4> QED BY <2>2, <4>3 DEF Balanced
    <3> QED BY <2>2, <2>5, <3>4, <3>10, <3>11 DEF Shortened
  <2> QED BY <2>4, <2>5
<1>2. Len(x) \in Nat
  OBVIOUS
<1>3. ~Bad(Len(x))
  BY <1>1, <1>2
<1> QED BY <1>3

\* The loop ends: of a text whose brackets are closed it leaves no negated brackets.
LEMMA RoundsEnd ==
  ASSUME NEW x \in Seq(Constants), Balanced(x)
  PROVE  ~HasNegatedBracket(ReplaceBrackets(x))
<1> DEFINE n == Len(x)
<1>0. n \in Nat /\ n = Len(x)
  OBVIOUS
<1> HIDE DEF n
<1>1. PICK f : Rounds(x, f)
  BY <1>0, RoundsOf
<1> DEFINE T == {k \in 0..n : Balanced(f[k]) /\ (HasNegatedBracket(f[k]) => Len(f[k]) + k <= n)}
<1>2. 0 \in T
  BY <1>0, <1>1 DEF Rounds
<1>3. ASSUME NEW k \in 0..(n - 1), k \in T PROVE k + 1 \in T
  <2>1. k + 1 \in 1..n /\ (k + 1) - 1 = k /\ k \in 0..n /\ k + 1 \in 0..n /\ k \in Nat
        /\ Balanced(f[k]) /\ (HasNegatedBracket(f[k]) => Len(f[k]) + k <= n)
    BY <1>0, <1>3
  <2>2. f[k + 1] = Round(f[k]) /\ f[k] \in Seq(Constants) /\ f[k + 1] \in Seq(Constants)
    BY <1>0, <1>1, <2>1 DEF Rounds
  <2>3. Len(f[k]) \in Nat /\ Len(f[k + 1]) \in Nat
    BY <2>2
  <2>4. CASE HasNegatedBracket(f[k])
    <3>1. Shortened(f[k])
      BY <2>1, <2>2, EvaluateShortens
    <3>2. Balanced(f[k + 1]) /\ Len(f[k + 1]) < Len(f[k])
      BY <2>2, <2>4, <3>1 DEF Shortened, Round
    <3> QED BY <1>0, <2>1, <2>3, <2>4, <3>2
  <2>5. CASE ~HasNegatedBracket(f[k])
    <3>1. f[k + 1] = f[k]
      BY <2>2, <2>5 DEF Round
    <3> QED BY <2>1, <2>5, <3>1
  <2> QED BY <2>4, <2>5
<1> HIDE DEF T
<1>4. \A k \in 0..n : k \in T
  BY <1>0, <1>2, <1>3, UpTo
<1> DEFINE y == ReplaceBrackets(x)
<1>5. f[n] = y /\ y \in Seq(Constants) /\ n \in T
  BY <1>0, <1>1, <1>4 DEF Rounds
<1> HIDE DEF y
<1> SUFFICES ASSUME HasNegatedBracket(y) PROVE FALSE
  BY DEF y
<1>6. Len(y) = 0
  BY <1>0, <1>5 DEF T
<1>7. PICK i : i \in Occurrences(NegatedBracket, y)
  BY DEF HasNegatedBracket
<1>8. i \in 1..(Len(y) - 1)
  BY <1>5, <1>7, NegatedAt
<1> QED BY <1>6, <1>8

-----------------------------------------------------------------------------
(* Texts whose negations handleNegation replaces one after the other:      *)
(* those of values in B, and those of brackets that have no negation of a  *)
(* bracket in them.                                                        *)

\* How many brackets are open since the negated one, or after a negation -2 less that, or -1
\* after any other negation.
Plain(B, s, t) ==
  IF s = -1 THEN -1
  ELSE IF s >= 0 THEN IF t = "!" THEN -2 - s ELSE IF s > 0 THEN s + Delta(t) ELSE 0
  ELSE IF t \in B THEN -2 - s
  ELSE IF s = -2 /\ t = "(" THEN 1
  ELSE -1

PlainStep(B) == [st \in Int \X Constants |-> Plain(B, st[1], st[2])]

LEMMA PlainIs ==
  ASSUME NEW B
  PROVE  /\ PlainStep(B) \in [Int \X Constants -> Int]
         /\ \A s \in Int : \A t \in Constants : PlainStep(B)[<<s, t>>] = Plain(B, s, t) /\ Plain(B, s, t) \in Int
         /\ Machine(PlainStep(B), Int, -1, Constants)
<1>1. \A s \in Int : \A t \in Constants : Plain(B, s, t) \in Int
  <2>1. ASSUME NEW s \in Int, NEW t \in Constants PROVE Plain(B, s, t) \in Int
    <3>1. Delta(t) \in Int
      BY DeltaType
    <3> QED BY <3>1 DEF Plain
  <2> QED BY <2>1
<1>2. PlainStep(B) \in [Int \X Constants -> Int]
  BY <1>1 DEF PlainStep
<1>3. \A s \in Int : \A t \in Constants : PlainStep(B)[<<s, t>>] = Plain(B, s, t)
  BY DEF PlainStep
<1>4. Stays(PlainStep(B), -1, Constants)
  <2>1. -1 \in Int /\ \A t \in Constants : Plain(B, -1, t) = -1
    BY DEF Plain
  <2> QED BY <1>3, <2>1 DEF Stays
<1>5. -1 \in Int
  OBVIOUS
<1>6. Machine(PlainStep(B), Int, -1, Constants)
  BY <1>2, <1>4, <1>5 DEF Machine
<1> QED BY <1>1, <1>2, <1>3, <1>6

PlainRun(B, s, x) == Run(PlainStep(B), s, x)

LEMMA PlainOver ==
  ASSUME NEW B, NEW s \in Int, NEW x \in Seq(Constants), NEW y \in Seq(Constants)
  PROVE  /\ PlainRun(B, s, Over(x, y)) = PlainRun(B, PlainRun(B, s, x), y)
         /\ PlainRun(B, s, x) \in Int /\ Over(x, y) \in Seq(Constants)
         /\ PlainRun(B, -1, x) = -1
         /\ PlainRun(B, s, <<>>) = s
<1>0. PlainStep(B) \in [Int \X Constants -> Int] /\ Machine(PlainStep(B), Int, -1, Constants)
  BY PlainIs
<1> DEFINE step == PlainStep(B)
<1> HIDE DEF step
<1>1. Run(step, s, Over(x, y)) = Run(step, Run(step, s, x), y) /\ Over(x, y) \in Seq(Constants)
  BY RunOver
<1>2. Run(step, s, x) \in Int
  BY <1>0, RunType DEF step
<1> DEFINE bad == -1
<1>3. Stays(step, bad, Constants)
  BY <1>0 DEF Machine, step
<1> HIDE DEF bad
<1>4. Run(step, bad, x) = bad
  BY <1>3, RunStays
<1>5. Run(step, s, <<>>) = s
  BY RunNothing
<1> QED BY <1>1, <1>2, <1>4, <1>5 DEF PlainRun, step, bad

LEMMA PlainType ==
  ASSUME NEW B, NEW s \in Int, NEW t \in Constants PROVE Plain(B, s, t) \in Int
BY PlainIs

LEMMA PlainPush ==
  ASSUME NEW B, NEW s \in Int, NEW t \in Constants, NEW x \in Seq(Constants)
  PROVE  PlainRun(B, s, Push(t, x)) = PlainRun(B, Plain(B, s, t), x)
<1>0. PlainStep(B)[<<s, t>>] = Plain(B, s, t)
  BY PlainIs
<1> DEFINE step == PlainStep(B)
<1> HIDE DEF step
<1>1. Run(step, s, Push(t, x)) = Run(step, step[<<s, t>>], x) /\ Push(t, x) \in Seq(Constants)
  BY RunPush
<1> QED BY <1>0, <1>1 DEF PlainRun, step

LEMMA PlainAppend ==
  ASSUME NEW B, NEW s \in Int, NEW t \in Constants, NEW x \in Seq(Constants)
  PROVE  PlainRun(B, s, Append(x, t)) = Plain(B, PlainRun(B, s, x), t)
<1>1. PlainRun(B, s, x) \in Int
  BY PlainOver
<1>2. PlainStep(B)[<<PlainRun(B, s, x), t>>] = Plain(B, PlainRun(B, s, x), t)
  BY <1>1, PlainIs
<1> DEFINE step == PlainStep(B)
<1> HIDE DEF step
<1>3. Run(step, s, Append(x, t)) = step[<<Run(step, s, x), t>>]
  BY RunAppend
<1> QED BY <1>2, <1>3 DEF PlainRun, step

LEMMA PlainOne ==
  ASSUME NEW B, NEW s \in Int, NEW t \in Constants
  PROVE  PlainRun(B, s, <<t>>) = Plain(B, s, t)
<1>1. PlainStep(B)[<<s, t>>] = Plain(B, s, t)
  BY PlainIs
<1> DEFINE step == PlainStep(B)
<1> HIDE DEF step
<1>2. Run(step, s, <<t>>) = step[<<s, t>>]
  BY RunOne
<1> QED BY <1>1, <1>2 DEF PlainRun, step

\* Replacing the negations of a value leaves those of the others.
LEMMA PlainReplace ==
  ASSUME NEW B, NEW C, NEW c \in Booleans, NEW d \in Booleans, C = B \cup {c}, B \subseteq Booleans,
         NEW x \in Seq(Constants), PlainRun(C, 0, x) # -1
  PROVE  PlainRun(B, 0, Replace(x, Two("!", c), <<d>>)) = PlainRun(C, 0, x)
<1> DEFINE Clear(s, u) == s <= -2 => ~(u # <<>> /\ u[1] = c)
           Rel == {uw \in Seq(Constants) \X Seq(Constants) :
                     \A s \in Int : Clear(s, uw[1]) /\ PlainRun(C, s, uw[1]) # -1 =>
                                      PlainRun(B, s, uw[2]) = PlainRun(C, s, uw[1])}
           old == Two("!", c)
           new == <<d>>
<1>0. c \in Constants /\ d \in Constants /\ "!" \in Constants /\ c # "!" /\ d # "!" /\ c # "(" /\ d # "("
      /\ Delta(c) = 0 /\ Delta(d) = 0
  BY DEF Constants, Booleans, Operators, Delta
<1>1. old \in Seq(Constants) /\ Len(old) = 2 /\ old[1] = "!" /\ old[2] = c /\ old # <<>> /\ old = Push("!", <<c>>)
      /\ new \in Seq(Constants)
  <2>1. old \in Seq(Constants) /\ old = Push("!", <<c>>)
    BY <1>0, TwoIs
  <2>2. Len(old) = 2 /\ old[1] = "!" /\ old[2] = c /\ new \in Seq(Constants)
    BY <1>0 DEF Two
  <2> QED BY <2>1, <2>2
<1>2. <<<<>>, <<>>>> \in Rel
  <2> DEFINE o == <<>>
  <2>1. o \in Seq(Constants) /\ \A s \in Int : PlainRun(B, s, o) = s /\ PlainRun(C, s, o) = s
    <3>1. o \in Seq(Constants)
      OBVIOUS
    <3>2. ASSUME NEW s \in Int PROVE PlainRun(B, s, o) = s /\ PlainRun(C, s, o) = s
      <4>1. PlainRun(B, s, o) = s
        BY <3>1, PlainOver
      <4>2. PlainRun(C, s, o) = s
        BY <3>1, PlainOver
      <4> QED BY <4>1, <4>2
    <3> QED BY <3>1, <3>2
  <2> HIDE DEF o
  <2>2. <<o, o>> \in Rel
    BY <2>1
  <2> QED BY <2>2 DEF o
<1>3. ASSUME NEW u \in Seq(Constants), NEW w \in Seq(Constants), <<u, w>> \in Rel
      PROVE  <<Over(old, u), Over(new, w)>> \in Rel
  <2>1. \A s \in Int : Clear(s, u) /\ PlainRun(C, s, u) # -1 => PlainRun(B, s, w) = PlainRun(C, s, u)
    BY <1>3
  <2>2. Over(old, u) \in Seq(Constants) /\ Over(new, w) \in Seq(Constants)
        /\ Over(old, u) = Push("!", Push(c, u)) /\ Over(new, w) = Push(d, w) /\ Push(c, u) \in Seq(Constants)
    <3>1. Over(old, u) = Push("!", Push(c, u))
      BY <1>0 DEF Over, Push, Two
    <3>2. Over(new, w) = Push(d, w)
      BY DEF Over, Push
    <3>3. Over(old, u) \in Seq(Constants) /\ Over(new, w) \in Seq(Constants)
      <4> HIDE DEF old, new
      <4> QED BY <1>1, RunOver
    <3>4. Push(c, u) \in Seq(Constants)
      BY <1>0, OneBefore
    <3> QED BY <3>1, <3>2, <3>3, <3>4
  <2>3. ASSUME NEW s \in Int, PlainRun(C, s, Over(old, u)) # -1
        PROVE  PlainRun(B, s, Over(new, w)) = PlainRun(C, s, Over(old, u))
    <3>1. PlainRun(C, s, Push("!", Push(c, u))) = PlainRun(C, Plain(C, s, "!"), Push(c, u)) /\ Plain(C, s, "!") \in Int
      <4> DEFINE bang == "!"
                 v == Push(c, u)
      <4>1. bang \in Constants /\ v \in Seq(Constants)
        BY <1>0, <2>2
      <4> HIDE DEF bang, v
      <4>2. PlainRun(C, s, Push(bang, v)) = PlainRun(C, Plain(C, s, bang), v)
        BY <4>1, PlainPush
      <4>3. Plain(C, s, bang) \in Int
        BY <4>1, PlainType
      <4> QED BY <4>2, <4>3 DEF bang, v
    <3>2. PlainRun(C, Plain(C, s, "!"), Push(c, u)) = PlainRun(C, Plain(C, Plain(C, s, "!"), c), u)
      <4> DEFINE r == Plain(C, s, "!")
      <4>1. r \in Int
        BY <3>1
      <4> HIDE DEF r
      <4>2. PlainRun(C, r, Push(c, u)) = PlainRun(C, Plain(C, r, c), u)
        BY <1>0, <4>1, PlainPush
      <4> QED BY <4>2 DEF r
    <3>3. PlainRun(C, -1, u) = -1
      BY <2>2, PlainOver
    <3>4. s >= 0
      <4> SUFFICES ASSUME ~(s >= 0) PROVE FALSE
        OBVIOUS
      <4>1. Plain(C, s, "!") = -1
        BY <1>0 DEF Plain, Booleans
      <4>2. Plain(C, Plain(C, s, "!"), c) = -1
        BY <4>1 DEF Plain
      <4> QED BY <2>2, <2>3, <3>1, <3>2, <3>3, <4>2
    <3>5. Plain(C, s, "!") = -2 - s
      BY <3>4 DEF Plain
    <3>6. Plain(C, -2 - s, c) = s
      <4>1. c \in C /\ ~(-2 - s = -1) /\ ~(-2 - s >= 0) /\ -2 - (-2 - s) = s
        BY <3>4
      <4> QED BY <4>1 DEF Plain
    <3>7. PlainRun(C, s, Over(old, u)) = PlainRun(C, s, u)
      BY <2>2, <3>1, <3>2, <3>5, <3>6
    <3>8. Plain(B, s, d) = s
      BY <1>0, <3>4 DEF Plain
    <3>9. PlainRun(B, s, Push(d, w)) = PlainRun(B, s, w)
      BY <1>0, <3>8, PlainPush
    <3>10. Clear(s, u)
      BY <3>4
    <3> QED BY <2>1, <2>2, <2>3, <3>7, <3>9, <3>10
  <2> QED BY <2>2, <2>3
<1>4. ASSUME NEW u \in Seq(Constants), NEW w \in Seq(Constants), NEW t \in Constants, <<u, w>> \in Rel,
             ~StandsAt(old, Push(t, u), 1)
      PROVE  <<Push(t, u), Push(t, w)>> \in Rel
  <2>1. \A s \in Int : Clear(s, u) /\ PlainRun(C, s, u) # -1 => PlainRun(B, s, w) = PlainRun(C, s, u)
    BY <1>4
  <2>2. Push(t, u) \in Seq(Constants) /\ Push(t, w) \in Seq(Constants) /\ Push(t, u) # <<>> /\ Push(t, u)[1] = t
    BY OneBefore
  <2>3. ~(t = "!" /\ u # <<>> /\ u[1] = c)
    <3> SUFFICES ASSUME t = "!", u # <<>>, u[1] = c PROVE FALSE
      OBVIOUS
    <3> DEFINE v == Push(t, u)
    <3>1. v \in Seq(Constants) /\ Len(v) >= 2 /\ v[1] = "!" /\ v[2] = c
      BY DEF Push
    <3> HIDE DEF v
    <3>2. SubSeq(v, 1, 2) = <<v[1], v[2]>>
      <4> DEFINE i == 1
      <4>1. i \in 1..(Len(v) - 1)
        BY <3>1
      <4> HIDE DEF i
      <4>2. SubSeq(v, i, i + 1) = <<v[i], v[i + 1]>>
        BY <3>1, <4>1, PairOf
      <4>3. i = 1 /\ i + 1 = 2
        BY DEF i
      <4> QED BY <4>2, <4>3
    <3>3. 1 + Len(old) - 1 = 2
      BY <1>1
    <3>4. SubSeq(v, 1, 2) = old
      BY <3>1, <3>2 DEF Two
    <3> HIDE DEF old
    <3>5. StandsAt(old, v, 1)
      BY <3>1, <3>3, <3>4 DEF StandsAt
    <3> QED BY <1>4, <3>5 DEF v
  <2>4. ASSUME NEW s \in Int, Clear(s, Push(t, u)), PlainRun(C, s, Push(t, u)) # -1
        PROVE  PlainRun(B, s, Push(t, w)) = PlainRun(C, s, Push(t, u))
    <3>1. PlainRun(C, s, Push(t, u)) = PlainRun(C, Plain(C, s, t), u) /\ Plain(C, s, t) \in Int
      BY PlainPush, PlainType
    <3>2. PlainRun(B, s, Push(t, w)) = PlainRun(B, Plain(B, s, t), w)
      BY PlainPush
    <3>3. Plain(B, s, t) = Plain(C, s, t)
      BY <2>2, <2>4 DEF Plain
    <3>4. Clear(Plain(C, s, t), u)
      <4>1. Plain(C, s, t) <= -2 => t = "!"
        <5>1. Delta(t) \in {-1, 0, 1}
          BY DeltaType
        <5> QED BY <5>1 DEF Plain
      <4> QED BY <2>3, <4>1
    <3> QED BY <2>1, <2>4, <3>1, <3>2, <3>3, <3>4
  <2> QED BY <2>2, <2>4
<1>5. Rel \subseteq Seq(Constants) \X Seq(Constants)
  OBVIOUS
<1> HIDE DEF Rel, old, new
<1>6. ReplacedAs(Rel, Constants, old, new)
  BY <1>2, <1>3, <1>4, <1>5 DEF ReplacedAs
<1>7. <<x, Replace(x, old, new)>> \in Rel
  BY <1>1, <1>6, ReplaceInduction
<1>8. 0 \in Int /\ Clear(0, x)
  OBVIOUS
<1>9. PlainRun(B, 0, Replace(x, old, new)) = PlainRun(C, 0, x)
  BY <1>7, <1>8 DEF Rel
<1> QED BY <1>9 DEF old, new

\* No negation.
Positive(x) == \A k \in 1..Len(x) : x[k] # "!"

LEMMA PositiveAppend ==
  ASSUME NEW A, NEW x \in Seq(A), NEW t \in A, Positive(x), t # "!"
  PROVE  Positive(Append(x, t))
BY DEF Positive

LEMMA PositiveIs ==
  ASSUME NEW A, NEW x \in Seq(A), Positive(x)
  PROVE  /\ "!" \notin ToSet(x) /\ evaluateExp(x) = Meaning(x)
         /\ ~HasNegatedBracket(x)
<1>1. "!" \notin ToSet(x)
  BY DEF Positive, ToSet
<1>2. ~HasNegatedBracket(x)
  <2> SUFFICES ASSUME HasNegatedBracket(x) PROVE FALSE
    OBVIOUS
  <2>1. PICK i : i \in Occurrences(NegatedBracket, x)
    BY DEF HasNegatedBracket
  <2>2. i \in 1..(Len(x) - 1) /\ x[i] = "!"
    BY <2>1, NegatedAt
  <2> QED BY <2>2 DEF Positive
<1> QED BY <1>1, <1>2 DEF evaluateExp

NoValues == {}

\* Text in negated brackets, without any negation of its own.
LEMMA PlainInside ==
  ASSUME NEW x \in Seq(Constants), Run(LevelStep, 0, x) # -1, PlainRun(NoValues, 1, x) # -1
  PROVE  \/ PlainRun(NoValues, 1, x) <= -3
         \/ PlainRun(NoValues, 1, x) = 1 + Run(LevelStep, 0, x) /\ Positive(x)
<1> DEFINE L(y) == Run(LevelStep, 0, y)
           P(y) == PlainRun(NoValues, 1, y)
           G == {y \in Seq(Constants) : L(y) # -1 /\ P(y) # -1 =>
                                          P(y) <= -3 \/ (P(y) = 1 + L(y) /\ Positive(y))}
<1>0. 0 \in Levels /\ 1 \in Int
  BY DEF Levels
<1>1. <<>> \in G
  <2> DEFINE o == <<>>
             one == 1
             zero == 0
  <2>1. o \in Seq(Constants) /\ one \in Int /\ zero = 0 /\ one = 1
    OBVIOUS
  <2>2. Positive(o)
    BY DEF Positive
  <2>3. Run(LevelStep, zero, o) = zero
    BY RunNothing
  <2> HIDE DEF o, one, zero
  <2>4. PlainRun(NoValues, one, o) = one
    BY <2>1, PlainOver DEF o
  <2>5. P(o) = 1 + L(o)
    BY <2>1, <2>3, <2>4
  <2>6. o \in G
    BY <2>1, <2>2, <2>5
  <2> QED BY <2>6 DEF o
<1>2. ASSUME NEW y \in Seq(Constants), NEW t \in Constants, y \in G PROVE Append(y, t) \in G
  <2>1. Append(y, t) \in Seq(Constants) /\ y \in Seq(Tokens) /\ t \in Tokens
    BY AppendProperties, ConstantsAreTokens DEF Tokens
  <2> SUFFICES ASSUME L(Append(y, t)) # -1, P(Append(y, t)) # -1
               PROVE  P(Append(y, t)) <= -3 \/ (P(Append(y, t)) = 1 + L(Append(y, t)) /\ Positive(Append(y, t)))
    BY <2>1
  <2>2. L(Append(y, t)) = (IF L(y) = -1 THEN -1 ELSE L(y) + Delta(t)) /\ L(y) \in Levels
    BY <1>0, <2>1, LevelAppend, LevelType
  <2>3. P(Append(y, t)) = Plain(NoValues, P(y), t) /\ P(y) \in Int
    <3> DEFINE one == 1
    <3>1. one \in Int
      OBVIOUS
    <3> HIDE DEF one
    <3>2. PlainRun(NoValues, one, Append(y, t)) = Plain(NoValues, PlainRun(NoValues, one, y), t)
      BY <3>1, PlainAppend
    <3>3. PlainRun(NoValues, one, y) \in Int
      BY <3>1, PlainOver
    <3> QED BY <3>2, <3>3 DEF one
  <2> HIDE DEF L, P
  <2>4. L(y) # -1 /\ P(y) # -1
    BY <2>2, <2>3 DEF Plain
  <2>5. L(y) \in Nat
    BY <2>2, <2>4 DEF Levels
  <2>6. P(y) <= -3 \/ (P(y) = 1 + L(y) /\ Positive(y))
    BY <1>2, <2>4
  <2>7. ~(P(y) <= -3)
    BY <2>3 DEF Plain, NoValues
  <2>8. CASE t = "!"
    <3>1. P(Append(y, t)) = -2 - P(y)
      BY <2>3, <2>5, <2>6, <2>7, <2>8 DEF Plain
    <3> QED BY <2>5, <2>6, <2>7, <3>1
  <2>9. CASE t # "!"
    <3>1. P(Append(y, t)) = P(y) + Delta(t)
      BY <2>3, <2>5, <2>6, <2>7, <2>9 DEF Plain
    <3>2. Delta(t) \in Int
      BY DeltaType
    <3>3. P(Append(y, t)) = 1 + L(Append(y, t))
      BY <2>2, <2>4, <2>5, <2>6, <2>7, <3>1, <3>2
    <3>4. Positive(Append(y, t))
      BY <2>6, <2>7, <2>9, PositiveAppend
    <3> QED BY <3>3, <3>4
  <2> QED BY <2>8, <2>9
<1> HIDE DEF G
<1>3. Seq(Constants) \subseteq G
  BY <1>1, <1>2, SequencesByAppending
<1> QED BY <1>3 DEF G

LEMMA PlainTwo ==
  ASSUME NEW B, NEW s \in Int, NEW t \in Constants, NEW u \in Constants
  PROVE  PlainRun(B, s, Two(t, u)) = Plain(B, Plain(B, s, t), u)
<1> DEFINE v == <<u>>
           r == Plain(B, s, t)
<1>1. v \in Seq(Constants) /\ Two(t, u) = Push(t, v)
  <2>1. v \in Seq(Constants)
    OBVIOUS
  <2>2. Push(t, <<u>>) = Two(t, u)
    BY TwoIs
  <2> QED BY <2>1, <2>2
<1>2. r \in Int
  BY PlainType
<1>3. PlainRun(B, r, v) = Plain(B, r, u)
  <2> HIDE DEF r
  <2> QED BY <1>2, PlainOne
<1> HIDE DEF v
<1>4. PlainRun(B, s, Push(t, v)) = PlainRun(B, r, v)
  BY <1>1, PlainPush
<1> QED BY <1>1, <1>3, <1>4

\* Negated brackets can stand where there is no negation around.
LEMMA PlainAround ==
  ASSUME NEW x \in Seq(Constants), Balanced(x), NEW s \in Int, PlainRun(NoValues, s, Around(x)) # -1
  PROVE  s = 0 /\ PlainRun(NoValues, s, Around(x)) = 0 /\ Positive(x)
<1> DEFINE B == NoValues
           last == <<")">>
           rest == Over(x, last)
           two == Two("!", "(")
           r == PlainRun(B, s, two)
           q == PlainRun(B, r, x)
           bang == "!"
           open == "("
           close == ")"
<1>0. "!" \in Constants /\ "(" \in Constants /\ ")" \in Constants /\ last \in Seq(Constants)
      /\ two \in Seq(Constants) /\ NegatedBracket = two
  BY TokensAreConstants, TwoIs DEF NegatedBracket, Two
<1>1. Around(x) = Over(two, rest) /\ rest \in Seq(Constants)
  <2>1. Around(x) = Over(NegatedBracket, rest)
    BY AroundIs
  <2>2. rest \in Seq(Constants)
    <3> HIDE DEF last
    <3> QED BY <1>0, RunOver
  <2> QED BY <1>0, <2>1, <2>2
<1>2. r = Plain(B, Plain(B, s, "!"), "(")
  <2>1. bang \in Constants /\ open \in Constants
    BY <1>0
  <2> HIDE DEF bang, open, B
  <2>2. PlainRun(B, s, Two(bang, open)) = Plain(B, Plain(B, s, bang), open)
    BY <2>1, PlainTwo
  <2> QED BY <2>2 DEF bang, open
<1>3. PlainRun(B, s, Around(x)) = PlainRun(B, r, rest) /\ r \in Int
  <2> HIDE DEF rest, two, B
  <2>1. PlainRun(B, s, Over(two, rest)) = PlainRun(B, PlainRun(B, s, two), rest)
    BY <1>0, <1>1, PlainOver
  <2>2. PlainRun(B, s, two) \in Int
    BY <1>0, PlainOver
  <2> QED BY <1>1, <2>1, <2>2
<1>4. PlainRun(B, r, rest) = PlainRun(B, q, last) /\ q \in Int
  <2> HIDE DEF r, last, B
  <2>1. PlainRun(B, r, Over(x, last)) = PlainRun(B, PlainRun(B, r, x), last)
    BY <1>0, <1>3, PlainOver
  <2>2. PlainRun(B, r, x) \in Int
    BY <1>3, PlainOver
  <2> QED BY <2>1, <2>2
<1>5. PlainRun(B, q, last) = Plain(B, q, ")")
  <2>1. close \in Constants
    BY <1>0
  <2> HIDE DEF close, q, B
  <2>2. PlainRun(B, q, <<close>>) = Plain(B, q, close)
    BY <1>4, <2>1, PlainOne
  <2> QED BY <2>2 DEF close
<1>6. PlainRun(B, s, Around(x)) = Plain(B, q, ")") /\ Plain(B, q, ")") # -1
  BY <1>3, <1>4, <1>5
<1> HIDE DEF q
<1>7. r # -1
  <2> SUFFICES ASSUME r = -1 PROVE FALSE
    OBVIOUS
  <2> DEFINE bad == -1
  <2> HIDE DEF B, r
  <2>1. PlainRun(B, -1, x) = -1
    BY <1>3, PlainOver
  <2>2. q = -1
    BY <2>1 DEF q
  <2> QED BY <1>6, <2>2 DEF Plain
<1>8. s = 0 /\ r = 1
  BY <1>2, <1>7 DEF Plain, NoValues
<1> HIDE DEF r
<1>9. Run(LevelStep, 0, x) = 0
  BY DEF Balanced
<1>10. q # -1
  BY <1>6 DEF Plain
<1>11. q = PlainRun(B, 1, x)
  BY <1>8 DEF q
<1>12. q <= -3 \/ (q = 1 + Run(LevelStep, 0, x) /\ Positive(x))
  BY <1>9, <1>10, <1>11, PlainInside
<1>13. q = 1 /\ Positive(x)
  <2>1. Plain(B, q, ")") # -1 /\ q \in Int
    BY <1>4, <1>6
  <2>2. ~(q <= -3)
    BY <2>1 DEF Plain, NoValues
  <2> QED BY <1>9, <1>12, <2>2
<1>14. Plain(B, 1, ")") = 0
  BY DEF Plain, Delta
<1> QED BY <1>6, <1>8, <1>13, <1>14

\* Negated brackets that are read without error mean something alone.
LEMMA ReadAround ==
  ASSUME NEW o \in Seq(Bracket), NEW x \in Seq(Constants), Balanced(x), After(o, Around(x)) # <<>>
  PROVE  \E b \in Bracket : b.expected = "operator" /\ After(Outermost, x) = <<b>>
<1> DEFINE last == <<")">>
           rest == Over(x, last)
           r == After(o, NegatedBracket)
<1>0. "!" \in Constants /\ "(" \in Constants /\ ")" \in Constants /\ last \in Seq(Constants)
      /\ NegatedBracket \in Seq(Constants) /\ rest \in Seq(Constants) /\ Around(x) = Over(NegatedBracket, rest)
  <2>1. "!" \in Constants /\ "(" \in Constants /\ ")" \in Constants /\ last \in Seq(Constants)
    BY TokensAreConstants
  <2>2. NegatedBracket \in Seq(Constants) /\ Around(x) = Over(NegatedBracket, rest)
    BY NegatedBracketIs, AroundIs
  <2>3. rest \in Seq(Constants)
    <3> HIDE DEF last
    <3> QED BY <2>1, RunOver
  <2> QED BY <2>1, <2>2, <2>3
<1>1. After(o, Around(x)) = After(r, rest) /\ r \in Seq(Bracket)
  <2> HIDE DEF rest
  <2>1. After(o, Over(NegatedBracket, rest)) = After(After(o, NegatedBracket), rest)
    BY <1>0, AfterOver
  <2>2. After(o, NegatedBracket) \in Seq(Bracket)
    BY <1>0, AfterType
  <2> QED BY <1>0, <2>1, <2>2
<1>2. r = ReadToken(ReadToken(o, "!"), "(")
  <2> DEFINE a == "!"
             c == "("
  <2>1. a \in Constants /\ c \in Constants
    BY <1>0
  <2> HIDE DEF a, c
  <2>2. After(o, <<a, c>>) = ReadToken(ReadToken(o, a), c)
    BY <2>1, AfterTwo
  <2> QED BY <2>2 DEF a, c, NegatedBracket
<1>3. r # <<>>
  <2> SUFFICES ASSUME r = <<>> PROVE FALSE
    OBVIOUS
  <2>1. After(<<>>, rest) = <<>>
    BY <1>0, AfterError
  <2> QED BY <1>1, <2>1
<1>4. ReadToken(o, "!") # <<>>
  BY <1>2, <1>3, ReadNothing
<1>5. PICK b0 \in Bracket, outer \in Seq(Bracket) : o = Push(b0, outer) /\ b0.expected = "operand"
  <2>1. "!" \in Booleans \cup {"!"}
    OBVIOUS
  <2>2. ~(o = <<>> \/ \E b \in Bracket : \E outer \in Seq(Bracket) : o = Push(b, outer) /\ b.expected = "operator")
    BY <1>4, <2>1, NotExpected
  <2> QED BY <2>2, OpenCases
<1> DEFINE b1 == [b0 EXCEPT !.negated = 1 - @]
           t == Push(b1, outer)
<1>6. r = Over(Outermost, t) /\ t \in Seq(Bracket)
  <2>1. ReadToken(o, "!") = t
    BY <1>5, Expected
  <2>2. b1 \in Bracket /\ b1.expected = "operand"
    BY <1>5, BracketTypes
  <2> HIDE DEF b1
  <2>3. ReadToken(Push(b1, outer), "(") = Push(Empty, Push(b1, outer))
    BY <2>2, Expected
  <2>4. t \in Seq(Bracket)
    BY <2>2, OneBefore
  <2>5. Push(Empty, t) = Over(Outermost, t)
    BY DEF Push, Over, Outermost
  <2> QED BY <1>2, <2>1, <2>3, <2>4, <2>5
<1> HIDE DEF r, t
<1> DEFINE q == After(r, x)
<1>7. After(r, rest) = ReadToken(q, ")") /\ q \in Seq(Bracket)
  <2>1. After(r, Over(x, last)) = After(After(r, x), last)
    <3> HIDE DEF last
    <3> QED BY <1>0, AfterOver
  <2>2. After(r, x) \in Seq(Bracket)
    BY <1>1, AfterType
  <2> DEFINE c == ")"
  <2>3. c \in Constants
    BY <1>0
  <2> HIDE DEF c, q
  <2>4. After(q, <<c>>) = ReadToken(q, c)
    BY <2>2, <2>3, AfterOne DEF q
  <2> QED BY <2>1, <2>2, <2>4 DEF c, q
<1>8. q # <<>> /\ ReadToken(q, ")") # <<>>
  BY <1>1, <1>7, ReadNothing
<1> DEFINE u == After(Outermost, x)
           zero == 0
<1>9. Outermost \in Seq(Bracket) /\ Outermost # <<>> /\ Len(Outermost) - 1 = 0
  BY OutermostIs
<1>10. Run(LevelStep, Len(Outermost) - 1, x) = 0
  BY <1>9 DEF Balanced
<1>11. u # <<>>
  <2> HIDE DEF u, zero
  <2>1. After(Over(Outermost, t), x) # <<>>
    BY <1>6, <1>8
  <2>2. Run(LevelStep, Len(Outermost) - 1, x) # -1
    BY <1>10
  <2>3. After(Outermost, x) # <<>>
    BY <1>6, <1>9, <2>1, <2>2, AfterInside
  <2> QED BY <2>3 DEF u
<1>12. u \in Seq(Bracket) /\ Len(u) = 1
  <2>1. u \in Seq(Bracket)
    BY <1>9, AfterType
  <2>2. Run(LevelStep, Len(Outermost) - 1, x) = Len(u) - 1
    BY <1>9, <1>11, AfterLevel
  <2>3. Len(u) \in Nat
    BY <2>1
  <2>4. Len(u) - 1 = 0
    BY <1>10, <2>2
  <2> DEFINE n == Len(u)
  <2>5. n \in Nat /\ n - 1 = 0
    BY <2>3, <2>4
  <2> HIDE DEF n
  <2>6. n = 1
    BY <2>5
  <2> QED BY <2>1, <2>6 DEF n
<1>13. q = Over(u, t)
  BY <1>6, <1>9, <1>11, AfterLocal
<1> HIDE DEF u, q
<1>14. PICK b \in Bracket : u = <<b>>
  <2>1. Head(u) \in Bracket /\ Tail(u) = <<>> /\ u = Push(Head(u), Tail(u))
    BY <1>11, <1>12, FirstAndOthers
  <2>2. \A h \in Bracket : Push(h, <<>>) = <<h>>
    BY DEF Push
  <2>3. u = <<Head(u)>>
    BY <2>1, <2>2
  <2> QED BY <2>1, <2>3
<1>15. q = Push(b, t)
  BY <1>13, <1>14 DEF Push, Over
<1>16. b.expected = "operator"
  <2> SUFFICES ASSUME b.expected # "operator" PROVE FALSE
    OBVIOUS
  <2> DEFINE c == ")"
  <2>1. ~Changes(b, c) /\ ~Opens(b, c) /\ ~Closes(b, c)
    BY DEF Changes, Opens, Closes, Bracket, Booleans
  <2> HIDE DEF c
  <2>2. ReadToken(Push(b, t), c) = <<>>
    BY <1>6, <2>1, ReadIs
  <2> QED BY <1>8, <1>15, <2>2 DEF c
<1> QED BY <1>14, <1>16 DEF u

LEMMA MeaningIs ==
  ASSUME NEW x \in Seq(Constants), NEW b \in Bracket, b.expected = "operator", After(Outermost, x) = <<b>>
  PROVE  Meaning(x) = ToBoolean(Value(b) = 1)
<1>1. Len(x) \in Nat
  OBVIOUS
<1>2. OpenAfter(x) = <<b>>
  <2> DEFINE n == Len(x)
  <2>1. n \in Nat /\ n = Len(x)
    BY <1>1
  <2> HIDE DEF n
  <2> QED BY <2>1, OpenIs
<1>3. Len(<<b>>) = 1 /\ Head(<<b>>) = b
  OBVIOUS
<1> QED BY <1>2, <1>3 DEF Meaning

\* What means something reads so.
LEMMA MeansIs ==
  ASSUME NEW x \in Seq(Constants), Meaning(x) # "error"
  PROVE  \E b \in Bracket : b.expected = "operator" /\ After(Outermost, x) = <<b>>
<1> DEFINE u == After(Outermost, x)
           n == Len(x)
<1>1. n \in Nat /\ n = Len(x)
  OBVIOUS
<1>2. OpenAfter(x) = u
  <2> HIDE DEF n, u
  <2>1. OpenAfter(x) = After(Outermost, x)
    BY <1>1, OpenIs
  <2> QED BY <2>1 DEF u
<1>3. u \in Seq(Bracket)
  <2>1. Outermost \in Seq(Bracket)
    BY OutermostIs
  <2> QED BY <2>1, AfterType
<1> HIDE DEF u
<1>4. Len(u) = 1 /\ Head(u).expected = "operator"
  BY <1>2 DEF Meaning
<1>5. u # <<>>
  <2> SUFFICES ASSUME u = <<>> PROVE FALSE
    OBVIOUS
  <2> QED BY <1>4
<1>6. Head(u) \in Bracket /\ Tail(u) = <<>> /\ u = Push(Head(u), Tail(u))
  BY <1>3, <1>4, <1>5, FirstAndOthers
<1>7. \A h \in Bracket : Push(h, <<>>) = <<h>>
  BY DEF Push
<1>8. u = <<Head(u)>>
  BY <1>6, <1>7
<1> QED BY <1>4, <1>6, <1>8 DEF u

LEMMA ReadMachine == Machine(ReadStep, Seq(Bracket), <<>>, Constants)
<1>1. \A t \in Constants : ReadStep[<<<<>>, t>>] = <<>>
  <2> DEFINE o == <<>>
  <2>1. o \in Seq(Bracket)
    OBVIOUS
  <2> HIDE DEF o
  <2>2. \A t \in Constants : ReadStep[<<o, t>>] = ReadToken(o, t)
    BY <2>1, ReadStepIs
  <2> QED BY <2>2, ReadNothing DEF o
<1>2. Stays(ReadStep, <<>>, Constants)
  BY <1>1 DEF Stays
<1>3. ReadStep \in [Seq(Bracket) \X Constants -> Seq(Bracket)]
  BY ReadStepIs
<1>4. <<>> \in Seq(Bracket)
  OBVIOUS
<1> QED BY <1>2, <1>3, <1>4 DEF Machine

\* Text that reads as another does can replace it.
LEMMA ReadReplace ==
  ASSUME NEW x \in Seq(Constants), NEW old \in Seq(Constants), old # <<>>, NEW new \in Seq(Constants),
         \A o \in Seq(Bracket) : After(o, old) = After(o, new), After(Outermost, x) # <<>>
  PROVE  After(Outermost, Replace(x, old, new)) = After(Outermost, x)
<1> DEFINE S == Seq(Bracket)
           bad == <<>>
<1>1. SameTo(ReadStep, S, bad, old, new)
  BY DEF SameTo, After
<1>2. Machine(ReadStep, S, bad, Constants)
  BY ReadMachine
<1>3. Outermost \in S
  BY OutermostIs
<1>4. Run(ReadStep, Outermost, x) # bad
  BY DEF After
<1> HIDE DEF S, bad
<1>5. \A s \in S : Run(ReadStep, s, x) # bad => Run(ReadStep, s, Replace(x, old, new)) = Run(ReadStep, s, x)
  BY <1>1, <1>2, RunReplace
<1> QED BY <1>3, <1>4, <1>5 DEF After

\* A text that reads as m, and whose negations are all of brackets.
Kept(x, m) == Balanced(x) /\ PlainRun(NoValues, 0, x) >= 0 /\ After(Outermost, x) = m

LEMMA FirstRead ==
  ASSUME NEW x \in Seq(Constants), NEW a, NEW inner, NEW b, InnerOf(x, a, inner, b),
         PlainRun(NoValues, 0, x) >= 0, After(Outermost, x) # <<>>
  PROVE  /\ Positive(inner) /\ PlainRun(NoValues, 0, Around(inner)) = 0
         /\ \E c \in Bracket : c.expected = "operator" /\ After(Outermost, inner) = <<c>>
<1> DEFINE ar == Around(inner)
           rest == Over(ar, b)
           s == PlainRun(NoValues, 0, a)
           q == PlainRun(NoValues, s, ar)
           o == After(Outermost, a)
           r == After(o, ar)
           zero == 0
<1>1. a \in Seq(Constants) /\ b \in Seq(Constants) /\ inner \in Seq(Constants) /\ Balanced(inner) /\ x = Over(a, rest)
  BY DEF InnerOf
<1>2. ar \in Seq(Constants)
  BY <1>1, AroundIs
<1>3. rest \in Seq(Constants)
  <2> HIDE DEF ar
  <2> QED BY <1>1, <1>2, RunOver
<1>4. PlainRun(NoValues, 0, x) = PlainRun(NoValues, q, b) /\ s \in Int /\ q \in Int
  <2>0. zero \in Int
    OBVIOUS
  <2> HIDE DEF zero, rest, ar
  <2>1. PlainRun(NoValues, zero, Over(a, rest)) = PlainRun(NoValues, PlainRun(NoValues, zero, a), rest)
    BY <1>1, <1>3, <2>0, PlainOver
  <2>2. PlainRun(NoValues, zero, a) \in Int
    BY <1>1, <2>0, PlainOver
  <2>3. s \in Int
    BY <2>2 DEF zero
  <2>4. PlainRun(NoValues, 0, x) = PlainRun(NoValues, s, rest)
    BY <1>1, <2>1 DEF zero
  <2> HIDE DEF s
  <2>5. PlainRun(NoValues, s, Over(ar, b)) = PlainRun(NoValues, PlainRun(NoValues, s, ar), b)
    BY <1>1, <1>2, <2>3, PlainOver
  <2>6. PlainRun(NoValues, s, ar) \in Int
    BY <1>2, <2>3, PlainOver
  <2> QED BY <2>3, <2>4, <2>5, <2>6 DEF rest
<1>5. q # -1
  <2> SUFFICES ASSUME q = -1 PROVE FALSE
    OBVIOUS
  <2>1. PlainRun(NoValues, -1, b) = -1
    <3>1. 0 \in Int
      OBVIOUS
    <3> QED BY <1>1, <3>1, PlainOver
  <2> HIDE DEF q
  <2> QED BY <1>4, <2>1
<1>6. s = 0 /\ q = 0 /\ Positive(inner)
  <2>1. PlainRun(NoValues, s, Around(inner)) # -1 /\ s \in Int
    BY <1>4, <1>5
  <2> HIDE DEF s
  <2>2. s = 0 /\ PlainRun(NoValues, s, Around(inner)) = 0 /\ Positive(inner)
    BY <1>1, <2>1, PlainAround
  <2> QED BY <2>2
<1>7. PlainRun(NoValues, 0, Around(inner)) = 0
  BY <1>6
<1>8. After(Outermost, x) = After(r, b) /\ o \in Seq(Bracket)
  <2>1. Outermost \in Seq(Bracket)
    BY OutermostIs
  <2> HIDE DEF rest, ar
  <2>2. After(Outermost, Over(a, rest)) = After(After(Outermost, a), rest)
    BY <1>1, <1>3, AfterOver
  <2>3. After(Outermost, a) \in Seq(Bracket)
    BY <1>1, <2>1, AfterType
  <2> HIDE DEF o
  <2>4. After(o, Over(ar, b)) = After(After(o, ar), b)
    BY <1>1, <1>2, AfterOver
  <2> QED BY <1>1, <2>2, <2>3, <2>4 DEF o, rest
<1>9. r # <<>>
  <2> SUFFICES ASSUME r = <<>> PROVE FALSE
    OBVIOUS
  <2>1. After(<<>>, b) = <<>>
    BY <1>1, AfterError
  <2> QED BY <1>8, <2>1
<1>10. \E c \in Bracket : c.expected = "operator" /\ After(Outermost, inner) = <<c>>
  <2>1. After(o, Around(inner)) # <<>>
    BY <1>9
  <2> HIDE DEF o
  <2> QED BY <1>1, <1>8, <2>1, ReadAround
<1> QED BY <1>6, <1>7, <1>10

LEMMA RoundKeeps ==
  ASSUME NEW x \in Seq(Constants), NEW m, m # <<>>, Kept(x, m), HasNegatedBracket(x)
  PROVE  Kept(evaluateBrackets[x], m)
<1> DEFINE inner == resolveBracketExpression(x)
           old == Around(inner)
           new == Opposite(inner)
           step == PlainStep(NoValues)
           bad == -1
           S == Int
<1>1. Balanced(x) /\ PlainRun(NoValues, 0, x) >= 0 /\ After(Outermost, x) = m
  BY DEF Kept
<1>2. PICK a, b : InnerOf(x, a, inner, b)
  BY <1>1, InnerIs
<1>3. inner \in Seq(Constants)
  BY <1>2 DEF InnerOf
<1>4. /\ Positive(inner) /\ PlainRun(NoValues, 0, old) = 0
      /\ \E c \in Bracket : c.expected = "operator" /\ After(Outermost, inner) = <<c>>
  <2> HIDE DEF inner
  <2> QED BY <1>1, <1>2, FirstRead
<1>5. PICK c \in Bracket : c.expected = "operator" /\ After(Outermost, inner) = <<c>>
  BY <1>4
<1>6. evaluateExp(inner) = Meaning(inner) /\ ~HasNegatedBracket(inner)
  <2> HIDE DEF inner
  <2> QED BY <1>3, <1>4, PositiveIs
<1>7. Meaning(inner) = ToBoolean(Value(c) = 1)
  <2> HIDE DEF inner
  <2> QED BY <1>3, <1>5, MeaningIs
<1>8. new = <<ToBoolean(Value(c) # 1)>>
  <2>1. ToBoolean(Value(c) = 1) # "true" <=> Value(c) # 1
    BY DEF ToBoolean
  <2> QED BY <1>6, <1>7, <2>1 DEF Opposite
<1>9. evaluateBrackets[inner] = new
  BY <1>3, <1>6, EvaluateIs
<1>10. evaluateBrackets[x] = Replace(x, old, new)
  BY <1>9, EvaluateIs
<1>11. new \in Seq(Constants) /\ old \in Seq(Constants) /\ old # <<>>
  BY <1>3, OppositeIs, AroundIs
<1>12. \A o \in Seq(Bracket) : After(o, old) = After(o, new)
  <2> SUFFICES ASSUME NEW o \in Seq(Bracket) PROVE After(o, old) = After(o, new)
    OBVIOUS
  <2> HIDE DEF inner
  <2>1. After(o, Around(inner)) = After(o, <<ToBoolean(Value(c) # 1)>>)
    BY <1>3, <1>5, NegatedAround
  <2> QED BY <1>8, <2>1
<1>13. After(Outermost, Replace(x, old, new)) = m
  <2> HIDE DEF old, new
  <2>1. After(Outermost, Replace(x, old, new)) = After(Outermost, x)
    BY <1>1, <1>11, <1>12, ReadReplace
  <2> QED BY <1>1, <2>1
<1>14. SameTo(step, S, bad, old, new)
  <2>1. ASSUME NEW s \in Int, PlainRun(NoValues, s, old) # -1
        PROVE  PlainRun(NoValues, s, new) = PlainRun(NoValues, s, old)
    <3>0. Balanced(inner)
      BY <1>2 DEF InnerOf
    <3>1. s = 0
      <4> HIDE DEF inner
      <4> QED BY <1>3, <2>1, <3>0, PlainAround
    <3> DEFINE t == ToBoolean(Value(c) # 1)
    <3>2. t \in Constants /\ t \in Booleans
      BY TokensAreConstants DEF ToBoolean, Booleans
    <3>3. Plain(NoValues, 0, t) = 0
      <4>1. t # "!"
        BY <3>2 DEF Booleans
      <4> HIDE DEF t
      <4> QED BY <4>1 DEF Plain
    <3> DEFINE zero == 0
    <3>4. zero \in Int
      OBVIOUS
    <3> HIDE DEF t, zero
    <3>5. PlainRun(NoValues, zero, <<t>>) = Plain(NoValues, zero, t)
      BY <3>2, <3>4, PlainOne
    <3> QED BY <1>4, <1>8, <3>1, <3>3, <3>5 DEF t, zero
  <2> HIDE DEF old, new
  <2> QED BY <2>1 DEF SameTo, PlainRun
<1>15. PlainRun(NoValues, 0, Replace(x, old, new)) = PlainRun(NoValues, 0, x)
  <2>1. Machine(step, S, bad, Constants)
    BY PlainIs
  <2>2. 0 \in S /\ Run(step, 0, x) # bad
    BY <1>1 DEF PlainRun
  <2> HIDE DEF old, new, S, bad, step
  <2>3. \A s \in S : Run(step, s, x) # bad => Run(step, s, Replace(x, old, new)) = Run(step, s, x)
    BY <1>11, <1>14, <2>1, RunReplace
  <2> QED BY <2>2, <2>3 DEF PlainRun, step
<1>16. Balanced(evaluateBrackets[x])
  BY <1>1, EvaluateShortens DEF Shortened
<1> HIDE DEF old, new
<1> QED BY <1>1, <1>10, <1>13, <1>15, <1>16 DEF Kept

\* What is left has no negation.
LEMMA PositiveEnd ==
  ASSUME NEW x \in Seq(Constants), ~HasNegatedBracket(x), PlainRun(NoValues, 0, x) >= 0
  PROVE  Positive(x)
<1> DEFINE P(y) == PlainRun(NoValues, 0, y)
           End(y) == Len(y) >= 1 /\ y[Len(y)] = "!"
           G == {y \in Seq(Constants) : \/ P(y) = -1
                                        \/ HasNegatedBracket(y)
                                        \/ P(y) >= 0 /\ Positive(y)
                                        \/ P(y) <= -2 /\ End(y)}
<1>1. <<>> \in G
  <2> DEFINE o == <<>>
             zero == 0
  <2>1. o \in Seq(Constants) /\ zero \in Int /\ zero >= 0
    OBVIOUS
  <2>2. Positive(o)
    BY DEF Positive
  <2> HIDE DEF o, zero
  <2>3. PlainRun(NoValues, zero, o) = zero
    BY <2>1, PlainOver DEF o
  <2>4. P(o) >= 0
    BY <2>1, <2>3 DEF zero
  <2>5. o \in G
    BY <2>1, <2>2, <2>4
  <2> QED BY <2>5 DEF o
<1>2. ASSUME NEW y \in Seq(Constants), NEW t \in Constants, y \in G PROVE Append(y, t) \in G
  <2> DEFINE w == Append(y, t)
             n == Len(y)
  <2> SUFFICES w \in G
    OBVIOUS
  <2>1. w \in Seq(Constants) /\ Len(w) = n + 1 /\ w[n + 1] = t /\ (\A k \in 1..n : w[k] = y[k]) /\ n \in Nat
    BY AppendProperties
  <2>2. P(w) = Plain(NoValues, P(y), t) /\ P(y) \in Int
    <3> DEFINE zero == 0
    <3>1. zero \in Int
      OBVIOUS
    <3> HIDE DEF zero
    <3>2. PlainRun(NoValues, zero, Append(y, t)) = Plain(NoValues, PlainRun(NoValues, zero, y), t)
      BY <3>1, PlainAppend
    <3>3. PlainRun(NoValues, zero, y) \in Int
      BY <3>1, PlainOver
    <3> QED BY <3>2, <3>3 DEF zero
  <2> HIDE DEF P
  <2>3. \/ P(y) = -1
        \/ HasNegatedBracket(y)
        \/ P(y) >= 0 /\ Positive(y)
        \/ P(y) <= -2 /\ End(y)
    BY <1>2
  <2> HIDE DEF w
  <2>4. CASE P(y) = -1
    <3>1. P(w) = -1
      BY <2>2, <2>4 DEF Plain
    <3> QED BY <2>1, <3>1
  <2>5. CASE HasNegatedBracket(y)
    <3>1. PICK i : i \in Occurrences(NegatedBracket, y)
      BY <2>5 DEF HasNegatedBracket
    <3>2. i \in 1..(n - 1) /\ y[i] = "!" /\ y[i + 1] = "("
      BY <3>1, NegatedAt
    <3>3. i \in 1..(Len(w) - 1) /\ w[i] = "!" /\ w[i + 1] = "("
      <4>1. i \in 1..n /\ i + 1 \in 1..n /\ i \in 1..(n + 1 - 1)
        BY <2>1, <3>2
      <4> QED BY <2>1, <3>2, <4>1
    <3>4. i \in Occurrences(NegatedBracket, w)
      BY <2>1, <3>3, NegatedAt
    <3>5. HasNegatedBracket(w)
      BY <3>4 DEF HasNegatedBracket
    <3> QED BY <2>1, <3>5
  <2>6. CASE P(y) >= 0 /\ Positive(y)
    <3>1. CASE t = "!"
      <4>1. P(w) <= -2
        BY <2>2, <2>6, <3>1 DEF Plain
      <4>2. End(w)
        BY <2>1, <3>1
      <4> QED BY <2>1, <4>1, <4>2
    <3>2. CASE t # "!"
      <4>1. Delta(t) \in {-1, 0, 1}
        BY DeltaType
      <4>2. P(w) >= 0
        BY <2>2, <2>6, <3>2, <4>1 DEF Plain
      <4>3. Positive(w)
        BY <2>6, <3>2, PositiveAppend DEF w
      <4> QED BY <2>1, <4>2, <4>3
    <3> QED BY <3>1, <3>2
  <2>7. CASE P(y) <= -2 /\ End(y)
    <3>1. CASE t = "("
      <4>1. n \in 1..(Len(w) - 1) /\ w[n] = "!" /\ w[n + 1] = "("
        BY <2>1, <2>7, <3>1
      <4>2. n \in Occurrences(NegatedBracket, w)
        <5> HIDE DEF n
        <5> QED BY <2>1, <4>1, NegatedAt
      <4>3. HasNegatedBracket(w)
        BY <4>2 DEF HasNegatedBracket
      <4> QED BY <2>1, <4>3
    <3>2. CASE t # "("
      <4>1. P(w) = -1
        BY <2>2, <2>7, <3>2 DEF Plain, NoValues
      <4> QED BY <2>1, <4>1
    <3> QED BY <3>1, <3>2
  <2> QED BY <2>3, <2>4, <2>5, <2>6, <2>7
<1> HIDE DEF G
<1>3. Seq(Constants) \subseteq G
  BY <1>1, <1>2, SequencesByAppending
<1>4. x \in G
  BY <1>3
<1>5. P(x) \in Int
  <2>1. 0 \in Int
    OBVIOUS
  <2> QED BY <2>1, PlainOver
<1> QED BY <1>4, <1>5 DEF G

\* The negations of values, replaced.
WithoutFalse(x) == Replace(x, Two("!", "true"), <<"false">>)

WithoutNegatedValues(x) == Replace(WithoutFalse(x), Two("!", "false"), <<"true">>)

LEMMA NegationIs ==
  ASSUME NEW x PROVE handleNegation(x) = ReplaceBrackets(WithoutNegatedValues(x))
BY DEF handleNegation, WithoutNegatedValues, WithoutFalse, Two

LEMMA ValueTexts ==
  ASSUME NEW c \in Booleans, NEW d \in Booleans
  PROVE  /\ Two("!", c) \in Seq(Constants) /\ Two("!", c) # <<>> /\ <<d>> \in Seq(Constants)
         /\ \A l \in Levels : Run(LevelStep, l, Two("!", c)) = l /\ Run(LevelStep, l, <<d>>) = l
<1>1. "!" \in Constants /\ c \in Constants /\ d \in Constants /\ Delta(c) = 0 /\ Delta(d) = 0 /\ Delta("!") = 0
  BY DEF Constants, Operators, Booleans, Delta
<1>2. "!" \in Tokens /\ c \in Tokens /\ d \in Tokens
  BY <1>1 DEF Tokens
<1>3. Two("!", c) \in Seq(Constants) /\ <<d>> \in Seq(Constants)
  <2>1. <<d>> \in Seq(Constants)
    BY <1>1
  <2>2. Two("!", c) \in Seq(Constants)
    BY <1>1, TwoIs
  <2> QED BY <2>1, <2>2
<1>4. Two("!", c) # <<>>
  BY DEF Two
<1>5. ASSUME NEW l \in Levels PROVE Run(LevelStep, l, Two("!", c)) = l /\ Run(LevelStep, l, <<d>>) = l
  <2>1. \A t \in Tokens : Delta(t) = 0 => LevelStep[<<l, t>>] = l
    <3>1. \A t \in Tokens : LevelStep[<<l, t>>] = IF l = -1 THEN -1 ELSE l + Delta(t)
      BY LevelStepIs
    <3> QED BY <3>1 DEF Levels
  <2>2. Run(LevelStep, l, <<d>>) = LevelStep[<<l, d>>]
    BY <1>2, RunOne
  <2> DEFINE bang == "!"
  <2>3. bang \in Tokens /\ Delta(bang) = 0
    BY <1>1, <1>2
  <2> HIDE DEF bang
  <2>4. Run(LevelStep, l, <<bang, c>>) = LevelStep[<<LevelStep[<<l, bang>>], c>>]
    BY <1>2, <2>3, LevelTwo
  <2>5. Run(LevelStep, l, Two(bang, c)) = l
    BY <1>1, <1>2, <2>1, <2>3, <2>4 DEF Two
  <2> QED BY <1>1, <1>2, <2>1, <2>2, <2>5 DEF bang
<1> QED BY <1>3, <1>4, <1>5

LEMMA NegatedValueBalanced ==
  ASSUME NEW x \in Seq(Constants), Balanced(x), NEW c \in Booleans, NEW d \in Booleans
  PROVE  Replace(x, Two("!", c), <<d>>) \in Seq(Constants) /\ Balanced(Replace(x, Two("!", c), <<d>>))
<1> DEFINE old == Two("!", c)
           new == <<d>>
           zero == 0
           bad == -1
<1>1. old \in Seq(Constants) /\ old # <<>> /\ new \in Seq(Constants)
      /\ \A l \in Levels : Run(LevelStep, l, old) = l /\ Run(LevelStep, l, new) = l
  BY ValueTexts
<1> HIDE DEF old, new
<1>2. SameTo(LevelStep, Levels, -1, old, new)
  BY <1>1 DEF SameTo
<1>3. old \in Seq(Tokens) /\ new \in Seq(Tokens) /\ x \in Seq(Tokens)
  BY <1>1, ConstantsAreTokens
<1>4. zero \in Levels /\ Run(LevelStep, zero, x) # -1 /\ Run(LevelStep, zero, x) = 0
  BY DEF Balanced, Levels
<1> HIDE DEF zero
<1>5. Run(LevelStep, zero, Replace(x, old, new)) = Run(LevelStep, zero, x)
  BY <1>1, <1>2, <1>3, <1>4, LevelReplace
<1>6. Replace(x, old, new) \in Seq(Constants)
  BY <1>1, ReplaceType
<1> QED BY <1>4, <1>5, <1>6 DEF Balanced, zero, old, new

LEMMA NegatedValueReads ==
  ASSUME NEW x \in Seq(Constants), After(Outermost, x) # <<>>, NEW c \in Booleans
  PROVE  After(Outermost, Replace(x, Two("!", c), <<Not(c)>>)) = After(Outermost, x)
<1> DEFINE old == Two("!", c)
           d == Not(c)
           new == <<d>>
<1>1. d \in Booleans
  BY DEF Not, Booleans
<1> HIDE DEF d
<1>2. old \in Seq(Constants) /\ old # <<>> /\ new \in Seq(Constants)
  BY <1>1, ValueTexts
<1>3. \A o \in Seq(Bracket) : After(o, old) = After(o, new)
  BY NegatedValue DEF Two, d
<1> HIDE DEF old, new
<1>4. After(Outermost, Replace(x, old, new)) = After(Outermost, x)
  BY <1>2, <1>3, ReadReplace
<1> QED BY <1>4 DEF old, new, d

LEMMA NegatedValuesBalanced ==
  ASSUME NEW x \in Seq(Constants), Balanced(x)
  PROVE  /\ WithoutFalse(x) \in Seq(Constants) /\ Balanced(WithoutFalse(x))
         /\ WithoutNegatedValues(x) \in Seq(Constants) /\ Balanced(WithoutNegatedValues(x))
<1> DEFINE y == WithoutFalse(x)
           t == "true"
           f == "false"
<1>1. t \in Booleans /\ f \in Booleans
  BY DEF Booleans
<1>2. y \in Seq(Constants) /\ Balanced(y)
  <2> HIDE DEF t, f
  <2>1. Replace(x, Two("!", t), <<f>>) \in Seq(Constants) /\ Balanced(Replace(x, Two("!", t), <<f>>))
    BY <1>1, NegatedValueBalanced
  <2> QED BY <2>1 DEF WithoutFalse, t, f
<1>3. Replace(y, Two("!", "false"), <<"true">>) \in Seq(Constants)
      /\ Balanced(Replace(y, Two("!", "false"), <<"true">>))
  <2> HIDE DEF t, f, y
  <2>1. Replace(y, Two("!", f), <<t>>) \in Seq(Constants) /\ Balanced(Replace(y, Two("!", f), <<t>>))
    BY <1>1, <1>2, NegatedValueBalanced
  <2> QED BY <2>1 DEF t, f
<1> QED BY <1>2, <1>3 DEF WithoutNegatedValues

\* The evaluation ends when brackets are closed.
LEMMA BalancedEnds ==
  ASSUME NEW x \in Seq(Constants), Balanced(x)
  PROVE  ~HasNegatedBracket(handleNegation(x))
<1> DEFINE y == WithoutNegatedValues(x)
<1>1. y \in Seq(Constants) /\ Balanced(y)
  BY NegatedValuesBalanced
<1> HIDE DEF y
<1>2. ~HasNegatedBracket(ReplaceBrackets(y))
  BY <1>1, RoundsEnd
<1> QED BY <1>2, NegationIs DEF y

LEMMA NegatedValuesKept ==
  ASSUME NEW x \in Seq(Constants), NEW m, m # <<>>, After(Outermost, x) = m, Balanced(x),
         PlainRun(Booleans, 0, x) >= 0
  PROVE  WithoutNegatedValues(x) \in Seq(Constants) /\ Kept(WithoutNegatedValues(x), m)
<1> DEFINE y == WithoutFalse(x)
           z == WithoutNegatedValues(x)
           t == "true"
           f == "false"
           C == Booleans
           B == {"false"}
           N == NoValues
<1>1. t \in Booleans /\ f \in Booleans /\ Not(t) = f /\ Not(f) = t
      /\ C = B \cup {t} /\ B = N \cup {f} /\ B \subseteq Booleans /\ N \subseteq Booleans
  BY DEF Booleans, Not, NoValues
<1>2. y \in Seq(Constants) /\ z \in Seq(Constants) /\ Balanced(z)
  BY NegatedValuesBalanced
<1>3. y = Replace(x, Two("!", t), <<f>>)
  BY DEF WithoutFalse
<1>4. z = Replace(y, Two("!", f), <<t>>)
  BY DEF WithoutNegatedValues
<1>5. PlainRun(C, 0, x) # -1 /\ PlainRun(C, 0, x) >= 0
  OBVIOUS
<1> HIDE DEF t, f, y, z, B, C, N
<1>6. PlainRun(B, 0, y) = PlainRun(C, 0, x)
  BY <1>1, <1>3, <1>5, PlainReplace
<1>7. PlainRun(B, 0, y) # -1
  BY <1>5, <1>6
<1>8. PlainRun(N, 0, z) = PlainRun(B, 0, y)
  BY <1>1, <1>2, <1>4, <1>7, PlainReplace
<1>9. After(Outermost, y) = m
  BY <1>1, <1>3, NegatedValueReads
<1>10. After(Outermost, z) = m
  BY <1>1, <1>2, <1>4, <1>9, NegatedValueReads
<1>11. PlainRun(NoValues, 0, z) >= 0
  BY <1>5, <1>6, <1>8 DEF N
<1> QED BY <1>2, <1>10, <1>11 DEF Kept, z

\* Expressions mean what they are evaluated to.
LEMMA ConstantsEvaluated ==
  ASSUME NEW x \in Seq(Constants), Meaning(x) # "error", PlainRun(Booleans, 0, x) >= 0
  PROVE  /\ ~HasNegatedBracket(handleNegation(x)) /\ evaluateExp(handleNegation(x)) = Meaning(x)
<1>1. PICK b \in Bracket : b.expected = "operator" /\ After(Outermost, x) = <<b>>
  BY MeansIs
<1> DEFINE m == <<b>>
           y == WithoutNegatedValues(x)
           z == ReplaceBrackets(y)
           G == {w \in Seq(Constants) : Kept(w, m)}
<1>2. m # <<>> /\ Len(m) = 1
  OBVIOUS
<1>3. Balanced(x)
  <2> DEFINE n == Len(Outermost) - 1
  <2>1. Outermost \in Seq(Bracket) /\ Outermost # <<>> /\ n = 0
    BY OutermostIs
  <2>2. After(Outermost, x) # <<>>
    BY <1>1, <1>2
  <2>3. Run(LevelStep, Len(Outermost) - 1, x) = Len(After(Outermost, x)) - 1
    BY <2>1, <2>2, AfterLevel
  <2>4. Len(After(Outermost, x)) = 1
    BY <1>1, <1>2
  <2>5. Run(LevelStep, n, x) = 0
    BY <2>3, <2>4
  <2> HIDE DEF n
  <2> QED BY <2>1, <2>5 DEF Balanced
<1> HIDE DEF m
<1>4. After(Outermost, x) = m
  BY <1>1 DEF m
<1>5. y \in Seq(Constants) /\ Kept(y, m)
  BY <1>2, <1>3, <1>4, NegatedValuesKept
<1>6. y \in G
  BY <1>5
<1>7. \A w \in Seq(Constants) : w \in G /\ HasNegatedBracket(w) => evaluateBrackets[w] \in G
  <2> SUFFICES ASSUME NEW w \in Seq(Constants), w \in G, HasNegatedBracket(w) PROVE evaluateBrackets[w] \in G
    OBVIOUS
  <2>1. Kept(w, m)
    OBVIOUS
  <2>2. Kept(evaluateBrackets[w], m)
    BY <1>2, <2>1, RoundKeeps
  <2>3. evaluateBrackets[w] \in Seq(Constants)
    BY EvaluateIs
  <2> QED BY <2>2, <2>3
<1> HIDE DEF G, y
<1>8. z \in G /\ z \in Seq(Constants)
  BY <1>5, <1>6, <1>7, RoundsKeep
<1>9. handleNegation(x) = z
  BY NegationIs DEF y
<1>10. ~HasNegatedBracket(z)
  BY <1>3, <1>9, BalancedEnds
<1> HIDE DEF z
<1>11. PlainRun(NoValues, 0, z) >= 0 /\ After(Outermost, z) = m
  BY <1>8 DEF G, Kept
<1>12. Positive(z)
  BY <1>8, <1>10, <1>11, PositiveEnd
<1>13. evaluateExp(z) = Meaning(z)
  BY <1>8, <1>12, PositiveIs
<1>14. Meaning(z) = ToBoolean(Value(b) = 1)
  BY <1>1, <1>8, <1>11, MeaningIs DEF m
<1>15. Meaning(x) = ToBoolean(Value(b) = 1)
  BY <1>1, MeaningIs
<1> QED BY <1>9, <1>10, <1>13, <1>14, <1>15

-----------------------------------------------------------------------------
(* Expressions that have no negated brackets within negated brackets, and  *)
(* no negation of a negation.                                              *)

\* After a negation an operand is expected.
LEMMA AfterNegation ==
  ASSUME NEW o \in Seq(Bracket), ReadToken(o, "!") # <<>>
  PROVE  /\ Head(ReadToken(o, "!")).expected = "operand"
         /\ \A t : t \notin OperandTokens => ReadToken(ReadToken(o, "!"), t) = <<>>
<1> DEFINE bang == "!"
<1>1. bang \in Booleans \cup {"!"}
  OBVIOUS
<1>2. ReadToken(o, bang) # <<>>
  OBVIOUS
<1>3. PICK b0 \in Bracket, outer \in Seq(Bracket) : o = Push(b0, outer) /\ b0.expected = "operand"
  <2> HIDE DEF bang
  <2>1. ~(o = <<>> \/ \E b \in Bracket : \E outer \in Seq(Bracket) : o = Push(b, outer) /\ b.expected = "operator")
    BY <1>1, <1>2, NotExpected
  <2> QED BY <2>1, OpenCases
<1> DEFINE b1 == [b0 EXCEPT !.negated = 1 - @]
<1>4. ReadToken(o, "!") = Push(b1, outer)
  BY <1>3, Expected
<1>5. b1 \in Bracket /\ b1.expected = "operand"
  BY <1>3, BracketTypes
<1> HIDE DEF b1
<1>6. Head(Push(b1, outer)) = b1
  BY <1>5, OneBefore
<1>7. ASSUME NEW t, t \notin OperandTokens PROVE ReadToken(Push(b1, outer), t) = <<>>
  <2>1. ~Changes(b1, t) /\ ~Opens(b1, t) /\ ~Closes(b1, t)
    BY <1>5, <1>7 DEF Changes, Opens, Closes, OperandTokens
  <2> QED BY <1>5, <2>1, ReadIs
<1> QED BY <1>4, <1>5, <1>6, <1>7

\* What is known of every part of a text that is read without error.
Reads(x, g) ==
  /\ g[0] = Outermost
  /\ \A k \in 0..Len(x) : g[k] \in Seq(Bracket) /\ g[k] # <<>>
  /\ \A k \in 1..Len(x) : g[k] = ReadToken(g[k - 1], x[k])
  /\ g[Len(x)] = After(Outermost, x)

LEMMA ReadsOf ==
  ASSUME NEW x \in Seq(Constants), After(Outermost, x) # <<>>
  PROVE  \E g : Reads(x, g)
<1>1. Outermost \in Seq(Bracket)
  BY OutermostIs
<1>2. PICK g : RunAlong(ReadStep, Outermost, x, g)
  BY RunOf
<1>3. ASSUME NEW k \in 0..Len(x)
      PROVE  g[k] \in Seq(Bracket) /\ g[k] # <<>>
  <2> DEFINE u == SubSeq(x, 1, k)
             w == SubSeq(x, k + 1, Len(x))
  <2>1. u \in Seq(Constants) /\ w \in Seq(Constants) /\ Over(u, w) = x
    BY CutIn
  <2> HIDE DEF u, w
  <2>2. g[k] = After(Outermost, u)
    BY <1>2 DEF RunAlong, After, u
  <2>3. After(Outermost, u) \in Seq(Bracket)
    BY <1>1, <2>1, AfterType
  <2>4. After(Outermost, Over(u, w)) = After(After(Outermost, u), w)
    BY <2>1, AfterOver
  <2>5. After(<<>>, w) = <<>>
    BY <2>1, AfterError
  <2> QED BY <2>1, <2>2, <2>3, <2>4, <2>5
<1>4. ASSUME NEW k \in 1..Len(x)
      PROVE  g[k] = ReadToken(g[k - 1], x[k])
  <2>1. g[k] = ReadStep[<<g[k - 1], x[k]>>]
    BY <1>2 DEF RunAlong
  <2>2. k - 1 \in 0..Len(x) /\ x[k] \in Constants
    OBVIOUS
  <2>3. g[k - 1] \in Seq(Bracket)
    BY <1>3, <2>2
  <2> QED BY <2>1, <2>2, <2>3, ReadStepIs
<1>5. g[0] = Outermost /\ g[Len(x)] = After(Outermost, x)
  BY <1>2 DEF RunAlong, After
<1> QED BY <1>3, <1>4, <1>5 DEF Reads

\* The states of the machine for plain texts.
Plainly(x, f) ==
  /\ f[0] = 0
  /\ \A k \in 0..Len(x) : f[k] \in Int
  /\ \A k \in 1..Len(x) : f[k] = Plain(Booleans, f[k - 1], x[k])
  /\ f[Len(x)] = PlainRun(Booleans, 0, x)

LEMMA PlainlyOf ==
  ASSUME NEW x \in Seq(Constants) PROVE \E f : Plainly(x, f)
<1> DEFINE step == PlainStep(Booleans)
           zero == 0
<1>0. zero \in Int
  OBVIOUS
<1>1. PICK f : RunAlong(step, zero, x, f)
  <2> HIDE DEF step, zero
  <2> QED BY RunOf
<1>2. ASSUME NEW k \in 0..Len(x) PROVE f[k] \in Int
  <2> DEFINE u == SubSeq(x, 1, k)
  <2>1. u \in Seq(Constants)
    BY CutIn
  <2>2. f[k] = PlainRun(Booleans, zero, u)
    BY <1>1 DEF RunAlong, PlainRun
  <2> HIDE DEF u, zero
  <2>3. PlainRun(Booleans, zero, u) \in Int
    BY <1>0, <2>1, PlainOver
  <2> QED BY <2>2, <2>3
<1>3. ASSUME NEW k \in 1..Len(x) PROVE f[k] = Plain(Booleans, f[k - 1], x[k])
  <2>1. f[k] = step[<<f[k - 1], x[k]>>]
    BY <1>1 DEF RunAlong
  <2>2. k - 1 \in 0..Len(x) /\ x[k] \in Constants
    OBVIOUS
  <2>3. f[k - 1] \in Int
    BY <1>2, <2>2
  <2> QED BY <2>1, <2>2, <2>3, PlainIs
<1>4. f[0] = 0 /\ f[Len(x)] = PlainRun(Booleans, 0, x)
  BY <1>1 DEF RunAlong, PlainRun
<1> QED BY <1>2, <1>3, <1>4 DEF Plainly

\* Where the machine is after n tokens: after a negation, and in how many brackets since a
\* negated one.
Inner(r) == IF r >= 0 THEN r ELSE -2 - r

InNegated(x, D, n, m) ==
  \E i \in Occurrences(NegatedBracket, x) :
    i + 1 <= n /\ D[n] - D[i - 1] = m /\ \A k \in (i + 1)..n : D[k] > D[i - 1]

Follow(x, f, D, n) ==
  /\ f[n] # -1
  /\ f[n] <= -2 <=> n >= 1 /\ x[n] = "!"
  /\ Inner(f[n]) > 0 => InNegated(x, D, n, Inner(f[n]))

NotNested(x, D) ==
  \A i, j \in Occurrences(NegatedBracket, x) : i < j => \E k \in (i + 1)..(j - 1) : D[k] <= D[i - 1]

\* A token that is not a bracket leaves negated brackets as they are.
LEMMA StaysInside ==
  ASSUME NEW x \in Seq(Constants), NEW D, Depths(x, D), NEW n \in 0..(Len(x) - 1), NEW m \in Nat, m > 0,
         InNegated(x, D, n, m), NEW d, d = Delta(x[n + 1]), m + d > 0
  PROVE  InNegated(x, D, n + 1, m + d)
<1>1. n \in Nat /\ Len(x) \in Nat /\ n + 1 \in 1..Len(x) /\ n \in 0..Len(x) /\ n + 1 \in 0..Len(x)
  OBVIOUS
<1>2. d \in {-1, 0, 1} /\ d \in Int
  BY DeltaType
<1>3. D[n + 1] = D[n] + d /\ D[n] \in Int /\ D[n + 1] \in Int
  <2>1. D[n + 1] = D[n + 1 - 1] + Delta(x[n + 1])
    BY <1>1 DEF Depths
  <2>2. n + 1 - 1 = n
    BY <1>1
  <2>3. D[n] \in Int /\ D[n + 1] \in Int
    BY <1>1 DEF Depths
  <2> QED BY <2>1, <2>2, <2>3
<1>4. PICK i \in Occurrences(NegatedBracket, x) :
           i + 1 <= n /\ D[n] - D[i - 1] = m /\ \A k \in (i + 1)..n : D[k] > D[i - 1]
  BY DEF InNegated
<1>5. i \in 1..(Len(x) - 1)
  BY NegatedAt
<1>6. D[i - 1] \in Int
  <2>1. i - 1 \in 0..Len(x)
    BY <1>1, <1>5
  <2> QED BY <2>1 DEF Depths
<1>7. D[n + 1] - D[i - 1] = m + d /\ D[n + 1] > D[i - 1]
  BY <1>2, <1>3, <1>4, <1>6
<1>8. i + 1 <= n + 1
  BY <1>1, <1>4, <1>5
<1>9. \A k \in (i + 1)..(n + 1) : D[k] > D[i - 1]
  <2> TAKE k \in (i + 1)..(n + 1)
  <2>1. k \in (i + 1)..n \/ k = n + 1
    BY <1>1, <1>5
  <2> QED BY <1>4, <1>7, <2>1
<1> QED BY <1>7, <1>8, <1>9 DEF InNegated

\* The first token in negated brackets.
LEMMA OpensNegated ==
  ASSUME NEW x \in Seq(Constants), NEW D, Depths(x, D), NEW n \in 1..(Len(x) - 1), x[n] = "!", x[n + 1] = "("
  PROVE  n \in Occurrences(NegatedBracket, x) /\ InNegated(x, D, n + 1, 1)
<1>1. n \in Nat /\ Len(x) \in Nat /\ n + 1 \in 1..Len(x) /\ n \in 1..Len(x) /\ n - 1 \in 0..Len(x) /\ n + 1 - 1 = n
      /\ n \in 0..Len(x) /\ n + 1 \in 0..Len(x)
  OBVIOUS
<1>2. n \in Occurrences(NegatedBracket, x)
  BY NegatedAt
<1>3. D[n] = D[n - 1] + Delta("!") /\ D[n + 1] = D[n] + Delta("(")
  <2>1. D[n + 1] = D[n + 1 - 1] + Delta(x[n + 1])
    BY <1>1 DEF Depths
  <2>2. D[n] = D[n - 1] + Delta(x[n])
    BY <1>1 DEF Depths
  <2> QED BY <1>1, <2>1, <2>2
<1>4. D[n] \in Int /\ D[n - 1] \in Int /\ D[n + 1] \in Int
  BY <1>1 DEF Depths
<1>5. D[n + 1] - D[n - 1] = 1 /\ D[n + 1] > D[n - 1]
  <2>1. Delta("!") = 0 /\ Delta("(") = 1
    BY DEF Delta
  <2> QED BY <1>3, <1>4, <2>1
<1>6. \A k \in (n + 1)..(n + 1) : D[k] > D[n - 1]
  <2> TAKE k \in (n + 1)..(n + 1)
  <2>1. k = n + 1
    BY <1>1
  <2> QED BY <1>5, <2>1
<1>7. n + 1 <= n + 1
  BY <1>1
<1> QED BY <1>2, <1>5, <1>6, <1>7 DEF InNegated

LEMMA FollowStep ==
  ASSUME NEW x \in Seq(Constants), NEW D, Depths(x, D), NotNested(x, D),
         Occurrences(<<"!", "!">>, x) = {},
         NEW f, Plainly(x, f), NEW g, Reads(x, g), NEW n \in 0..(Len(x) - 1), Follow(x, f, D, n)
  PROVE  Follow(x, f, D, n + 1)
<1> DEFINE t == x[n + 1]
           r == f[n]
           q == f[n + 1]
<1>1. n \in Nat /\ Len(x) \in Nat /\ n + 1 \in 1..Len(x) /\ n + 1 - 1 = n /\ n + 1 >= 1 /\ n + 1 \in 0..Len(x)
      /\ n \in 0..Len(x)
  OBVIOUS
<1>2. r \in Int /\ q \in Int /\ q = Plain(Booleans, r, t)
  <2>1. f[n + 1] = Plain(Booleans, f[n + 1 - 1], x[n + 1])
    BY <1>1 DEF Plainly
  <2>2. r \in Int /\ q \in Int
    BY <1>1 DEF Plainly
  <2> QED BY <1>1, <2>1, <2>2
<1>3. /\ r # -1
      /\ r <= -2 <=> n >= 1 /\ x[n] = "!"
      /\ Inner(r) > 0 => InNegated(x, D, n, Inner(r))
  BY DEF Follow
<1>4. t \in Constants /\ Delta(t) \in {-1, 0, 1} /\ Inner(r) \in Nat
  <2>1. Delta(t) \in {-1, 0, 1}
    BY DeltaType
  <2>2. Inner(r) \in Nat
    BY <1>2, <1>3 DEF Inner
  <2>3. t \in Constants
    BY <1>1
  <2> QED BY <2>1, <2>2, <2>3
\* It is enough to know the state.
<1>5. ASSUME q # -1, q <= -2 <=> t = "!", NEW d, d = Delta(t),
             Inner(q) > 0 => Inner(q) = Inner(r) + d /\ Inner(r) > 0
      PROVE  Follow(x, f, D, n + 1)
  <2>1. Inner(q) > 0 => InNegated(x, D, n + 1, Inner(q))
    <3> SUFFICES ASSUME Inner(q) > 0 PROVE InNegated(x, D, n + 1, Inner(q))
      OBVIOUS
    <3> DEFINE m == Inner(r)
    <3>1. m \in Nat /\ m > 0 /\ InNegated(x, D, n, m) /\ m + d > 0 /\ Inner(q) = m + d
      BY <1>3, <1>4, <1>5
    <3> HIDE DEF m, t
    <3>2. d = Delta(x[n + 1])
      BY <1>5 DEF t
    <3>3. InNegated(x, D, n + 1, m + d)
      BY <3>1, <3>2, StaysInside
    <3> QED BY <3>1, <3>3
  <2>2. n + 1 >= 1 /\ x[n + 1] = t
    BY <1>1
  <2> QED BY <1>5, <2>1, <2>2 DEF Follow
<1>6. CASE r >= 0
  <2>1. CASE t = "!"
    <3>1. q = -2 - r
      BY <1>2, <1>6, <2>1 DEF Plain
    <3>2. Delta(t) = 0
      BY <2>1 DEF Delta
    <3>3. q # -1 /\ q <= -2 /\ Inner(q) = Inner(r)
      BY <1>2, <1>6, <3>1 DEF Inner
    <3> HIDE DEF q, r
    <3>4. Inner(q) = Inner(r) + 0
      BY <1>4, <3>3
    <3> QED BY <1>4, <1>5, <2>1, <3>2, <3>3, <3>4
  <2>2. CASE t # "!" /\ r > 0
    <3>1. q = r + Delta(t)
      BY <1>2, <1>6, <2>2 DEF Plain
    <3>2. q >= 0 /\ Inner(q) = q /\ Inner(r) = r /\ q # -1 /\ ~(q <= -2)
      BY <1>2, <1>4, <2>2, <3>1 DEF Inner
    <3> HIDE DEF q, r, t
    <3> QED BY <1>2, <1>5, <2>2, <3>1, <3>2
  <2>3. CASE t # "!" /\ r = 0
    <3>1. q = 0
      BY <1>2, <2>3 DEF Plain
    <3>2. Inner(q) = 0
      BY <3>1 DEF Inner
    <3> HIDE DEF r, t, q
    <3> QED BY <1>5, <2>3, <3>1, <3>2
  <2> QED BY <1>2, <1>6, <2>1, <2>2, <2>3
<1>7. CASE r <= -2
  <2>0. n >= 1 /\ x[n] = "!" /\ n \in 1..Len(x) /\ n \in 1..(Len(x) - 1) /\ n - 1 \in 0..Len(x)
    <3>1. n >= 1 /\ x[n] = "!"
      BY <1>3, <1>7
    <3> QED BY <1>1, <3>1
  <2>1. t \in OperandTokens
    <3> SUFFICES ASSUME t \notin OperandTokens PROVE FALSE
      OBVIOUS
    <3> DEFINE o == g[n - 1]
    <3>1. o \in Seq(Bracket) /\ g[n] = ReadToken(o, "!") /\ g[n] # <<>>
      BY <1>1, <2>0 DEF Reads
    <3>2. g[n + 1] = ReadToken(g[n], t) /\ g[n + 1] # <<>>
      <4>1. g[n + 1] = ReadToken(g[n + 1 - 1], x[n + 1]) /\ g[n + 1] # <<>>
        BY <1>1 DEF Reads
      <4> QED BY <1>1, <4>1
    <3> HIDE DEF o, t
    <3>3. ReadToken(o, "!") # <<>>
      BY <3>1
    <3>4. ReadToken(ReadToken(o, "!"), t) = <<>>
      BY <3>1, <3>3, AfterNegation
    <3> QED BY <3>1, <3>2, <3>4
  <2>2. t # "!"
    <3> SUFFICES ASSUME t = "!" PROVE FALSE
      OBVIOUS
    <3> DEFINE two == <<"!", "!">>
    <3>1. SubSeq(x, n, n + 1) = two
      <4>1. SubSeq(x, n, n + 1) = <<x[n], x[n + 1]>>
        BY <2>0, PairOf
      <4> QED BY <2>0, <4>1
    <3>2. Len(two) = 2
      OBVIOUS
    <3>3. n + Len(two) - 1 = n + 1 /\ n + 1 <= Len(x) /\ n \in DOMAIN x
      BY <1>1, <2>0, <3>2
    <3> HIDE DEF two
    <3>4. n \in Occurrences(two, x)
      BY <3>1, <3>3 DEF Occurrences, StandsAt
    <3> QED BY <3>4 DEF two
  <2>3. CASE t \in Booleans
    <3>1. q = -2 - r
      BY <1>2, <1>3, <1>7, <2>3 DEF Plain
    <3>2. Delta(t) = 0
      BY <2>3 DEF Delta, Booleans
    <3>3. q # -1 /\ q >= 0 /\ ~(q <= -2) /\ Inner(q) = Inner(r)
      BY <1>2, <1>7, <3>1 DEF Inner
    <3> HIDE DEF q, r, t
    <3>4. Inner(q) = Inner(r) + 0
      BY <1>4, <3>3
    <3> QED BY <1>4, <1>5, <2>2, <3>2, <3>3, <3>4
  <2>4. CASE t = "("
    <3>1. n \in Occurrences(NegatedBracket, x) /\ InNegated(x, D, n + 1, 1)
      BY <2>0, <2>4, OpensNegated
    <3>2. r = -2
      <4> SUFFICES ASSUME r # -2 PROVE FALSE
        OBVIOUS
      <4>1. Inner(r) > 0
        BY <1>2, <1>7 DEF Inner
      <4>2. InNegated(x, D, n, Inner(r))
        BY <1>3, <4>1
      <4>3. PICK i \in Occurrences(NegatedBracket, x) :
                 i + 1 <= n /\ \A k \in (i + 1)..n : D[k] > D[i - 1]
        BY <4>2 DEF InNegated
      <4>4. i \in 1..(Len(x) - 1)
        BY NegatedAt
      <4>5. i < n
        BY <1>1, <4>3, <4>4
      <4>6. PICK k \in (i + 1)..(n - 1) : D[k] <= D[i - 1]
        BY <3>1, <4>5 DEF NotNested
      <4>7. k \in (i + 1)..n /\ k \in 0..Len(x) /\ i - 1 \in 0..Len(x)
        BY <1>1, <4>4
      <4>8. D[k] > D[i - 1] /\ D[k] \in Int /\ D[i - 1] \in Int
        BY <4>3, <4>7 DEF Depths
      <4> QED BY <4>6, <4>8
    <3>3. "(" \notin Booleans
      BY DEF Booleans
    <3>4. q = 1
      BY <1>2, <2>4, <3>2, <3>3 DEF Plain
    <3>5. Inner(q) = 1
      BY <3>4 DEF Inner
    <3>6. f[n + 1] # -1 /\ ~(f[n + 1] <= -2) /\ x[n + 1] # "!"
      BY <2>4, <3>4
    <3> HIDE DEF q, r, t
    <3> QED BY <3>1, <3>5, <3>6 DEF Follow, q
  <2> QED BY <2>1, <2>2, <2>3, <2>4 DEF OperandTokens
<1> QED BY <1>2, <1>3, <1>6, <1>7

LEMMA PlainText ==
  ASSUME NEW x \in Seq(Constants), NEW D, Depths(x, D), NotNested(x, D),
         Occurrences(<<"!", "!">>, x) = {}, Meaning(x) # "error"
  PROVE  PlainRun(Booleans, 0, x) >= 0
<1> DEFINE n == Len(x)
           G == {k \in 0..n : \A f, g : Plainly(x, f) /\ Reads(x, g) => Follow(x, f, D, k)}
<1>1. PICK b \in Bracket : b.expected = "operator" /\ After(Outermost, x) = <<b>>
  BY MeansIs
<1>2. n \in Nat /\ n = Len(x)
  OBVIOUS
<1>3. PICK f : Plainly(x, f)
  BY PlainlyOf
<1>4. PICK g : Reads(x, g)
  <2>1. After(Outermost, x) # <<>>
    BY <1>1
  <2> QED BY <2>1, ReadsOf
<1>5. 0 \in G
  <2> SUFFICES ASSUME NEW h, NEW e, Plainly(x, h), Reads(x, e) PROVE Follow(x, h, D, 0)
    BY <1>2
  <2>1. h[0] = 0
    BY DEF Plainly
  <2>2. Inner(h[0]) = 0
    BY <2>1 DEF Inner
  <2>3. ~(0 >= 1) /\ 0 # -1 /\ ~(0 <= -2) /\ ~(0 > 0)
    OBVIOUS
  <2> QED BY <2>1, <2>2, <2>3 DEF Follow
<1>6. ASSUME NEW k \in 0..(n - 1), k \in G PROVE k + 1 \in G
  <2>1. k + 1 \in 0..n /\ k \in 0..(Len(x) - 1)
    BY <1>2
  <2> SUFFICES ASSUME NEW h, NEW e, Plainly(x, h), Reads(x, e) PROVE Follow(x, h, D, k + 1)
    BY <2>1
  <2>2. Follow(x, h, D, k)
    BY <1>6
  <2> HIDE DEF n, G
  <2> QED BY <2>1, <2>2, FollowStep
<1> HIDE DEF G
<1>7. n \in G
  <2> HIDE DEF n
  <2>1. \A k \in 0..n : k \in G
    BY <1>2, <1>5, <1>6, UpTo
  <2> QED BY <1>2, <2>1
<1>8. Follow(x, f, D, n)
  BY <1>3, <1>4, <1>7 DEF G
<1>9. f[n] \in Int /\ f[n] = PlainRun(Booleans, 0, x) /\ f[n] # -1 /\ (f[n] <= -2 => n >= 1 /\ x[n] = "!")
  <2>1. f[n] \in Int /\ f[n] = PlainRun(Booleans, 0, x)
    BY <1>2, <1>3 DEF Plainly
  <2> QED BY <1>8, <2>1 DEF Follow
<1>10. ~(f[n] <= -2)
  <2> SUFFICES ASSUME f[n] <= -2 PROVE FALSE
    OBVIOUS
  <2> DEFINE o == g[n - 1]
  <2>1. n >= 1 /\ x[n] = "!" /\ n \in 1..Len(x) /\ n - 1 \in 0..Len(x) /\ n \in 0..Len(x)
    BY <1>2, <1>9
  <2>2. o \in Seq(Bracket) /\ g[n] = ReadToken(o, "!") /\ g[n] # <<>> /\ g[n] = <<b>>
    BY <1>1, <1>4, <2>1 DEF Reads
  <2> HIDE DEF o
  <2>3. ReadToken(o, "!") # <<>>
    BY <2>2
  <2>4. Head(ReadToken(o, "!")).expected = "operand"
    BY <2>2, <2>3, AfterNegation
  <2>5. Head(<<b>>) = b
    OBVIOUS
  <2> QED BY <1>1, <2>2, <2>4, <2>5
<1> HIDE DEF n
<1> QED BY <1>9, <1>10

-----------------------------------------------------------------------------
(* Expressions and what is in their tags' places.                          *)

Expressions == Seq(Tags \cup Operators)

\* A text with values instead of tags.
Valued(e, x) ==
  /\ x \in Seq(Constants) /\ e \in Seq(Tokens) /\ Len(x) = Len(e)
  /\ \A k \in 1..Len(e) : /\ e[k] \in Operators => x[k] = e[k]
                          /\ e[k] \notin Operators => x[k] \in Booleans

LEMMA FormattedIs ==
  ASSUME NEW e \in Expressions, NEW present PROVE Valued(e, Formatted(e, present))
<1> DEFINE x == Formatted(e, present)
           n == Len(e)
<1>1. n \in Nat /\ DOMAIN e = 1..n /\ e \in Seq(Tags \cup Operators)
      /\ \A k \in 1..n : e[k] \in Tags \cup Operators
  BY DEF Expressions
<1>2. x = [k \in 1..n |-> IF k \in Operands(e) THEN ToBoolean(e[k] \in present) ELSE e[k]]
  BY <1>1 DEF Formatted
<1>3. \A k \in 1..n : k \in Operands(e) <=> e[k] \notin Operators
  BY <1>1, TagsAssumption DEF Operands
<1>4. \A k \in 1..n : ToBoolean(e[k] \in present) \in Booleans
  BY DEF ToBoolean, Booleans
<1>5. \A k \in 1..n : /\ e[k] \in Operators => x[k] = e[k]
                      /\ e[k] \notin Operators => x[k] \in Booleans
  BY <1>2, <1>3, <1>4
<1>6. \A k \in 1..n : x[k] \in Constants
  BY <1>5 DEF Constants
<1>7. x \in Seq(Constants) /\ Len(x) = n
  <2>1. x = [k \in 1..n |-> x[k]]
    BY <1>2
  <2> HIDE DEF x, n
  <2>2. [k \in 1..n |-> x[k]] \in [1..n -> Constants]
    BY <1>6
  <2>3. x \in [1..n -> Constants]
    BY <2>1, <2>2
  <2> QED BY <1>1, <2>3
<1>8. e \in Seq(Tokens)
  <2>1. Tags \cup Operators \subseteq Tokens
    BY DEF Tokens, Constants
  <2> QED BY <1>1, <2>1
<1> HIDE DEF x
<1> QED BY <1>5, <1>7, <1>8 DEF Valued, x

LEMMA ValuedDepths ==
  ASSUME NEW e, NEW x, Valued(e, x), NEW D, Depths(x, D)
  PROVE  /\ \A n \in 0..Len(e) : Depth(e, n + 1) = D[n]
         /\ Run(LevelStep, 0, e) = Run(LevelStep, 0, x)
<1> DEFINE N == Len(e)
           zero == 0
<1>1. x \in Seq(Constants) /\ x \in Seq(Tokens) /\ e \in Seq(Tokens) /\ Len(x) = N /\ N \in Nat
  BY ConstantsAreTokens DEF Valued
<1>2. \A k \in 1..N : Delta(e[k]) = Delta(x[k])
  BY DEF Valued, Delta, Operators, Booleans
<1>3. PICK E : Depths(e, E)
  BY <1>1, DepthsOf
<1>4. \A k \in 0..N : E[k] = D[k]
  <2> DEFINE G == {k \in 0..N : E[k] = D[k]}
  <2>1. 0 \in G
    BY <1>1, <1>3 DEF Depths
  <2>2. ASSUME NEW k \in 0..(N - 1), k \in G PROVE k + 1 \in G
    <3>1. k + 1 \in 1..N /\ k + 1 - 1 = k /\ k + 1 \in 0..N
      BY <1>1
    <3>2. E[k + 1] = E[k + 1 - 1] + Delta(e[k + 1])
      BY <1>3, <3>1 DEF Depths
    <3>3. D[k + 1] = D[k + 1 - 1] + Delta(x[k + 1])
      BY <1>1, <3>1 DEF Depths
    <3> QED BY <1>2, <2>2, <3>1, <3>2, <3>3
  <2> HIDE DEF G, N
  <2>3. \A k \in 0..N : k \in G
    BY <1>1, <2>1, <2>2, UpTo
  <2> QED BY <2>3 DEF G
<1>5. \A k \in 0..N : Depth(e, k + 1) = D[k]
  BY <1>3, <1>4 DEF Depths
<1>6. PICK f : RunAlong(LevelStep, zero, e, f)
  <2> HIDE DEF zero
  <2> QED BY <1>1, RunOf
<1>7. PICK h : RunAlong(LevelStep, zero, x, h)
  <2> HIDE DEF zero
  <2> QED BY <1>1, RunOf
<1>8. \A k \in 0..N : f[k] = h[k] /\ f[k] \in Levels
  <2> DEFINE G == {k \in 0..N : f[k] = h[k] /\ f[k] \in Levels}
  <2>1. 0 \in G
    BY <1>1, <1>6, <1>7 DEF RunAlong, Levels
  <2>2. ASSUME NEW k \in 0..(N - 1), k \in G PROVE k + 1 \in G
    <3>1. k + 1 \in 1..N /\ k + 1 - 1 = k /\ k + 1 \in 0..N
      BY <1>1
    <3>2. f[k + 1] = LevelStep[<<f[k], e[k + 1]>>]
      BY <1>6, <3>1 DEF RunAlong
    <3>3. h[k + 1] = LevelStep[<<h[k], x[k + 1]>>]
      BY <1>1, <1>7, <3>1 DEF RunAlong
    <3>4. e[k + 1] \in Tokens /\ x[k + 1] \in Tokens
      BY <1>1, <3>1
    <3>5. f[k + 1] = (IF f[k] = -1 THEN -1 ELSE f[k] + Delta(e[k + 1])) /\ f[k + 1] \in Levels
      BY <2>2, <3>2, <3>4, LevelStepIs
    <3>6. h[k + 1] = IF h[k] = -1 THEN -1 ELSE h[k] + Delta(x[k + 1])
      BY <2>2, <3>3, <3>4, LevelStepIs
    <3> QED BY <1>2, <2>2, <3>1, <3>5, <3>6
  <2> HIDE DEF G, N
  <2>3. \A k \in 0..N : k \in G
    BY <1>1, <2>1, <2>2, UpTo
  <2> QED BY <2>3 DEF G
<1>9. Run(LevelStep, zero, e) = Run(LevelStep, zero, x)
  BY <1>1, <1>6, <1>7, <1>8 DEF RunAlong
<1> QED BY <1>5, <1>9

LEMMA NegationAt ==
  ASSUME NEW A, NEW x \in Seq(A), NEW i
  PROVE  i \in Occurrences(<<"!", "!">>, x) <=> i \in 1..(Len(x) - 1) /\ x[i] = "!" /\ x[i + 1] = "!"
<1> DEFINE two == <<"!", "!">>
<1>1. Len(two) = 2
  OBVIOUS
<1>2. Len(x) \in Nat /\ DOMAIN x = 1..Len(x)
  OBVIOUS
<1>3. \A m \in Nat : m + Len(two) - 1 = m + 1
  BY <1>1
<1>4. i \in Occurrences(two, x) <=> i \in 1..(Len(x) - 1) /\ SubSeq(x, i, i + 1) = two
  <2> HIDE DEF two
  <2>1. i \in Occurrences(two, x) <=> i \in 1..Len(x) /\ i + Len(two) - 1 <= Len(x) /\ SubSeq(x, i, i + Len(two) - 1) = two
    BY <1>2 DEF Occurrences, StandsAt
  <2>2. i \in 1..Len(x) => i + Len(two) - 1 = i + 1
    BY <1>2, <1>3
  <2>3. i \in 1..(Len(x) - 1) <=> i \in 1..Len(x) /\ i + 1 <= Len(x)
    BY <1>2
  <2> QED BY <2>1, <2>2, <2>3
<1>5. i \in 1..(Len(x) - 1) => SubSeq(x, i, i + 1) = <<x[i], x[i + 1]>>
  BY PairOf
<1> QED BY <1>4, <1>5

LEMMA ValuedNegations ==
  ASSUME NEW e, NEW x, Valued(e, x), NEW D, Depths(x, D), ~Nested(e), ~NegatedTwice(e)
  PROVE  NotNested(x, D) /\ Occurrences(<<"!", "!">>, x) = {}
<1> DEFINE N == Len(e)
<1>1. x \in Seq(Constants) /\ e \in Seq(Tokens) /\ Len(x) = N /\ N \in Nat
  BY DEF Valued
<1>2. \A k \in 1..N : (x[k] = "!" <=> e[k] = "!") /\ (x[k] = "(" <=> e[k] = "(")
  BY DEF Valued, Operators, Booleans
<1>3. \A i \in 1..(N - 1) : i \in 1..N /\ i + 1 \in 1..N
  BY <1>1
<1>4. \A i \in Occurrences(NegatedBracket, x) : i \in Occurrences(NegatedBracket, e) /\ i \in 1..(N - 1)
  <2> TAKE i \in Occurrences(NegatedBracket, x)
  <2>1. i \in 1..(N - 1) /\ x[i] = "!" /\ x[i + 1] = "("
    BY <1>1, NegatedAt
  <2>2. i \in 1..(Len(e) - 1) /\ e[i] = "!" /\ e[i + 1] = "("
    BY <1>2, <1>3, <2>1
  <2>3. i \in Occurrences(NegatedBracket, e)
    BY <1>1, <2>2, NegatedAt
  <2> QED BY <2>1, <2>3
<1>5. Occurrences(<<"!", "!">>, x) = {}
  <2> SUFFICES ASSUME NEW i, i \in Occurrences(<<"!", "!">>, x) PROVE FALSE
    OBVIOUS
  <2>1. i \in 1..(N - 1) /\ x[i] = "!" /\ x[i + 1] = "!"
    BY <1>1, NegationAt
  <2>2. i \in 1..(Len(e) - 1) /\ e[i] = "!" /\ e[i + 1] = "!"
    BY <1>2, <1>3, <2>1
  <2>3. i \in Occurrences(<<"!", "!">>, e)
    BY <1>1, <2>2, NegationAt
  <2> QED BY <2>3 DEF NegatedTwice
<1>6. \A n \in 0..N : Depth(e, n + 1) = D[n] /\ D[n] \in Int
  <2>1. \A n \in 0..N : Depth(e, n + 1) = D[n]
    BY ValuedDepths
  <2>2. \A n \in 0..N : D[n] \in Int
    BY <1>1 DEF Depths
  <2> QED BY <2>1, <2>2
<1>7. ASSUME NEW i \in Occurrences(NegatedBracket, x), NEW j \in Occurrences(NegatedBracket, x), i < j
      PROVE  \E k \in (i + 1)..(j - 1) : D[k] <= D[i - 1]
  <2>1. i \in Occurrences(NegatedBracket, e) /\ j \in Occurrences(NegatedBracket, e)
        /\ i \in 1..(N - 1) /\ j \in 1..(N - 1)
    BY <1>4
  <2>2. PICK k \in (i + 2)..j : ~(Depth(e, k) > Depth(e, i))
    BY <1>7, <2>1 DEF Nested
  <2> DEFINE h == k - 1
             l == i - 1
  <2>3. h \in 0..N /\ l \in 0..N /\ h + 1 = k /\ l + 1 = i /\ h \in (i + 1)..(j - 1)
    BY <1>1, <2>1
  <2> HIDE DEF h, l
  <2>4. Depth(e, h + 1) = D[h] /\ Depth(e, l + 1) = D[l] /\ D[h] \in Int /\ D[l] \in Int
    BY <1>6, <2>3
  <2>5. D[h] <= D[l]
    BY <2>2, <2>3, <2>4
  <2> QED BY <2>3, <2>5 DEF l
<1>8. NotNested(x, D)
  BY <1>7 DEF NotNested
<1> QED BY <1>5, <1>8

LEMMA MeaningType == ASSUME NEW x PROVE Meaning(x) \in {"true", "false", "error"} /\ evaluateExp(x) # "hangs"
BY DEF Meaning, ToBoolean, evaluateExp

\* Whether a text means something does not depend on the values in it.
LEMMA MeaningAlike ==
  ASSUME NEW e, NEW x, NEW y, Valued(e, x), Valued(e, y), Meaning(x) # "error"
  PROVE  Meaning(y) # "error"
<1>1. x \in Seq(Constants) /\ y \in Seq(Constants) /\ Len(x) = Len(y)
  BY DEF Valued
<1>2. \A k \in 1..Len(x) : Alike(x[k], y[k])
  BY DEF Valued, Alike
<1>3. SameShape(After(Outermost, x), After(Outermost, y))
  BY <1>1, <1>2, AfterShape
<1>4. PICK b \in Bracket : b.expected = "operator" /\ After(Outermost, x) = <<b>>
  BY <1>1, MeansIs
<1> DEFINE u == <<b>>
           w == After(Outermost, y)
           n == Len(y)
<1>5. Len(u) = 1 /\ u[1] = b
  OBVIOUS
<1>6. SameShape(u, w)
  BY <1>3, <1>4
<1>7. w \in Seq(Bracket)
  BY <1>1, AfterType, OutermostIs
<1>8. OpenAfter(y) = w
  <2>1. n \in Nat /\ n = Len(y)
    BY <1>1
  <2> HIDE DEF n
  <2> QED BY <1>1, <2>1, OpenIs
<1> HIDE DEF u, w
<1>9. Len(w) = 1 /\ w[1].expected = "operator"
  <2>1. Len(u) = Len(w) /\ \A k \in 1..Len(u) : u[k].expected = w[k].expected
    BY <1>6 DEF SameShape
  <2>2. 1 \in 1..Len(u)
    BY <1>5
  <2>3. u[1].expected = w[1].expected
    BY <2>1, <2>2
  <2> QED BY <1>4, <1>5, <2>1, <2>3
<1>10. Head(w) = w[1]
  BY <1>7, <1>9
<1> QED BY <1>8, <1>9, <1>10 DEF Meaning, ToBoolean

\* Expressions mean what they are evaluated to.
LEMMA Evaluated ==
  ASSUME NEW e \in Expressions, ~Nested(e), ~NegatedTwice(e), NEW present, Meaning(Formatted(e, present)) # "error"
  PROVE  formatAndEvaluateExpression(e, present) = Meaning(Formatted(e, present))
<1> DEFINE x == Formatted(e, present)
<1>1. Valued(e, x)
  BY FormattedIs
<1> HIDE DEF x
<1>2. x \in Seq(Constants) /\ x \in Seq(Tokens) /\ Meaning(x) # "error"
  BY <1>1, ConstantsAreTokens DEF Valued, x
<1>3. PICK D : Depths(x, D)
  BY <1>2, DepthsOf
<1>4. NotNested(x, D) /\ Occurrences(<<"!", "!">>, x) = {}
  BY <1>1, <1>3, ValuedNegations
<1>5. PlainRun(Booleans, 0, x) >= 0
  BY <1>2, <1>3, <1>4, PlainText
<1>6. ~HasNegatedBracket(handleNegation(x)) /\ evaluateExp(handleNegation(x)) = Meaning(x)
  BY <1>2, <1>5, ConstantsEvaluated
<1> QED BY <1>6 DEF formatAndEvaluateExpression, x

LEMMA DepthAtEnd ==
  ASSUME NEW e \in Seq(Tokens), Run(LevelStep, 0, e) # -1
  PROVE  Depth(e, Len(e) + 1) = Run(LevelStep, 0, e) /\ Run(LevelStep, 0, e) \in Nat
<1> DEFINE n == Len(e)
           zero == 0
<1>1. n \in 0..Len(e) /\ SubSeq(e, 1, n) = e /\ zero \in Nat /\ zero \in Levels
  BY DEF Levels
<1>2. Depth(e, n + 1) = Run(DepthStep, 0, SubSeq(e, 1, n))
  <2> HIDE DEF n
  <2> QED BY <1>1, DepthIs
<1> HIDE DEF zero
<1>3. Run(LevelStep, zero, e) \in Levels /\ Run(LevelStep, zero, e) # -1
  BY <1>1, LevelType DEF zero
<1>4. Run(DepthStep, 0, e) = Run(LevelStep, zero, e) - zero
  BY <1>1, <1>3, LevelFacts
<1>5. Run(LevelStep, zero, e) \in Nat
  BY <1>3 DEF Levels
<1> DEFINE level == Run(LevelStep, zero, e)
<1>6. Run(DepthStep, 0, e) = level - zero /\ level \in Nat /\ zero = 0
  BY <1>4, <1>5 DEF zero
<1> HIDE DEF level
<1>7. Run(DepthStep, 0, e) = level
  BY <1>6
<1> QED BY <1>1, <1>2, <1>6, <1>7 DEF zero, level

\* The evaluation ends unless brackets are open.
LEMMA EndsWhenClosed ==
  ASSUME NEW e \in Expressions, Run(LevelStep, 0, e) # -1, NEW present,
         formatAndEvaluateExpression(e, present) = "hangs"
  PROVE  Depth(e, Len(e) + 1) > 0
<1> DEFINE x == Formatted(e, present)
           n == Depth(e, Len(e) + 1)
<1>1. Valued(e, x)
  BY FormattedIs
<1> HIDE DEF x
<1>2. x \in Seq(Constants) /\ x \in Seq(Tokens) /\ e \in Seq(Tokens)
  BY <1>1, ConstantsAreTokens DEF Valued
<1>3. n = Run(LevelStep, 0, e) /\ n \in Nat
  BY <1>2, DepthAtEnd
<1> SUFFICES ASSUME n = 0 PROVE FALSE
  BY <1>3
<1>4. PICK D : Depths(x, D)
  BY <1>2, DepthsOf
<1>5. Run(LevelStep, 0, x) = 0
  BY <1>1, <1>3, <1>4, ValuedDepths
<1>6. Balanced(x)
  BY <1>5 DEF Balanced
<1>7. ~HasNegatedBracket(handleNegation(x))
  BY <1>2, <1>6, BalancedEnds
<1>8. formatAndEvaluateExpression(e, present) = evaluateExp(handleNegation(x))
  BY <1>7 DEF formatAndEvaluateExpression, x
<1> QED BY <1>8, MeaningType

\* An expression as it is written closes no bracket that is not open.
TagsTyped == expression \in Expressions /\ Run(LevelStep, 0, expression) # -1

LEMMA TagsTypedInit == TagsInit => TagsTyped
<1> SUFFICES ASSUME TagsInit PROVE TagsTyped
  OBVIOUS
<1> DEFINE zero == 0
<1>1. expression = <<>> /\ expression \in Expressions
  BY DEF TagsInit, Expressions
<1>2. Run(LevelStep, zero, <<>>) = zero
  BY RunNothing
<1> QED BY <1>1, <1>2 DEF TagsTyped

LEMMA TagsTypedNext == TagsTyped /\ [TagsNext]_expression => TagsTyped'
<1> SUFFICES ASSUME TagsTyped, [TagsNext]_expression PROVE TagsTyped'
  OBVIOUS
<1>1. CASE UNCHANGED expression
  BY <1>1 DEF TagsTyped
<1>2. CASE TagsNext
  <2> DEFINE e == expression
             n == Depth(e, Len(e) + 1)
             zero == 0
  <2>1. PICK token \in Tags \cup Operators : Follows(e, token) /\ expression' = Append(e, token)
    BY <1>2 DEF TagsNext
  <2>2. e \in Expressions /\ e \in Seq(Tokens) /\ token \in Tokens /\ Append(e, token) \in Expressions
    <3>1. e \in Expressions
      BY DEF TagsTyped
    <3>2. Tags \cup Operators \subseteq Tokens
      BY DEF Tokens, Constants
    <3> HIDE DEF e
    <3> QED BY <3>1, <3>2 DEF Expressions
  <2>3. n = Run(LevelStep, 0, e) /\ n \in Nat
    <3>1. Run(LevelStep, 0, e) # -1
      BY DEF TagsTyped
    <3> HIDE DEF e
    <3> QED BY <2>2, <3>1, DepthAtEnd
  <2>4. token = ")" => n > 0
    BY <2>1, TagsAssumption DEF Follows, Operators
  <2> HIDE DEF e, n
  <2>5. Run(LevelStep, zero, Append(e, token))
          = IF Run(LevelStep, zero, e) = -1 THEN -1 ELSE Run(LevelStep, zero, e) + Delta(token)
    <3>1. zero \in Levels
      BY DEF Levels
    <3> HIDE DEF zero
    <3> QED BY <2>2, <3>1, LevelAppend
  <2>6. Run(LevelStep, 0, Append(e, token)) = n + Delta(token)
    BY <2>3, <2>5
  <2>7. n + Delta(token) # -1
    BY <2>3, <2>4 DEF Delta
  <2>8. Run(LevelStep, 0, Append(e, token)) # -1
    BY <2>6, <2>7
  <2> QED BY <2>1, <2>2, <2>8 DEF TagsTyped
<1> QED BY <1>1, <1>2

\* What is selected with a tag expression is what the expression says, the check before the
\* selection accepts what it accepts, and both end, for all tags and expressions of any
\* length, where negations are not within each other and brackets are closed (filterTags,
\* validateTagExpression and handleNegation).
THEOREM TagsSound == TagsSpec => []TagsAsWritten
<1>1. TagsTyped => TagsAsWritten
  <2> SUFFICES ASSUME TagsTyped PROVE TagsAsWritten
    OBVIOUS
  <2> DEFINE e == expression
  <2>1. e \in Expressions /\ Run(LevelStep, 0, e) # -1
    BY DEF TagsTyped
  <2> HIDE DEF e
  <2>2. Validated(e) = "hangs" => Depth(e, Len(e) + 1) > 0
    BY <2>1, EndsWhenClosed DEF Validated
  <2>3. ASSUME ~Nested(e), ~NegatedTwice(e), NEW present \in SUBSET Tags,
               Meaning(Formatted(e, present)) # "error"
        PROVE  /\ Validated(e) \in {"true", "false"}
               /\ filterTags(e, present) <=> Meaning(Formatted(e, present)) = "true"
    <3>1. formatAndEvaluateExpression(e, present) = Meaning(Formatted(e, present))
      BY <2>1, <2>3, Evaluated
    <3> DEFINE x == Formatted(e, present)
               y == Formatted(e, Tags)
    <3>2. Valued(e, x) /\ Valued(e, y)
      BY <2>1, FormattedIs
    <3> HIDE DEF x, y
    <3>3. Meaning(y) # "error"
      BY <2>3, <3>2, MeaningAlike DEF x
    <3>4. formatAndEvaluateExpression(e, Tags) = Meaning(y)
      BY <2>1, <2>3, <3>3, Evaluated DEF y
    <3>5. Validated(e) \in {"true", "false"}
      BY <3>3, <3>4, MeaningType DEF Validated
    <3> QED BY <3>1, <3>5 DEF filterTags
  <2> QED BY <2>2, <2>3 DEF TagsAsWritten, e
<1>2. TagsSpec => []TagsTyped
  BY TagsTypedInit, TagsTypedNext, PTL DEF TagsSpec
<1> QED BY <1>1, <1>2, PTL
=============================================================================

-------------------------- MODULE ParallelExecution --------------------------
(***************************************************************************)
(* A suite executed in parallel streams (parallelExecution.go): every      *)
(* stream is a goroutine with a runner of its own that runs a              *)
(* simpleExecution over its share of the specifications and sends its      *)
(* suiteResult through a channel; the main goroutine receives one result   *)
(* per stream and merges them (aggregateResults).                          *)
(*                                                                         *)
(* What a stream does within one specification is SpecExecution; here a    *)
(* specification is one step with a verdict.  The plugin handler the       *)
(* streams share is PluginHandler's.                                       *)
(***************************************************************************)
EXTENDS Integers, Sequences, FiniteSets

CONSTANTS
  SpecCount,               \* number of specifications, numbered from 1
  NumberOfExecutionStreams \* the -n flag

\* executeSpecs does not get here without a specification, and rejects -n 0.
ASSUME StreamsAssumption ==
  SpecCount \in Nat \ {0} /\ NumberOfExecutionStreams \in Nat \ {0}

VARIABLES
  main,      \* main goroutine: "receiving", then "finished"; "exited" is os.Exit
  pc,        \* per stream
  runner,    \* per stream, its runner process: "none", "alive" or "gone"
  waiting,   \* per stream, its specifications not executed yet
  result,    \* per stream, its suiteResult
  channel,   \* suiteResultChannel: the streams whose result is in it
  received,  \* the streams whose result the main goroutine has
  aggregate  \* aggregateResult

vars == <<main, pc, runner, waiting, result, channel, received, aggregate>>

-----------------------------------------------------------------------------
Specs == 1..SpecCount

Distributions(specCount, streams) == IF streams > specCount THEN specCount ELSE streams

\* distributeSpecs deals the specifications out like cards.
Share(stream, specCount, distributions) ==
  {s \in 1..specCount : (s - 1) % distributions = stream - 1}

StreamCount == Distributions(SpecCount, NumberOfExecutionStreams)
Stream == 1..StreamCount
ShareOf(stream) == Share(stream, SpecCount, StreamCount)
StreamOf(s) == ((s - 1) % StreamCount) + 1

EmptyResult ==
  [isFailed |-> FALSE, specsFailedCount |-> 0, specResults |-> <<>>,
   preSuite |-> FALSE, postSuite |-> FALSE, specsSkipped |-> {}]

\* A slip: the last result that arrives decides.
AggregateLast(total, res) ==
  [isFailed |-> res.isFailed,
   specsFailedCount |-> total.specsFailedCount + res.specsFailedCount,
   specResults |-> total.specResults \o res.specResults,
   preSuite |-> total.preSuite \/ res.preSuite,
   postSuite |-> total.postSuite \/ res.postSuite,
   specsSkipped |-> total.specsSkipped \cup res.specsSkipped]

\* aggregateResults, for one result.  preSuite and postSuite keep the failure of
\* one stream only; here they say whether there is one.
Aggregate(total, res) ==
  [isFailed |-> total.isFailed \/ res.isFailed,
   specsFailedCount |-> total.specsFailedCount + res.specsFailedCount,
   specResults |-> total.specResults \o res.specResults,
   preSuite |-> total.preSuite \/ res.preSuite,
   postSuite |-> total.postSuite \/ res.postSuite,
   specsSkipped |-> total.specsSkipped \cup res.specsSkipped]

-----------------------------------------------------------------------------
Init ==
  /\ main = "receiving"
  /\ pc = [i \in Stream |-> "connect"]
  /\ runner = [i \in Stream |-> "none"]
  /\ waiting = [i \in Stream |-> ShareOf(i)]
  /\ result = [i \in Stream |-> EmptyResult]
  /\ channel = <<>> /\ received = {}
  /\ aggregate = EmptyResult

At(i, stage) == main # "exited" /\ pc[i] = stage
Goto(i, stage) == pc' = [pc EXCEPT ![i] = stage]

\* startRunnerAndMakeConnection succeeds.
Connect(i) ==
  /\ At(i, "connect") /\ Goto(i, "before")
  /\ runner' = [runner EXCEPT ![i] = "alive"]
  /\ UNCHANGED <<main, waiting, result, channel, received, aggregate>>

\* A slip: the stream ends without a word.
SkipSilently(i) == UNCHANGED <<result, channel>>

\* The stream's result when it has no runner: its specifications are skipped,
\* and isFailed stays false.
SkipSpecs(i) ==
  /\ result' = [result EXCEPT ![i].specsSkipped = ShareOf(i)]
  /\ channel' = Append(channel, i)

\* startRunnerAndMakeConnection fails; a process it has started it also kills.
FailToConnect(i, started) ==
  /\ At(i, "connect") /\ Goto(i, "ended")
  /\ runner' = [runner EXCEPT ![i] = IF started THEN "gone" ELSE "none"]
  /\ SkipSpecs(i)
  /\ UNCHANGED <<main, waiting, received, aggregate>>

\* ExecutionStarting of the stream's own suite.
BeforeSuite(i, failed) ==
  /\ At(i, "before")
  /\ Goto(i, IF failed THEN "after" ELSE "specs")
  /\ result' = [result EXCEPT ![i].isFailed = failed, ![i].preSuite = failed]
  /\ UNCHANGED <<main, runner, waiting, channel, received, aggregate>>

\* One round of the loop in simpleExecution.start; the share is in order.
ExecuteSpec(i, failed) ==
  /\ At(i, "specs")
  /\ \E s \in waiting[i] :
       /\ \A t \in waiting[i] : s <= t
       /\ waiting' = [waiting EXCEPT ![i] = @ \ {s}]
       /\ Goto(i, IF waiting[i] = {s} THEN "after" ELSE "specs")
       /\ result' = [result EXCEPT
            ![i].isFailed = @ \/ failed,
            ![i].specsFailedCount = @ + IF failed THEN 1 ELSE 0,
            ![i].specResults = Append(@, [spec |-> s, isFailed |-> failed])]
  /\ UNCHANGED <<main, runner, channel, received, aggregate>>

\* getDataTableRows rejects --table-rows for the next specification (any may have
\* a table it does not fit): os.Exit ends every goroutine.
RejectTableRows(i) ==
  /\ At(i, "specs") /\ main' = "exited"
  /\ UNCHANGED <<pc, runner, waiting, result, channel, received, aggregate>>

\* A slip: the result is sent first, and the process may end before the kill.
NextStageSendFirst(stage) ==
  CASE stage = "after" -> "send" [] stage = "send" -> "kill" [] stage = "kill" -> "ended"

\* startSpecsExecutionWithRunner: execution, runner.kill, send.
NextStage(stage) ==
  CASE stage = "after" -> "kill" [] stage = "kill" -> "send" [] stage = "send" -> "ended"

AfterSuite(i, failed) ==
  /\ At(i, "after") /\ Goto(i, NextStage("after"))
  /\ result' = [result EXCEPT ![i].isFailed = @ \/ failed, ![i].postSuite = failed]
  /\ UNCHANGED <<main, runner, waiting, channel, received, aggregate>>

\* testRunner.kill: returns when the process is gone, killed or by itself.
KillRunner(i) ==
  /\ At(i, "kill") /\ Goto(i, NextStage("kill"))
  /\ runner' = [runner EXCEPT ![i] = "gone"]
  /\ UNCHANGED <<main, waiting, result, channel, received, aggregate>>

\* The channel has room for one result of every stream: this never blocks.
SendResult(i) ==
  /\ At(i, "send") /\ Goto(i, NextStage("send"))
  /\ channel' = Append(channel, i)
  /\ UNCHANGED <<main, runner, waiting, result, received, aggregate>>

\* The receiving loop, with the round of aggregateResults for that result.
Receive ==
  /\ main = "receiving" /\ channel # <<>>
  /\ channel' = Tail(channel)
  /\ received' = received \cup {Head(channel)}
  /\ aggregate' = Aggregate(aggregate, result[Head(channel)])
  /\ main' = IF received' = Stream THEN "finished" ELSE "receiving"
  /\ UNCHANGED <<pc, runner, waiting, result>>

StreamStep(i) ==
  \/ Connect(i) \/ FailToConnect(i, TRUE) \/ FailToConnect(i, FALSE)
  \/ BeforeSuite(i, TRUE) \/ BeforeSuite(i, FALSE)
  \/ ExecuteSpec(i, TRUE) \/ ExecuteSpec(i, FALSE) \/ RejectTableRows(i)
  \/ AfterSuite(i, TRUE) \/ AfterSuite(i, FALSE)
  \/ KillRunner(i) \/ SendResult(i)

Next == Receive \/ \E i \in Stream : StreamStep(i)

Spec == Init /\ [][Next]_vars

\* Goroutines are scheduled fairly; a runner that is asked answers, dies, or
\* (when starting and when stopping) runs into a timeout.
FairSpec ==
  Spec /\ WF_vars(Receive) /\ \A i \in Stream : WF_vars(StreamStep(i))
-----------------------------------------------------------------------------
(* Properties.                                                             *)

Results ==
  [isFailed : BOOLEAN, specsFailedCount : Nat,
   specResults : Seq([spec : Specs, isFailed : BOOLEAN]),
   preSuite : BOOLEAN, postSuite : BOOLEAN, specsSkipped : SUBSET Specs]

\* The types of the state; a stream only ever has specifications of its share.
TypeOK ==
  /\ main \in {"receiving", "finished", "exited"}
  /\ pc \in [Stream -> {"connect", "before", "specs", "after", "kill", "send", "ended"}]
  /\ runner \in [Stream -> {"none", "alive", "gone"}]
  /\ waiting \in [Stream -> SUBSET Specs] /\ \A i \in Stream : waiting[i] \subseteq ShareOf(i)
  /\ result \in [Stream -> Results]
  /\ channel \in Seq(Stream)
  /\ received \in SUBSET Stream
  /\ aggregate \in Results

\* distributeSpecs: every specification is in exactly one share, and no share is
\* empty (a stream without a collection would have nothing to run).
SharesPartition(specCount, streams) ==
  LET d == Distributions(specCount, streams)
      ShareAt(i) == Share(i, specCount, d)
  IN  /\ \A s \in 1..specCount : \E i \in 1..d :
           s \in ShareAt(i) /\ \A j \in 1..d : s \in ShareAt(j) => j = i
      /\ \A i \in 1..d : ShareAt(i) # {}

\* When the result is there, every runner a stream has started is gone: the
\* process that ends now leaves none of them behind.
NoRunnerLeft == main = "finished" => \A i \in Stream : runner[i] # "alive"

\* The suite comes to its end, whichever runners start and whatever they answer.
Terminates == <>(main \in {"finished", "exited"})

-----------------------------------------------------------------------------
(* The suite run this implements.                                          *)

FailedEntry(i, s) ==
  \E k \in DOMAIN result[i].specResults :
    result[i].specResults[k].spec = s /\ result[i].specResults[k].isFailed

FateIn(i, s) ==
  IF s \in result[i].specsSkipped THEN "skipped"
  ELSE IF result[i].preSuite THEN "barred"
  ELSE IF s \in waiting[i] THEN "pending"
  ELSE IF FailedEntry(i, s) THEN "failed" ELSE "passed"

SuiteFate == [s \in Specs |-> FateIn(StreamOf(s), s)]

SuiteTrouble == \E i \in Stream : result[i].preSuite \/ result[i].postSuite

SuiteOutcome ==
  CASE main = "receiving" -> "running"
    [] main = "exited" -> "aborted"
    [] main = "finished" -> IF aggregate.isFailed THEN "failed" ELSE "passed"

Run == INSTANCE SuiteRun WITH
  fate    <- SuiteFate,
  trouble <- SuiteTrouble,
  outcome <- SuiteOutcome

\* Every specification meets one fate, and the report is failed exactly when a
\* specification or a suite hook failed in some stream.
SuiteAccounted == Run!SuiteSpec
=============================================================================

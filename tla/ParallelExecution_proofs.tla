----------------------- MODULE ParallelExecution_proofs -----------------------
(***************************************************************************)
(* Theorems about ParallelExecution for any number of specifications and   *)
(* streams: the shares, the types, the runners, and SuiteRun.              *)
(***************************************************************************)
EXTENDS ParallelExecution, TLAPS

\* The number of streams is positive and at most that of the specifications.
LEMMA StreamCountRange ==
  ASSUME NEW specCount \in Nat \ {0}, NEW streams \in Nat \ {0}
  PROVE  Distributions(specCount, streams) \in 1..specCount
BY DEF Distributions

\* The remainder the distribution goes by.
LEMMA Remainder ==
  ASSUME NEW a \in Nat, NEW d \in Nat \ {0}
  PROVE  /\ a % d \in 0..(d - 1)
         /\ a < d => a % d = a
OBVIOUS

\* distributeSpecs deals every specification to exactly one stream and none of
\* the streams goes empty, for every number of specifications and of streams.
THEOREM DistributionSound ==
  ASSUME NEW specCount \in Nat \ {0}, NEW streams \in Nat \ {0}
  PROVE  SharesPartition(specCount, streams)
<1> DEFINE d == Distributions(specCount, streams)
<1>1. d \in 1..specCount /\ d \in Nat \ {0}
  BY StreamCountRange
<1> HIDE DEF d
<1>2. ASSUME NEW s \in 1..specCount
      PROVE  \E i \in 1..d : s \in Share(i, specCount, d)
                               /\ \A j \in 1..d : s \in Share(j, specCount, d) => j = i
  <2>1. (s - 1) % d \in 0..(d - 1)
    BY <1>1, Remainder
  <2> DEFINE r == (s - 1) % d
  <2> HIDE DEF r
  <2>2. r \in 0..(d - 1) /\ (s - 1) % d = r
    BY <2>1 DEF r
  <2>3. r + 1 \in 1..d /\ r = (r + 1) - 1 /\ \A j \in 1..d : r = j - 1 => j = r + 1
    BY <2>2, <1>1
  <2>4. s \in Share(r + 1, specCount, d)
    BY <2>2, <2>3 DEF Share
  <2>5. ASSUME NEW j \in 1..d, s \in Share(j, specCount, d)
        PROVE  j = r + 1
    BY <2>2, <2>3, <2>5 DEF Share
  <2> QED BY <2>3, <2>4, <2>5
<1>3. ASSUME NEW i \in 1..d
      PROVE  Share(i, specCount, d) # {}
  <2>1. i \in 1..specCount /\ i - 1 \in Nat /\ i - 1 < d
    BY <1>1
  <2>2. (i - 1) % d = i - 1
    BY <2>1, <1>1, Remainder
  <2> QED BY <2>1, <2>2 DEF Share
<1> QED BY <1>2, <1>3 DEF SharesPartition, d

-----------------------------------------------------------------------------
(* The inductive invariant.                                                *)

\* What a stream has at each stage.
StageInv(i) ==
  /\ pc[i] \in {"connect", "before"} => result[i] = EmptyResult /\ waiting[i] = ShareOf(i)
  /\ pc[i] = "connect" => runner[i] = "none"
  /\ pc[i] = "specs" => waiting[i] # {} /\ ~result[i].preSuite
  /\ pc[i] \in {"specs", "after"} => ~result[i].postSuite
  /\ pc[i] \in {"after", "kill", "send"} => result[i].preSuite \/ waiting[i] = {}
  /\ pc[i] \in {"send", "ended"} => runner[i] # "alive"
  /\ pc[i] = "ended" =>
       result[i].preSuite \/ waiting[i] = {} \/ result[i].specsSkipped = ShareOf(i)

\* What a stream's result says: skipped and barred streams have executed nothing,
\* the others only what they no longer have before them.
ResultInv(i) ==
  /\ result[i].specsSkipped # {} =>
       /\ pc[i] = "ended" /\ result[i].specResults = <<>> /\ ~result[i].preSuite
       /\ result[i].specsSkipped = ShareOf(i)
  /\ result[i].preSuite => result[i].specResults = <<>>
  /\ \A k \in DOMAIN result[i].specResults :
       result[i].specResults[k].spec \in ShareOf(i) \ waiting[i]
  /\ result[i].isFailed <=>
       \/ result[i].preSuite \/ result[i].postSuite
       \/ \E k \in DOMAIN result[i].specResults : result[i].specResults[k].isFailed

\* Only streams that have ended have sent a result, and the merged verdict is
\* that of the results received.
ChannelInv ==
  /\ \A k \in DOMAIN channel : pc[channel[k]] = "ended"
  /\ \A i \in received : pc[i] = "ended"
  /\ aggregate.isFailed <=> \E i \in received : result[i].isFailed
  /\ main = "finished" => received = Stream

Inv == /\ TypeOK
       /\ \A i \in Stream : StageInv(i) /\ ResultInv(i)
       /\ ChannelInv

-----------------------------------------------------------------------------
LEMMA StreamCountType == StreamCount \in Nat \ {0} /\ StreamCount <= SpecCount
  BY StreamsAssumption, StreamCountRange DEF StreamCount

\* A specification belongs to the stream the distribution computes for it.
LEMMA StreamOfSpec ==
  ASSUME NEW s \in Specs
  PROVE  /\ StreamOf(s) \in Stream
         /\ \A i \in Stream : s \in ShareOf(i) <=> StreamOf(s) = i
<1>1. (s - 1) % StreamCount \in 0..(StreamCount - 1)
  BY StreamCountType, Remainder, StreamsAssumption DEF Specs
<1> DEFINE r == (s - 1) % StreamCount
<1> HIDE DEF r
<1>2. r \in 0..(StreamCount - 1) /\ StreamOf(s) = r + 1
  BY <1>1 DEF r, StreamOf
<1>3. \A i \in Stream : s \in ShareOf(i) <=> r = i - 1
  BY DEF ShareOf, Share, Specs, r
<1> QED BY <1>2, <1>3, StreamCountType DEF Stream

LEMMA ShareType ==
  ASSUME NEW i \in Stream
  PROVE  ShareOf(i) \in SUBSET Specs /\ ShareOf(i) # {}
<1>1. ShareOf(i) \subseteq Specs
  BY DEF ShareOf, Share, Specs
<1>2. i \in 1..SpecCount /\ i - 1 \in Nat /\ i - 1 < StreamCount
  BY StreamCountType, StreamsAssumption DEF Stream
<1>3. (i - 1) % StreamCount = i - 1
  BY <1>2, StreamCountType, Remainder
<1> QED BY <1>1, <1>2, <1>3 DEF ShareOf, Share

LEMMA EmptyResultType == EmptyResult \in Results
  BY DEF EmptyResult, Results

LEMMA AggregateType ==
  ASSUME NEW total \in Results, NEW res \in Results
  PROVE  /\ Aggregate(total, res) \in Results
         /\ Aggregate(total, res).isFailed <=> total.isFailed \/ res.isFailed
  BY DEF Aggregate, Results

LEMMA InitInv == Init => Inv
<1> SUFFICES ASSUME Init PROVE Inv
  OBVIOUS
<1>1. TypeOK
  BY EmptyResultType, ShareType DEF Init, TypeOK
<1>2. \A i \in Stream : StageInv(i) /\ ResultInv(i)
  BY DEF Init, StageInv, ResultInv, EmptyResult
<1>3. ChannelInv
  BY DEF Init, ChannelInv, EmptyResult
<1> QED BY <1>1, <1>2, <1>3 DEF Inv

\* A step that leaves a stream alone keeps what is known of it.
LEMMA OtherStream ==
  ASSUME NEW j \in Stream, StageInv(j), ResultInv(j),
         pc'[j] = pc[j], runner'[j] = runner[j],
         waiting'[j] = waiting[j], result'[j] = result[j]
  PROVE  StageInv(j)' /\ ResultInv(j)'
  BY DEF StageInv, ResultInv, ShareOf, Share, StreamCount

\* A stream that has not ended and goes on without sending a result leaves the
\* results received so far as they are.
LEMMA ChannelKept ==
  ASSUME Inv, NEW i \in Stream, pc[i] # "ended",
         \A j \in Stream : j # i => pc'[j] = pc[j] /\ result'[j] = result[j],
         UNCHANGED <<channel, received, aggregate>>,
         main' \in {main, "exited"}
  PROVE  ChannelInv'
<1>1. \A k \in DOMAIN channel : channel[k] \in Stream /\ channel[k] # i
  BY DEF Inv, TypeOK, ChannelInv
<1>2. \A j \in received : j \in Stream /\ j # i
  BY DEF Inv, TypeOK, ChannelInv
<1>3. Stream' = Stream
  BY DEF Stream, StreamCount
<1> QED BY <1>1, <1>2, <1>3 DEF Inv, ChannelInv

-----------------------------------------------------------------------------
(* Every action preserves it.                                              *)

LEMMA ConnectInv ==
  ASSUME Inv, NEW i \in Stream, Connect(i)
  PROVE  Inv'
<1>1. TypeOK'
  BY ShareType DEF Inv, TypeOK, Results, Connect, At, Goto
<1>2. ASSUME NEW j \in Stream, j # i
      PROVE  StageInv(j)' /\ ResultInv(j)'
  BY <1>2, OtherStream DEF Inv, TypeOK, Connect, At, Goto
<1>3. StageInv(i)'
  BY ShareType DEF Inv, TypeOK, StageInv, ResultInv, Results, EmptyResult, ShareOf, Share, StreamCount, Connect, At, Goto
<1>4. ResultInv(i)'
  BY ShareType DEF Inv, TypeOK, StageInv, ResultInv, Results, EmptyResult, ShareOf, Share, StreamCount, Connect, At, Goto
<1>5. ChannelInv'
  BY ChannelKept DEF Inv, TypeOK, Connect, At, Goto
<1> QED BY <1>1, <1>2, <1>3, <1>4, <1>5 DEF Inv, Stream, StreamCount

LEMMA BeforeSuiteInv ==
  ASSUME Inv, NEW i \in Stream, NEW failed \in BOOLEAN, BeforeSuite(i, failed)
  PROVE  Inv'
<1>1. TypeOK'
  BY ShareType DEF Inv, TypeOK, Results, BeforeSuite, At, Goto
<1>2. ASSUME NEW j \in Stream, j # i
      PROVE  StageInv(j)' /\ ResultInv(j)'
  BY <1>2, OtherStream DEF Inv, TypeOK, BeforeSuite, At, Goto
<1>3. StageInv(i)'
  BY ShareType DEF Inv, TypeOK, StageInv, ResultInv, Results, EmptyResult, ShareOf, Share, StreamCount, BeforeSuite, At, Goto
<1>4. ResultInv(i)'
  BY ShareType DEF Inv, TypeOK, StageInv, ResultInv, Results, EmptyResult, ShareOf, Share, StreamCount, BeforeSuite, At, Goto
<1>5. ChannelInv'
  BY ChannelKept DEF Inv, TypeOK, BeforeSuite, At, Goto
<1> QED BY <1>1, <1>2, <1>3, <1>4, <1>5 DEF Inv, Stream, StreamCount

LEMMA AfterSuiteInv ==
  ASSUME Inv, NEW i \in Stream, NEW failed \in BOOLEAN, AfterSuite(i, failed)
  PROVE  Inv'
<1>1. TypeOK'
  <2>1. pc' = [pc EXCEPT ![i] = "kill"]
    BY DEF AfterSuite, NextStage, Goto
  <2>2. result'[i] \in Results
    <3> DEFINE r == [result[i] EXCEPT !.isFailed = @ \/ failed, !.postSuite = failed]
    <3>1. result[i] \in Results /\ result'[i] = r
      BY DEF Inv, TypeOK, AfterSuite
    <3>2. r \in Results
      BY <3>1 DEF Results
    <3> QED BY <3>1, <3>2
  <2>3. result' = [result EXCEPT ![i] = result'[i]]
    BY DEF Inv, TypeOK, AfterSuite
  <2>4. result' \in [Stream -> Results]
    BY <2>2, <2>3 DEF Inv, TypeOK
  <2>5. UNCHANGED <<main, runner, waiting, channel, received, aggregate>>
    BY DEF AfterSuite
  <2> QED BY <2>1, <2>4, <2>5 DEF Inv, TypeOK
<1>2. ASSUME NEW j \in Stream, j # i
      PROVE  StageInv(j)' /\ ResultInv(j)'
  BY <1>2, OtherStream DEF Inv, TypeOK, AfterSuite, NextStage, At, Goto
<1>3. StageInv(i)'
  BY ShareType DEF Inv, TypeOK, StageInv, ResultInv, Results, EmptyResult, ShareOf, Share, StreamCount, AfterSuite, NextStage, At, Goto
<1>4. ResultInv(i)'
  BY ShareType DEF Inv, TypeOK, StageInv, ResultInv, Results, EmptyResult, ShareOf, Share, StreamCount, AfterSuite, NextStage, At, Goto
<1>5. ChannelInv'
  BY ChannelKept DEF Inv, TypeOK, AfterSuite, NextStage, At, Goto
<1> QED BY <1>1, <1>2, <1>3, <1>4, <1>5 DEF Inv, Stream, StreamCount

LEMMA KillRunnerInv ==
  ASSUME Inv, NEW i \in Stream, KillRunner(i)
  PROVE  Inv'
<1>1. TypeOK'
  BY ShareType DEF Inv, TypeOK, Results, KillRunner, NextStage, At, Goto
<1>2. ASSUME NEW j \in Stream, j # i
      PROVE  StageInv(j)' /\ ResultInv(j)'
  BY <1>2, OtherStream DEF Inv, TypeOK, KillRunner, NextStage, At, Goto
<1>3. StageInv(i)'
  BY ShareType DEF Inv, TypeOK, StageInv, ResultInv, Results, EmptyResult, ShareOf, Share, StreamCount, KillRunner, NextStage, At, Goto
<1>4. ResultInv(i)'
  BY ShareType DEF Inv, TypeOK, StageInv, ResultInv, Results, EmptyResult, ShareOf, Share, StreamCount, KillRunner, NextStage, At, Goto
<1>5. ChannelInv'
  BY ChannelKept DEF Inv, TypeOK, KillRunner, NextStage, At, Goto
<1> QED BY <1>1, <1>2, <1>3, <1>4, <1>5 DEF Inv, Stream, StreamCount

LEMMA RejectTableRowsInv ==
  ASSUME Inv, NEW i \in Stream, RejectTableRows(i)
  PROVE  Inv'
<1>1. TypeOK'
  BY DEF Inv, TypeOK, RejectTableRows, ShareOf, Share, StreamCount, Stream
<1>2. ASSUME NEW j \in Stream
      PROVE  StageInv(j)' /\ ResultInv(j)'
  BY <1>2, OtherStream DEF Inv, RejectTableRows
<1>3. ChannelInv'
  BY ChannelKept DEF Inv, TypeOK, RejectTableRows, At
<1> QED BY <1>1, <1>2, <1>3 DEF Inv, Stream, StreamCount

LEMMA ExecuteSpecInv ==
  ASSUME Inv, NEW i \in Stream, NEW failed \in BOOLEAN, ExecuteSpec(i, failed)
  PROVE  Inv'
<1>1. PICK s \in waiting[i] :
        /\ waiting' = [waiting EXCEPT ![i] = @ \ {s}]
        /\ Goto(i, IF waiting[i] = {s} THEN "after" ELSE "specs")
        /\ result' = [result EXCEPT
             ![i].isFailed = @ \/ failed,
             ![i].specsFailedCount = @ + IF failed THEN 1 ELSE 0,
             ![i].specResults = Append(@, [spec |-> s, isFailed |-> failed])]
  BY DEF ExecuteSpec
<1>2. /\ s \in Specs /\ s \in ShareOf(i) /\ pc[i] = "specs"
      /\ UNCHANGED <<main, runner, channel, received, aggregate>>
  BY ShareType DEF Inv, TypeOK, ExecuteSpec, At
<1> DEFINE entry == [spec |-> s, isFailed |-> failed]
           old == result[i].specResults
<1>3. /\ old \in Seq([spec : Specs, isFailed : BOOLEAN])
      /\ entry \in [spec : Specs, isFailed : BOOLEAN]
      /\ result[i] \in Results
  BY <1>2 DEF Inv, TypeOK, Results
<1>4. /\ result'[i].specResults = Append(old, entry)
      /\ result'[i].isFailed = (result[i].isFailed \/ failed)
      /\ result'[i].preSuite = result[i].preSuite
      /\ result'[i].postSuite = result[i].postSuite
      /\ result'[i].specsSkipped = result[i].specsSkipped
      /\ waiting'[i] = waiting[i] \ {s}
      /\ pc'[i] = (IF waiting[i] = {s} THEN "after" ELSE "specs")
      /\ \A j \in Stream : j # i => /\ pc'[j] = pc[j] /\ waiting'[j] = waiting[j]
                                    /\ result'[j] = result[j]
  BY <1>1, <1>3 DEF Inv, TypeOK, Results, Goto
<1>5. TypeOK'
  <2>1. result' \in [Stream -> Results]
    BY <1>1, <1>3 DEF Inv, TypeOK, Results
  <2>2. waiting' \in [Stream -> SUBSET Specs] /\ \A j \in Stream : waiting'[j] \subseteq ShareOf(j)
    BY <1>1 DEF Inv, TypeOK
  <2>3. pc' \in [Stream -> {"connect", "before", "specs", "after", "kill", "send", "ended"}]
    BY <1>1 DEF Inv, TypeOK, Goto
  <2> QED BY <1>2, <2>1, <2>2, <2>3
          DEF Inv, TypeOK, Stream, StreamCount, ShareOf, Share
<1>6. ASSUME NEW j \in Stream, j # i
      PROVE  StageInv(j)' /\ ResultInv(j)'
  BY <1>2, <1>4, <1>6, OtherStream DEF Inv
<1>7. StageInv(i)'
  BY <1>2, <1>4 DEF Inv, StageInv, ResultInv, ShareOf, Share, StreamCount
<1>8. ResultInv(i)'
  <2>1. /\ result[i].specsSkipped = {} /\ ~result[i].preSuite
    BY <1>2 DEF Inv, StageInv, ResultInv
  <2>2. \A k \in DOMAIN Append(old, entry) :
          Append(old, entry)[k].spec \in ShareOf(i) \ (waiting[i] \ {s})
    BY <1>2, <1>3 DEF Inv, ResultInv
  <2>3. (\E k \in DOMAIN Append(old, entry) : Append(old, entry)[k].isFailed)
          <=> failed \/ \E k \in DOMAIN old : old[k].isFailed
    <3>1. DOMAIN Append(old, entry) = 1..(Len(old) + 1) /\ DOMAIN old = 1..Len(old)
          /\ Len(old) \in Nat
      BY <1>3
    <3>2. /\ \A k \in DOMAIN old : Append(old, entry)[k] = old[k]
          /\ Append(old, entry)[Len(old) + 1] = entry
      BY <1>3
    <3> QED BY <3>1, <3>2
  <2>4. ShareOf(i)' = ShareOf(i)
    BY DEF ShareOf, Share, StreamCount
  <2> QED BY <1>4, <2>1, <2>2, <2>3, <2>4 DEF Inv, ResultInv
<1>9. ChannelInv'
  BY <1>2, <1>4, ChannelKept DEF Inv
<1> QED BY <1>5, <1>6, <1>7, <1>8, <1>9 DEF Inv, Stream, StreamCount

\* A stream that ends sends its result: it becomes receivable.
LEMMA ChannelSent ==
  ASSUME Inv, NEW i \in Stream, pc[i] # "ended", pc'[i] = "ended",
         \A j \in Stream : j # i => pc'[j] = pc[j] /\ result'[j] = result[j],
         channel' = Append(channel, i),
         UNCHANGED <<main, received, aggregate>>
  PROVE  ChannelInv'
<1>1. /\ channel \in Seq(Stream)
      /\ \A k \in DOMAIN channel : channel[k] \in Stream /\ channel[k] # i
  BY DEF Inv, TypeOK, ChannelInv
<1>2. \A k \in DOMAIN channel' : channel'[k] = i \/ \E l \in DOMAIN channel : channel'[k] = channel[l]
  BY <1>1
<1>3. \A k \in DOMAIN channel' : pc'[channel'[k]] = "ended"
  BY <1>1, <1>2 DEF Inv, ChannelInv
<1>4. \A j \in received : j \in Stream /\ j # i
  BY DEF Inv, TypeOK, ChannelInv
<1>5. Stream' = Stream
  BY DEF Stream, StreamCount
<1> QED BY <1>3, <1>4, <1>5 DEF Inv, ChannelInv

LEMMA FailToConnectInv ==
  ASSUME Inv, NEW i \in Stream, NEW started \in BOOLEAN, FailToConnect(i, started)
  PROVE  Inv'
<1>1. TypeOK'
  <2>1. result' \in [Stream -> Results]
    BY ShareType DEF Inv, TypeOK, Results, FailToConnect, SkipSpecs
  <2>2. runner' \in [Stream -> {"none", "alive", "gone"}]
    BY DEF Inv, TypeOK, FailToConnect
  <2> QED BY <2>1, <2>2 DEF Inv, TypeOK, FailToConnect, SkipSpecs, Goto, Stream, StreamCount,
             ShareOf, Share
<1>2. ASSUME NEW j \in Stream, j # i
      PROVE  StageInv(j)' /\ ResultInv(j)'
  BY <1>2, OtherStream DEF Inv, TypeOK, FailToConnect, SkipSpecs, Goto
<1>3. /\ result'[i] = [EmptyResult EXCEPT !.specsSkipped = ShareOf(i)]
      /\ waiting'[i] = ShareOf(i) /\ pc'[i] = "ended" /\ runner'[i] # "alive"
  BY DEF Inv, TypeOK, StageInv, FailToConnect, SkipSpecs, At, Goto
<1>4. StageInv(i)' /\ ResultInv(i)'
  BY <1>3, ShareType DEF StageInv, ResultInv, EmptyResult, ShareOf, Share, StreamCount
<1>5. ChannelInv'
  <2>1. /\ pc[i] # "ended" /\ pc'[i] = "ended"
        /\ \A j \in Stream : j # i => pc'[j] = pc[j] /\ result'[j] = result[j]
        /\ channel' = Append(channel, i)
        /\ UNCHANGED <<main, received, aggregate>>
    BY DEF Inv, TypeOK, FailToConnect, SkipSpecs, At, Goto
  <2> QED BY <2>1, ChannelSent
<1> QED BY <1>1, <1>2, <1>4, <1>5 DEF Inv, Stream, StreamCount

LEMMA SendResultInv ==
  ASSUME Inv, NEW i \in Stream, SendResult(i)
  PROVE  Inv'
<1>1. TypeOK'
  BY DEF Inv, TypeOK, SendResult, NextStage, Goto, ShareOf, Share, Stream, StreamCount
<1>2. ASSUME NEW j \in Stream, j # i
      PROVE  StageInv(j)' /\ ResultInv(j)'
  BY <1>2, OtherStream DEF Inv, TypeOK, SendResult, NextStage, Goto
<1>3. StageInv(i)' /\ ResultInv(i)'
  BY DEF Inv, TypeOK, StageInv, ResultInv, SendResult, NextStage, At, Goto, ShareOf, Share, StreamCount
<1>4. ChannelInv'
  <2>1. /\ pc[i] # "ended" /\ pc'[i] = "ended"
        /\ \A j \in Stream : j # i => pc'[j] = pc[j] /\ result'[j] = result[j]
        /\ channel' = Append(channel, i)
        /\ UNCHANGED <<main, received, aggregate>>
    BY DEF Inv, TypeOK, SendResult, NextStage, At, Goto
  <2> QED BY <2>1, ChannelSent
<1> QED BY <1>1, <1>2, <1>3, <1>4 DEF Inv, Stream, StreamCount

LEMMA ReceiveInv ==
  ASSUME Inv, Receive
  PROVE  Inv'
<1> DEFINE h == Head(channel)
<1>1. /\ h \in Stream /\ channel' \in Seq(Stream)
      /\ pc[h] = "ended"
      /\ \A k \in DOMAIN channel' : \E l \in DOMAIN channel : channel'[k] = channel[l]
  BY DEF Inv, TypeOK, ChannelInv, Receive
<1>2. /\ aggregate \in Results /\ result[h] \in Results
      /\ aggregate' = Aggregate(aggregate, result[h])
  BY <1>1 DEF Inv, TypeOK, Receive
<1>3. /\ aggregate' \in Results
      /\ aggregate'.isFailed <=> aggregate.isFailed \/ result[h].isFailed
  BY <1>2, AggregateType
<1>4. Stream' = Stream /\ \A i \in Stream : ShareOf(i)' = ShareOf(i)
  BY DEF Stream, StreamCount, ShareOf, Share
<1>5. TypeOK'
  BY <1>1, <1>3, <1>4 DEF Inv, TypeOK, Receive
<1>6. \A i \in Stream : StageInv(i)' /\ ResultInv(i)'
  BY OtherStream DEF Inv, Receive
<1>7. ChannelInv'
  <2>1. \A k \in DOMAIN channel' : pc'[channel'[k]] = "ended"
    BY <1>1 DEF Inv, ChannelInv, Receive
  <2>2. /\ received' = received \cup {h} /\ UNCHANGED <<pc, result>>
        /\ main' = "finished" => received' = Stream
    BY DEF Receive
  <2>3. aggregate'.isFailed <=> \E i \in received' : result'[i].isFailed
    BY <1>3, <2>2 DEF Inv, ChannelInv
  <2> QED BY <1>1, <1>4, <2>1, <2>2, <2>3 DEF Inv, ChannelInv
<1> QED BY <1>4, <1>5, <1>6, <1>7 DEF Inv

LEMMA NextInv == Inv /\ [Next]_vars => Inv'
<1> SUFFICES ASSUME Inv, [Next]_vars PROVE Inv'
  OBVIOUS
<1>1. ASSUME NEW i \in Stream, StreamStep(i)
      PROVE  Inv'
  BY <1>1, ConnectInv, FailToConnectInv, BeforeSuiteInv, ExecuteSpecInv, RejectTableRowsInv,
     AfterSuiteInv, KillRunnerInv, SendResultInv DEF StreamStep
<1>2. CASE Receive
  BY <1>2, ReceiveInv
<1>3. CASE UNCHANGED vars
  BY <1>3 DEF vars, Inv, TypeOK, StageInv, ResultInv, ChannelInv, Stream, StreamCount,
    ShareOf, Share
<1> QED BY <1>1, <1>2, <1>3 DEF Next

LEMMA Invariance == Spec => []Inv
  BY InitInv, NextInv, PTL DEF Spec

\* The types hold for any number of specifications and streams.
THEOREM TypeCorrect == Spec => []TypeOK
<1>1. Inv => TypeOK
  BY DEF Inv
<1> QED BY <1>1, Invariance, PTL

\* A finished parallel run has outlived every runner its streams started.
THEOREM RunnersGone == Spec => []NoRunnerLeft
<1>1. Inv => NoRunnerLeft
  BY DEF Inv, StageInv, ChannelInv, NoRunnerLeft
<1> QED BY <1>1, Invariance, PTL

-----------------------------------------------------------------------------
(* The refinement of SuiteRun.                                             *)

\* A step of stream i that touches the state of no other stream changes the fate
\* of the specifications in the share of i only.
LEMMA FateElsewhere ==
  ASSUME Inv, NEW i \in Stream, NEW s \in Specs, s \notin ShareOf(i),
         \A j \in Stream : j # i => result'[j] = result[j] /\ waiting'[j] = waiting[j]
  PROVE  FateIn(StreamOf(s), s)' = FateIn(StreamOf(s), s)
<1>1. StreamOf(s) \in Stream /\ StreamOf(s) # i /\ StreamOf(s)' = StreamOf(s)
  BY StreamOfSpec DEF StreamOf, StreamCount
<1>2. /\ result'[StreamOf(s)] = result[StreamOf(s)]
      /\ waiting'[StreamOf(s)] = waiting[StreamOf(s)]
  BY <1>1
<1> QED BY <1>1, <1>2 DEF FateIn, FailedEntry

\* The same when nothing at all changes.
LEMMA FateKept ==
  ASSUME result' = result, waiting' = waiting
  PROVE  SuiteFate' = SuiteFate /\ SuiteTrouble' = SuiteTrouble
  BY DEF SuiteFate, FateIn, FailedEntry, SuiteTrouble, StreamOf, StreamCount, Stream, Specs

\* What the fates of the specifications of stream i depend on stays as it is.
SameFates(i) ==
  /\ result'[i].preSuite = result[i].preSuite
  /\ result'[i].specsSkipped = result[i].specsSkipped
  /\ result'[i].specResults = result[i].specResults
  /\ waiting'[i] = waiting[i]

LEMMA FateSame ==
  ASSUME \A i \in Stream : SameFates(i)
  PROVE  SuiteFate' = SuiteFate
<1>1. ASSUME NEW s \in Specs
      PROVE  FateIn(StreamOf(s), s)' = FateIn(StreamOf(s), s)
  <2>1. StreamOf(s) \in Stream /\ StreamOf(s)' = StreamOf(s)
    BY StreamOfSpec DEF StreamOf, StreamCount
  <2> QED BY <2>1 DEF FateIn, FailedEntry, SameFates
<1> QED BY <1>1 DEF SuiteFate, Specs

\* A specification's fate is decided in the stream it was dealt to.
LEMMA FateByStream ==
  ASSUME NEW s \in Specs, NEW i \in Stream, s \in ShareOf(i)
  PROVE  SuiteFate[s] = FateIn(i, s) /\ SuiteFate'[s] = FateIn(i, s)'
<1>1. StreamOf(s) = i /\ StreamOf(s)' = StreamOf(s) /\ Specs' = Specs
  BY StreamOfSpec DEF StreamOf, StreamCount, Specs
<1> QED BY <1>1 DEF SuiteFate

\* A step of stream i settles exactly the specifications it should.
LEMMA SettledBy ==
  ASSUME Inv, NEW i \in Stream, NEW specs, specs \subseteq ShareOf(i), NEW end,
         main = "receiving",
         \A j \in Stream : j # i => result'[j] = result[j] /\ waiting'[j] = waiting[j],
         \A s \in specs : FateIn(i, s) = "pending" /\ FateIn(i, s)' = end,
         \A s \in ShareOf(i) \ specs : FateIn(i, s)' = FateIn(i, s)
  PROVE  Run!Settle(specs, end)
<1>1. SuiteOutcome = "running"
  BY DEF SuiteOutcome
<1>2. ShareOf(i) \subseteq Specs /\ Specs' = Specs
  BY ShareType DEF Specs
<1>3. \A s \in specs : SuiteFate[s] = "pending"
  BY <1>2, FateByStream
<1>4. ASSUME NEW s \in Specs
      PROVE  SuiteFate'[s] = IF s \in specs THEN end ELSE SuiteFate[s]
  <2>1. CASE s \in ShareOf(i)
    BY <2>1, FateByStream
  <2>2. CASE s \notin ShareOf(i)
    <3>1. StreamOf(s)' = StreamOf(s)
      BY DEF StreamOf, StreamCount
    <3>2. SuiteFate'[s] = FateIn(StreamOf(s), s)' /\ SuiteFate[s] = FateIn(StreamOf(s), s)
      BY <1>2, <3>1 DEF SuiteFate
    <3> QED BY <2>2, <3>2, FateElsewhere
  <2> QED BY <2>1, <2>2
<1>5. SuiteFate' = [s \in Specs |-> SuiteFate'[s]]
  BY <1>2 DEF SuiteFate
<1>6. SuiteFate' = [s \in Specs |-> IF s \in specs THEN end ELSE SuiteFate[s]]
  BY <1>4, <1>5
<1> QED BY <1>1, <1>3, <1>6 DEF Run!Settle

\* While a stream works, the main goroutine is still receiving.
LEMMA StillReceiving ==
  ASSUME Inv, NEW i \in Stream, pc[i] # "ended", main # "exited"
  PROVE  main = "receiving"
  BY DEF Inv, TypeOK, ChannelInv

LEMMA InitRefines == Init => Run!RunInit
<1> SUFFICES ASSUME Init PROVE Run!RunInit
  OBVIOUS
<1>1. ASSUME NEW s \in Specs
      PROVE  SuiteFate[s] = "pending"
  BY StreamOfSpec DEF Init, SuiteFate, FateIn, EmptyResult
<1>2. SuiteFate = [s \in Specs |-> "pending"]
  BY <1>1 DEF SuiteFate
<1>3. SuiteTrouble = FALSE /\ SuiteOutcome = "running"
  BY DEF Init, SuiteTrouble, SuiteOutcome, EmptyResult
<1> QED BY <1>2, <1>3 DEF Run!RunInit

LEMMA ConnectRefines ==
  ASSUME Inv, NEW i \in Stream, Connect(i) \/ KillRunner(i) \/ SendResult(i)
  PROVE  UNCHANGED Run!runVars
<1>1. UNCHANGED <<result, waiting, main, aggregate>>
  BY DEF Connect, KillRunner, SendResult
<1> QED BY <1>1, FateKept DEF Run!runVars, SuiteOutcome

LEMMA FailToConnectRefines ==
  ASSUME Inv, Inv', NEW i \in Stream, NEW started \in BOOLEAN, FailToConnect(i, started)
  PROVE  Run!Skip(ShareOf(i))
<1>1. /\ main = "receiving" /\ UNCHANGED <<main, aggregate>>
      /\ result[i] = EmptyResult /\ waiting[i] = ShareOf(i)
      /\ result'[i] = [EmptyResult EXCEPT !.specsSkipped = ShareOf(i)]
      /\ \A j \in Stream : j # i => result'[j] = result[j] /\ waiting'[j] = waiting[j]
  BY StillReceiving DEF Inv, TypeOK, StageInv, FailToConnect, SkipSpecs, At
<1>2. \A s \in ShareOf(i) : FateIn(i, s) = "pending" /\ FateIn(i, s)' = "skipped"
  BY <1>1 DEF FateIn, EmptyResult
<1>3. Run!Settle(ShareOf(i), "skipped")
  BY <1>1, <1>2, SettledBy
<1>4. SuiteTrouble' = SuiteTrouble
  BY <1>1 DEF SuiteTrouble, EmptyResult, Stream, StreamCount
<1>5. SuiteOutcome' = SuiteOutcome
  BY <1>1 DEF SuiteOutcome
<1> QED BY <1>3, <1>4, <1>5 DEF Run!Skip

LEMMA BeforeSuiteRefines ==
  ASSUME Inv, NEW i \in Stream, NEW failed \in BOOLEAN, BeforeSuite(i, failed)
  PROVE  Run!Bar(ShareOf(i)) \/ UNCHANGED Run!runVars
<1>1. /\ main = "receiving" /\ UNCHANGED <<main, aggregate, waiting>>
      /\ result[i] = EmptyResult /\ waiting[i] = ShareOf(i)
      /\ result'[i] = [EmptyResult EXCEPT !.isFailed = failed, !.preSuite = failed]
      /\ \A j \in Stream : j # i => result'[j] = result[j] /\ waiting'[j] = waiting[j]
      /\ result \in [Stream -> Results] /\ result' = [result EXCEPT ![i] = result'[i]]
  BY StillReceiving DEF Inv, TypeOK, StageInv, BeforeSuite, At
<1>2. CASE ~failed
  <2>1. /\ result'[i].preSuite = FALSE /\ result'[i].postSuite = FALSE
        /\ result'[i].specsSkipped = {} /\ result'[i].specResults = <<>>
    <3>1. result'[i] = [EmptyResult EXCEPT !.isFailed = FALSE, !.preSuite = FALSE]
      BY <1>1, <1>2
    <3> QED BY <3>1 DEF EmptyResult
  <2>2. \A j \in Stream : SameFates(j)
    <3>1. SameFates(i)
      BY <1>1, <2>1 DEF EmptyResult, SameFates
    <3>2. \A j \in Stream : j # i => SameFates(j)
      BY <1>1 DEF SameFates
    <3> QED BY <3>1, <3>2
  <2>3. SuiteTrouble' = SuiteTrouble
    BY <1>1, <2>1 DEF SuiteTrouble, EmptyResult, Stream, StreamCount
  <2> QED BY <1>1, <2>2, <2>3, FateSame DEF Run!runVars, SuiteOutcome
<1>3. CASE failed
  <2>1. \A s \in ShareOf(i) : FateIn(i, s) = "pending" /\ FateIn(i, s)' = "barred"
    BY <1>1, <1>3 DEF FateIn, EmptyResult
  <2>2. Run!Settle(ShareOf(i), "barred")
    BY <1>1, <2>1, SettledBy
  <2>3. SuiteTrouble' = TRUE
    BY <1>1, <1>3 DEF SuiteTrouble, EmptyResult, Stream, StreamCount
  <2>4. SuiteOutcome' = SuiteOutcome
    BY <1>1 DEF SuiteOutcome
  <2> QED BY <2>2, <2>3, <2>4 DEF Run!Bar
<1> QED BY <1>2, <1>3

LEMMA ExecuteSpecRefines ==
  ASSUME Inv, Inv', NEW i \in Stream, NEW failed \in BOOLEAN, ExecuteSpec(i, failed)
  PROVE  \E s \in Specs : Run!Execute(s, failed)
<1>1. PICK s \in waiting[i] :
        /\ waiting' = [waiting EXCEPT ![i] = @ \ {s}]
        /\ result' = [result EXCEPT
             ![i].isFailed = @ \/ failed,
             ![i].specsFailedCount = @ + IF failed THEN 1 ELSE 0,
             ![i].specResults = Append(@, [spec |-> s, isFailed |-> failed])]
  BY DEF ExecuteSpec
<1>2. /\ s \in ShareOf(i) /\ s \in Specs /\ pc[i] = "specs"
      /\ main = "receiving" /\ UNCHANGED <<main, aggregate>>
  BY ShareType, StillReceiving DEF Inv, TypeOK, ExecuteSpec, At
<1> DEFINE entry == [spec |-> s, isFailed |-> failed]
           old == result[i].specResults
<1>3. /\ old \in Seq([spec : Specs, isFailed : BOOLEAN])
      /\ entry \in [spec : Specs, isFailed : BOOLEAN]
      /\ result[i] \in Results
  BY <1>2 DEF Inv, TypeOK, Results
<1>4. /\ result'[i].specResults = Append(old, entry)
      /\ result'[i].preSuite = result[i].preSuite
      /\ result'[i].postSuite = result[i].postSuite
      /\ result'[i].specsSkipped = result[i].specsSkipped
      /\ waiting'[i] = waiting[i] \ {s}
      /\ \A j \in Stream : j # i => waiting'[j] = waiting[j] /\ result'[j] = result[j]
  BY <1>1, <1>3 DEF Inv, TypeOK, Results
<1>5. /\ result[i].specsSkipped = {} /\ ~result[i].preSuite
      /\ \A k \in DOMAIN old : old[k].spec # s
  BY <1>2, <1>4 DEF Inv, StageInv, ResultInv
<1>6. /\ DOMAIN Append(old, entry) = 1..(Len(old) + 1) /\ DOMAIN old = 1..Len(old)
      /\ Len(old) \in Nat
      /\ \A k \in DOMAIN old : Append(old, entry)[k] = old[k]
      /\ Append(old, entry)[Len(old) + 1] = entry
  BY <1>3
<1>7. FailedEntry(i, s)' <=> failed
  BY <1>4, <1>5, <1>6 DEF FailedEntry
<1>8. \A t \in ShareOf(i) \ {s} : FailedEntry(i, t)' <=> FailedEntry(i, t)
  BY <1>4, <1>6 DEF FailedEntry
<1>9. FateIn(i, s) = "pending" /\ FateIn(i, s)' = IF failed THEN "failed" ELSE "passed"
  BY <1>1, <1>4, <1>5, <1>7 DEF FateIn
<1>10. \A t \in ShareOf(i) \ {s} : FateIn(i, t)' = FateIn(i, t)
  BY <1>4, <1>8 DEF FateIn
<1>11. Run!Settle({s}, IF failed THEN "failed" ELSE "passed")
  BY <1>2, <1>4, <1>9, <1>10, SettledBy
<1>12. SuiteTrouble' = SuiteTrouble
  BY <1>4 DEF SuiteTrouble, Stream, StreamCount
<1>13. SuiteOutcome' = SuiteOutcome
  BY <1>2 DEF SuiteOutcome
<1> QED BY <1>2, <1>11, <1>12, <1>13 DEF Run!Execute

LEMMA AfterSuiteRefines ==
  ASSUME Inv, NEW i \in Stream, NEW failed \in BOOLEAN, AfterSuite(i, failed)
  PROVE  Run!EndInTrouble \/ UNCHANGED Run!runVars
<1>1. /\ main = "receiving" /\ UNCHANGED <<main, aggregate, waiting>>
      /\ ~result[i].postSuite /\ result'[i].postSuite = failed
      /\ result'[i].preSuite = result[i].preSuite
      /\ result'[i].specsSkipped = result[i].specsSkipped
      /\ result'[i].specResults = result[i].specResults
      /\ \A j \in Stream : j # i => result'[j] = result[j]
  BY StillReceiving DEF Inv, TypeOK, Results, StageInv, AfterSuite, At
<1>2. SuiteFate' = SuiteFate
  BY <1>1, FateSame DEF SameFates
<1>3. SuiteOutcome = "running" /\ SuiteOutcome' = SuiteOutcome
  BY <1>1 DEF SuiteOutcome
<1>4. CASE failed
  <2>1. SuiteTrouble' = TRUE
    BY <1>1, <1>4 DEF SuiteTrouble, Stream, StreamCount
  <2> QED BY <1>2, <1>3, <2>1 DEF Run!EndInTrouble
<1>5. CASE ~failed
  <2>1. \A j \in Stream : /\ result'[j].preSuite <=> result[j].preSuite
                          /\ result'[j].postSuite <=> result[j].postSuite
    BY <1>1, <1>5
  <2>2. SuiteTrouble' = SuiteTrouble
    BY <2>1 DEF SuiteTrouble, Stream, StreamCount
  <2> QED BY <1>2, <1>3, <2>2 DEF Run!runVars
<1> QED BY <1>4, <1>5

\* When every stream has ended, no specification is pending, and a result is
\* failed exactly when there is trouble or a failed specification.
LEMMA AllSettled ==
  ASSUME Inv, \A i \in Stream : pc[i] = "ended"
  PROVE  /\ \A s \in Specs : SuiteFate[s] # "pending"
         /\ (\E i \in Stream : result[i].isFailed)
              <=> SuiteTrouble \/ \E s \in Specs : SuiteFate[s] = "failed"
<1>1. ASSUME NEW s \in Specs
      PROVE  /\ StreamOf(s) \in Stream /\ s \in ShareOf(StreamOf(s))
             /\ SuiteFate[s] = FateIn(StreamOf(s), s)
  BY StreamOfSpec DEF SuiteFate
<1>2. ASSUME NEW s \in Specs
      PROVE  SuiteFate[s] # "pending"
  BY <1>1 DEF Inv, StageInv, FateIn
<1>3. ASSUME NEW i \in Stream, result[i].isFailed
      PROVE  SuiteTrouble \/ \E s \in Specs : SuiteFate[s] = "failed"
  <2>1. CASE result[i].preSuite \/ result[i].postSuite
    BY <2>1 DEF SuiteTrouble
  <2>2. CASE ~result[i].preSuite /\ ~result[i].postSuite
    <3>1. PICK k \in DOMAIN result[i].specResults : result[i].specResults[k].isFailed
      BY <1>3, <2>2 DEF Inv, ResultInv
    <3> DEFINE s == result[i].specResults[k].spec
    <3>2. s \in ShareOf(i) /\ s \notin waiting[i] /\ result[i].specsSkipped = {}
      BY <3>1 DEF Inv, ResultInv
    <3>3. s \in Specs
      BY <3>2, ShareType
    <3>4. FateIn(i, s) = "failed"
      BY <2>2, <3>1, <3>2 DEF FateIn, FailedEntry
    <3>5. SuiteFate[s] = "failed"
      BY <3>2, <3>3, <3>4, FateByStream
    <3> QED BY <3>3, <3>5
  <2> QED BY <2>1, <2>2
<1>4. ASSUME NEW s \in Specs, SuiteFate[s] = "failed"
      PROVE  \E i \in Stream : result[i].isFailed
  <2>1. FailedEntry(StreamOf(s), s)
    BY <1>1, <1>4 DEF FateIn
  <2> QED BY <1>1, <2>1 DEF Inv, ResultInv, FailedEntry
<1>5. ASSUME SuiteTrouble
      PROVE  \E i \in Stream : result[i].isFailed
  BY <1>5 DEF SuiteTrouble, Inv, ResultInv
<1> QED BY <1>2, <1>3, <1>4, <1>5

LEMMA ReceiveRefines ==
  ASSUME Inv, Inv', Receive
  PROVE  Run!Report \/ UNCHANGED Run!runVars
<1>1. /\ main = "receiving" /\ UNCHANGED <<pc, result, waiting>>
      /\ main' \in {"receiving", "finished"}
  BY DEF Receive
<1>2. SuiteFate' = SuiteFate /\ SuiteTrouble' = SuiteTrouble
  BY <1>1, FateKept
<1>3. CASE main' = "receiving"
  BY <1>1, <1>2, <1>3 DEF Run!runVars, SuiteOutcome
<1>4. CASE main' = "finished"
  <2>1. received' = Stream /\ Stream' = Stream
    BY <1>4 DEF Receive, Stream, StreamCount
  <2>2. /\ \A i \in Stream : pc[i] = "ended"
        /\ aggregate'.isFailed <=> \E i \in Stream : result[i].isFailed
    BY <1>1, <2>1 DEF Inv, ChannelInv
  <2>3. /\ \A s \in Specs : SuiteFate[s] # "pending"
        /\ aggregate'.isFailed <=> SuiteTrouble \/ \E s \in Specs : SuiteFate[s] = "failed"
    BY <2>2, AllSettled
  <2>4. /\ SuiteOutcome = "running"
        /\ SuiteOutcome' = IF aggregate'.isFailed THEN "failed" ELSE "passed"
    BY <1>1, <1>4 DEF SuiteOutcome
  <2> QED BY <1>2, <2>3, <2>4 DEF Run!Report
<1> QED BY <1>1, <1>3, <1>4

LEMMA NextRefines == Inv /\ Inv' /\ [Next]_vars => [Run!RunNext]_(Run!runVars)
<1> SUFFICES ASSUME Inv, Inv', [Next]_vars
             PROVE  Run!RunNext \/ UNCHANGED Run!runVars
  OBVIOUS
<1>1. ASSUME NEW i \in Stream, StreamStep(i)
      PROVE  Run!RunNext \/ UNCHANGED Run!runVars
  <2>1. ShareOf(i) \in SUBSET Specs
    BY ShareType
  <2>2. CASE Connect(i) \/ KillRunner(i) \/ SendResult(i)
    BY <2>2, ConnectRefines
  <2>3. CASE FailToConnect(i, TRUE) \/ FailToConnect(i, FALSE)
    BY <2>1, <2>3, FailToConnectRefines DEF Run!RunNext
  <2>4. CASE BeforeSuite(i, TRUE) \/ BeforeSuite(i, FALSE)
    BY <2>1, <2>4, BeforeSuiteRefines DEF Run!RunNext
  <2>5. CASE ExecuteSpec(i, TRUE) \/ ExecuteSpec(i, FALSE)
    BY <2>5, ExecuteSpecRefines DEF Run!RunNext
  <2>6. CASE AfterSuite(i, TRUE) \/ AfterSuite(i, FALSE)
    BY <2>6, AfterSuiteRefines DEF Run!RunNext
  <2>7. CASE RejectTableRows(i)
    <3>1. /\ main = "receiving" /\ main' = "exited"
          /\ UNCHANGED <<result, waiting>>
      BY <2>7, StillReceiving DEF RejectTableRows, At
    <3>2. Run!Abort
      BY <3>1, FateKept DEF Run!Abort, SuiteOutcome
    <3> QED BY <3>2 DEF Run!RunNext
  <2> QED BY <1>1, <2>2, <2>3, <2>4, <2>5, <2>6, <2>7 DEF StreamStep
<1>2. CASE Receive
  BY <1>2, ReceiveRefines DEF Run!RunNext
<1>3. CASE UNCHANGED vars
  BY <1>3, FateKept DEF vars, Run!runVars, SuiteOutcome
<1> QED BY <1>1, <1>2, <1>3 DEF Next

\* A parallel run is a suite run: every specification meets one fate, and the
\* report is failed exactly when a specification or a suite hook failed in some
\* stream, for any number of specifications and streams.
THEOREM SuiteRunRefined == Spec => SuiteAccounted
<1>1. Init => Run!RunInit
  BY InitRefines
<1>2. Inv /\ Inv' /\ [Next]_vars => [Run!RunNext]_(Run!runVars)
  BY NextRefines
<1> QED BY <1>1, <1>2, Invariance, PTL DEF Spec, SuiteAccounted, Run!SuiteSpec
=============================================================================

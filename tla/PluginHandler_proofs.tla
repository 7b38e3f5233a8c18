------------------------ MODULE PluginHandler_proofs ------------------------
(***************************************************************************)
(* Theorems about PluginHandler for any number of plugins, streams and     *)
(* notifications.                                                          *)
(***************************************************************************)
EXTENDS PluginHandler, FiniteSetTheorems, TLAPS

-----------------------------------------------------------------------------
(* The inductive invariant.                                                *)

\* A goroutine is inside notifyPlugins only in its part of the execution.
NotifierInv ==
  \A g \in Notifier : at[g] # "idle" =>
    \/ phase = "crashed"
    \/ g \in Stream /\ phase = "executing"
    \/ g = Main /\ phase = "result" /\ sent[Main] = 0
    \/ g = Main /\ phase = "stop" /\ sent[Main] = 1

\* With one stream, the plugin killPlugin is about is still in the map.
SoleInv ==
  streams = 1 =>
    /\ Alive
    /\ \A g \in Notifier : at[g] \in {"failed", "removing"} => target[g] \in registered

\* Every process that runs is in the map, and is waited for in the end.
ProcessInv ==
  /\ \A p \in Plugin : process[p] \in Running => p \in registered
  /\ phase \in {"waiting", "ended"} =>
       \A p \in Plugin : process[p] \in Running => p \in awaiting
  /\ phase = "ended" => awaiting = {}

\* What has been heard tells how far the main goroutine is.
HeardInv ==
  \A p \in Plugin :
    /\ heard[p].result => phase \notin {"starting", "executing"}
    /\ heard[p].kill => phase \notin {"starting", "executing", "result"}

Inv == TypeOK /\ NotifierInv /\ SoleInv /\ ProcessInv /\ HeardInv

LEMMA InitInv == Init => Inv
BY PluginsAssumption, NotifiersAssumption
DEF Init, Inv, TypeOK, NotifierInv, SoleInv, ProcessInv, HeardInv, Plugin, Notifier, Main,
    Stream, Heard, Running, Gone, Alive

\* What a notification does to what a plugin has heard.
LEMMA SendHears ==
  ASSUME TypeOK, NotifierInv, NEW g \in Notifier, NEW p \in Plugin, Send(g, p)
  PROVE  /\ heard[p] \in Heard /\ Hear(heard[p], g) \in Heard
         /\ Hear(heard[p], g).result => heard[p].result \/ phase \in {"result", "stop"}
         /\ Hear(heard[p], g).kill => heard[p].kill \/ phase = "stop"
         /\ Hear(heard[p], g).hooks # heard[p].hooks => phase = "executing"
         /\ phase = "stop" => Hear(heard[p], g).result = heard[p].result
<1>1. heard[p] \in Heard /\ phase # "crashed" /\ at[g] # "idle"
  BY DEF TypeOK, Send, Alive
<1>2. CASE g # Main
  <2>1. phase = "executing" /\ Hear(heard[p], g) = [heard[p] EXCEPT !.hooks = @ + 1]
    BY <1>1, <1>2 DEF NotifierInv, Hear
  <2> QED BY <1>1, <2>1 DEF Heard
<1>3. CASE g = Main /\ phase = "result" /\ sent[Main] = 0
  <2>1. Hear(heard[p], g) = [heard[p] EXCEPT !.result = TRUE]
    BY <1>3 DEF Hear
  <2> QED BY <1>1, <1>3, <2>1 DEF Heard
<1>4. CASE g = Main /\ phase = "stop" /\ sent[Main] = 1
  <2>1. Hear(heard[p], g) = [heard[p] EXCEPT !.kill = TRUE]
    BY <1>4 DEF Hear
  <2> QED BY <1>1, <1>4, <2>1 DEF Heard
<1> QED BY <1>1, <1>2, <1>3, <1>4 DEF NotifierInv, Stream, Main

\* A notification changes what one plugin has heard.
LEMMA SendChanges ==
  ASSUME TypeOK, NEW g \in Notifier, NEW p \in Plugin, Send(g, p)
  PROVE  \A q \in Plugin : heard'[q] = heard[q] \/ (q = p /\ heard'[q] = Hear(heard[p], g))
<1> DEFINE h == Hear(heard[p], g)
<1>1. heard' = heard \/ heard' = [heard EXCEPT ![p] = h]
  BY DEF Send
<1>2. heard \in [Plugin -> Heard]
  BY DEF TypeOK
<1> HIDE DEF h
<1>3. \A q \in Plugin : heard'[q] = heard[q] \/ (q = p /\ heard'[q] = h)
  BY <1>1, <1>2
<1> QED BY <1>3 DEF h

LEMMA StartPluginInv ==
  ASSUME Inv, NEW outcome \in {"none", "killed", "connected"}, StartPlugin(outcome)
  PROVE  Inv'
<1> USE PluginsAssumption, NotifiersAssumption
<1>1. TypeOK'
  <2>1. starting' \in Plugin
    BY DEF StartPlugin, NextPlugin, Inv, TypeOK, Plugin
  <2>2. outcome \in {"none"} \cup Running \cup Gone
    BY DEF Running, Gone
  <2>3. process' \in [Plugin -> {"none"} \cup Running \cup Gone]
    BY <2>2 DEF StartPlugin, Inv, TypeOK
  <2>4. registered' \in SUBSET Plugin
    BY DEF StartPlugin, Inv, TypeOK
  <2>5. phase' \in {"starting", "executing"}
    BY DEF StartPlugin
  <2>6. UNCHANGED <<parallel, streams, at, visited, target, sent, heard, awaiting>>
    BY DEF StartPlugin, notifying
  <2> QED BY <2>1, <2>3, <2>4, <2>5, <2>6 DEF Inv, TypeOK
<1>2. NotifierInv'
  BY DEF StartPlugin, NextPlugin, Inv, NotifierInv, TypeOK, Plugin, Notifier, Main, Stream,
     Alive, notifying, Heard
<1>3. SoleInv'
  BY DEF StartPlugin, NextPlugin, Inv, SoleInv, TypeOK, NotifierInv, Plugin, Notifier, Main,
     Stream, Alive, notifying
<1>4. ProcessInv'
  BY DEF StartPlugin, NextPlugin, Inv, ProcessInv, TypeOK, NotifierInv, Plugin, Notifier,
     Running, Gone, Alive, notifying
<1>5. HeardInv'
  BY DEF StartPlugin, NextPlugin, Inv, HeardInv, TypeOK, NotifierInv, Plugin, Notifier, Main,
     Stream, Alive, notifying, Heard
<1> QED BY <1>1, <1>2, <1>3, <1>4, <1>5 DEF Inv

LEMMA BeginNotifyInv ==
  ASSUME Inv, NEW g \in Notifier, BeginNotify(g)
  PROVE  Inv'
<1> USE PluginsAssumption, NotifiersAssumption
<1>1. TypeOK'
  BY DEF BeginNotify, MayNotify, Inv, TypeOK, Plugin, Notifier, Main, Heard, Running, Gone,
     notifying
<1>2. NotifierInv'
  BY DEF BeginNotify, MayNotify, Inv, NotifierInv, TypeOK, Plugin, Notifier, Main, Stream, Alive,
     notifying, Heard
<1>3. SoleInv'
  BY DEF BeginNotify, MayNotify, Inv, SoleInv, TypeOK, NotifierInv, Plugin, Notifier, Main,
     Stream, Alive, notifying
<1>4. ProcessInv'
  BY DEF BeginNotify, MayNotify, Inv, ProcessInv, TypeOK, NotifierInv, Plugin, Notifier, Running,
     Gone, Alive, notifying
<1>5. HeardInv'
  BY DEF BeginNotify, MayNotify, Inv, HeardInv, TypeOK, NotifierInv, Plugin, Notifier, Main,
     Stream, Alive, notifying, Heard
<1> QED BY <1>1, <1>2, <1>3, <1>4, <1>5 DEF Inv

LEMMA SendInv ==
  ASSUME Inv, NEW g \in Notifier, NEW p \in Plugin, Send(g, p)
  PROVE  Inv'
<1> USE PluginsAssumption, NotifiersAssumption
<1>1. TypeOK'
  <2>1. Hear(heard[p], g) \in Heard
    BY SendHears DEF Inv
  <2>2. heard' \in [Plugin -> Heard]
    BY <2>1 DEF Send, Inv, TypeOK
  <2>3. visited' \in [Notifier -> SUBSET Plugin]
    BY DEF Send, Inv, TypeOK
  <2> QED BY <2>2, <2>3 DEF Send, Inv, TypeOK
<1>2. NotifierInv'
  BY DEF Send, Hear, Inv, NotifierInv, TypeOK, Plugin, Notifier, Main, Stream, Alive, notifying,
     Heard
<1>3. SoleInv'
  BY DEF Send, Hear, Inv, SoleInv, TypeOK, NotifierInv, Plugin, Notifier, Main, Stream, Alive,
     notifying
<1>4. ProcessInv'
  BY DEF Send, Hear, Inv, ProcessInv, TypeOK, NotifierInv, Plugin, Notifier, Running, Gone,
     Alive, notifying
<1>5. HeardInv'
  <2>1. /\ heard[p] \in Heard
        /\ Hear(heard[p], g).result => heard[p].result \/ phase \in {"result", "stop"}
        /\ Hear(heard[p], g).kill => heard[p].kill \/ phase = "stop"
    BY SendHears DEF Inv
  <2>2. \A q \in Plugin : heard'[q] = heard[q] \/ (q = p /\ heard'[q] = Hear(heard[p], g))
    BY SendChanges DEF Inv
  <2> QED BY <2>1, <2>2 DEF Send, Inv, HeardInv
<1> QED BY <1>1, <1>2, <1>3, <1>4, <1>5 DEF Inv

LEMMA FailToSendInv ==
  ASSUME Inv, NEW g \in Notifier, NEW p \in Plugin, FailToSend(g, p)
  PROVE  Inv'
<1> USE PluginsAssumption, NotifiersAssumption
<1>1. TypeOK'
  BY DEF FailToSend, Inv, TypeOK, Plugin, Notifier, Main, Heard, Running, Gone, notifying
<1>2. NotifierInv'
  BY DEF FailToSend, Inv, NotifierInv, TypeOK, Plugin, Notifier, Main, Stream, Alive, notifying,
     Heard
<1>3. SoleInv'
  BY DEF FailToSend, Inv, SoleInv, TypeOK, NotifierInv, Plugin, Notifier, Main, Stream, Alive,
     notifying
<1>4. ProcessInv'
  BY DEF FailToSend, Inv, ProcessInv, TypeOK, NotifierInv, Plugin, Notifier, Running, Gone,
     Alive, notifying
<1>5. HeardInv'
  BY DEF FailToSend, Inv, HeardInv, TypeOK, NotifierInv, Plugin, Notifier, Main, Stream, Alive,
     notifying, Heard
<1> QED BY <1>1, <1>2, <1>3, <1>4, <1>5 DEF Inv

LEMMA LookUpInv ==
  ASSUME Inv, NEW g \in Notifier, LookUp(g)
  PROVE  Inv'
<1> USE PluginsAssumption, NotifiersAssumption
<1>1. TypeOK'
  BY DEF LookUp, Inv, TypeOK, Plugin, Notifier, Main, Heard, Running, Gone, notifying
<1>2. NotifierInv'
  BY DEF LookUp, Inv, NotifierInv, TypeOK, Plugin, Notifier, Main, Stream, Alive, notifying, Heard
<1>3. SoleInv'
  BY DEF LookUp, Inv, SoleInv, TypeOK, NotifierInv, Plugin, Notifier, Main, Stream, Alive, notifying
<1>4. ProcessInv'
  BY DEF LookUp, Inv, ProcessInv, TypeOK, NotifierInv, Plugin, Notifier, Running, Gone, Alive,
     notifying
<1>5. HeardInv'
  BY DEF LookUp, Inv, HeardInv, TypeOK, NotifierInv, Plugin, Notifier, Main, Stream, Alive,
     notifying, Heard
<1> QED BY <1>1, <1>2, <1>3, <1>4, <1>5 DEF Inv

LEMMA KillPluginInv ==
  ASSUME Inv, NEW g \in Notifier, KillPlugin(g)
  PROVE  Inv'
<1> USE PluginsAssumption, NotifiersAssumption
<1>1. TypeOK'
  BY DEF KillPlugin, Remove, Kill, AfterFailure, Inv, TypeOK, Plugin, Notifier, Main, Heard,
     Running, Gone, notifying
<1>2. NotifierInv'
  BY DEF KillPlugin, Remove, Kill, AfterFailure, Inv, NotifierInv, TypeOK, Plugin, Notifier,
     Main, Stream, Alive, notifying, Heard
<1>3. SoleInv'
  BY DEF KillPlugin, Remove, Kill, AfterFailure, Inv, SoleInv, TypeOK, NotifierInv, Plugin,
     Notifier, Main, Stream, Alive, notifying
<1>4. ProcessInv'
  BY DEF KillPlugin, Remove, Kill, AfterFailure, Inv, ProcessInv, TypeOK, NotifierInv, Plugin,
     Notifier, Running, Gone, Alive, notifying
<1>5. HeardInv'
  BY DEF KillPlugin, Remove, Kill, AfterFailure, Inv, HeardInv, TypeOK, NotifierInv, Plugin,
     Notifier, Main, Stream, Alive, notifying, Heard
<1> QED BY <1>1, <1>2, <1>3, <1>4, <1>5 DEF Inv

LEMMA RaceOnMapInv ==
  ASSUME Inv, NEW g \in Notifier, RaceOnMap(g)
  PROVE  Inv'
<1> USE PluginsAssumption, NotifiersAssumption
<1>1. TypeOK'
  BY DEF RaceOnMap, Inv, TypeOK, Plugin, Notifier, Main, Heard, Running, Gone, notifying
<1>2. NotifierInv'
  BY DEF RaceOnMap, Inv, NotifierInv, TypeOK, Plugin, Notifier, Main, Stream, Alive, notifying,
     Heard
<1>3. SoleInv'
  BY DEF RaceOnMap, Inv, SoleInv, TypeOK, NotifierInv, Plugin, Notifier, Main, Stream, Alive,
     notifying
<1>4. ProcessInv'
  BY DEF RaceOnMap, Inv, ProcessInv, TypeOK, NotifierInv, Plugin, Notifier, Running, Gone, Alive,
     notifying
<1>5. HeardInv'
  BY DEF RaceOnMap, Inv, HeardInv, TypeOK, NotifierInv, Plugin, Notifier, Main, Stream, Alive,
     notifying, Heard
<1> QED BY <1>1, <1>2, <1>3, <1>4, <1>5 DEF Inv

LEMMA EndNotifyInv ==
  ASSUME Inv, NEW g \in Notifier, EndNotify(g)
  PROVE  Inv'
<1> USE PluginsAssumption, NotifiersAssumption
<1>1. TypeOK'
  <2>1. sent \in [Notifier -> Nat] /\ sent[g] + 1 \in Nat
    BY DEF Inv, TypeOK
  <2>2. sent' \in [Notifier -> Nat]
    BY <2>1 DEF EndNotify
  <2>3. at' \in [Notifier -> {"idle", "iterating", "failed", "removing", "leaving"}]
    BY DEF EndNotify, Inv, TypeOK
  <2> QED BY <2>2, <2>3 DEF EndNotify, Inv, TypeOK
<1>2. NotifierInv'
  BY DEF EndNotify, Inv, NotifierInv, TypeOK, Plugin, Notifier, Main, Stream, Alive, notifying,
     Heard
<1>3. SoleInv'
  BY DEF EndNotify, Inv, SoleInv, TypeOK, NotifierInv, Plugin, Notifier, Main, Stream, Alive,
     notifying
<1>4. ProcessInv'
  BY DEF EndNotify, Inv, ProcessInv, TypeOK, NotifierInv, Plugin, Notifier, Running, Gone, Alive,
     notifying
<1>5. HeardInv'
  BY DEF EndNotify, Inv, HeardInv, TypeOK, NotifierInv, Plugin, Notifier, Main, Stream, Alive,
     notifying, Heard
<1> QED BY <1>1, <1>2, <1>3, <1>4, <1>5 DEF Inv

LEMMA ExecutedInv ==
  ASSUME Inv, Executed
  PROVE  Inv'
<1> USE PluginsAssumption, NotifiersAssumption
<1>1. TypeOK'
  BY DEF Executed, AllExecuted, Inv, TypeOK, Plugin, Notifier, Main, Heard, Running, Gone, notifying
<1>2. NotifierInv'
  BY DEF Executed, AllExecuted, Inv, NotifierInv, TypeOK, Plugin, Notifier, Main, Stream, Alive,
     notifying, Heard
<1>3. SoleInv'
  BY DEF Executed, AllExecuted, Inv, SoleInv, TypeOK, NotifierInv, Plugin, Notifier, Main,
     Stream, Alive, notifying
<1>4. ProcessInv'
  BY DEF Executed, AllExecuted, Inv, ProcessInv, TypeOK, NotifierInv, Plugin, Notifier, Running,
     Gone, Alive, notifying
<1>5. HeardInv'
  BY DEF Executed, AllExecuted, Inv, HeardInv, TypeOK, NotifierInv, Plugin, Notifier, Main,
     Stream, Alive, notifying, Heard
<1> QED BY <1>1, <1>2, <1>3, <1>4, <1>5 DEF Inv

LEMMA FinishInv ==
  ASSUME Inv, Finish
  PROVE  Inv'
<1> USE PluginsAssumption, NotifiersAssumption
<1>1. TypeOK'
  BY DEF Finish, AfterResult, Inv, TypeOK, Plugin, Notifier, Main, Heard, Running, Gone, notifying
<1>2. NotifierInv'
  BY DEF Finish, AfterResult, Inv, NotifierInv, TypeOK, Plugin, Notifier, Main, Stream, Alive,
     notifying, Heard
<1>3. SoleInv'
  BY DEF Finish, AfterResult, Inv, SoleInv, TypeOK, NotifierInv, Plugin, Notifier, Main, Stream,
     Alive, notifying
<1>4. ProcessInv'
  BY DEF Finish, AfterResult, Inv, ProcessInv, TypeOK, NotifierInv, Plugin, Notifier, Running,
     Gone, Alive, notifying
<1>5. HeardInv'
  BY DEF Finish, AfterResult, Inv, HeardInv, TypeOK, NotifierInv, Plugin, Notifier, Main, Stream,
     Alive, notifying, Heard
<1> QED BY <1>1, <1>2, <1>3, <1>4, <1>5 DEF Inv

LEMMA SeeExitInv ==
  ASSUME Inv, NEW p \in Plugin, SeeExit(p)
  PROVE  Inv'
<1> USE PluginsAssumption, NotifiersAssumption
<1>1. TypeOK'
  BY DEF SeeExit, Inv, TypeOK, Plugin, Notifier, Main, Heard, Running, Gone, notifying
<1>2. NotifierInv'
  BY DEF SeeExit, Inv, NotifierInv, TypeOK, Plugin, Notifier, Main, Stream, Alive, notifying, Heard
<1>3. SoleInv'
  BY DEF SeeExit, Inv, SoleInv, TypeOK, NotifierInv, Plugin, Notifier, Main, Stream, Alive,
     notifying
<1>4. ProcessInv'
  BY DEF SeeExit, Inv, ProcessInv, TypeOK, NotifierInv, Plugin, Notifier, Running, Gone, Alive,
     notifying
<1>5. HeardInv'
  BY DEF SeeExit, Inv, HeardInv, TypeOK, NotifierInv, Plugin, Notifier, Main, Stream, Alive,
     notifying, Heard
<1> QED BY <1>1, <1>2, <1>3, <1>4, <1>5 DEF Inv

LEMMA KillTimeoutInv ==
  ASSUME Inv, NEW p \in Plugin, KillTimeout(p)
  PROVE  Inv'
<1> USE PluginsAssumption, NotifiersAssumption
<1>1. TypeOK'
  BY DEF KillTimeout, ForceExit, Kill, Inv, TypeOK, Plugin, Notifier, Main, Heard, Running, Gone,
     notifying
<1>2. NotifierInv'
  BY DEF KillTimeout, ForceExit, Kill, Inv, NotifierInv, TypeOK, Plugin, Notifier, Main, Stream,
     Alive, notifying, Heard
<1>3. SoleInv'
  BY DEF KillTimeout, ForceExit, Kill, Inv, SoleInv, TypeOK, NotifierInv, Plugin, Notifier, Main,
     Stream, Alive, notifying
<1>4. ProcessInv'
  BY DEF KillTimeout, ForceExit, Kill, Inv, ProcessInv, TypeOK, NotifierInv, Plugin, Notifier,
     Running, Gone, Alive, notifying
<1>5. HeardInv'
  BY DEF KillTimeout, ForceExit, Kill, Inv, HeardInv, TypeOK, NotifierInv, Plugin, Notifier,
     Main, Stream, Alive, notifying, Heard
<1> QED BY <1>1, <1>2, <1>3, <1>4, <1>5 DEF Inv

LEMMA EndInv ==
  ASSUME Inv, End
  PROVE  Inv'
<1> USE PluginsAssumption, NotifiersAssumption
<1>1. TypeOK'
  BY DEF End, Inv, TypeOK, Plugin, Notifier, Main, Heard, Running, Gone, notifying
<1>2. NotifierInv'
  BY DEF End, Inv, NotifierInv, TypeOK, Plugin, Notifier, Main, Stream, Alive, notifying, Heard
<1>3. SoleInv'
  BY DEF End, Inv, SoleInv, TypeOK, NotifierInv, Plugin, Notifier, Main, Stream, Alive, notifying
<1>4. ProcessInv'
  BY DEF End, Inv, ProcessInv, TypeOK, NotifierInv, Plugin, Notifier, Running, Gone, Alive,
     notifying
<1>5. HeardInv'
  BY DEF End, Inv, HeardInv, TypeOK, NotifierInv, Plugin, Notifier, Main, Stream, Alive,
     notifying, Heard
<1> QED BY <1>1, <1>2, <1>3, <1>4, <1>5 DEF Inv

LEMMA PluginStepInv ==
  ASSUME Inv, NEW p \in Plugin, PluginStep(p)
  PROVE  Inv'
<1> USE PluginsAssumption, NotifiersAssumption
<1>1. TypeOK'
  BY DEF PluginStep, Change, Inv, TypeOK, Plugin, Notifier, Main, Heard, Running, Gone, notifying
<1>2. NotifierInv'
  BY DEF PluginStep, Change, Inv, NotifierInv, TypeOK, Plugin, Notifier, Main, Stream, Alive,
     notifying, Heard
<1>3. SoleInv'
  BY DEF PluginStep, Change, Inv, SoleInv, TypeOK, NotifierInv, Plugin, Notifier, Main, Stream,
     Alive, notifying
<1>4. ProcessInv'
  BY DEF PluginStep, Change, Inv, ProcessInv, TypeOK, NotifierInv, Plugin, Notifier, Running,
     Gone, Alive, notifying
<1>5. HeardInv'
  BY DEF PluginStep, Change, Inv, HeardInv, TypeOK, NotifierInv, Plugin, Notifier, Main, Stream,
     Alive, notifying, Heard
<1> QED BY <1>1, <1>2, <1>3, <1>4, <1>5 DEF Inv

LEMMA StutterInv ==
  ASSUME Inv, UNCHANGED vars
  PROVE  Inv'
<1> USE PluginsAssumption, NotifiersAssumption
<1>1. TypeOK'
  BY DEF vars, Inv, TypeOK, Plugin, Notifier, Main, Heard, Running, Gone, notifying
<1>2. NotifierInv'
  BY DEF vars, Inv, NotifierInv, TypeOK, Plugin, Notifier, Main, Stream, Alive, notifying, Heard
<1>3. SoleInv'
  BY DEF vars, Inv, SoleInv, TypeOK, NotifierInv, Plugin, Notifier, Main, Stream, Alive, notifying
<1>4. ProcessInv'
  BY DEF vars, Inv, ProcessInv, TypeOK, NotifierInv, Plugin, Notifier, Running, Gone, Alive,
     notifying
<1>5. HeardInv'
  BY DEF vars, Inv, HeardInv, TypeOK, NotifierInv, Plugin, Notifier, Main, Stream, Alive,
     notifying, Heard
<1> QED BY <1>1, <1>2, <1>3, <1>4, <1>5 DEF Inv

LEMMA StepInv == Inv /\ [Next]_vars => Inv'
BY StartPluginInv, BeginNotifyInv, SendInv, FailToSendInv, LookUpInv, KillPluginInv,
   RaceOnMapInv, EndNotifyInv, ExecutedInv, FinishInv, SeeExitInv, KillTimeoutInv, EndInv,
   PluginStepInv, StutterInv
DEF Next, MainStep, Notify

\* Spec keeps the inductive invariant.
THEOREM Invariance == Spec => []Inv
BY InitInv, StepInv, PTL DEF Spec

\* The state has its types.
THEOREM TypeCorrect == Spec => []TypeOK
<1>1. Inv => TypeOK
  BY DEF Inv
<1> QED BY <1>1, Invariance, PTL

\* However plugins fail, a goroutine alone with the map never panics in
\* killPlugin: a sequential execution, or a parallel one with one stream.
THEOREM OneStreamSafe == Spec => []OneStreamNeverCrashes
<1>1. Inv => OneStreamNeverCrashes
  BY NotifiersAssumption DEF Inv, SoleInv, OneStreamNeverCrashes, Alive, TypeOK
<1> QED BY <1>1, Invariance, PTL

\* An execution that comes to its end leaves no plugin process running.
THEOREM PluginsGone == Spec => []NoPluginLeft
<1>1. Inv => NoPluginLeft
  BY DEF Inv, ProcessInv, NoPluginLeft
<1> QED BY <1>1, Invariance, PTL

\* No plugin hears of a hook after the result, or of the result after the
\* request to stop.
THEOREM ResultLast == Spec => ResultComesLast
<1> DEFINE Late == \A p \in Plugin :
      /\ heard[p].result => heard'[p].hooks = heard[p].hooks
      /\ heard[p].kill => heard'[p].result = heard[p].result
<1>1. ASSUME Inv, [Next]_vars
      PROVE  Late
  <2>1. CASE UNCHANGED heard
    BY <2>1
  <2>2. ASSUME NEW g \in Notifier, NEW q \in Plugin, Send(g, q)
        PROVE  Late
    <3>1. \A r \in Plugin : heard'[r] = heard[r] \/ (r = q /\ heard'[r] = Hear(heard[q], g))
      BY <1>1, <2>2, SendChanges DEF Inv
    <3>2. /\ Hear(heard[q], g).hooks # heard[q].hooks => phase = "executing"
          /\ Hear(heard[q], g).result # heard[q].result => phase # "stop"
          /\ phase \in {"executing", "result", "stop"}
      BY <1>1, <2>2, SendHears DEF Inv, NotifierInv, Send, Alive
    <3> QED BY <1>1, <3>1, <3>2 DEF Inv, HeardInv
  <2>3. \/ UNCHANGED heard
        \/ \E g \in Notifier, q \in Plugin : Send(g, q)
    BY <1>1 DEF Next, MainStep, Notify, StartPlugin, BeginNotify, FailToSend, LookUp, KillPlugin,
       RaceOnMap, EndNotify, Executed, Finish, SeeExit, KillTimeout, End, PluginStep, Change, vars
  <2> QED BY <2>1, <2>2, <2>3
<1>2. Late => [\A p \in Plugin :
      /\ heard[p].result => heard'[p].hooks = heard[p].hooks
      /\ heard[p].kill => heard'[p].result = heard[p].result]_vars
  OBVIOUS
<1> QED BY <1>1, <1>2, Invariance, PTL DEF Spec, ResultComesLast

-----------------------------------------------------------------------------
(* What the plugins that live have heard.                                  *)

\* How many notifications of stream g have come to plugin p.
Told(p, g) == sent[g] + (IF at[g] # "idle" /\ p \in visited[g] THEN 1 ELSE 0)

\* All the hooks plugin p has been told of: the stream, and the number of the hook in it.
Deliveries(p) == {d \in Stream \X (1..Notifications) : d[2] <= Told(p, d[1])}

\* The streams' part: none notifies before it begins, or of more than there is.
StreamsInv ==
  /\ \A g \in Notifier : at[g] # "leaving"
  /\ phase = "starting" => /\ \A g \in Notifier : sent[g] = 0 /\ at[g] = "idle"
                           /\ \A p \in Plugin : heard[p].hooks = 0
  /\ \A g \in Stream : sent[g] <= Notifications
  /\ phase = "executing" => \A g \in Stream : at[g] # "idle" => sent[g] < Notifications
  /\ phase \in {"result", "stop", "waiting"} =>
       \A g \in Stream : sent[g] = Notifications /\ at[g] = "idle"

HooksInv ==
  Alive => \A p \in Plugin :
    process[p] = "connected" => heard[p].hooks = Cardinality(Deliveries(p))

\* The main goroutine's part.
Said(p, n) == sent[Main] > n \/ (at[Main] # "idle" /\ p \in visited[Main])

MainInv ==
  /\ phase \in {"starting", "executing"} => sent[Main] = 0
  /\ phase = "result" => sent[Main] \in {0, 1}
  /\ phase = "stop" => sent[Main] \in {1, 2} /\ ~parallel
  /\ \A p \in Plugin : process[p] = "connected" =>
       /\ phase = "result" /\ Said(p, 0) => heard[p].result
       /\ phase \in {"stop", "waiting"} => heard[p].result
       /\ phase = "stop" /\ Said(p, 1) => heard[p].kill
       /\ phase = "waiting" => (heard[p].kill <=> ~parallel)

HearInv == StreamsInv /\ HooksInv /\ MainInv

LEMMA StreamNotifier ==
  ASSUME TypeOK
  PROVE  /\ Stream \subseteq Notifier /\ Main \notin Stream /\ Main \in Notifier
         /\ streams \in Nat /\ Notifications \in Nat
         /\ \A g \in Notifier : sent[g] \in Nat
BY NotifiersAssumption DEF TypeOK, Stream, Notifier, Main

LEMMA FiniteDeliveries ==
  ASSUME TypeOK, NEW p \in Plugin
  PROVE  /\ IsFiniteSet(Deliveries(p))
         /\ IsFiniteSet(Stream \X (1..Notifications))
         /\ Cardinality(Stream \X (1..Notifications)) = streams * Notifications
<1> DEFINE T == 1..Notifications
<1>1. /\ IsFiniteSet(Stream) /\ Cardinality(Stream) = streams
      /\ IsFiniteSet(T) /\ Cardinality(T) = Notifications
  <2>1. streams \in Nat /\ Notifications \in Nat
    BY StreamNotifier
  <2> QED BY <2>1, FS_Interval DEF Stream
<1>2. Deliveries(p) \subseteq Stream \X T
  BY DEF Deliveries
<1> HIDE DEF T
<1>3. IsFiniteSet(Stream \X T) /\ Cardinality(Stream \X T) = Cardinality(Stream) * Cardinality(T)
  BY <1>1, FS_Product
<1>4. Cardinality(Stream \X T) = streams * Notifications
  BY <1>1, <1>3
<1>5. IsFiniteSet(Deliveries(p))
  BY <1>2, <1>3, FS_Subset
<1> QED BY <1>3, <1>4, <1>5 DEF T

LEMMA HooksKept ==
  ASSUME TypeOK, HooksInv, streams' = streams, Alive' => Alive,
         \A p \in Plugin : process'[p] = "connected" =>
           /\ process[p] = "connected" /\ heard'[p].hooks = heard[p].hooks
           /\ \A g \in Stream : Told(p, g)' = Told(p, g)
  PROVE  HooksInv'
<1>1. Stream' = Stream
  BY DEF Stream
<1>2. ASSUME Alive', NEW p \in Plugin, process'[p] = "connected"
      PROVE  heard'[p].hooks = Cardinality(Deliveries(p)')
  <2>1. \A d \in Stream \X (1..Notifications) : d[1] \in Stream
    OBVIOUS
  <2>2. \A d \in Stream \X (1..Notifications) : (d[2] <= Told(p, d[1]))' <=> d[2] <= Told(p, d[1])
    BY <1>2, <2>1
  <2>3. Deliveries(p)' = Deliveries(p)
    BY <1>1, <2>2 DEF Deliveries
  <2> QED BY <1>2, <2>3 DEF HooksInv
<1> QED BY <1>2 DEF HooksInv

\* One more hook is one more delivery.
LEMMA HooksCount ==
  ASSUME TypeOK, HearInv, NEW g \in Stream, NEW p \in Plugin, Send(g, p),
         phase = "executing", process[p] = "connected"
  PROVE  Cardinality(Deliveries(p)') = Cardinality(Deliveries(p)) + 1
<1> DEFINE d0 == <<g, sent[g] + 1>>
<1>1. /\ at[g] = "iterating" /\ p \notin visited[g] /\ g \in Notifier /\ sent[g] \in Nat
      /\ sent[g] < Notifications /\ Notifications \in Nat
      /\ at' = at /\ sent' = sent /\ streams' = streams
      /\ visited' = [visited EXCEPT ![g] = @ \cup {p}]
  BY StreamNotifier DEF Send, HearInv, StreamsInv
<1>2. Told(p, g) = sent[g] /\ Told(p, g)' = sent[g] + 1
  BY <1>1 DEF Told, TypeOK
<1>3. ASSUME NEW h \in Stream, h # g
      PROVE  Told(p, h)' = Told(p, h)
  BY <1>1, <1>3, StreamNotifier DEF Told, TypeOK
<1>4. Stream' = Stream
  BY <1>1 DEF Stream
<1>5. d0 \in Stream \X (1..Notifications) /\ d0 \notin Deliveries(p)
  BY <1>1, <1>2 DEF Deliveries
<1>6. ASSUME NEW d \in Stream \X (1..Notifications)
      PROVE  (d[2] <= Told(p, d[1]))' <=> d[2] <= Told(p, d[1]) \/ d = d0
  <2>1. CASE d[1] = g
    <3>1. d[2] <= sent[g] + 1 <=> d[2] <= sent[g] \/ d[2] = sent[g] + 1
      BY <1>1
    <3>2. (d[2] <= Told(p, d[1]))' <=> d[2] <= sent[g] + 1
      BY <1>2, <2>1
    <3> QED BY <1>2, <2>1, <3>1, <3>2
  <2>2. CASE d[1] # g
    BY <1>3, <2>2
  <2> QED BY <2>1, <2>2
<1>7. Deliveries(p)' = Deliveries(p) \cup {d0}
  BY <1>4, <1>5, <1>6 DEF Deliveries
<1> HIDE DEF d0
<1> QED BY <1>5, <1>7, FiniteDeliveries, FS_AddElement

LEMMA BeginNotifyHear ==
  ASSUME Inv, HearInv, NEW g \in Notifier, BeginNotify(g)
  PROVE  HearInv'
<1>1. TypeOK /\ NotifierInv /\ ProcessInv /\ HeardInv /\ StreamsInv /\ HooksInv /\ MainInv
  BY DEF Inv, HearInv
<1>2. StreamsInv'
  BY <1>1, StreamNotifier DEF BeginNotify, MayNotify, TypeOK, NotifierInv, StreamsInv, Alive, Stream
<1>3. HooksInv'
  BY <1>1, HooksKept, StreamNotifier DEF BeginNotify, MayNotify, TypeOK, ProcessInv, Told, Alive,
     Running
<1>4. MainInv'
  BY <1>1, StreamNotifier DEF BeginNotify, MayNotify, TypeOK, NotifierInv, ProcessInv, HeardInv,
     MainInv, Said, Alive, Running
<1> QED BY <1>2, <1>3, <1>4 DEF HearInv

LEMMA FailToSendHear ==
  ASSUME Inv, HearInv, NEW g \in Notifier, NEW q \in Plugin, FailToSend(g, q)
  PROVE  HearInv'
<1>1. TypeOK /\ NotifierInv /\ ProcessInv /\ HeardInv /\ StreamsInv /\ HooksInv /\ MainInv
  BY DEF Inv, HearInv
<1>2. StreamsInv'
  BY <1>1, StreamNotifier DEF FailToSend, TypeOK, NotifierInv, StreamsInv, Alive, Stream
<1>3. HooksInv'
  BY <1>1, HooksKept, StreamNotifier DEF FailToSend, TypeOK, ProcessInv, Told, Alive, Running
<1>4. MainInv'
  BY <1>1, StreamNotifier DEF FailToSend, TypeOK, NotifierInv, ProcessInv, HeardInv, MainInv,
     Said, Alive, Running
<1> QED BY <1>2, <1>3, <1>4 DEF HearInv

LEMMA LookUpHear ==
  ASSUME Inv, HearInv, NEW g \in Notifier, LookUp(g)
  PROVE  HearInv'
<1>1. TypeOK /\ NotifierInv /\ ProcessInv /\ HeardInv /\ StreamsInv /\ HooksInv /\ MainInv
  BY DEF Inv, HearInv
<1>2. StreamsInv'
  BY <1>1, StreamNotifier DEF LookUp, TypeOK, NotifierInv, StreamsInv, Alive, Stream
<1>3. HooksInv'
  BY <1>1, HooksKept, StreamNotifier DEF LookUp, TypeOK, ProcessInv, Told, Alive, Running
<1>4. MainInv'
  BY <1>1, StreamNotifier DEF LookUp, TypeOK, NotifierInv, ProcessInv, HeardInv, MainInv, Said,
     Alive, Running
<1> QED BY <1>2, <1>3, <1>4 DEF HearInv

LEMMA KillPluginHear ==
  ASSUME Inv, HearInv, NEW g \in Notifier, KillPlugin(g)
  PROVE  HearInv'
<1>1. TypeOK /\ NotifierInv /\ ProcessInv /\ HeardInv /\ StreamsInv /\ HooksInv /\ MainInv
  BY DEF Inv, HearInv
<1>2. StreamsInv'
  BY <1>1, StreamNotifier DEF KillPlugin, Remove, Kill, AfterFailure, TypeOK, NotifierInv,
     StreamsInv, Alive, Stream
<1>3. HooksInv'
  BY <1>1, HooksKept, StreamNotifier DEF KillPlugin, Remove, Kill, AfterFailure, TypeOK,
     ProcessInv, Told, Alive, Running
<1>4. MainInv'
  BY <1>1, StreamNotifier DEF KillPlugin, Remove, Kill, AfterFailure, TypeOK, NotifierInv,
     ProcessInv, HeardInv, MainInv, Said, Alive, Running
<1> QED BY <1>2, <1>3, <1>4 DEF HearInv

LEMMA RaceOnMapHear ==
  ASSUME Inv, HearInv, NEW g \in Notifier, RaceOnMap(g)
  PROVE  HearInv'
<1>1. TypeOK /\ NotifierInv /\ ProcessInv /\ HeardInv /\ StreamsInv /\ HooksInv /\ MainInv
  BY DEF Inv, HearInv
<1>2. StreamsInv'
  BY <1>1, StreamNotifier DEF RaceOnMap, notifying, TypeOK, NotifierInv, StreamsInv, Alive, Stream
<1>3. HooksInv'
  BY <1>1, HooksKept, StreamNotifier DEF RaceOnMap, notifying, TypeOK, ProcessInv, Told, Alive,
     Running
<1>4. MainInv'
  BY <1>1, StreamNotifier DEF RaceOnMap, notifying, TypeOK, NotifierInv, ProcessInv, HeardInv,
     MainInv, Said, Alive, Running
<1> QED BY <1>2, <1>3, <1>4 DEF HearInv

LEMMA EndNotifyHear ==
  ASSUME Inv, HearInv, NEW g \in Notifier, EndNotify(g)
  PROVE  HearInv'
<1>1. TypeOK /\ NotifierInv /\ ProcessInv /\ HeardInv /\ StreamsInv /\ HooksInv /\ MainInv
  BY DEF Inv, HearInv
<1>2. StreamsInv'
  BY <1>1, StreamNotifier DEF EndNotify, TypeOK, NotifierInv, StreamsInv, Alive, Stream
<1>3. /\ \A p \in Plugin : process[p] = "connected" => p \in visited[g]
      /\ at[g] # "idle" /\ UNCHANGED <<parallel, streams, phase, process, visited, heard>>
      /\ sent[g] \in Nat /\ sent'[g] = sent[g] + 1 /\ at'[g] = "idle"
      /\ \A h \in Notifier \ {g} : sent'[h] = sent[h] /\ at'[h] = at[h]
  BY <1>1, StreamNotifier DEF EndNotify, TypeOK, ProcessInv, StreamsInv, Running
<1>4. HooksInv'
  <2>1. ASSUME NEW p \in Plugin, process[p] = "connected", NEW h \in Stream
        PROVE  Told(p, h)' = Told(p, h)
    <3>1. CASE h = g
      BY <1>3, <2>1, <3>1 DEF Told
    <3>2. CASE h # g
      BY <1>1, <1>3, <3>2, StreamNotifier DEF Told
    <3> QED BY <3>1, <3>2
  <2> QED BY <1>1, <1>3, <2>1, HooksKept DEF Alive
<1>5. MainInv'
  <2>1. CASE g = Main
    BY <1>1, <1>3, <2>1, StreamNotifier DEF NotifierInv, MainInv, Said, EndNotify, Alive, Stream
  <2>2. CASE g # Main
    <3>1. sent'[Main] = sent[Main] /\ at'[Main] = at[Main]
      BY <1>1, <1>3, <2>2, StreamNotifier
    <3> QED BY <1>1, <1>3, <3>1 DEF MainInv, Said
  <2> QED BY <2>1, <2>2
<1> QED BY <1>2, <1>4, <1>5 DEF HearInv

LEMMA ExecutedHear ==
  ASSUME Inv, HearInv, Executed
  PROVE  HearInv'
<1>1. TypeOK /\ NotifierInv /\ ProcessInv /\ HeardInv /\ StreamsInv /\ HooksInv /\ MainInv
  BY DEF Inv, HearInv
<1>2. StreamsInv'
  BY <1>1, StreamNotifier DEF Executed, AllExecuted, notifying, TypeOK, NotifierInv, StreamsInv,
     Alive, Stream
<1>3. HooksInv'
  BY <1>1, HooksKept, StreamNotifier DEF Executed, AllExecuted, notifying, TypeOK, ProcessInv,
     Told, Alive, Running
<1>4. MainInv'
  BY <1>1, StreamNotifier DEF Executed, AllExecuted, notifying, TypeOK, NotifierInv, ProcessInv,
     HeardInv, MainInv, Said, Alive, Running
<1> QED BY <1>2, <1>3, <1>4 DEF HearInv

LEMMA FinishHear ==
  ASSUME Inv, HearInv, Finish
  PROVE  HearInv'
<1>1. TypeOK /\ NotifierInv /\ ProcessInv /\ HeardInv /\ StreamsInv /\ HooksInv /\ MainInv
  BY DEF Inv, HearInv
<1>2. StreamsInv'
  BY <1>1, StreamNotifier DEF Finish, AfterResult, notifying, TypeOK, NotifierInv, StreamsInv,
     Alive, Stream
<1>3. HooksInv'
  BY <1>1, HooksKept, StreamNotifier DEF Finish, AfterResult, notifying, TypeOK, ProcessInv,
     Told, Alive, Running
<1>4. MainInv'
  BY <1>1, StreamNotifier DEF Finish, AfterResult, notifying, TypeOK, NotifierInv, ProcessInv,
     HeardInv, MainInv, Said, Alive, Running
<1> QED BY <1>2, <1>3, <1>4 DEF HearInv

LEMMA SeeExitHear ==
  ASSUME Inv, HearInv, NEW q \in Plugin, SeeExit(q)
  PROVE  HearInv'
<1>1. TypeOK /\ NotifierInv /\ ProcessInv /\ HeardInv /\ StreamsInv /\ HooksInv /\ MainInv
  BY DEF Inv, HearInv
<1>2. StreamsInv'
  BY <1>1, StreamNotifier DEF SeeExit, notifying, TypeOK, NotifierInv, StreamsInv, Alive, Stream
<1>3. HooksInv'
  BY <1>1, HooksKept, StreamNotifier DEF SeeExit, notifying, TypeOK, ProcessInv, Told, Alive,
     Running
<1>4. MainInv'
  BY <1>1, StreamNotifier DEF SeeExit, notifying, TypeOK, NotifierInv, ProcessInv, HeardInv,
     MainInv, Said, Alive, Running
<1> QED BY <1>2, <1>3, <1>4 DEF HearInv

LEMMA KillTimeoutHear ==
  ASSUME Inv, HearInv, NEW q \in Plugin, KillTimeout(q)
  PROVE  HearInv'
<1>1. TypeOK /\ NotifierInv /\ ProcessInv /\ HeardInv /\ StreamsInv /\ HooksInv /\ MainInv
  BY DEF Inv, HearInv
<1>2. StreamsInv'
  BY <1>1, StreamNotifier DEF KillTimeout, ForceExit, Kill, notifying, TypeOK, NotifierInv,
     StreamsInv, Alive, Stream
<1>3. HooksInv'
  BY <1>1, HooksKept, StreamNotifier DEF KillTimeout, ForceExit, Kill, notifying, TypeOK,
     ProcessInv, Told, Alive, Running
<1>4. MainInv'
  BY <1>1, StreamNotifier DEF KillTimeout, ForceExit, Kill, notifying, TypeOK, NotifierInv,
     ProcessInv, HeardInv, MainInv, Said, Alive, Running
<1> QED BY <1>2, <1>3, <1>4 DEF HearInv

LEMMA EndHear ==
  ASSUME Inv, HearInv, End
  PROVE  HearInv'
<1>1. TypeOK /\ NotifierInv /\ ProcessInv /\ HeardInv /\ StreamsInv /\ HooksInv /\ MainInv
  BY DEF Inv, HearInv
<1>2. StreamsInv'
  BY <1>1, StreamNotifier DEF End, notifying, TypeOK, NotifierInv, StreamsInv, Alive, Stream
<1>3. HooksInv'
  BY <1>1, HooksKept, StreamNotifier DEF End, notifying, TypeOK, ProcessInv, Told, Alive, Running
<1>4. MainInv'
  BY <1>1, StreamNotifier DEF End, notifying, TypeOK, NotifierInv, ProcessInv, HeardInv, MainInv,
     Said, Alive, Running
<1> QED BY <1>2, <1>3, <1>4 DEF HearInv

LEMMA PluginStepHear ==
  ASSUME Inv, HearInv, NEW q \in Plugin, PluginStep(q)
  PROVE  HearInv'
<1>1. TypeOK /\ NotifierInv /\ ProcessInv /\ HeardInv /\ StreamsInv /\ HooksInv /\ MainInv
  BY DEF Inv, HearInv
<1>2. StreamsInv'
  BY <1>1, StreamNotifier DEF PluginStep, Change, notifying, TypeOK, NotifierInv, StreamsInv,
     Alive, Stream
<1>3. HooksInv'
  BY <1>1, HooksKept, StreamNotifier DEF PluginStep, Change, notifying, TypeOK, ProcessInv, Told,
     Alive, Running
<1>4. MainInv'
  BY <1>1, StreamNotifier DEF PluginStep, Change, notifying, TypeOK, NotifierInv, ProcessInv,
     HeardInv, MainInv, Said, Alive, Running
<1> QED BY <1>2, <1>3, <1>4 DEF HearInv

LEMMA StutterHear ==
  ASSUME Inv, HearInv, UNCHANGED vars
  PROVE  HearInv'
<1>1. TypeOK /\ NotifierInv /\ ProcessInv /\ HeardInv /\ StreamsInv /\ HooksInv /\ MainInv
  BY DEF Inv, HearInv
<1>2. StreamsInv'
  BY <1>1, StreamNotifier DEF vars, TypeOK, NotifierInv, StreamsInv, Alive, Stream
<1>3. HooksInv'
  BY <1>1, HooksKept, StreamNotifier DEF vars, TypeOK, ProcessInv, Told, Alive, Running
<1>4. MainInv'
  BY <1>1, StreamNotifier DEF vars, TypeOK, NotifierInv, ProcessInv, HeardInv, MainInv, Said,
     Alive, Running
<1> QED BY <1>2, <1>3, <1>4 DEF HearInv

LEMMA StartPluginHear ==
  ASSUME Inv, HearInv, NEW outcome \in {"none", "killed", "connected"}, StartPlugin(outcome)
  PROVE  HearInv'
<1>1. TypeOK /\ StreamsInv /\ HooksInv /\ MainInv
  BY DEF Inv, HearInv
<1>2. /\ phase = "starting" /\ phase' \in {"starting", "executing"}
      /\ UNCHANGED <<parallel, streams, at, visited, target, sent, heard>>
  BY DEF StartPlugin, notifying
<1>3. StreamsInv'
  BY <1>1, <1>2, StreamNotifier DEF StreamsInv, Stream
<1>4. ASSUME NEW p \in Plugin
      PROVE  heard'[p].hooks = 0 /\ Cardinality(Deliveries(p)') = 0
  <2>1. heard'[p].hooks = 0
    BY <1>1, <1>2 DEF StreamsInv
  <2>2. ASSUME NEW g \in Stream
        PROVE  Told(p, g)' = 0
    BY <1>1, <1>2, StreamNotifier DEF StreamsInv, Told
  <2>3. Stream' = Stream
    BY <1>2 DEF Stream
  <2>4. \A d \in Stream \X (1..Notifications) : ~(d[2] <= Told(p, d[1]))'
    BY <1>1, <2>2, StreamNotifier
  <2>5. Deliveries(p)' = {}
    BY <2>3, <2>4 DEF Deliveries
  <2> QED BY <2>1, <2>5, FS_EmptySet
<1>5. HooksInv'
  BY <1>4 DEF HooksInv
<1>6. MainInv'
  BY <1>1, <1>2 DEF MainInv
<1> QED BY <1>3, <1>5, <1>6 DEF HearInv

LEMMA SendHear ==
  ASSUME Inv, HearInv, NEW g \in Notifier, NEW q \in Plugin, Send(g, q)
  PROVE  HearInv'
<1>1. TypeOK /\ NotifierInv /\ ProcessInv /\ HeardInv /\ StreamsInv /\ HooksInv /\ MainInv
  BY DEF Inv, HearInv
<1>2. /\ at[g] = "iterating" /\ q \notin visited[g]
      /\ UNCHANGED <<parallel, streams, phase, process, at, sent>>
      /\ visited' = [visited EXCEPT ![g] = @ \cup {q}]
      /\ heard' = IF process[q] = "connected" THEN [heard EXCEPT ![q] = Hear(@, g)] ELSE heard
  BY DEF Send
<1>3. /\ \A p \in Plugin \ {q} : heard'[p] = heard[p]
      /\ process[q] = "connected" => heard'[q] = Hear(heard[q], g)
      /\ heard[q] \in Heard
  <2> DEFINE h == Hear(heard[q], g)
  <2>1. heard' = IF process[q] = "connected" THEN [heard EXCEPT ![q] = h] ELSE heard
    BY <1>2
  <2> HIDE DEF h
  <2>2. /\ \A p \in Plugin \ {q} : heard'[p] = heard[p]
        /\ process[q] = "connected" => heard'[q] = h
    BY <1>1, <2>1 DEF TypeOK
  <2> QED BY <1>1, <2>2 DEF TypeOK, h
<1>4. ASSUME NEW p \in Plugin, NEW h \in Stream, p # q \/ h # g
      PROVE  Told(p, h)' = Told(p, h)
  BY <1>1, <1>2, <1>4, StreamNotifier DEF Told, TypeOK
<1>5. CASE g = Main
  <2>1. \/ /\ phase = "result" /\ sent[Main] = 0
           /\ Hear(heard[q], g) = [heard[q] EXCEPT !.result = TRUE]
        \/ /\ phase = "stop" /\ sent[Main] = 1
           /\ Hear(heard[q], g) = [heard[q] EXCEPT !.kill = TRUE]
    BY <1>1, <1>2, <1>5, StreamNotifier DEF NotifierInv, Hear, Send, Alive
  <2>2. Hear(heard[q], g).hooks = heard[q].hooks
    BY <1>3, <2>1 DEF Heard
  <2>3. HooksInv'
    <3>1. \A p \in Plugin : process[p] = "connected" => heard'[p].hooks = heard[p].hooks
      BY <1>3, <2>2
    <3>2. \A p \in Plugin, h \in Stream : Told(p, h)' = Told(p, h)
      BY <1>1, <1>4, <1>5, StreamNotifier
    <3> QED BY <1>1, <1>2, <3>1, <3>2, HooksKept DEF Alive
  <2>4. MainInv'
    <3>1. ASSUME NEW p \in Plugin, process[p] = "connected"
          PROVE  /\ phase = "result" /\ Said(p, 0)' => heard'[p].result
                 /\ phase = "stop" => heard'[p].result
                 /\ phase = "stop" /\ Said(p, 1)' => heard'[p].kill
      <4>1. CASE p = q
        BY <1>1, <1>2, <1>3, <2>1, <3>1, <4>1 DEF MainInv, Said, Heard
      <4>2. CASE p # q
        <5>1. visited'[Main] = visited[Main] \cup {q}
          BY <1>1, <1>2, <1>5, StreamNotifier DEF TypeOK
        <5> QED BY <1>1, <1>2, <1>3, <3>1, <4>2, <5>1 DEF MainInv, Said
      <4> QED BY <4>1, <4>2
    <3>2. phase \in {"result", "stop"}
      BY <2>1
    <3> QED BY <1>1, <1>2, <3>1, <3>2 DEF MainInv
  <2>5. StreamsInv'
    <3>1. phase # "starting"
      BY <2>1
    <3> QED BY <1>1, <1>2, <3>1 DEF StreamsInv, Stream
  <2> QED BY <2>3, <2>4, <2>5 DEF HearInv
<1>6. CASE g # Main
  <2>1. g \in Stream /\ phase = "executing" /\ Hear(heard[q], g) = [heard[q] EXCEPT !.hooks = @ + 1]
    BY <1>1, <1>2, <1>6, StreamNotifier DEF NotifierInv, Hear, Send, Alive
  <2>2. HooksInv'
    <3>1. ASSUME NEW p \in Plugin, process[p] = "connected"
          PROVE  heard'[p].hooks = Cardinality(Deliveries(p)')
      <4>1. heard[p].hooks = Cardinality(Deliveries(p))
        BY <1>1, <2>1, <3>1 DEF HooksInv, Alive
      <4>2. CASE p = q
        <5>1. heard'[p].hooks = heard[p].hooks + 1
          BY <1>3, <2>1, <3>1, <4>2 DEF Heard
        <5>2. Cardinality(Deliveries(p)') = Cardinality(Deliveries(p)) + 1
          BY <1>1, <2>1, <3>1, <4>2, HooksCount
        <5> QED BY <4>1, <5>1, <5>2
      <4>3. CASE p # q
        <5>1. Stream' = Stream
          BY <1>2 DEF Stream
        <5>2. \A d \in Stream \X (1..Notifications) :
                (d[2] <= Told(p, d[1]))' <=> d[2] <= Told(p, d[1])
          <6>1. \A d \in Stream \X (1..Notifications) : d[1] \in Stream
            OBVIOUS
          <6> QED BY <1>4, <4>3, <6>1
        <5>3. Deliveries(p)' = Deliveries(p)
          BY <5>1, <5>2 DEF Deliveries
        <5> QED BY <1>3, <4>1, <4>3, <5>3
      <4> QED BY <4>2, <4>3
    <3> QED BY <1>2, <3>1 DEF HooksInv
  <2>3. MainInv'
    BY <1>1, <1>2, <2>1 DEF MainInv
  <2>4. StreamsInv'
    BY <1>1, <1>2, <2>1 DEF StreamsInv, Stream
  <2> QED BY <2>2, <2>3, <2>4 DEF HearInv
<1> QED BY <1>5, <1>6

LEMMA InitHear == Init => HearInv
<1> SUFFICES ASSUME Init PROVE HearInv
  OBVIOUS
<1>1. TypeOK
  BY InitInv DEF Inv
<1>2. StreamsInv /\ MainInv
  BY <1>1, StreamNotifier DEF Init, StreamsInv, MainInv, Main
<1>3. HooksInv
  BY DEF Init, HooksInv
<1> QED BY <1>2, <1>3 DEF HearInv

LEMMA HearStep == Inv /\ HearInv /\ [Next]_vars => HearInv'
BY StartPluginHear, BeginNotifyHear, SendHear, FailToSendHear, LookUpHear, KillPluginHear,
   RaceOnMapHear, EndNotifyHear, ExecutedHear, FinishHear, SeeExitHear, KillTimeoutHear, EndHear,
   PluginStepHear, StutterHear
DEF Next, MainStep, Notify

LEMMA HearSuffices ==
  ASSUME Inv, HearInv
  PROVE  LivePluginsHearAll
<1>1. TypeOK /\ StreamsInv /\ HooksInv /\ MainInv
  BY DEF Inv, HearInv
<1>2. ASSUME phase = "waiting", NEW p \in Plugin, process[p] = "connected"
      PROVE  heard[p].hooks = streams * Notifications
  <2>1. \A g \in Stream : Told(p, g) = Notifications
    BY <1>1, <1>2, StreamNotifier DEF StreamsInv, Told
  <2>2. \A d \in Stream \X (1..Notifications) : d[2] <= Told(p, d[1])
    BY <1>1, <2>1, StreamNotifier
  <2>3. Deliveries(p) = Stream \X (1..Notifications)
    BY <2>2 DEF Deliveries
  <2>4. heard[p].hooks = Cardinality(Deliveries(p))
    BY <1>1, <1>2 DEF HooksInv, Alive
  <2> QED BY <1>1, <2>3, <2>4, FiniteDeliveries
<1> QED BY <1>1, <1>2 DEF LivePluginsHearAll, MainInv

\* A plugin that has kept its connection has heard every hook of every stream once, the result
\* and, unless the execution is parallel, the request to stop, whichever others failed.
THEOREM LivePluginsServed == Spec => []LivePluginsHearAll
<1>1. Init => Inv /\ HearInv
  BY InitInv, InitHear
<1>2. Inv /\ HearInv => LivePluginsHearAll
  BY HearSuffices
<1> QED BY <1>1, <1>2, StepInv, HearStep, PTL DEF Spec
=============================================================================

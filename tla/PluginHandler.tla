---------------------------- MODULE PluginHandler ----------------------------
(***************************************************************************)
(* The plugins of an execution (plugin.go): started one after the other,   *)
(* notified of every hook by the goroutines that execute specifications,   *)
(* told the result by the main goroutine, and stopped.                     *)
(*                                                                         *)
(* In parallel execution all streams share one pluginHandler.  Its map has *)
(* no lock: notifyPlugins iterates over it and killPlugin deletes from it, *)
(* so what two streams do to it interleaves in small steps here.           *)
(***************************************************************************)
EXTENDS Integers, FiniteSets

CONSTANTS
  PluginCount,   \* plugins in the manifest, none of them twice (isPluginAdded)
  MaxStreams,    \* bound on the streams of a parallel execution
  Notifications  \* bound on the hooks a stream announces

ASSUME PluginsAssumption == PluginCount \in Nat \ {0}
ASSUME NotifiersAssumption == MaxStreams \in Nat \ {0} /\ Notifications \in Nat

Plugin == 1..PluginCount
Main == 0                        \* the main goroutine, as a notifier
Notifier == 0..MaxStreams

VARIABLES
  parallel,    \* is this a parallelSpecExecution (it never changes)
  streams,     \* how many goroutines execute specifications (it never changes)
  phase,       \* where the main goroutine is; "crashed" when the process panics
  starting,    \* the plugin startPluginsForExecution is at
  process,     \* per plugin, what has become of its process and connection
  registered,  \* the keys of pluginsMap
  at,          \* per notifier, where it is in notifyPlugins
  visited,     \* per notifier, the keys its iteration has produced
  target,      \* per notifier, the plugin it is sending to
  sent,        \* per notifier, the notifications it has finished
  heard,       \* per plugin, what has been delivered to it
  awaiting     \* gracefullyKillPlugins: the plugins not waited for yet

notifying == <<at, visited, target, sent>>
vars == <<parallel, streams, phase, starting, process, registered, at, visited,
          target, sent, heard, awaiting>>

Stream == 1..streams

\* A connected plugin can hang up, stop reading, exit, or die of a signal;
\* "killed" is Gauge's Process.Kill.
Gone == {"exited", "died", "killed"}
Running == {"connected", "hungUp", "stuck"}

Init ==
  /\ parallel \in BOOLEAN /\ streams \in 1..MaxStreams
  /\ parallel \/ streams = 1
  /\ phase = "starting" /\ starting = 1
  /\ process = [p \in Plugin |-> "none"]
  /\ registered = {}
  /\ at = [g \in Notifier |-> "idle"]
  /\ visited = [g \in Notifier |-> {}]
  /\ target = [g \in Notifier |-> 1]
  /\ sent = [g \in Notifier |-> 0]
  /\ heard = [p \in Plugin |-> [hooks |-> 0, result |-> FALSE, kill |-> FALSE]]
  /\ awaiting = {}

-----------------------------------------------------------------------------
(* Starting.                                                               *)

NextPlugin == IF starting = PluginCount THEN starting ELSE starting + 1

\* A round of startPluginsForExecution: the plugin is left out with a warning or
\* because it does not take part in executions ("none"), is killed because it
\* does not connect in time ("killed"), or is added to the map.
StartPlugin(outcome) ==
  /\ phase = "starting"
  /\ process' = [process EXCEPT ![starting] = outcome]
  /\ registered' = IF outcome = "connected" THEN registered \cup {starting} ELSE registered
  /\ starting' = NextPlugin
  /\ phase' = IF starting = PluginCount THEN "executing" ELSE phase
  /\ UNCHANGED <<parallel, streams, notifying, heard, awaiting>>

-----------------------------------------------------------------------------
(* notifyPlugins and killPlugin, by any of the goroutines.                 *)

\* The main goroutine notifies of the result and, when it executed the
\* specifications itself, of the end; the streams notify of hooks.
MayNotify(g) ==
  \/ g \in Stream /\ phase = "executing" /\ sent[g] < Notifications
  \/ g = Main /\ phase = "result" /\ sent[g] = 0
  \/ g = Main /\ phase = "stop" /\ sent[g] = 1

Alive == phase # "crashed"

BeginNotify(g) ==
  /\ Alive /\ at[g] = "idle" /\ MayNotify(g)
  /\ at' = [at EXCEPT ![g] = "iterating"]
  /\ visited' = [visited EXCEPT ![g] = {}]
  /\ UNCHANGED <<parallel, streams, phase, starting, process, registered, target, sent,
                 heard, awaiting>>

Hear(h, g) ==
  CASE g # Main -> [h EXCEPT !.hooks = @ + 1]
    [] g = Main /\ sent[g] = 0 -> [h EXCEPT !.result = TRUE]
    [] g = Main /\ sent[g] = 1 -> [h EXCEPT !.kill = TRUE]

\* sendMessage, when the write succeeds.  It blocks while the plugin does not
\* read, and the kernel may still take it when the plugin is gone.
Send(g, p) ==
  /\ Alive /\ at[g] = "iterating" /\ p \in registered \ visited[g]
  /\ process[p] # "stuck"
  /\ visited' = [visited EXCEPT ![g] = @ \cup {p}]
  /\ heard' = IF process[p] = "connected" THEN [heard EXCEPT ![p] = Hear(@, g)] ELSE heard
  /\ UNCHANGED <<parallel, streams, phase, starting, process, registered, at, target, sent,
                 awaiting>>

\* sendMessage, when the write fails.
FailToSend(g, p) ==
  /\ Alive /\ at[g] = "iterating" /\ p \in registered \ visited[g]
  /\ process[p] \notin {"connected", "stuck"}
  /\ visited' = [visited EXCEPT ![g] = @ \cup {p}]
  /\ target' = [target EXCEPT ![g] = p]
  /\ at' = [at EXCEPT ![g] = "failed"]
  /\ UNCHANGED <<parallel, streams, phase, starting, process, registered, sent, heard,
                 awaiting>>

\* A slip: killPlugin takes the plugin out of the map before it looks it up.
LookUpAfterRemoval(g) ==
  /\ Alive /\ at[g] = "failed"
  /\ phase' = "crashed"
  /\ registered' = registered \ {target[g]}
  /\ UNCHANGED <<parallel, streams, starting, process, at, visited, target, sent,
                 heard, awaiting>>

\* killPlugin looks the plugin up again; the descriptor of a nil plugin panics.
LookUp(g) ==
  /\ Alive /\ at[g] = "failed"
  /\ IF target[g] \in registered
     THEN at' = [at EXCEPT ![g] = "removing"] /\ UNCHANGED phase
     ELSE phase' = "crashed" /\ UNCHANGED at
  /\ UNCHANGED <<parallel, streams, starting, process, registered, visited, target, sent,
                 heard, awaiting>>

Kill(p) == process' = [process EXCEPT ![p] = IF @ \in Gone THEN @ ELSE "killed"]

\* A slip: the plugin is forgotten and its process is not killed.
RemoveWithoutKill(g) ==
  /\ registered' = registered \ {target[g]}
  /\ UNCHANGED process

\* Process.Kill and removePlugin.
Remove(g) ==
  /\ Kill(target[g])
  /\ registered' = registered \ {target[g]}

\* A slip: the notification ends with the plugin that failed.
AfterFailureStop == "leaving"

AfterFailure == "iterating"

KillPlugin(g) ==
  /\ Alive /\ at[g] = "removing"
  /\ Remove(g)
  /\ at' = [at EXCEPT ![g] = AfterFailure]
  /\ UNCHANGED <<parallel, streams, phase, starting, visited, target, sent, heard, awaiting>>

\* A delete while another goroutine is inside notifyPlugins is a data race on
\* the map; Go's runtime may end the process when it notices.
RaceOnMap(g) ==
  /\ Alive /\ at[g] = "removing"
  /\ \E h \in Notifier \ {g} : at[h] # "idle"
  /\ phase' = "crashed"
  /\ UNCHANGED <<parallel, streams, starting, process, registered, notifying, heard, awaiting>>

EndNotify(g) ==
  /\ Alive /\ at[g] \in {"iterating", "leaving"}
  /\ at[g] = "iterating" => registered \subseteq visited[g]
  /\ at' = [at EXCEPT ![g] = "idle"]
  /\ sent' = [sent EXCEPT ![g] = @ + 1]
  /\ UNCHANGED <<parallel, streams, phase, starting, process, registered, visited, target,
                 heard, awaiting>>

Notify(g) ==
  \/ BeginNotify(g) \/ LookUp(g) \/ KillPlugin(g) \/ RaceOnMap(g) \/ EndNotify(g)
  \/ \E p \in Plugin : Send(g, p) \/ FailToSend(g, p)

-----------------------------------------------------------------------------
(* finish(), in the main goroutine.                                        *)

\* The specifications are executed: every stream's result has been received.
AllExecuted == \A i \in Stream : sent[i] = Notifications /\ at[i] = "idle"

Executed ==
  /\ phase = "executing" /\ AllExecuted
  /\ phase' = "result"
  /\ UNCHANGED <<parallel, streams, starting, process, registered, notifying, heard, awaiting>>

\* parallelSpecExecution.finish goes on to the wait without notifyExecutionStop.
AfterResult == IF parallel THEN "waiting" ELSE "stop"

\* The notification is out: the next one, or the wait of gracefullyKillPlugins.
Finish ==
  /\ at[Main] = "idle"
  /\ \/ phase = "result" /\ sent[Main] = 1 /\ phase' = AfterResult
     \/ phase = "stop" /\ sent[Main] = 2 /\ phase' = "waiting"
  /\ awaiting' = registered
  /\ UNCHANGED <<parallel, streams, starting, process, registered, notifying, heard>>

\* plugin.kill sees that the process has exited.  ProcessState.Exited is false
\* for one that a signal has ended: that one counts as running.
SeeExit(p) ==
  /\ phase = "waiting" /\ p \in awaiting /\ process[p] = "exited"
  /\ awaiting' = awaiting \ {p}
  /\ UNCHANGED <<parallel, streams, phase, starting, process, registered, notifying, heard>>

\* A slip: there is no timeout.
ForceExitNever(p) == FALSE

ForceExit(p) == Kill(p)

\* plugin.kill runs into PluginConnectionTimeout.
KillTimeout(p) ==
  /\ phase = "waiting" /\ p \in awaiting
  /\ ForceExit(p)
  /\ awaiting' = awaiting \ {p}
  /\ UNCHANGED <<parallel, streams, phase, starting, registered, notifying, heard>>

\* wg.Wait returns; the process prints the result and exits.
End ==
  /\ phase = "waiting" /\ awaiting = {}
  /\ phase' = "ended"
  /\ UNCHANGED <<parallel, streams, starting, process, registered, notifying, heard, awaiting>>

MainStep ==
  \/ \E outcome \in {"none", "killed", "connected"} : StartPlugin(outcome)
  \/ Executed \/ Finish \/ End

-----------------------------------------------------------------------------
\* The plugin's own doing.
Change(p, from, to) ==
  /\ phase # "ended" /\ Alive
  /\ process[p] \in from
  /\ process' = [process EXCEPT ![p] = to]
  /\ UNCHANGED <<parallel, streams, phase, starting, registered, notifying, heard, awaiting>>

PluginStep(p) ==
  \/ Change(p, {"connected"}, "hungUp") \/ Change(p, {"connected"}, "stuck")
  \/ Change(p, Running, "exited") \/ Change(p, Running, "died")

Next ==
  \/ MainStep
  \/ \E g \in Notifier : Notify(g)
  \/ \E p \in Plugin : SeeExit(p) \/ KillTimeout(p) \/ PluginStep(p)

Spec == Init /\ [][Next]_vars

\* Goroutines are scheduled, the hooks come because the runner answers, and
\* the timer of plugin.kill fires.  Of plugins nothing is assumed.
FairSpec ==
  /\ Spec
  /\ WF_vars(MainStep)
  /\ \A g \in Notifier : WF_vars(Notify(g))
  /\ \A p \in Plugin : WF_vars(SeeExit(p) \/ KillTimeout(p))
-----------------------------------------------------------------------------
(* Properties.                                                             *)

Heard == [hooks : Nat, result : BOOLEAN, kill : BOOLEAN]

\* The types of the state.
TypeOK ==
  /\ parallel \in BOOLEAN /\ streams \in 1..MaxStreams
  /\ phase \in {"starting", "executing", "result", "stop", "waiting", "ended", "crashed"}
  /\ starting \in Plugin
  /\ process \in [Plugin -> {"none"} \cup Running \cup Gone]
  /\ registered \in SUBSET Plugin /\ awaiting \in SUBSET Plugin
  /\ at \in [Notifier -> {"idle", "iterating", "failed", "removing", "leaving"}]
  /\ visited \in [Notifier -> SUBSET Plugin]
  /\ target \in [Notifier -> Plugin]
  /\ sent \in [Notifier -> Nat]
  /\ heard \in [Plugin -> Heard]

\* An execution that comes to its end leaves no plugin process running: each
\* has exited, or died, or Gauge has killed it, those included that failed
\* while they were started or notified (killPlugin, gracefullyKillPlugins).
NoPluginLeft == phase = "ended" => \A p \in Plugin : process[p] \notin Running

\* Plugins that fail do not cost the others a message: one that has kept its
\* connection has heard every hook of every stream once, and the result, and,
\* unless the execution is parallel, the request to stop (notifyPlugins).
LivePluginsHearAll ==
  \A p \in Plugin :
    phase = "waiting" /\ process[p] = "connected" =>
      /\ heard[p].hooks = streams * Notifications
      /\ heard[p].result
      /\ heard[p].kill <=> ~parallel

\* No plugin hears of a hook after the result, or of the result after the
\* request to stop, whatever the streams' speed.
ResultComesLast ==
  [][\A p \in Plugin :
       /\ heard[p].result => heard'[p].hooks = heard[p].hooks
       /\ heard[p].kill => heard'[p].result = heard[p].result]_vars

\* However plugins fail, a goroutine that is alone with the map never takes the
\* process down with it: the panic in killPlugin needs a second stream.
OneStreamNeverCrashes == phase = "crashed" => streams > 1

\* The execution comes to its end, whatever the plugins do except one thing:
\* a plugin that neither reads nor ends stops Gauge too (writes have no timeout).
Terminates ==
  (\A p \in Plugin : []<>(process[p] # "stuck")) => <>(phase \in {"ended", "crashed"})
=============================================================================

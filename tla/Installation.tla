------------------------------ MODULE Installation ------------------------------
(***************************************************************************)
(* Plugins: install.go, version/version.go, manifest.go, and from plugin.go *)
(* and gauge.go what adds one to a project and what makes a project.  A    *)
(* behaviour is a number of calls of the program, each with one of the     *)
(* flags --install, --update, --install -f, --install-all, --add-plugin    *)
(* and --init.                                                             *)
(*                                                                         *)
(* A version is a sequence of numbers; one that does not have three cannot *)
(* be parsed, <<>> is none.  The directory of a version may be without     *)
(* plugin.json ("bare"), or without other files ("partial").               *)
(***************************************************************************)
EXTENDS Integers, SequencesExt

CONSTANTS
  Repository,      \* for every plugin the versions that may be had, with what they support
  DefaultPlugins,
  CurrentVersion,  \* of Gauge
  Calls,           \* flags that are given
  MaxCalls

VARIABLES
  given,     \* the flags of this call
  calls,     \* how many are left
  at,        \* where it is: "start", "description", "version", "files", "next", "zip",
             \* "descriptor", "project"; "crashed"
  target,    \* the plugin that is installed
  chosen,    \* its version
  toInstall, \* plugins --install-all has not come to
  outcome,   \* "none", "success", "already" (a warning), "failure"
  dirs,      \* the directory of every plugin and version
  cut,       \* versions whose files were not all copied (history)
  project,   \* the manifest, if there is one
  setUp      \* plugins whose setup succeeded in the project (history)

installationVars ==
  <<given, calls, at, target, chosen, toInstall, outcome, dirs, cut, project, setUp>>

Plugin == DOMAIN Repository
Versions(p) == {Repository[p][i].version : i \in DOMAIN Repository[p]}
Supports(p, v) == CHOOSE d \in Range(Repository[p]) : d.version = v

-----------------------------------------------------------------------------
(* version.go and checkCompatibility.                                      *)

VersionParses(v) == Len(v) = 3

\* A version is of three numbers where there is no other to sort it with and where it is
\* asked for; the repository has a version once, and has what is installed from a file.
ASSUME InstallationAssumption ==
  /\ CurrentVersion \in Seq(Int) /\ VersionParses(CurrentVersion)
  /\ \A p \in Plugin :
       /\ Repository[p] \in Seq([version : Seq(Int), minimum : Seq(Int), maximum : Seq(Int)])
       /\ Len(Repository[p]) = 1 => VersionParses(Repository[p][1].version)
       /\ \A i, j \in DOMAIN Repository[p] :
            Repository[p][i].version = Repository[p][j].version => i = j
  /\ \A g \in Calls :
       /\ g \in [flag : {"install", "update", "file", "init", "install-all", "add"},
                 plugin : Plugin, version : Seq(Int)]
       /\ g.version # <<>> => VersionParses(g.version)
       /\ g.flag = "file" => g.version # <<>> /\ g.version \in Versions(g.plugin)
  /\ DefaultPlugins \in Seq(Plugin)
  /\ \A i, j \in DOMAIN DefaultPlugins : DefaultPlugins[i] = DefaultPlugins[j] => i = j

\* A slip: the last number that differs decides.
IsGreaterFromLast(v, w) == \E i \in 1..3 : v[i] > w[i] /\ \A j \in (i + 1)..3 : v[j] = w[j]

\* CompareVersions with GreaterThanFunc: the first number that differs decides.
IsGreaterThan(v, w) == \E i \in 1..3 : v[i] > w[i] /\ \A j \in 1..(i - 1) : v[j] = w[j]

IsLesserThanEqualTo(v, w) == IsGreaterThan(w, v) \/ v = w
IsBetween(v, low, high) == (IsGreaterThan(v, low) \/ v = low) /\ IsLesserThanEqualTo(v, high)

checkCompatibility(d) ==
  /\ VersionParses(d.minimum)
  /\ IF d.maximum = <<>> THEN IsLesserThanEqualTo(d.minimum, CurrentVersion)
     ELSE VersionParses(d.maximum) /\ IsBetween(CurrentVersion, d.minimum, d.maximum)

-----------------------------------------------------------------------------
(* What is installed.                                                      *)

IsInstalled(p, v) == dirs[p][v] # "none"

\* common.GetPluginInstallDir and GetLanguageJSONFilePath: the newest one's.
NewestDir(p) ==
  CHOOSE v \in Versions(p) :
    IsInstalled(p, v) /\ \A w \in Versions(p) : IsInstalled(p, w) => ~IsGreaterThan(w, v)

HasDescriptor(p, v) == dirs[p][v] \in {"partial", "complete"}

\* getPluginDescriptor looks for the version, and reads the descriptor of the newest.
GetPluginDescriptor(p, v) ==
  /\ \E w \in Versions(p) : IsInstalled(p, w)
  /\ v # <<>> => v \in Versions(p) /\ HasDescriptor(p, v)
  /\ HasDescriptor(p, NewestDir(p))

isCompatiblePluginInstalled(p) ==
  GetPluginDescriptor(p, <<>>) /\ checkCompatibility(Supports(p, NewestDir(p)))

-----------------------------------------------------------------------------
InstallationInit ==
  /\ given = [flag |-> "none", plugin |-> "", version |-> <<>>]
  /\ calls = MaxCalls
  /\ at = "start" /\ target = "" /\ chosen = <<>> /\ toInstall = {} /\ outcome = "none"
  /\ dirs = [p \in Plugin |-> [v \in Versions(p) |-> "none"]] /\ cut = {}
  /\ project = <<>> /\ setUp = {}

Manifest == project[1]

EndCall(result) == at' = "start" /\ outcome' = result

StartInstall(p) == at' = "description" /\ target' = p /\ outcome' = "none"

\* isPluginInstalled: without a version, any directory of the plugin.
MustInstall(p, v) ==
  IF v = <<>> THEN \A w \in Versions(p) : ~IsInstalled(p, w)
  ELSE v \notin Versions(p) \/ ~HasDescriptor(p, v)

Call(g) ==
  /\ at = "start" /\ calls > 0
  /\ calls' = calls - 1 /\ given' = g /\ chosen' = <<>>
  /\ \/ g.flag \in {"install", "update"} /\ StartInstall(g.plugin) /\ UNCHANGED toInstall
     \/ g.flag = "file" /\ at' = "zip" /\ outcome' = "none" /\ UNCHANGED <<target, toInstall>>
     \/ /\ g.flag = "init" /\ UNCHANGED toInstall
        /\ IF isCompatiblePluginInstalled(g.plugin)
           THEN at' = "project" /\ outcome' = "none" /\ UNCHANGED target
           ELSE StartInstall(g.plugin)
     \/ /\ g.flag \in {"install-all", "add"} /\ project = <<>>
        /\ EndCall("failure") /\ UNCHANGED <<target, toInstall>>
     \/ /\ g.flag = "install-all" /\ project # <<>>
        /\ toInstall' = {Manifest.language} \cup Range(Manifest.plugins)
        /\ at' = "next" /\ outcome' = "none" /\ UNCHANGED target
     \/ /\ g.flag = "add" /\ project # <<>> /\ UNCHANGED toInstall
        /\ IF MustInstall(g.plugin, g.version) THEN StartInstall(g.plugin)
           ELSE at' = "descriptor" /\ outcome' = "none" /\ UNCHANGED target
  /\ UNCHANGED <<dirs, cut, project, setUp>>

-----------------------------------------------------------------------------
(* installPlugin.                                                          *)

\* --init ends with a failure, --add-plugin goes on, --install-all goes to the next plugin.
Installed(result) ==
  CASE given.flag \in {"install", "update"} -> EndCall(result)
    [] given.flag = "init" ->
         IF result = "failure" THEN EndCall(result) ELSE at' = "project" /\ UNCHANGED outcome
    [] given.flag = "add" -> at' = "descriptor" /\ UNCHANGED outcome
    [] given.flag = "install-all" -> at' = "next" /\ UNCHANGED outcome

\* getInstallDescription
GetInstallDescription ==
  /\ at = "description"
  /\ \/ at' = "version" /\ UNCHANGED outcome
     \/ Installed("failure")
  /\ UNCHANGED <<given, calls, target, chosen, toInstall, dirs, cut, project, setUp>>

\* --plugin-version and --plugin-args are for one of these.
WantedVersion == IF given.flag \in {"install", "add"} THEN given.version ELSE <<>>

\* Less of ByDecreasingVersion takes it that versions can be parsed.
SortPanics(offered) == \E i, j \in DOMAIN offered : i # j /\ ~VersionParses(offered[i].version)

\* getVersion, or all of them, that this Gauge can do with
Compatible(offered) ==
  {d \in Range(offered) : checkCompatibility(d) /\ WantedVersion \in {<<>>, d.version}}

\* What the first of a sorted list is.
IsLatest(latest, good) == \A d \in good \ {latest} : ~IsGreaterThan(d.version, latest.version)

InstallPluginWithDescription ==
  /\ at = "version"
  /\ LET offered == Repository[target]
         good == Compatible(offered)
     IN  \/ /\ WantedVersion = <<>> /\ SortPanics(offered)
            /\ at' = "crashed" /\ UNCHANGED <<chosen, outcome>>
         \/ /\ WantedVersion = <<>> => ~SortPanics(offered)
            /\ \/ good = {} /\ Installed("failure") /\ UNCHANGED chosen
               \/ \E d \in good :
                    IsLatest(d, good) /\ at' = "files" /\ chosen' = d.version /\ UNCHANGED outcome
  /\ UNCHANGED <<given, calls, target, toInstall, dirs, cut, project, setUp>>

\* common.MirrorDir, which may end anywhere
CopyFails(p, v) ==
  /\ \E left \in {"none", "bare", "partial"} : dirs' = [dirs EXCEPT ![p][v] = left]
  /\ cut' = cut \cup {<<p, v>>}

\* installPluginVersion: the archive is downloaded and unpacked, its command run, its files
\* copied.  That they cannot be copied is not returned.
InstallPluginVersion ==
  /\ at = "files"
  /\ \/ IsInstalled(target, chosen) /\ Installed("already") /\ UNCHANGED <<dirs, cut>>
     \/ /\ ~IsInstalled(target, chosen)
        /\ \/ Installed("failure") /\ UNCHANGED <<dirs, cut>>
           \/ CopyFails(target, chosen) /\ Installed("success")
           \/ /\ dirs' = [dirs EXCEPT ![target][chosen] = "complete"] /\ UNCHANGED cut
              /\ Installed("success")
  /\ UNCHANGED <<given, calls, target, chosen, toInstall, project, setUp>>

\* installPluginFromZip, of any version; no error makes the exit code another.
InstallPluginFromZip ==
  /\ at = "zip"
  /\ \/ EndCall("failure") /\ UNCHANGED <<dirs, cut>>
     \/ /\ ~IsInstalled(given.plugin, given.version)
        /\ CopyFails(given.plugin, given.version) /\ EndCall("failure")
     \/ /\ ~IsInstalled(given.plugin, given.version)
        /\ dirs' = [dirs EXCEPT ![given.plugin][given.version] = "complete"]
        /\ EndCall("success") /\ UNCHANGED cut
  /\ UNCHANGED <<given, calls, target, chosen, toInstall, project, setUp>>

\* installPluginsFromManifest, in the order of a map
NextOfManifest ==
  /\ at = "next"
  /\ \/ /\ toInstall = {} /\ EndCall("success") /\ UNCHANGED <<target, toInstall>>
     \/ \E p \in toInstall :
          /\ toInstall' = toInstall \ {p}
          /\ IF isCompatiblePluginInstalled(p) THEN UNCHANGED <<at, target, outcome>>
             ELSE StartInstall(p)
  /\ UNCHANGED <<given, calls, chosen, dirs, cut, project, setUp>>

-----------------------------------------------------------------------------
(* Projects.                                                               *)

\* A slip: the manifest has it before the setup.
PluginsWithSetup(p, succeeds) == Append(Manifest.plugins, p)

\* startPlugin waits for the setup.
PluginsAfterSetup(p, succeeds) ==
  IF succeeds THEN Append(Manifest.plugins, p) ELSE Manifest.plugins

\* addPluginToTheProject, after the installation, whatever came of it.
AddPlugin ==
  LET p == given.plugin
  IN  /\ at = "descriptor"
      /\ \/ /\ ~GetPluginDescriptor(p, given.version)
            /\ EndCall("failure") /\ UNCHANGED <<project, setUp>>
         \/ /\ GetPluginDescriptor(p, given.version) /\ p \in Range(Manifest.plugins)
            /\ EndCall("success") /\ UNCHANGED <<project, setUp>>
         \/ /\ GetPluginDescriptor(p, given.version) /\ p \notin Range(Manifest.plugins)
            /\ \E succeeds, saved \in BOOLEAN :
                 /\ setUp' = IF succeeds THEN setUp \cup {p} ELSE setUp
                 /\ project' = IF ~saved THEN project
                               ELSE <<[Manifest EXCEPT !.plugins = PluginsAfterSetup(p, succeeds)]>>
                 /\ EndCall(IF succeeds /\ saved THEN "success" ELSE "failure")
      /\ UNCHANGED <<given, calls, target, chosen, toInstall, dirs, cut>>

\* createProjectTemplate: a manifest that is there is said to be skipped, and written.
\* Files that cannot be copied are no error, but for missing skeletons; the runner makes
\* the rest of the project.
CreateProject ==
  LET new == [language |-> given.plugin, plugins |-> DefaultPlugins]
      canStart == GetPluginDescriptor(given.plugin, <<>>)
  IN  /\ at = "project"
      /\ \E saved, made \in BOOLEAN :
           /\ made => saved /\ canStart
           /\ project' = IF saved THEN <<new>> ELSE project
           /\ EndCall(IF made THEN "success" ELSE "failure")
      /\ UNCHANGED <<given, calls, target, chosen, toInstall, dirs, cut, setUp>>

InstallationNext ==
  \/ \E g \in Calls : Call(g)
  \/ GetInstallDescription \/ InstallPluginWithDescription \/ InstallPluginVersion
  \/ InstallPluginFromZip \/ NextOfManifest
  \/ AddPlugin \/ CreateProject

InstallationSpec == InstallationInit /\ [][InstallationNext]_installationVars
-----------------------------------------------------------------------------
(* Properties.                                                             *)

Newer(v, w) == \E i \in 1..3 : v[i] > w[i] /\ \A j \in 1..(i - 1) : v[j] = w[j]

Supported(p, v) ==
  LET d == Supports(p, v)
  IN  /\ VersionParses(d.minimum) /\ ~Newer(d.minimum, CurrentVersion)
      /\ d.maximum # <<>> => VersionParses(d.maximum) /\ ~Newer(CurrentVersion, d.maximum)

NewestSupported(p) ==
  {v \in Versions(p) : Supported(p, v) /\ \A w \in Versions(p) : Newer(w, v) => ~Supported(p, w)}

Done(flags) == at = "start" /\ given.flag \in flags /\ outcome \in {"success", "already"}

\* An installation that is said to have succeeded has put in the version asked for, or the
\* newest that this Gauge can do with, and all of it, unless its files could not be copied,
\* now or before.  A project that was made can start its runner, unless a version that Gauge
\* cannot do with was put in from a file, which nobody asked.
InstallationsWork ==
  /\ Done({"install", "update"}) =>
       /\ chosen \in IF WantedVersion = <<>> THEN NewestSupported(target)
                     ELSE {v \in Versions(target) : v = WantedVersion /\ Supported(target, v)}
       /\ dirs[target][chosen] = "complete" \/ <<target, chosen>> \in cut
  /\ Done({"init"}) =>
       LET p == Manifest.language
       IN  \/ Supported(p, NewestDir(p))
           \/ \E v \in Versions(p) : IsInstalled(p, v) /\ ~Supported(p, v)

\* A manifest names a plugin once, and, but for those every project begins with, one whose
\* setup has succeeded in this directory, of whichever version it was, and that --add-plugin
\* has found installed.
ManifestKept ==
  project # <<>> =>
    /\ \A i, j \in DOMAIN Manifest.plugins : Manifest.plugins[i] = Manifest.plugins[j] => i = j
    /\ \A p \in Range(Manifest.plugins) \ Range(DefaultPlugins) :
         p \in setUp /\ \E v \in Versions(p) : HasDescriptor(p, v)
=============================================================================

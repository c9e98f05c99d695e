---------------------------- MODULE ServerBuild ----------------------------
(***************************************************************************)
(* Building one game server's filesystem: server.Start mounts an overlay   *)
(* over base/, installs the resolved plugins into it one after another     *)
(* (plugin.Apply: fetch, ignore, layout, templates), writes the config     *)
(* files, and creates the container; Instance.Stop unmounts the overlay    *)
(* and deletes the instance directory.  Every server has its own worker,   *)
(* so builds interleave; a local plugin source is one directory that all   *)
(* of them share.                                                          *)
(*                                                                         *)
(* A path of game/csgo is a member of Files.  What a path holds is who     *)
(* wrote it last: a plugin's file, a plugin's template, a config, or the   *)
(* game itself once it runs.  base/ is not written here, so only the upper *)
(* directory, where every write lands, is a variable.                      *)
(***************************************************************************)
EXTENDS Naturals, Sequences, FiniteSets, FiniteSetsExt, Functions

CONSTANTS
  Servers,
  Plugins,      \* catalog keys of the manifests
  Configs,      \* catalog keys of the config files
  Files,        \* paths, in a source tree as in game/csgo
  Dirs,         \* directories of the host that local sources name
  NoDir,        \* the source of a manifest that downloads an archive
  DirOf,        \* [Plugins -> Dirs \cup {NoDir}]: source.path
  Published,    \* the files of each archive and of each directory, to begin with
  Ignore,       \* [Plugins -> SUBSET Files]: what the ignore globs match
  Layout,       \* [Plugins -> Seq of rules]: a rule maps source paths to targets
  Template,     \* [Plugins -> SUBSET Files]: the paths of the templates
  Filename,     \* [Configs -> Files]
  Plans,        \* what a start may be given: plugins in install order, configs
  MaxLosses,    \* how often the orchestrator may die or an unmount fail
  MaxRuns       \* how often one server may be built

ASSUME LayoutAssumption ==
  /\ DirOf \in [Plugins -> Dirs \cup {NoDir}]
  /\ NoDir \notin Dirs
  /\ \A p \in Plugins : Layout[p] \in Seq(UNION {[D -> Files] : D \in SUBSET Files})
  /\ \A p \in Plugins : \A r \in 1..Len(Layout[p]) : IsInjective(Layout[p][r])
ASSUME CatalogAssumption ==
  /\ \A d \in Dirs : Published[d] \subseteq Files
  /\ \A p \in Plugins : DirOf[p] \notin Dirs => Published[p] \subseteq Files
  /\ \A p \in Plugins : Template[p] \subseteq Files
  /\ \A c \in Configs : Filename[c] \in Files
  /\ \A pl \in Plans : pl.plugins \in Seq(Plugins) /\ pl.configs \in Seq(Configs)

VARIABLES
  pc,       \* where each server's start is
  plan,     \* the names bringUp resolved for this start
  at,       \* the plugin, then the config, being installed
  rule,     \* the layout rule being copied
  temp,     \* the extracted archive of the plugin being installed
  dir,      \* the files of each local directory
  upper,    \* the upper directory: path -> what it holds
  stale,    \* paths that were in the upper directory when it was mounted
  losses,
  runs

buildVars == <<pc, plan, at, rule, temp, dir, upper, stale, losses, runs>>

-----------------------------------------------------------------------------
Building == {"plugins", "fetched", "ignored", "laid", "configs", "created"}
NoPlan == [plugins |-> <<>>, configs |-> <<>>]
Empty == [f \in {} |-> f]

Source(p) == IF DirOf[p] \in Dirs THEN DirOf[p] ELSE p

Contents == {<<"file", p, f>> : p \in Plugins, f \in Files}
              \cup {<<"template", p>> : p \in Plugins}
              \cup {<<"config", c>> : c \in Configs} \cup {<<"game">>}

\* A write replaces what the path held (O_TRUNC, or rename over it).
Write(old, new) == [f \in DOMAIN old \cup DOMAIN new |->
                      IF f \in DOMAIN new THEN new[f] ELSE old[f]]

Init ==
  /\ pc = [s \in Servers |-> "down"]
  /\ plan = [s \in Servers |-> NoPlan]
  /\ at = [s \in Servers |-> 1]
  /\ rule = [s \in Servers |-> 1]
  /\ temp = [s \in Servers |-> {}]
  /\ dir = [d \in Dirs |-> Published[d]]
  /\ upper = [s \in Servers |-> Empty]
  /\ stale = [s \in Servers |-> {}]
  /\ losses = 0
  /\ runs = [s \in Servers |-> 0]

-----------------------------------------------------------------------------
(* The overlay. *)

\* mount creates the directories it misses and keeps the ones it finds, with
\* whatever they hold.
Mount(s) ==
  /\ pc[s] = "down" /\ runs[s] < MaxRuns
  /\ \E pl \in Plans : plan' = [plan EXCEPT ![s] = pl]
  /\ pc' = [pc EXCEPT ![s] = "plugins"]
  /\ at' = [at EXCEPT ![s] = 1]
  /\ stale' = [stale EXCEPT ![s] = DOMAIN upper[s]]
  /\ runs' = [runs EXCEPT ![s] = @ + 1]
  /\ UNCHANGED <<rule, temp, dir, upper, losses>>

\* mount fails: at a directory, at its owner or at the mount itself.  Start returns, and
\* the directories that were made, and what they held, stay.
MountFails(s) ==
  /\ pc[s] = "down" /\ runs[s] < MaxRuns
  /\ runs' = [runs EXCEPT ![s] = @ + 1]
  /\ UNCHANGED <<pc, plan, at, rule, temp, dir, upper, stale, losses>>

\* unmount when the merged directory is busy: the instance directory stays.  (A later
\* start mounts over it, and RemoveAll of that run's unmount empties the upper directory
\* although the first mount is still there.)
UnmountedKeepsUpper(s) ==
  /\ pc' = [pc EXCEPT ![s] = "down"]
  /\ plan' = [plan EXCEPT ![s] = NoPlan]
  /\ stale' = [stale EXCEPT ![s] = {}]
  /\ temp' = [temp EXCEPT ![s] = {}]
  /\ UNCHANGED upper

\* unmount: the merged directory is unmounted and the instance directory, the
\* upper directory with it, removed.
Unmounted(s) ==
  /\ pc' = [pc EXCEPT ![s] = "down"]
  /\ plan' = [plan EXCEPT ![s] = NoPlan]
  /\ upper' = [upper EXCEPT ![s] = Empty]
  /\ stale' = [stale EXCEPT ![s] = {}]
  /\ temp' = [temp EXCEPT ![s] = {}]

-----------------------------------------------------------------------------
(* plugin.Apply. *)

Current(s) == plan[s].plugins[at[s]]

\* The root of the source: the host directory itself for a local source, a
\* private copy of the archive for any other.
Root(s) == IF DirOf[Current(s)] \in Dirs THEN dir[DirOf[Current(s)]] ELSE temp[s]

FetchSource(s) ==
  /\ pc[s] = "plugins" /\ at[s] <= Len(plan[s].plugins)
  /\ temp' = [temp EXCEPT ![s] = IF DirOf[Current(s)] \in Dirs THEN {}
                                 ELSE Published[Current(s)]]
  /\ pc' = [pc EXCEPT ![s] = "fetched"]
  /\ UNCHANGED <<plan, at, rule, dir, upper, stale, losses, runs>>

\* Mutant: nothing is dropped.
ApplyIgnoreNot(s) ==
  /\ pc[s] = "fetched"
  /\ rule' = [rule EXCEPT ![s] = 1]
  /\ pc' = [pc EXCEPT ![s] = "ignored"]
  /\ UNCHANGED <<plan, at, temp, dir, upper, stale, losses, runs>>

\* The ignored entries are deleted under the root, wherever that is.
ApplyIgnore(s) ==
  /\ pc[s] = "fetched"
  /\ LET p == Current(s) IN
       IF DirOf[p] \in Dirs
         THEN /\ dir' = [dir EXCEPT ![DirOf[p]] = @ \ Ignore[p]]
              /\ UNCHANGED temp
         ELSE /\ temp' = [temp EXCEPT ![s] = @ \ Ignore[p]]
              /\ UNCHANGED dir
  /\ rule' = [rule EXCEPT ![s] = 1]
  /\ pc' = [pc EXCEPT ![s] = "ignored"]
  /\ UNCHANGED <<plan, at, upper, stale, losses, runs>>

\* No rules at all means one: everything, where it is.
Rules(p) == IF Layout[p] = <<>> THEN << [f \in Files |-> f] >> ELSE Layout[p]

\* What rule r of p copies from a root: target path -> content.
Copied(p, r, root) ==
  LET m == Rules(p)[r]
  IN [t \in {m[f] : f \in root \cap DOMAIN m} |->
        <<"file", p, CHOOSE f \in root \cap DOMAIN m : m[f] = t>>]

\* CopyTree of one rule.  A rule whose directory is not there at all is an
\* error (StartFails); one whose directory is there and empty copies nothing.
LayRule(s) ==
  /\ pc[s] = "ignored"
  /\ upper' = [upper EXCEPT ![s] = Write(@, Copied(Current(s), rule[s], Root(s)))]
  /\ IF rule[s] < Len(Rules(Current(s)))
       THEN /\ rule' = [rule EXCEPT ![s] = @ + 1]
            /\ UNCHANGED pc
       ELSE /\ pc' = [pc EXCEPT ![s] = "laid"]
            /\ UNCHANGED rule
  /\ UNCHANGED <<plan, at, temp, dir, stale, losses, runs>>

\* Mutant: templates yield to the archive's files.
TemplatesYield(s) ==
  /\ pc[s] = "laid"
  /\ upper' = [upper EXCEPT ![s] =
                 Write([f \in Template[Current(s)] |-> <<"template", Current(s)>>], @)]
  /\ temp' = [temp EXCEPT ![s] = {}]
  /\ at' = [at EXCEPT ![s] = @ + 1]
  /\ pc' = [pc EXCEPT ![s] = "plugins"]
  /\ UNCHANGED <<plan, rule, dir, stale, losses, runs>>

\* The templates come after the layout, so that a template replaces the file
\* of the archive; then the temporary directory is removed.
Templates(s) ==
  /\ pc[s] = "laid"
  /\ upper' = [upper EXCEPT ![s] =
                 Write(@, [f \in Template[Current(s)] |-> <<"template", Current(s)>>])]
  /\ temp' = [temp EXCEPT ![s] = {}]
  /\ at' = [at EXCEPT ![s] = @ + 1]
  /\ pc' = [pc EXCEPT ![s] = "plugins"]
  /\ UNCHANGED <<plan, rule, dir, stale, losses, runs>>

-----------------------------------------------------------------------------
(* Config files, the container, and the end. *)

PluginsDone(s) ==
  /\ pc[s] = "plugins" /\ at[s] > Len(plan[s].plugins)
  /\ at' = [at EXCEPT ![s] = 1]
  /\ pc' = [pc EXCEPT ![s] = "configs"]
  /\ UNCHANGED <<plan, rule, temp, dir, upper, stale, losses, runs>>

WriteConfig(s) ==
  /\ pc[s] = "configs" /\ at[s] <= Len(plan[s].configs)
  /\ LET c == plan[s].configs[at[s]] IN
       upper' = [upper EXCEPT ![s] = Write(@, [f \in {Filename[c]} |-> <<"config", c>>])]
  /\ at' = [at EXCEPT ![s] = @ + 1]
  /\ UNCHANGED <<pc, plan, rule, temp, dir, stale, losses, runs>>

CreateContainer(s) ==
  /\ pc[s] = "configs" /\ at[s] > Len(plan[s].configs)
  /\ pc' = [pc EXCEPT ![s] = "created"]
  /\ UNCHANGED <<plan, at, rule, temp, dir, upper, stale, losses, runs>>

StartContainer(s) ==
  /\ pc[s] = "created"
  /\ pc' = [pc EXCEPT ![s] = "up"]
  /\ UNCHANGED <<plan, at, rule, temp, dir, upper, stale, losses, runs>>

\* Any step of a start may fail, and every failure after the mount unmounts.
StartFails(s) ==
  /\ pc[s] \in Building
  /\ Unmounted(s)
  /\ UNCHANGED <<at, rule, dir, losses, runs>>

\* Nobody looks at the error of that unmount.
StartFailsBusy(s) ==
  /\ pc[s] \in Building /\ losses < MaxLosses
  /\ losses' = losses + 1
  /\ UnmountedKeepsUpper(s)
  /\ UNCHANGED <<at, rule, dir, runs>>

\* The running game writes its own files, over installed ones too.
GameWrites(s) ==
  /\ pc[s] = "up"
  /\ \E f \in Files : upper' = [upper EXCEPT ![s] = Write(@, [g \in {f} |-> <<"game">>])]
  /\ UNCHANGED <<pc, plan, at, rule, temp, dir, stale, losses, runs>>

Stop(s) ==
  /\ pc[s] = "up"
  /\ Unmounted(s)
  /\ UNCHANGED <<at, rule, dir, losses, runs>>

\* The unmount of Stop fails (the container's stop and remove errors are not
\* looked at, so something may hold the mount): the directory is not removed.
StopBusy(s) ==
  /\ pc[s] = "up" /\ losses < MaxLosses
  /\ losses' = losses + 1
  /\ UnmountedKeepsUpper(s)
  /\ UNCHANGED <<at, rule, dir, runs>>

\* The orchestrator dies.  The next boot removes the containers and nothing
\* else, so the upper directories stay as they are.  (An extracted archive stays
\* in /tmp under a name of its own, where no later build looks.)
Crash ==
  /\ losses < MaxLosses
  /\ losses' = losses + 1
  /\ pc' = [s \in Servers |-> "down"]
  /\ plan' = [s \in Servers |-> NoPlan]
  /\ temp' = [s \in Servers |-> {}]
  /\ stale' = [s \in Servers |-> {}]
  /\ UNCHANGED <<at, rule, dir, upper, runs>>

Next ==
  \/ \E s \in Servers :
       \/ Mount(s) \/ MountFails(s) \/ FetchSource(s) \/ ApplyIgnore(s) \/ LayRule(s) \/ Templates(s)
       \/ PluginsDone(s) \/ WriteConfig(s) \/ CreateContainer(s) \/ StartContainer(s)
       \/ StartFails(s) \/ GameWrites(s) \/ Stop(s)
       \/ StopBusy(s) \/ StartFailsBusy(s)
  \/ Crash

BuildSpec == Init /\ [][Next]_buildVars

-----------------------------------------------------------------------------
(* What a build is meant to produce, without its order: each path belongs  *)
(* to the last config, else to the last plugin, that writes it.            *)

\* The source files p lays at path x by each rule, and the paths p writes.
LaidBy(p, r, x) == {f \in (Published[Source(p)] \ Ignore[p]) \cap DOMAIN Rules(p)[r] :
                      Rules(p)[r][f] = x}
RulesAt(p, x) == {r \in 1..Len(Rules(p)) : LaidBy(p, r, x) # {}}
PathsOf(p) == {x \in Files : x \in Template[p] \/ RulesAt(p, x) # {}}

FromPlugin(p, x) ==
  IF x \in Template[p] THEN <<"template", p>>
  ELSE <<"file", p, CHOOSE f \in LaidBy(p, Max(RulesAt(p, x)), x) : TRUE>>

ConfigsAt(pl, x) == {j \in 1..Len(pl.configs) : Filename[pl.configs[j]] = x}
PluginsAt(pl, x) == {i \in 1..Len(pl.plugins) : x \in PathsOf(pl.plugins[i])}

Wanted(pl) ==
  [x \in {y \in Files : ConfigsAt(pl, y) # {} \/ PluginsAt(pl, y) # {}} |->
     IF ConfigsAt(pl, x) # {} THEN <<"config", pl.configs[Max(ConfigsAt(pl, x))]>>
     ELSE FromPlugin(pl.plugins[Max(PluginsAt(pl, x))], x)]

-----------------------------------------------------------------------------
(* Properties. *)

\* Type invariant: every upper directory holds contents the code can write, and
\* an extracted archive exists only while its plugin is being applied.
BuildTypeOK ==
  /\ pc \in [Servers -> Building \cup {"down", "up"}]
  /\ \A s \in Servers : /\ plan[s] \in Plans \cup {NoPlan}
                        /\ DOMAIN upper[s] \subseteq Files
                        /\ Range(upper[s]) \subseteq Contents
                        /\ temp[s] \subseteq Files
                        /\ temp[s] # {} => pc[s] \in {"fetched", "ignored", "laid"}
                        /\ stale[s] \subseteq Files
  /\ \A d \in Dirs : dir[d] \subseteq Published[d]

\* When server.Start has created the container, every path that some plugin or
\* config of this start writes holds what the last of its writers put there,
\* whatever other builds, failed builds, earlier runs and crashes left behind.
WantedIsInstalled ==
  \A s \in Servers : pc[s] = "created" =>
    LET w == Wanted(plan[s]) IN
      \A x \in DOMAIN w : x \in DOMAIN upper[s] /\ upper[s][x] = w[x]

\* And nothing else is there, except what lay in the directory when
\* server.Start mounted it.
NothingElseIsInstalled ==
  \A s \in Servers : pc[s] = "created" =>
    DOMAIN upper[s] \subseteq DOMAIN Wanted(plan[s]) \cup stale[s]

\* The overlay of a started server is exactly what its plugins and configs say
\* (plugins/examples/README.md: a plugin that is not enabled is not there).
OverlayIsExact ==
  \A s \in Servers : pc[s] = "created" => upper[s] = Wanted(plan[s])

(***************************************************************************)
(* The inductive invariant (proved in InstallProofs): how far a build is,  *)
(* and that each path holds what the last of its writers so far put there. *)
(***************************************************************************)

\* Manifests that share a directory agree on what is ignored of it.
SourcesAgree ==
  \A p, q \in Plugins : DirOf[p] \in Dirs /\ DirOf[q] = DirOf[p] =>
    Ignore[q] \cap Published[DirOf[p]] \subseteq Ignore[p]

Applying == {"fetched", "ignored", "laid"}

\* The plugins, the rules of the plugin in hand, and the configs that are in place.
PluginsLaid(s) == IF pc[s] \in Applying \cup {"plugins"} THEN at[s] - 1 ELSE Len(plan[s].plugins)
RulesLaid(s) == IF pc[s] = "ignored" THEN rule[s] - 1
                ELSE IF pc[s] = "laid" THEN Len(Rules(Current(s))) ELSE 0
ConfigsWritten(s) == IF pc[s] = "configs" THEN at[s] - 1
                     ELSE IF pc[s] = "created" THEN Len(plan[s].configs) ELSE 0

\* Those of them that wrote x.
PluginsSoFar(s, x) == {i \in 1..PluginsLaid(s) : x \in PathsOf(plan[s].plugins[i])}
RulesSoFar(s, x) == {r \in 1..RulesLaid(s) : LaidBy(Current(s), r, x) # {}}
ConfigsSoFar(s, x) == {j \in 1..ConfigsWritten(s) : Filename[plan[s].configs[j]] = x}

IsLast(S, k) == \A j \in S : j <= k
Holds(s, x, c) == x \in DOMAIN upper[s] /\ upper[s][x] = c

\* A path is written by a config over a plugin, and by the plugin in hand over another.
PathOK(s, x) ==
  /\ ConfigsSoFar(s, x) # {} =>
       \E k \in ConfigsSoFar(s, x) :
         IsLast(ConfigsSoFar(s, x), k) /\ Holds(s, x, <<"config", plan[s].configs[k]>>)
  /\ ConfigsSoFar(s, x) = {} /\ RulesSoFar(s, x) # {} =>
       \E k \in RulesSoFar(s, x) :
         /\ IsLast(RulesSoFar(s, x), k)
         /\ \E f \in LaidBy(Current(s), k, x) : Holds(s, x, <<"file", Current(s), f>>)
  /\ ConfigsSoFar(s, x) = {} /\ RulesSoFar(s, x) = {} /\ PluginsSoFar(s, x) # {} =>
       \E k \in PluginsSoFar(s, x) :
         IsLast(PluginsSoFar(s, x), k) /\ Holds(s, x, FromPlugin(plan[s].plugins[k], x))

\* A path that was not there at the mount has been written since.
TracedOK(s, x) ==
  \/ x \in stale[s]
  \/ x \in Files /\ ConfigsSoFar(s, x) \cup RulesSoFar(s, x) \cup PluginsSoFar(s, x) # {}

\* The indices a start goes by, and the root of the plugin in hand.
StageOK(s) ==
  /\ pc[s] \in Building =>
       /\ plan[s] \in Plans
       /\ pc[s] = "plugins" => at[s] \in 1 .. Len(plan[s].plugins) + 1
       /\ pc[s] \in Applying => at[s] \in 1 .. Len(plan[s].plugins)
       /\ pc[s] = "configs" => at[s] \in 1 .. Len(plan[s].configs) + 1
       /\ pc[s] = "ignored" => rule[s] \in 1 .. Len(Rules(Current(s)))
  /\ pc[s] = "fetched" /\ DirOf[Current(s)] \notin Dirs => temp[s] = Published[Current(s)]
  /\ pc[s] = "ignored" => Root(s) \subseteq Published[Source(Current(s))] \ Ignore[Current(s)]
  /\ pc[s] = "ignored" /\ SourcesAgree =>
       Published[Source(Current(s))] \ Ignore[Current(s)] \subseteq Root(s)

DirsOK ==
  \A d \in Dirs :
    /\ dir[d] \subseteq Published[d]
    /\ SourcesAgree => \A p \in Plugins : DirOf[p] = d => Published[d] \ Ignore[p] \subseteq dir[d]

LaidOK(s) == pc[s] \in Building =>
  /\ SourcesAgree => \A x \in Files : PathOK(s, x)
  /\ \A x \in DOMAIN upper[s] : TracedOK(s, x)

\* The domains of the functions, and the numbers.
ShapeOK ==
  /\ pc \in [Servers -> Building \cup {"down", "up"}]
  /\ DOMAIN plan = Servers /\ at \in [Servers -> Nat] /\ rule \in [Servers -> Nat]
  /\ DOMAIN temp = Servers /\ DOMAIN dir = Dirs /\ DOMAIN upper = Servers
  /\ DOMAIN stale = Servers /\ losses \in Nat

BuildInv == ShapeOK /\ DirsOK /\ \A s \in Servers : StageOK(s) /\ LaidOK(s)

=============================================================================

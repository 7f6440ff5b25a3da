-------------------------------- MODULE Setup --------------------------------
(***************************************************************************)
(* The command line around the engine: init, doctor, sync and schedule of   *)
(* internal/cli, the configuration of internal/config and its environment,  *)
(* with several commands running at once, crashes, and an operator, a       *)
(* platform administrator and launchd who change things between them.       *)
(*                                                                          *)
(* What a platform is asked for is a set of needs; whether they are met is  *)
(* the world's.  Wiki spaces and folders are not empty.  A sync is what it  *)
(* reads, which platforms it runs and what they are refused: their rounds   *)
(* are Rounds'.  doctor runs its probes at one moment.                      *)
(***************************************************************************)
EXTENDS Naturals

CONSTANTS
  Procs,        \* commands that may run at once
  Asks,         \* configurations an operator may ask init for
  NoConfig,
  Worlds,       \* what commands may find: see world
  MaxCommands, MaxChanges  \* bounds: commands started, changes of the world

Sources == {"wiki", "drive", "library"}
Platforms == {"feishu", "notion"}
Scopes == {"wiki", "files", "metas", "docs"}
Tokens == {"none", "valid", "stale"}
Engines == {"none", "good", "old", "gone"}
Variables == [token : Tokens, lark : Engines]
Unset == [token |-> "none", lark |-> "none"]
Configs == [sources : SUBSET Sources, notion : BOOLEAN, knobs : BOOLEAN]
Default == [sources |-> {}, notion |-> FALSE, knobs |-> TRUE]
NoPlatform == [sources |-> {}, notion |-> FALSE, knobs |-> FALSE]

World == [shell : Variables, file : Variables, auth : {"noapp", "notoken", "ready"},
          granted : SUBSET Scopes, reach : SUBSET {"wiki", "drive"},
          visible : BOOLEAN, writable : BOOLEAN]

ASSUME ConstantsAssumption ==
  /\ \A c \in Asks : c \in Configs /\ c.knobs
  /\ NoConfig \notin Configs
  /\ Worlds \subseteq World
  /\ MaxCommands \in Nat /\ MaxChanges \in Nat

VARIABLES
  config,   \* <root>/.internal/config.toml
  plist,    \* the LaunchAgent: is its file written, is the job loaded?
  mirrored, \* does the manifest hold a Feishu document?
  world,    \* environments, credentials and what the platforms grant
  procs,    \* the commands that run
  last,     \* the command that ended last
  ready,    \* doctor ended with 0 in the operator's shell, and nothing changed since
  asked,    \* observation: the configurations that init was asked for
  commands, changes

files == <<config, plist, mirrored>>
counts == <<commands, changes>>
vars == <<files, world, procs, last, ready, asked, counts>>

Idle == [cmd |-> "none"]
Environments == {"shell", "launchd"}

InitProcs ==
  [cmd : {"init"}, pc : {"asking", "writing", "login"}, cfg : Asks,
   force : BOOLEAN, interactive : BOOLEAN,
   todo : {"probe", "app", "token"}]
SyncProcs ==
  [cmd : {"sync"}, pc : {"started", "built", "running"}, env : Environments,
   wanted : SUBSET Platforms, adapters : SUBSET Platforms, cfg : Configs, knobs : BOOLEAN, vals : Variables, sure : BOOLEAN]

TypeOK ==
  /\ config \in Configs \cup {NoConfig}
  /\ plist \subseteq {"written", "loaded"} /\ mirrored \in BOOLEAN
  /\ world \in World
  /\ procs \in [Procs -> {Idle} \cup InitProcs \cup SyncProcs]
  /\ last.cmd \in {"none", "init", "doctor", "sync", "schedule"} /\ last.exit \in {0, 1, 3}
  /\ ready \in BOOLEAN
  /\ asked \subseteq Asks
  /\ commands \in 0..MaxCommands /\ changes \in 0..MaxChanges

Init ==
  /\ config = NoConfig /\ plist = {} /\ mirrored = FALSE
  /\ world \in Worlds
  /\ procs = [p \in Procs |-> Idle] /\ last = [cmd |-> "none", exit |-> 0]
  /\ ready = FALSE /\ asked = {} /\ commands = 0 /\ changes = 0

(***************************************************************************)
(* Configuration and environment                                            *)
(***************************************************************************)
Initialized == config # NoConfig

\* Load decodes into a zero Config: what a file does not say is empty.
Load(file) == IF file = NoConfig THEN Default ELSE file

\* launchd starts its jobs with OPENDOC_ROOT alone.
Getenv(env) == IF env = "shell" THEN world.shell ELSE Unset

\* A variable that the environment lacks, or has empty, comes from the file.
ResolveEnv(env) ==
  [v \in {"token", "lark"} |->
     IF Getenv(env)[v] # "none" THEN Getenv(env)[v] ELSE world.file[v]]

FeishuConfigured(cfg) == cfg.sources # {}
Configured(cfg) ==
  (IF FeishuConfigured(cfg) THEN {"feishu"} ELSE {})
  \cup (IF cfg.notion THEN {"notion"} ELSE {})

(***************************************************************************)
(* doctor: the probes that fail                                             *)
(***************************************************************************)
Failing(cond, probe) == IF cond THEN {probe} ELSE {}

CheckMirrorRoot == Failing(~ world.writable, "G1")

\* The embedded engine is always there; another one must be found and recent.
CheckLarkPresence(vals) == Failing(vals.lark \in {"old", "gone"}, "F1")

\* An engine whose answers have another form is left out (F4).
CheckLarkAuth == Failing(world.auth # "ready", "F2")

\* Without a user token every call is refused, whatever its scope.
Denied(scope) == world.auth # "ready" \/ scope \notin world.granted

CheckLarkScopes(cfg, forced) ==
  Failing(("wiki" \in cfg.sources \/ forced) /\ Denied("wiki"), "F3-wiki")
  \cup Failing(mirrored /\ Denied("docs"), "F3-docs")
  \cup Failing(({"drive", "library"} \cap cfg.sources # {} \/ forced) /\ Denied("files"), "F3-drive")

TargetAccessible(t) == world.auth = "ready" /\ t \in world.reach

\* (mutant of CheckMirrorScope) one target that answers is enough
CheckMirrorScopeAny(cfg) ==
  Failing(cfg.sources \ {"library"} # {}
          /\ \A t \in cfg.sources \ {"library"} : ~ TargetAccessible(t), "F5")

\* The personal library is no target: it has no id in the configuration.
CheckMirrorScope(cfg) ==
  Failing(\E t \in cfg.sources \ {"library"} : ~ TargetAccessible(t), "F5")

FeishuLine(cfg, vals, forced) ==
  IF ~ (FeishuConfigured(cfg) \/ forced) THEN {}
  ELSE IF CheckLarkPresence(vals) # {} THEN CheckLarkPresence(vals)
  ELSE CheckLarkAuth \cup CheckLarkScopes(cfg, forced) \cup CheckMirrorScope(cfg)

\* An invalid token fails the search of N3 too; without one only N1 speaks.
CheckNotionEnv(vals) == Failing(vals.token = "none", "N1")
CheckNotionToken(vals) == Failing(vals.token = "stale", "N2")
CheckNotionVisible(vals) ==
  Failing(vals.token = "stale" \/ (vals.token = "valid" /\ ~ world.visible), "N3")

NotionLine(cfg, vals, forced) ==
  IF ~ (cfg.notion \/ forced) THEN {}
  ELSE CheckNotionEnv(vals) \cup CheckNotionToken(vals) \cup CheckNotionVisible(vals)

Probes(cfg, vals, forced) ==
  CheckMirrorRoot
  \cup FeishuLine(cfg, vals, "feishu" \in forced)
  \cup NotionLine(cfg, vals, "notion" \in forced)

ExitError == 1

Start == commands < MaxCommands /\ commands' = commands + 1 /\ UNCHANGED changes

\* A probe may also fail because the network does.
Doctor(forced) ==
  /\ Start
  /\ \E reachable \in BOOLEAN :
       LET failed == Probes(Load(config), ResolveEnv("shell"), forced)
           online == reachable \/ (Configured(Load(config)) \cup forced = {})
           code == IF ~ Initialized THEN 3
                   ELSE IF failed = {} /\ online THEN 0 ELSE ExitError
       IN /\ last' = [cmd |-> "doctor", exit |-> code]
          /\ ready' = (code = 0)
  /\ UNCHANGED <<files, world, procs, asked>>

(***************************************************************************)
(* init                                                                     *)
(***************************************************************************)
Run(p, command) == procs' = [procs EXCEPT ![p] = command]

InitStart(p, force, interactive, cfg) ==
  /\ procs[p] = Idle /\ Start
  /\ IF Initialized /\ ~ force
     THEN /\ last' = [cmd |-> "init", exit |-> ExitError] /\ UNCHANGED procs
     ELSE /\ Run(p, [cmd |-> "init", pc |-> "asking", cfg |-> cfg,
                     force |-> force, interactive |-> interactive, todo |-> "probe"])
          /\ UNCHANGED last
  /\ UNCHANGED <<files, world, ready, asked>>

End(p, exit) ==
  /\ Run(p, Idle) /\ last' = [cmd |-> procs[p].cmd, exit |-> exit]

At(p, cmd, pc) == procs[p].cmd = cmd /\ procs[p].pc = pc

\* (mutant of InitWrite) the file is written in place, and half of it is there
InitWriteInPlace(p) ==
  /\ At(p, "init", "asking") /\ world.writable
  /\ Run(p, [procs[p] EXCEPT !.pc = "writing"])
  /\ asked' = asked \cup {procs[p].cfg}
  /\ config' = [NoPlatform EXCEPT !.sources = procs[p].cfg.sources]
  /\ UNCHANGED <<plist, mirrored, last, world, ready, counts>>

\* EnsureInternal, and the first half of Write: a temporary file, which no
\* command reads and a crash leaves behind.
InitWrite(p) ==
  /\ At(p, "init", "asking")
  /\ IF world.writable
     THEN /\ Run(p, [procs[p] EXCEPT !.pc = "writing"]) /\ UNCHANGED last
          /\ asked' = asked \cup {procs[p].cfg}
     ELSE End(p, ExitError) /\ UNCHANGED asked
  /\ UNCHANGED <<files, world, ready, counts>>

\* Nobody is told that what doctor saw has changed: the syncs that run, and
\* those to come, are no longer sure of anything.
Unsure(q) == IF procs[q].cmd = "sync" THEN [procs[q] EXCEPT !.sure = FALSE] ELSE procs[q]

\* The rename; then, when somebody is there to ask, the Feishu login.
InitRename(p) ==
  LET cfg == procs[p].cfg
      login == procs[p].interactive /\ FeishuConfigured(cfg)
  IN /\ At(p, "init", "writing")
     /\ config' = cfg /\ ready' = FALSE
     /\ procs' = [q \in Procs |->
                    IF q # p THEN Unsure(q)
                    ELSE IF login THEN [procs[p] EXCEPT !.pc = "login"] ELSE Idle]
     /\ last' = IF login THEN last ELSE [cmd |-> "init", exit |-> 0]
     /\ UNCHANGED <<plist, mirrored, world, asked, counts>>

\* What the engine says of itself, without the network.
WhoAmI == world.auth

\* setupFeishuAuth: the steps are chosen once, from what whoami says.  It never
\* makes init fail, and the operator may decline.
InitProbe(p) ==
  /\ At(p, "init", "login") /\ procs[p].todo = "probe"
  /\ \/ /\ WhoAmI # "ready"
        /\ Run(p, [procs[p] EXCEPT !.todo = IF WhoAmI = "noapp" THEN "app" ELSE "token"])
        /\ UNCHANGED last
     \/ End(p, 0)
  /\ UNCHANGED <<files, world, ready, asked, counts>>

\* Creating an app replaces the one there is, and its tokens.
InitAuth(p) ==
  /\ At(p, "init", "login") /\ procs[p].todo \in {"app", "token"}
  /\ \/ /\ procs[p].todo = "app"
        /\ world' = [world EXCEPT !.auth = "notoken", !.granted = {}]
        /\ procs' = [q \in Procs |-> IF q = p THEN [procs[p] EXCEPT !.todo = "token"] ELSE Unsure(q)]
        /\ UNCHANGED last
     \/ /\ procs[p].todo = "token" /\ world.auth # "noapp"
        /\ \E granted \in {Scopes, Scopes \ {"metas"}, Scopes \ {"wiki"}} :
             world' = [world EXCEPT !.auth = "ready", !.granted = granted]
        /\ procs' = [q \in Procs |-> IF q = p THEN Idle ELSE Unsure(q)]
        /\ last' = [cmd |-> "init", exit |-> 0]
     \/ End(p, 0) /\ UNCHANGED world
  /\ ready' = IF world' = world THEN ready ELSE FALSE
  /\ UNCHANGED <<files, asked, counts>>

(***************************************************************************)
(* sync                                                                     *)
(***************************************************************************)
\* requireInitialized.  A sync is sure of what doctor said when the variables
\* have the values that doctor saw.
SyncStart(p, env, wanted) ==
  /\ procs[p] = Idle /\ Start
  /\ env = "launchd" => "loaded" \in plist /\ wanted = Platforms
  /\ IF ~ Initialized
     THEN /\ last' = [cmd |-> "sync", exit |-> 3, env |-> env] /\ UNCHANGED procs
     ELSE /\ Run(p, [cmd |-> "sync", pc |-> "started", env |-> env, wanted |-> wanted,
                     adapters |-> {}, cfg |-> Default, knobs |-> TRUE, vals |-> Unset,
                     sure |-> ready /\ ResolveEnv(env) = ResolveEnv("shell")])
          /\ UNCHANGED last
  /\ UNCHANGED <<files, world, ready, asked>>

SyncEnd(p, exit, unmet) ==
  /\ Run(p, Idle)
  /\ last' = [cmd |-> "sync", exit |-> exit, env |-> procs[p].env, wanted |-> procs[p].wanted,
              cfg |-> procs[p].cfg, ran |-> procs[p].adapters, unmet |-> unmet, sure |-> procs[p].sure]

\* (mutant of SyncBuild) a platform without its token is left out
SyncBuildAnyway(p) ==
  LET cfg == Load(config)
      vals == ResolveEnv(procs[p].env)
  IN /\ At(p, "sync", "started")
     /\ Run(p, [procs[p] EXCEPT
                  !.pc = "built", !.cfg = cfg, !.vals = vals,
                  !.adapters = (Configured(cfg) \cap procs[p].wanted)
                               \ (IF vals.token = "none" THEN {"notion"} ELSE {})])
     /\ UNCHANGED <<files, last, world, ready, asked, counts>>

\* buildAdapters: without its token Notion stops the whole sync, Feishu too.
SyncBuild(p) ==
  LET cfg == Load(config)
      vals == ResolveEnv(procs[p].env)
  IN /\ At(p, "sync", "started")
     /\ IF cfg.notion /\ "notion" \in procs[p].wanted /\ vals.token = "none"
        THEN SyncEnd(p, ExitError, {"token"})
        ELSE /\ Run(p, [procs[p] EXCEPT !.pc = "built", !.cfg = cfg, !.vals = vals,
                                       !.adapters = Configured(cfg) \cap procs[p].wanted])
             /\ UNCHANGED last
     /\ UNCHANGED <<files, world, ready, asked, counts>>

\* New reads the configuration once more, for the settings of [sync].
SyncOpen(p) ==
  /\ At(p, "sync", "built")
  /\ IF world.writable
     THEN Run(p, [procs[p] EXCEPT !.pc = "running", !.knobs = Load(config).knobs]) /\ UNCHANGED last
     ELSE SyncEnd(p, ExitError, {"root"})
  /\ UNCHANGED <<files, world, ready, asked, counts>>

\* What an enumeration asks for: the library is listed with the wiki's nodes,
\* and every document's metadata with a call of the drive.
FeishuNeeds(sources) ==
  {"engine", "auth", "metas"}
  \cup (IF sources \cap {"wiki", "library"} # {} THEN {"wiki"} ELSE {})
  \cup (IF "drive" \in sources THEN {"files"} ELSE {})
  \cup (IF sources \ {"library"} # {} THEN {"target"} ELSE {})

Met(need, sources, vals) ==
  CASE need = "engine" -> vals.lark # "gone"
    [] need = "auth"   -> world.auth = "ready"
    [] need = "target" -> (sources \ {"library"}) \subseteq world.reach
    [] OTHER           -> need \in world.granted

Unmet(p) ==
  LET sources == procs[p].cfg.sources
      vals == procs[p].vals
  IN (IF "feishu" \notin procs[p].adapters THEN {}
      ELSE {n \in FeishuNeeds(sources) : ~ Met(n, sources, vals)})
     \cup (IF "notion" \in procs[p].adapters /\ vals.token = "stale" THEN {"valid token"} ELSE {})

\* A platform that is refused fails its own round; the sync ends with 0.
SyncRun(p) ==
  /\ At(p, "sync", "running")
  /\ SyncEnd(p, 0, Unmet(p))
  /\ LET mirrors == "feishu" \in procs[p].adapters /\ "docs" \in world.granted
                    /\ Unmet(p) \subseteq {"valid token"}
     IN /\ mirrored' = (mirrored \/ mirrors)
        /\ ready' = IF mirrored' = mirrored THEN ready ELSE FALSE
  /\ UNCHANGED <<config, plist, world, asked, counts>>

(***************************************************************************)
(* schedule, and launchctl in the operator's hands                          *)
(***************************************************************************)
\* (mutant of ScheduleAt) an uninitialized root is scheduled
ScheduleAtAnyway ==
  /\ Start /\ plist' = plist \cup {"written"}
  /\ last' = [cmd |-> "schedule", exit |-> 0]
  /\ UNCHANGED <<config, mirrored, world, procs, ready, asked>>

ScheduleAt ==
  /\ Start
  /\ IF ~ Initialized
     THEN last' = [cmd |-> "schedule", exit |-> 3] /\ UNCHANGED plist
     ELSE /\ plist' = plist \cup {"written"}
          /\ last' = [cmd |-> "schedule", exit |-> 0]
  /\ UNCHANGED <<config, mirrored, world, procs, ready, asked>>

\* A job that is loaded stays loaded until it is unloaded.
ScheduleRemove ==
  /\ Start /\ Initialized
  /\ plist' = plist \ {"written"}
  /\ last' = [cmd |-> "schedule", exit |-> 0]
  /\ UNCHANGED <<config, mirrored, world, procs, ready, asked>>

Launchctl ==
  /\ \/ "written" \in plist /\ plist' = plist \cup {"loaded"}
     \/ plist' = plist \ {"loaded"}
  /\ plist' # plist
  /\ UNCHANGED <<config, mirrored, world, procs, last, ready, asked, counts>>

(***************************************************************************)
(* Crashes and the world                                                    *)
(***************************************************************************)
Crash(p) ==
  /\ procs[p] # Idle /\ Run(p, Idle)
  /\ UNCHANGED <<files, world, last, ready, asked, counts>>

Change ==
  /\ changes < MaxChanges /\ changes' = changes + 1
  /\ \/ \E v \in Tokens : world' = [world EXCEPT !.shell.token = v]
     \/ \E v \in Tokens : world' = [world EXCEPT !.file.token = v]
     \/ \E v \in Engines : world' = [world EXCEPT !.shell.lark = v]
     \/ \E v \in Engines : world' = [world EXCEPT !.file.lark = v]
     \/ \E v \in {"notoken", "ready"} : world.auth # "noapp" /\ world' = [world EXCEPT !.auth = v]
     \/ \E s \in Scopes : world' = [world EXCEPT !.granted = @ \ {s}]
     \/ \E t \in {"wiki", "drive"} : world' = [world EXCEPT !.reach = @ \ {t}]
     \/ world' = [world EXCEPT !.visible = ~ @]
     \/ world' = [world EXCEPT !.writable = ~ @]
  /\ world' # world
  /\ ready' = FALSE /\ procs' = [q \in Procs |-> Unsure(q)]
  /\ UNCHANGED <<files, last, asked, commands>>

Next ==
  \/ \E forced \in SUBSET Platforms : Doctor(forced)
  \/ \E p \in Procs, force, interactive \in BOOLEAN, cfg \in Asks : InitStart(p, force, interactive, cfg)
  \/ \E p \in Procs, env \in Environments, wanted \in {Platforms, {"feishu"}, {"notion"}} :
       SyncStart(p, env, wanted)
  \/ \E p \in Procs : \/ InitWrite(p) \/ InitRename(p) \/ InitProbe(p) \/ InitAuth(p)
                      \/ SyncBuild(p) \/ SyncOpen(p) \/ SyncRun(p)
                      \/ Crash(p)
  \/ ScheduleAt \/ ScheduleRemove \/ Launchctl
  \/ Change

Spec == Init /\ [][Next]_vars

(***************************************************************************)
(* Properties                                                               *)
(***************************************************************************)
\* A sync works with a configuration that some init was asked for, all of it,
\* whenever init dies and however often the file is replaced while the sync
\* reads it: half a file would decode to fewer platforms and zero settings.
RunsAsAsked ==
  \A p \in Procs :
    /\ At(p, "sync", "built") \/ At(p, "sync", "running") => procs[p].cfg \in asked
    /\ At(p, "sync", "running") => procs[p].knobs

\* A sync that ends with 0 has run every platform that the configuration names
\* and the operator did not exclude: none is left out for want of its token.
NothingSkipped ==
  last.cmd = "sync" /\ last.exit = 0 =>
    last.ran = Configured(last.cfg) \cap last.wanted

\* When doctor ends with 0 and nothing changes, a sync - by hand or by
\* launchd - for which the variables have the same values is admitted, and no platform refuses it for want of anything that doctor
\* probes.  It does not probe the metadata call that every listing ends with,
\* nor the wiki for a personal library (see the README).
ReadyIsServed ==
  last.cmd = "sync" /\ last.exit # 3 /\ last.sure =>
    /\ last.exit = 0
    /\ last.unmet \subseteq {"metas"} \cup (IF "library" \in last.cfg.sources THEN {"wiki"} ELSE {})

\* launchd never starts a sync of a mirror that has no configuration.
ScheduledIsInitialized ==
  last.cmd = "sync" /\ last.exit = 3 => last.env # "launchd"

\* An existing configuration is replaced only by an init that was forced: the
\* promise of init's comment (false of two inits at once: see the README).
KeptUnlessForced ==
  [][Initialized => \E p \in Procs : At(p, "init", "writing") /\ procs[p].force]_config
=============================================================================

---------------------- MODULE SetupAndEnumerationProofs ----------------------
(***************************************************************************)
(* Proofs about the two components around a round that share no state with  *)
(* it: Setup, for every number of commands at once, every configuration     *)
(* that may be asked for and every world; then Requests and Enumeration, for *)
(* every number of callers, every interval, every number of attempts and    *)
(* every tree of answers.                                                   *)
(***************************************************************************)
EXTENDS Setup, Enumeration, TLAPS

-----------------------------------------------------------------------------
(* Types. *)

Commands == {Idle} \cup InitProcs \cup SyncProcs

LEMMA AsksAreConfigs ==
  ASSUME NEW cfg \in Asks PROVE cfg \in Configs /\ cfg.knobs = TRUE /\ cfg # NoConfig
BY ConstantsAssumption DEF Configs

LEMMA LoadType ==
  ASSUME NEW file \in Configs \cup {NoConfig} PROVE Load(file) \in Configs
BY DEF Load, Default, Configs

LEMMA ResolveType ==
  ASSUME TypeOK, NEW env PROVE ResolveEnv(env) \in Variables
BY DEF TypeOK, World, ResolveEnv, Getenv, Variables, Unset, Tokens, Engines

LEMMA InitKind ==
  ASSUME TypeOK, NEW p \in Procs, procs[p].cmd = "init" PROVE procs[p] \in InitProcs
BY DEF TypeOK, Idle, SyncProcs

LEMMA SyncKind ==
  ASSUME TypeOK, NEW p \in Procs, procs[p].cmd = "sync" PROVE procs[p] \in SyncProcs
BY DEF TypeOK, Idle, InitProcs

LEMMA RunType ==
  ASSUME TypeOK, NEW p \in Procs, NEW c \in Commands, Run(p, c)
  PROVE  procs' \in [Procs -> Commands]
BY DEF TypeOK, Commands, Run

LEMMA UnsureType ==
  ASSUME TypeOK, NEW q \in Procs PROVE Unsure(q) \in Commands
<1>1. CASE procs[q].cmd = "sync"
  BY <1>1, SyncKind DEF Unsure, SyncProcs, Commands
<1>2. CASE procs[q].cmd # "sync"
  BY <1>2 DEF Unsure, TypeOK, Commands
<1>3. QED  BY <1>1, <1>2

LEMMA EndType ==
  ASSUME TypeOK, NEW p \in Procs, NEW exit \in {0, 1, 3},
         procs[p].cmd \in {"init", "sync"}, End(p, exit)
  PROVE  /\ procs' \in [Procs -> Commands]
         /\ last'.cmd \in {"none", "init", "doctor", "sync", "schedule"}
         /\ last'.exit \in {0, 1, 3}
<1>1. procs' \in [Procs -> Commands]  BY RunType DEF End, Commands
<1>2. QED  BY <1>1 DEF End

LEMMA SyncEndType ==
  ASSUME TypeOK, NEW p \in Procs, NEW exit \in {0, 1, 3}, NEW unmet, SyncEnd(p, exit, unmet)
  PROVE  /\ procs' \in [Procs -> Commands]
         /\ last'.cmd \in {"none", "init", "doctor", "sync", "schedule"}
         /\ last'.exit \in {0, 1, 3}
<1>1. procs' \in [Procs -> Commands]  BY RunType DEF SyncEnd, Commands
<1>2. QED  BY <1>1 DEF SyncEnd

LEMMA InitStepTypes ==
  ASSUME TypeOK, NEW p \in Procs,
         InitWrite(p) \/ InitRename(p) \/ InitProbe(p) \/ InitAuth(p)
  PROVE  TypeOK'
<1> USE DEF Commands
<1>1. procs[p] \in InitProcs /\ procs[p].cmd = "init"
  BY InitKind DEF InitWrite, InitRename, InitProbe, InitAuth, At
<1>2. /\ [procs[p] EXCEPT !.pc = "writing"] \in InitProcs
      /\ [procs[p] EXCEPT !.pc = "login"] \in InitProcs
      /\ [procs[p] EXCEPT !.todo = "app"] \in InitProcs
      /\ [procs[p] EXCEPT !.todo = "token"] \in InitProcs
  BY <1>1 DEF InitProcs
<1>3. procs[p].cfg \in Asks /\ procs[p].cfg \in Configs
  BY <1>1, AsksAreConfigs DEF InitProcs
<1>4. CASE InitWrite(p)
  <2>1. CASE world.writable
    <3>1. procs' \in [Procs -> Commands]  BY <1>2, <1>4, <2>1, RunType DEF InitWrite
    <3>2. QED  BY <1>3, <1>4, <2>1, <3>1 DEF InitWrite, TypeOK, files, counts
  <2>2. CASE ~ world.writable
    <3>1. End(p, 1)  BY <1>4, <2>2 DEF InitWrite, ExitError
    <3>2. QED  BY <1>1, <1>4, <2>2, <3>1, EndType DEF InitWrite, TypeOK, files, counts
  <2>3. QED  BY <2>1, <2>2
<1>5. CASE InitRename(p)
  <2>1. procs' \in [Procs -> Commands]
    BY <1>2, <1>5, UnsureType DEF InitRename
  <2>2. last'.cmd \in {"none", "init", "doctor", "sync", "schedule"} /\ last'.exit \in {0, 1, 3}
    BY <1>5 DEF InitRename, TypeOK
  <2>3. QED  BY <1>3, <1>5, <2>1, <2>2 DEF InitRename, TypeOK, counts
<1>6. CASE InitProbe(p)
  <2>1. CASE End(p, 0)
    BY <1>1, <1>6, <2>1, EndType DEF InitProbe, TypeOK, files, counts
  <2>2. CASE ~ End(p, 0)
    <3>1. procs' \in [Procs -> Commands]
      <4>1. Run(p, [procs[p] EXCEPT !.todo = IF WhoAmI = "noapp" THEN "app" ELSE "token"])
        BY <1>6, <2>2 DEF InitProbe
      <4>2. QED  BY <1>2, <4>1, RunType
    <3>2. QED  BY <1>6, <2>2, <3>1 DEF InitProbe, TypeOK, files, counts
  <2>3. QED  BY <2>1, <2>2
<1>7. CASE InitAuth(p)
  <2>1. CASE End(p, 0) /\ UNCHANGED world
    BY <1>1, <1>7, <2>1, EndType DEF InitAuth, TypeOK, files, counts
  <2>2. CASE ~ (End(p, 0) /\ UNCHANGED world)
    <3>1. world' \in World
      <4>1. /\ [world EXCEPT !.auth = "notoken", !.granted = {}] \in World
            /\ \A g \in SUBSET Scopes : [world EXCEPT !.auth = "ready", !.granted = g] \in World
        BY DEF TypeOK, World
      <4>2. {Scopes, Scopes \ {"metas"}, Scopes \ {"wiki"}} \subseteq SUBSET Scopes  OBVIOUS
      <4>3. \/ world' = [world EXCEPT !.auth = "notoken", !.granted = {}]
            \/ \E g \in {Scopes, Scopes \ {"metas"}, Scopes \ {"wiki"}} :
                 world' = [world EXCEPT !.auth = "ready", !.granted = g]
        BY <1>7, <2>2 DEF InitAuth
      <4>4. QED  BY <4>1, <4>2, <4>3
    <3>2. procs' \in [Procs -> Commands]
      BY <1>2, <1>7, <2>2, UnsureType DEF InitAuth
    <3>3. last'.cmd \in {"none", "init", "doctor", "sync", "schedule"} /\ last'.exit \in {0, 1, 3}
      BY <1>7, <2>2 DEF InitAuth, TypeOK
    <3>4. QED  BY <1>7, <3>1, <3>2, <3>3 DEF InitAuth, TypeOK, files, counts
  <2>3. QED  BY <2>1, <2>2
<1>8. QED  BY <1>4, <1>5, <1>6, <1>7

LEMMA SyncStepTypes ==
  ASSUME TypeOK, NEW p \in Procs, SyncBuild(p) \/ SyncOpen(p) \/ SyncRun(p)
  PROVE  TypeOK'
<1> USE DEF Commands
<1>1. procs[p] \in SyncProcs /\ procs[p].cmd = "sync"
  BY SyncKind DEF SyncBuild, SyncOpen, SyncRun, At
<1>2. Load(config) \in Configs  BY LoadType DEF TypeOK
<1>3. CASE SyncBuild(p)
  <2>1. CASE SyncEnd(p, ExitError, {"token"})
    BY <1>3, <2>1, SyncEndType DEF SyncBuild, ExitError, TypeOK, files, counts
  <2>2. CASE ~ SyncEnd(p, ExitError, {"token"})
    <3> DEFINE cfg == Load(config)
               vals == ResolveEnv(procs[p].env)
               built == [procs[p] EXCEPT !.pc = "built", !.cfg = cfg, !.vals = vals,
                                         !.adapters = Configured(cfg) \cap procs[p].wanted]
    <3>1. vals \in Variables  BY ResolveType
    <3>2. Configured(cfg) \cap procs[p].wanted \in SUBSET Platforms
      BY DEF Configured, Platforms
    <3>3. built \in SyncProcs
      <4> HIDE DEF cfg, vals
      <4>1. cfg \in Configs  BY <1>2 DEF cfg
      <4>2. QED  BY <1>1, <3>1, <3>2, <4>1 DEF SyncProcs
    <3>4. Run(p, built) /\ UNCHANGED last  BY <1>3, <2>2 DEF SyncBuild
    <3>5. procs' \in [Procs -> Commands]  BY <3>3, <3>4, RunType
    <3>6. QED  BY <1>3, <3>4, <3>5 DEF SyncBuild, TypeOK, files, counts
  <2>3. QED  BY <2>1, <2>2
<1>4. CASE SyncOpen(p)
  <2>1. CASE world.writable
    <3>1. Load(config).knobs \in BOOLEAN  BY <1>2 DEF Configs
    <3>2. [procs[p] EXCEPT !.pc = "running", !.knobs = Load(config).knobs] \in SyncProcs
      BY <1>1, <3>1 DEF SyncProcs
    <3>3. procs' \in [Procs -> Commands]  BY <1>4, <2>1, <3>2, RunType DEF SyncOpen
    <3>4. QED  BY <1>4, <2>1, <3>3 DEF SyncOpen, TypeOK, files, counts
  <2>2. CASE ~ world.writable
    BY <1>4, <2>2, SyncEndType DEF SyncOpen, ExitError, TypeOK, files, counts
  <2>3. QED  BY <2>1, <2>2
<1>5. CASE SyncRun(p)
  BY <1>5, SyncEndType DEF SyncRun, TypeOK, counts
<1>6. QED  BY <1>3, <1>4, <1>5

LEMMA NextTypes ==
  ASSUME TypeOK, [Next]_vars PROVE TypeOK'
<1> USE DEF Commands
<1>1. CASE UNCHANGED vars  BY <1>1 DEF vars, files, counts, TypeOK
<1>2. ASSUME Start PROVE commands' \in 0..MaxCommands /\ UNCHANGED changes
  BY <1>2, ConstantsAssumption DEF Start, TypeOK
<1>3. ASSUME NEW forced \in SUBSET Platforms, Doctor(forced) PROVE TypeOK'
  BY <1>2, <1>3 DEF Doctor, TypeOK, files, ExitError
<1>4. ASSUME NEW p \in Procs, NEW force \in BOOLEAN, NEW interactive \in BOOLEAN,
             NEW cfg \in Asks, InitStart(p, force, interactive, cfg)
      PROVE  TypeOK'
  <2> DEFINE command == [cmd |-> "init", pc |-> "asking", cfg |-> cfg, force |-> force,
                         interactive |-> interactive, todo |-> "probe"]
  <2>1. command \in InitProcs  BY DEF InitProcs
  <2>2. CASE Initialized /\ ~ force
    BY <1>2, <1>4, <2>2 DEF InitStart, TypeOK, files, ExitError
  <2>3. CASE ~ (Initialized /\ ~ force)
    <3>1. procs' \in [Procs -> Commands]  BY <1>4, <2>1, <2>3, RunType DEF InitStart
    <3>2. QED  BY <1>2, <1>4, <2>3, <3>1 DEF InitStart, TypeOK, files
  <2>4. QED  BY <2>2, <2>3
<1>5. ASSUME NEW p \in Procs, NEW env \in Environments,
             NEW wanted \in {Platforms, {"feishu"}, {"notion"}}, SyncStart(p, env, wanted)
      PROVE  TypeOK'
  <2> DEFINE same == ready /\ ResolveEnv(env) = ResolveEnv("shell")
             command == [cmd |-> "sync", pc |-> "started", env |-> env, wanted |-> wanted,
                         adapters |-> {}, cfg |-> Default, knobs |-> TRUE, vals |-> Unset,
                         sure |-> same]
  <2>1. command \in SyncProcs
    <3>1. same \in BOOLEAN  BY DEF TypeOK
    <3>2. Default \in Configs /\ Unset \in Variables
      BY DEF Default, Configs, Unset, Variables, Tokens, Engines
    <3>3. wanted \in SUBSET Platforms  BY DEF Platforms
    <3> HIDE DEF same
    <3>4. QED  BY <3>1, <3>2, <3>3 DEF SyncProcs
  <2>2. CASE ~ Initialized
    BY <1>2, <1>5, <2>2 DEF SyncStart, TypeOK, files
  <2>3. CASE Initialized
    <3>1. Run(p, command) /\ UNCHANGED last  BY <1>5, <2>3 DEF SyncStart
    <3>2. procs' \in [Procs -> Commands]  BY <2>1, <3>1, RunType
    <3>3. QED  BY <1>2, <1>5, <3>1, <3>2 DEF SyncStart, TypeOK, files
  <2>4. QED  BY <2>2, <2>3
<1>6. ASSUME NEW p \in Procs, Crash(p) PROVE TypeOK'
  <2>1. procs' \in [Procs -> Commands]  BY <1>6, RunType DEF Crash
  <2>2. QED  BY <1>6, <2>1 DEF Crash, TypeOK, files, counts
<1>7. CASE ScheduleAt
  <2>1. /\ plist' \subseteq {"written", "loaded"} /\ last'.cmd = "schedule"
        /\ last'.exit \in {0, 3}
    <3>1. CASE Initialized
      <4>1. plist' = plist \cup {"written"} /\ last' = [cmd |-> "schedule", exit |-> 0]
        BY <1>7, <3>1 DEF ScheduleAt
      <4>2. QED  BY <4>1 DEF TypeOK
    <3>2. CASE ~ Initialized
      <4>1. plist' = plist /\ last' = [cmd |-> "schedule", exit |-> 3]
        BY <1>7, <3>2 DEF ScheduleAt
      <4>2. QED  BY <4>1 DEF TypeOK
    <3>3. QED  BY <3>1, <3>2
  <2>2. QED  BY <1>2, <1>7, <2>1 DEF ScheduleAt, TypeOK
<1>8. CASE ScheduleRemove
  BY <1>2, <1>8 DEF ScheduleRemove, TypeOK
<1>9. CASE Launchctl
  BY <1>9 DEF Launchctl, TypeOK, counts
<1>10. CASE Change
  <2>1. world' \in World
    <3>1. world \in World  BY DEF TypeOK
    <3>2. /\ \A v \in Tokens : [world EXCEPT !.shell.token = v] \in World
          /\ \A v \in Tokens : [world EXCEPT !.file.token = v] \in World
          /\ \A v \in Engines : [world EXCEPT !.shell.lark = v] \in World
          /\ \A v \in Engines : [world EXCEPT !.file.lark = v] \in World
      BY <3>1 DEF World, Variables
    <3>3. /\ \A v \in {"notoken", "ready"} : [world EXCEPT !.auth = v] \in World
          /\ \A s \in Scopes : [world EXCEPT !.granted = @ \ {s}] \in World
          /\ \A t \in {"wiki", "drive"} : [world EXCEPT !.reach = @ \ {t}] \in World
          /\ [world EXCEPT !.visible = ~ @] \in World
          /\ [world EXCEPT !.writable = ~ @] \in World
      BY <3>1 DEF World
    <3>4. QED  BY <1>10, <3>2, <3>3 DEF Change
  <2>2. procs' \in [Procs -> Commands]  BY <1>10, UnsureType DEF Change
  <2>3. changes' \in 0..MaxChanges
    BY <1>10, ConstantsAssumption DEF Change, TypeOK
  <2>4. QED  BY <1>10, <2>1, <2>2, <2>3 DEF Change, TypeOK, files
<1>11. QED
  BY <1>1, <1>3, <1>4, <1>5, InitStepTypes, SyncStepTypes, <1>6, <1>7, <1>8, <1>9, <1>10 DEF Next

LEMMA InitTypes == Init => TypeOK
<1>1. SUFFICES ASSUME Init PROVE TypeOK  OBVIOUS
<1>2. world \in World  BY <1>1, ConstantsAssumption DEF Init
<1>3. commands \in 0..MaxCommands /\ changes \in 0..MaxChanges
  BY <1>1, ConstantsAssumption DEF Init
<1>4. procs \in [Procs -> {Idle} \cup InitProcs \cup SyncProcs]  BY <1>1 DEF Init
<1>5. QED  BY <1>1, <1>2, <1>3, <1>4 DEF Init, TypeOK

\* The variables of Setup keep their types.
THEOREM TypeCorrect == Spec => []TypeOK
<1>1. TypeOK /\ [Next]_vars => TypeOK'  BY NextTypes
<1>2. QED  BY <1>1, InitTypes, PTL DEF Spec

-----------------------------------------------------------------------------
(* Who asked for what.  A configuration that is there, or about to be, was   *)
(* asked for; a sync and a plist presuppose one, and it never goes away.     *)

Asked ==
  /\ Initialized => config \in asked
  /\ plist # {} => Initialized
  /\ \A p \in Procs :
       /\ At(p, "init", "writing") => procs[p].cfg \in asked
       /\ procs[p].cmd = "sync" => Initialized

Built(p) == At(p, "sync", "built") \/ At(p, "sync", "running")

RunsAllAsked ==
  \A p \in Procs :
    /\ Built(p) => /\ procs[p].cfg \in asked
                   /\ procs[p].adapters = Configured(procs[p].cfg) \cap procs[p].wanted
    /\ At(p, "sync", "running") => procs[p].knobs

AskedInv == TypeOK /\ Asked /\ RunsAllAsked /\ NothingSkipped /\ ScheduledIsInitialized

LEMMA RunEffect ==
  ASSUME TypeOK, NEW p \in Procs, NEW c, Run(p, c)
  PROVE  procs'[p] = c /\ \A q \in Procs \ {p} : procs'[q] = procs[q]
BY DEF TypeOK, Run

LEMMA UnsureEffect ==
  ASSUME TypeOK, NEW q \in Procs
  PROVE  /\ procs[q].cmd # "sync" => Unsure(q) = procs[q]
         /\ procs[q].cmd = "sync" =>
              /\ Unsure(q) \in SyncProcs /\ Unsure(q).sure = FALSE
              /\ Unsure(q).cmd = "sync" /\ Unsure(q).pc = procs[q].pc
              /\ Unsure(q).cfg = procs[q].cfg /\ Unsure(q).knobs = procs[q].knobs
              /\ Unsure(q).adapters = procs[q].adapters
              /\ Unsure(q).wanted = procs[q].wanted
<1>1. CASE procs[q].cmd = "sync"
  BY <1>1, SyncKind DEF Unsure, SyncProcs
<1>2. CASE procs[q].cmd # "sync"
  BY <1>2 DEF Unsure
<1>3. QED  BY <1>1, <1>2

\* What Asked and RunsAllAsked say of a command.
Sound(p) ==
  /\ At(p, "init", "writing") => procs[p].cfg \in asked
  /\ procs[p].cmd = "sync" => Initialized
  /\ Built(p) => /\ procs[p].cfg \in asked
                 /\ procs[p].adapters = Configured(procs[p].cfg) \cap procs[p].wanted
  /\ At(p, "sync", "running") => procs[p].knobs

LEMMA SoundCommands ==
  AskedInv <=> /\ TypeOK /\ NothingSkipped /\ ScheduledIsInitialized
               /\ Initialized => config \in asked
               /\ plist # {} => Initialized
               /\ \A p \in Procs : Sound(p)
BY DEF AskedInv, Asked, RunsAllAsked, Sound

\* A command that stays what it is stays sound, even when it gets unsure.
LEMMA SoundKept ==
  ASSUME TypeOK, NEW q \in Procs, Sound(q), procs'[q] \in {procs[q], Unsure(q)},
         asked \subseteq asked', Initialized => Initialized'
  PROVE  Sound(q)'
<1>1. CASE procs'[q] = procs[q]
  BY <1>1 DEF Sound, At, Built, Configured, FeishuConfigured
<1>2. CASE procs'[q] = Unsure(q) /\ procs[q].cmd = "sync"
  <2>1. /\ procs'[q].cmd = "sync" /\ procs'[q].pc = procs[q].pc
        /\ procs'[q].cfg = procs[q].cfg /\ procs'[q].knobs = procs[q].knobs
        /\ procs'[q].adapters = procs[q].adapters /\ procs'[q].wanted = procs[q].wanted
    BY <1>2, UnsureEffect
  <2>2. Configured(procs[q].cfg)' = Configured(procs[q].cfg)
    BY <2>1 DEF Configured, FeishuConfigured
  <2>3. QED  BY <1>2, <2>1, <2>2 DEF Sound, At, Built
<1>3. QED  BY <1>1, <1>2, UnsureEffect

LEMMA SoundIdle ==
  ASSUME NEW p, procs'[p] = Idle PROVE Sound(p)'
BY DEF Sound, At, Built, Idle

\* The steps of the others do not disturb the observations of the last command.
LEMMA LastKept ==
  ASSUME NothingSkipped, ScheduledIsInitialized, last' = last \/ last'.cmd # "sync"
  PROVE  NothingSkipped' /\ ScheduledIsInitialized'
BY DEF NothingSkipped, ScheduledIsInitialized, Configured, FeishuConfigured

\* What a step of init does to the commands and to what the last one showed.
LEMMA InitEffect ==
  ASSUME TypeOK, NEW p \in Procs,
         InitWrite(p) \/ InitRename(p) \/ InitProbe(p) \/ InitAuth(p)
  PROVE  /\ \/ procs'[p] = Idle
            \/ /\ procs'[p].cmd = "init"
               /\ procs'[p].pc = "writing" => procs'[p].cfg \in asked'
         /\ \A q \in Procs \ {p} : procs'[q] \in {procs[q], Unsure(q)}
         /\ UNCHANGED <<config, world>> \/ \A q \in Procs \ {p} : procs'[q] = Unsure(q)
         /\ last' = last \/ last'.cmd # "sync"
<1>1. procs[p] \in InitProcs /\ procs[p].cmd = "init"
  BY InitKind DEF InitWrite, InitRename, InitProbe, InitAuth, At
<1>2. CASE (\E exit \in {0, 1} : End(p, exit)) /\ UNCHANGED <<config, world>>
  <2>1. PICK exit \in {0, 1} : End(p, exit)  BY <1>2
  <2>2. last'.cmd = "init"  BY <1>1, <2>1 DEF End
  <2>3. procs'[p] = Idle /\ \A q \in Procs \ {p} : procs'[q] = procs[q]
    BY <2>1, RunEffect DEF End
  <2>4. QED  BY <1>2, <2>2, <2>3
<1>3. CASE InitWrite(p) /\ world.writable
  <2> DEFINE c == [procs[p] EXCEPT !.pc = "writing"]
  <2>1. c.cmd = "init" /\ c.cfg = procs[p].cfg  BY <1>1 DEF InitProcs
  <2>2. /\ Run(p, c) /\ last' = last /\ asked' = asked \cup {procs[p].cfg}
        /\ UNCHANGED <<config, world>>
    BY <1>3 DEF InitWrite, files
  <2> HIDE DEF c
  <2>3. QED  BY <2>1, <2>2, RunEffect
<1>4. CASE InitRename(p)
  <2> DEFINE c == [procs[p] EXCEPT !.pc = "login"]
  <2>1. c.cmd = "init" /\ c.pc = "login"  BY <1>1 DEF InitProcs
  <2>2. procs'[p] \in {c, Idle} /\ \A q \in Procs \ {p} : procs'[q] = Unsure(q)
    BY <1>4 DEF InitRename
  <2>3. last' = last \/ last'.cmd = "init"
    <3>1. last' = last \/ last' = [cmd |-> "init", exit |-> 0]  BY <1>4 DEF InitRename
    <3>2. QED  BY <3>1
  <2> HIDE DEF c
  <2>4. QED  BY <2>1, <2>2, <2>3
<1>5. ASSUME NEW t \in {"app", "token"}, At(p, "init", "login")
      PROVE  LET c == [procs[p] EXCEPT !.todo = t] IN c.cmd = "init" /\ c.pc = "login"
  BY <1>1, <1>5 DEF InitProcs, At
<1>6. CASE InitProbe(p) /\ ~ End(p, 0)
  <2>1. PICK t \in {"app", "token"} : Run(p, [procs[p] EXCEPT !.todo = t])
    BY <1>6 DEF InitProbe
  <2> DEFINE c == [procs[p] EXCEPT !.todo = t]
  <2>2. Run(p, c) /\ c.cmd = "init" /\ c.pc = "login"
    BY <1>5, <1>6, <2>1 DEF InitProbe
  <2>3. last' = last /\ UNCHANGED <<config, world>>  BY <1>6 DEF InitProbe, files
  <2> HIDE DEF c
  <2>4. QED  BY <2>2, <2>3, RunEffect
<1>7. CASE InitAuth(p) /\ ~ (End(p, 0) /\ UNCHANGED <<config, world>>)
  <2> DEFINE c == [procs[p] EXCEPT !.todo = "token"]
  <2>1. UNCHANGED config  BY <1>7 DEF InitAuth, files
  <2>2. \A q \in Procs \ {p} : procs'[q] = Unsure(q)  BY <1>7, <2>1 DEF InitAuth
  <2>3. \/ procs'[p] = c /\ last' = last
        \/ procs'[p] = Idle /\ last' = [cmd |-> "init", exit |-> 0]
    BY <1>7, <2>1 DEF InitAuth
  <2>4. last' = last \/ last'.cmd = "init"  BY <2>3
  <2>5. c.cmd = "init" /\ c.pc = "login"  BY <1>5, <1>7 DEF InitAuth
  <2> HIDE DEF c
  <2>6. QED  BY <2>2, <2>3, <2>4, <2>5
<1>8. CASE InitWrite(p) /\ ~ world.writable
  BY <1>2, <1>8 DEF InitWrite, ExitError, files
<1>9. CASE InitProbe(p) /\ End(p, 0)
  BY <1>2, <1>9 DEF InitProbe, files
<1>10. QED  BY <1>2, <1>3, <1>4, <1>6, <1>7, <1>8, <1>9

LEMMA InitKeepsAsked ==
  ASSUME AskedInv, TypeOK', NEW p \in Procs,
         InitWrite(p) \/ InitRename(p) \/ InitProbe(p) \/ InitAuth(p)
  PROVE  AskedInv'
<1>1. /\ procs[p] \in InitProcs /\ procs[p].cmd = "init" /\ procs[p].cfg \in Asks
      /\ procs[p].cfg # NoConfig
  BY InitKind, AsksAreConfigs DEF AskedInv, InitWrite, InitRename, InitProbe, InitAuth, At, InitProcs
<1>2. TypeOK /\ \A q \in Procs : Sound(q)  BY SoundCommands
<1>3. /\ asked \subseteq asked' /\ plist' = plist /\ (Initialized => Initialized')
  BY <1>1 DEF InitWrite, InitRename, InitProbe, InitAuth, files, Initialized
<1>4. Initialized' => config' \in asked'
  <2>1. CASE InitRename(p)
    BY <1>2, <2>1 DEF InitRename, Sound
  <2>2. CASE ~ InitRename(p)
    BY <1>3, <2>2 DEF InitWrite, InitProbe, InitAuth, files, Initialized, AskedInv, Asked
  <2>3. QED  BY <2>1, <2>2
<1>5. last' = last \/ last'.cmd # "sync"
  BY <1>1, InitEffect DEF AskedInv
<1>6. \A q \in Procs \ {p} : procs'[q] \in {procs[q], Unsure(q)}
  BY InitEffect DEF AskedInv
<1>7. Sound(p)'
  <2>1. CASE procs'[p] = Idle  BY <2>1, SoundIdle
  <2>2. CASE procs'[p].cmd = "init" /\ (procs'[p].pc = "writing" => procs'[p].cfg \in asked')
    BY <2>2 DEF Sound, At, Built
  <2>3. QED  BY <2>1, <2>2, InitEffect DEF AskedInv
<1>8. \A q \in Procs : Sound(q)'  BY <1>2, <1>3, <1>6, <1>7, SoundKept
<1>9. NothingSkipped' /\ ScheduledIsInitialized'  BY <1>5, LastKept DEF AskedInv
<1>10. plist' # {} => Initialized'  BY <1>3 DEF AskedInv, Asked
<1>11. QED  BY <1>4, <1>8, <1>9, <1>10 DEF AskedInv, Asked, RunsAllAsked, Sound

LEMMA SyncKeepsAsked ==
  ASSUME AskedInv, TypeOK', NEW p \in Procs, SyncBuild(p) \/ SyncOpen(p) \/ SyncRun(p)
  PROVE  AskedInv'
<1>1. /\ procs[p] \in SyncProcs /\ procs[p].cmd = "sync" /\ Sound(p) /\ Initialized
      /\ TypeOK /\ config \in asked /\ Load(config) = config
  BY SyncKind, SoundCommands DEF SyncBuild, SyncOpen, SyncRun, At, Sound, Initialized, Load
<1>2. UNCHANGED <<config, plist, asked>> /\ Initialized'
  BY <1>1 DEF SyncBuild, SyncOpen, SyncRun, files, Initialized
<1>3. ASSUME NEW c, procs'[p] = c, \A q \in Procs \ {p} : procs'[q] = procs[q], Sound(p)',
             NothingSkipped', ScheduledIsInitialized'
      PROVE  AskedInv'
  <2>1. ASSUME NEW q \in Procs PROVE Sound(q)'
    BY <1>1, <1>2, <1>3, SoundKept, SoundCommands
  <2>2. QED
    BY <1>1, <1>2, <1>3, <2>1 DEF AskedInv, Asked, RunsAllAsked, Sound
<1>4. ASSUME NEW exit, NEW unmet, SyncEnd(p, exit, unmet), exit \in {0, 1},
             exit = 0 => Built(p)
      PROVE  AskedInv'
  <2>1. procs'[p] = Idle /\ \A q \in Procs \ {p} : procs'[q] = procs[q]
    BY <1>1, <1>4, RunEffect DEF SyncEnd
  <2>2. /\ last'.exit = exit /\ last'.cfg = procs[p].cfg
        /\ last'.ran = procs[p].adapters /\ last'.wanted = procs[p].wanted
    BY <1>4 DEF SyncEnd
  <2>3. NothingSkipped'
    <3>1. Configured(last.cfg)' = Configured(procs[p].cfg)
      BY <2>2 DEF Configured, FeishuConfigured
    <3>2. QED  BY <1>1, <1>4, <2>2, <3>1 DEF NothingSkipped, Sound
  <2>4. ScheduledIsInitialized'  BY <1>4, <2>2 DEF ScheduledIsInitialized
  <2>5. QED  BY <1>3, <2>1, <2>3, <2>4, SoundIdle
<1>5. CASE SyncRun(p)
  BY <1>4, <1>5 DEF SyncRun, Built
<1>6. CASE SyncBuild(p)
  <2>1. CASE SyncEnd(p, ExitError, {"token"})  BY <1>4, <2>1 DEF ExitError
  <2>2. CASE ~ SyncEnd(p, ExitError, {"token"})
    <3> DEFINE vals == ResolveEnv(procs[p].env)
               c == [procs[p] EXCEPT !.pc = "built", !.cfg = config, !.vals = vals,
                                     !.adapters = Configured(config) \cap procs[p].wanted]
    <3>1. Run(p, c) /\ last' = last  BY <1>1, <1>6, <2>2 DEF SyncBuild
    <3>2. /\ c.cmd = "sync" /\ c.pc = "built" /\ c.cfg = config /\ c.wanted = procs[p].wanted
          /\ c.adapters = Configured(config) \cap procs[p].wanted
      BY <1>1 DEF SyncProcs
    <3>3. procs'[p] = c /\ \A q \in Procs \ {p} : procs'[q] = procs[q]
      BY <1>1, <3>1, RunEffect
    <3>4. Sound(p)'
      <4> HIDE DEF c
      <4>1. Configured(procs[p].cfg)' = Configured(config)
        BY <3>2, <3>3 DEF Configured, FeishuConfigured
      <4>2. QED  BY <1>1, <1>2, <3>2, <3>3, <4>1 DEF Sound, At, Built
    <3>5. QED  BY <1>3, <3>1, <3>3, <3>4, LastKept DEF AskedInv
  <2>3. QED  BY <2>1, <2>2
<1>7. CASE SyncOpen(p)
  <2>1. CASE ~ world.writable
    BY <1>4, <1>7, <2>1 DEF SyncOpen, ExitError
  <2>2. CASE world.writable
    <3> DEFINE c == [procs[p] EXCEPT !.pc = "running", !.knobs = config.knobs]
    <3>1. Run(p, c) /\ last' = last /\ Built(p)
      BY <1>1, <1>7, <2>2 DEF SyncOpen, Built
    <3>2. /\ c.cmd = "sync" /\ c.pc = "running" /\ c.cfg = procs[p].cfg
          /\ c.wanted = procs[p].wanted /\ c.adapters = procs[p].adapters
          /\ c.knobs = config.knobs
      BY <1>1 DEF SyncProcs
    <3>3. procs'[p] = c /\ \A q \in Procs \ {p} : procs'[q] = procs[q]
      BY <1>1, <3>1, RunEffect
    <3>4. config.knobs = TRUE
      BY <1>1, AsksAreConfigs DEF TypeOK
    <3>5. Sound(p)'
      <4> HIDE DEF c
      <4>1. Configured(procs[p].cfg)' = Configured(procs[p].cfg)
        BY <3>2, <3>3 DEF Configured, FeishuConfigured
      <4>2. QED  BY <1>1, <1>2, <3>1, <3>2, <3>3, <3>4, <4>1 DEF Sound, At, Built
    <3>6. QED  BY <1>3, <3>1, <3>3, <3>5, LastKept DEF AskedInv
  <2>3. QED  BY <2>1, <2>2
<1>8. QED  BY <1>5, <1>6, <1>7

\* The remaining steps change no configuration and start no running sync.
LEMMA OthersKeepAsked ==
  ASSUME AskedInv, TypeOK', UNCHANGED <<config, asked>>,
         plist' # {} => Initialized,
         \A q \in Procs : procs'[q] \in {procs[q], Unsure(q)} \/ Sound(q)',
         NothingSkipped' /\ ScheduledIsInitialized'
  PROVE  AskedInv'
<1>1. ASSUME NEW q \in Procs PROVE Sound(q)'
  BY SoundKept, SoundCommands DEF Initialized
<1>2. (Initialized => config \in asked)' /\ (plist # {} => Initialized)'
  BY DEF Initialized, AskedInv, Asked
<1>3. QED  BY <1>1, <1>2 DEF AskedInv, Asked, RunsAllAsked, Sound

LEMMA NextKeepsAsked ==
  ASSUME AskedInv, [Next]_vars PROVE AskedInv'
<1> DEFINE Kept == /\ UNCHANGED <<config, asked>> /\ (plist' # {} => Initialized)
                   /\ \A q \in Procs : procs'[q] \in {procs[q], Unsure(q)} \/ Sound(q)'
<1>1. TypeOK /\ TypeOK' /\ NothingSkipped /\ ScheduledIsInitialized
  BY NextTypes DEF AskedInv
<1>2. ASSUME Kept, last' = last \/ last'.cmd # "sync" PROVE AskedInv'
  BY <1>1, <1>2, OthersKeepAsked, LastKept
<1>3. plist # {} => Initialized  BY DEF AskedInv, Asked
<1>4. CASE UNCHANGED vars
  BY <1>2, <1>3, <1>4 DEF vars, files, counts
<1>5. ASSUME NEW forced \in SUBSET Platforms, Doctor(forced) PROVE AskedInv'
  <2>1. Kept  BY <1>3, <1>5 DEF Doctor, files
  <2>2. last'.cmd = "doctor"  BY <1>5 DEF Doctor
  <2>3. QED  BY <1>2, <2>1, <2>2
<1>6. ASSUME NEW p \in Procs, NEW force \in BOOLEAN, NEW interactive \in BOOLEAN,
             NEW cfg \in Asks, InitStart(p, force, interactive, cfg)
      PROVE  AskedInv'
  <2> DEFINE c == [cmd |-> "init", pc |-> "asking", cfg |-> cfg, force |-> force,
                   interactive |-> interactive, todo |-> "probe"]
  <2>1. CASE Initialized /\ ~ force
    <3>1. last' = [cmd |-> "init", exit |-> ExitError] /\ procs' = procs
      BY <1>6, <2>1 DEF InitStart
    <3>2. Kept  BY <1>3, <1>6, <3>1 DEF InitStart, files
    <3>3. QED  BY <1>2, <3>1, <3>2
  <2>2. CASE ~ (Initialized /\ ~ force)
    <3>1. Run(p, c) /\ last' = last  BY <1>6, <2>2 DEF InitStart
    <3>2. procs'[p] = c /\ \A q \in Procs \ {p} : procs'[q] = procs[q]
      BY <1>1, <3>1, RunEffect
    <3>3. Sound(p)'  BY <3>2 DEF Sound, At, Built
    <3>4. Kept  BY <1>3, <1>6, <3>2, <3>3 DEF InitStart, files
    <3>5. QED  BY <1>2, <3>1, <3>4
  <2>3. QED  BY <2>1, <2>2
<1>7. ASSUME NEW p \in Procs, NEW env \in Environments,
             NEW wanted \in {Platforms, {"feishu"}, {"notion"}}, SyncStart(p, env, wanted)
      PROVE  AskedInv'
  <2> DEFINE c == [cmd |-> "sync", pc |-> "started", env |-> env, wanted |-> wanted,
                   adapters |-> {}, cfg |-> Default, knobs |-> TRUE, vals |-> Unset,
                   sure |-> ready /\ ResolveEnv(env) = ResolveEnv("shell")]
  <2>1. CASE ~ Initialized
    <3>1. /\ last' = [cmd |-> "sync", exit |-> 3, env |-> env] /\ procs' = procs
          /\ env # "launchd"
      BY <1>3, <1>7, <2>1 DEF SyncStart
    <3>2. Kept  BY <1>3, <1>7, <3>1 DEF SyncStart, files
    <3>3. NothingSkipped' /\ ScheduledIsInitialized'
      BY <3>1 DEF NothingSkipped, ScheduledIsInitialized
    <3>4. QED  BY <1>1, <3>2, <3>3, OthersKeepAsked
  <2>2. CASE Initialized
    <3>1. Run(p, c) /\ last' = last  BY <1>7, <2>2 DEF SyncStart
    <3>2. procs'[p] = c /\ \A q \in Procs \ {p} : procs'[q] = procs[q]
      BY <1>1, <3>1, RunEffect
    <3>3. Sound(p)'
      <4>1. procs'[p].cmd = "sync" /\ procs'[p].pc = "started"  BY <3>2
      <4>2. Initialized'  BY <1>7, <2>2 DEF SyncStart, files, Initialized
      <4>3. QED  BY <4>1, <4>2 DEF Sound, At, Built
    <3>4. Kept  BY <1>3, <1>7, <3>2, <3>3 DEF SyncStart, files
    <3>5. QED  BY <1>2, <3>1, <3>4
  <2>3. QED  BY <2>1, <2>2
<1>8. ASSUME NEW p \in Procs, Crash(p) PROVE AskedInv'
  <2>1. procs'[p] = Idle /\ \A q \in Procs \ {p} : procs'[q] = procs[q]
    BY <1>1, <1>8, RunEffect DEF Crash
  <2>2. Kept  BY <1>3, <1>8, <2>1, SoundIdle DEF Crash, files
  <2>3. QED  BY <1>2, <1>8, <2>2 DEF Crash
<1>9. CASE ScheduleAt
  <2>1. Kept  BY <1>3, <1>9 DEF ScheduleAt
  <2>2. last'.cmd = "schedule"  BY <1>9 DEF ScheduleAt
  <2>3. QED  BY <1>2, <2>1, <2>2
<1>10. CASE ScheduleRemove
  <2>1. Kept  BY <1>3, <1>10 DEF ScheduleRemove
  <2>2. last'.cmd = "schedule"  BY <1>10 DEF ScheduleRemove
  <2>3. QED  BY <1>2, <2>1, <2>2
<1>11. CASE Launchctl
  <2>1. Kept  BY <1>3, <1>11 DEF Launchctl
  <2>2. QED  BY <1>2, <1>11, <2>1 DEF Launchctl
<1>12. CASE Change
  <2>1. Kept  BY <1>3, <1>12 DEF Change, files
  <2>2. QED  BY <1>2, <1>12, <2>1 DEF Change
<1>13. QED
  BY <1>1, <1>4, <1>5, <1>6, <1>7, InitKeepsAsked, SyncKeepsAsked, <1>8, <1>9, <1>10, <1>11, <1>12
  DEF Next

LEMMA InitAsked == Init => AskedInv
<1>1. SUFFICES ASSUME Init PROVE AskedInv  OBVIOUS
<1>2. TypeOK  BY <1>1, InitTypes
<1>3. QED
  BY <1>1, <1>2
  DEF Init, AskedInv, Asked, RunsAllAsked, Initialized, NothingSkipped,
      ScheduledIsInitialized, At, Built, Idle

LEMMA AskedAlways == Spec => []AskedInv
<1>1. AskedInv /\ [Next]_vars => AskedInv'  BY NextKeepsAsked
<1>2. QED  BY <1>1, InitAsked, PTL DEF Spec

\* A sync runs a configuration that an init was asked for, with all that it
\* says, however many commands write, read and die at once.
THEOREM RunsAsAskedAlways == Spec => []RunsAsAsked
<1>1. AskedInv => RunsAsAsked  BY DEF AskedInv, RunsAllAsked, RunsAsAsked, Built
<1>2. QED  BY <1>1, AskedAlways, PTL

\* A sync that ends with 0 ran every platform configured and not excluded.
THEOREM NothingSkippedAlways == Spec => []NothingSkipped
<1>1. AskedInv => NothingSkipped  BY DEF AskedInv
<1>2. QED  BY <1>1, AskedAlways, PTL

\* launchd starts no sync of a mirror that has no configuration.
THEOREM ScheduledAlwaysInitialized == Spec => []ScheduledIsInitialized
<1>1. AskedInv => ScheduledIsInitialized  BY DEF AskedInv
<1>2. QED  BY <1>1, AskedAlways, PTL

-----------------------------------------------------------------------------
(* What doctor promises.  As long as nothing changes, the world grants what   *)
(* the probes asked of it; a sync that is sure still sees the configuration   *)
(* and the variables that doctor saw.                                         *)

Granted(cfg, vals) ==
  /\ world.writable
  /\ FeishuConfigured(cfg) =>
       /\ vals.lark \notin {"old", "gone"} /\ world.auth = "ready"
       /\ "wiki" \in cfg.sources => "wiki" \in world.granted
       /\ {"drive", "library"} \cap cfg.sources # {} => "files" \in world.granted
       /\ \A t \in cfg.sources \ {"library"} : t \in world.reach
  /\ cfg.notion => vals.token \notin {"none", "stale"}

Promised == Initialized /\ Granted(config, ResolveEnv("shell"))

Sure(p) ==
  procs[p].cmd = "sync" /\ procs[p].sure =>
    /\ Promised
    /\ ResolveEnv(procs[p].env) = ResolveEnv("shell")
    /\ Built(p) => procs[p].cfg = config /\ procs[p].vals = ResolveEnv(procs[p].env)

SureInv ==
  /\ AskedInv
  /\ ready => Promised
  /\ \A p \in Procs : Sure(p)
  /\ ReadyIsServed

LEMMA NoProbeFails ==
  ASSUME NEW cfg \in Configs, NEW vals, NEW forced, Probes(cfg, vals, forced) = {}
  PROVE  Granted(cfg, vals)
<1>1. /\ CheckMirrorRoot = {} /\ FeishuLine(cfg, vals, "feishu" \in forced) = {}
      /\ NotionLine(cfg, vals, "notion" \in forced) = {}
  BY DEF Probes
<1>2. world.writable
  BY <1>1 DEF CheckMirrorRoot, Failing
<1>3. ASSUME cfg.notion PROVE vals.token \notin {"none", "stale"}
  <2>1. CheckNotionEnv(vals) = {} /\ CheckNotionToken(vals) = {}
    BY <1>1, <1>3 DEF NotionLine
  <2>2. QED  BY <2>1 DEF CheckNotionEnv, CheckNotionToken, Failing
<1>4. ASSUME FeishuConfigured(cfg)
      PROVE  /\ vals.lark \notin {"old", "gone"} /\ world.auth = "ready"
             /\ "wiki" \in cfg.sources => "wiki" \in world.granted
             /\ {"drive", "library"} \cap cfg.sources # {} => "files" \in world.granted
             /\ \A t \in cfg.sources \ {"library"} : t \in world.reach
  <2> DEFINE forcedToo == "feishu" \in forced
  <2>1. /\ CheckLarkPresence(vals) = {} /\ CheckLarkAuth = {}
        /\ CheckLarkScopes(cfg, forcedToo) = {} /\ CheckMirrorScope(cfg) = {}
    BY <1>1, <1>4 DEF FeishuLine
  <2>2. vals.lark \notin {"old", "gone"} /\ world.auth = "ready"
    BY <2>1 DEF CheckLarkPresence, CheckLarkAuth, Failing
  <2>3. /\ "wiki" \in cfg.sources => "wiki" \in world.granted
        /\ {"drive", "library"} \cap cfg.sources # {} => "files" \in world.granted
    BY <2>1 DEF CheckLarkScopes, Failing, Denied
  <2>4. \A t \in cfg.sources \ {"library"} : t \in world.reach
    BY <2>1 DEF CheckMirrorScope, Failing, TargetAccessible
  <2>5. QED  BY <2>2, <2>3, <2>4
<1>5. QED  BY <1>2, <1>3, <1>4 DEF Granted

\* What is promised depends on the configuration and the world alone.
LEMMA PromisedKept ==
  ASSUME UNCHANGED <<config, world>>
  PROVE  (Promised <=> Promised') /\ \A env : ResolveEnv(env)' = ResolveEnv(env)
BY DEF Promised, Initialized, Granted, FeishuConfigured, ResolveEnv, Getenv

LEMMA SureKept ==
  ASSUME NEW q, Sure(q), procs'[q] = procs[q], UNCHANGED <<config, world>>
  PROVE  Sure(q)'
BY PromisedKept DEF Sure, Built, At

LEMMA UnsureIsSure ==
  ASSUME TypeOK, NEW q \in Procs, procs'[q] = Unsure(q)
  PROVE  Sure(q)'
BY UnsureEffect DEF Sure

LEMMA NoSyncIsSure ==
  ASSUME NEW q, procs'[q].cmd # "sync" PROVE Sure(q)'
BY DEF Sure

LEMMA ServedKept ==
  ASSUME ReadyIsServed, last' = last \/ last'.cmd # "sync"
  PROVE  ReadyIsServed'
BY DEF ReadyIsServed

\* A step is harmless that leaves the configuration and the world alone.
LEMMA HarmlessStep ==
  ASSUME SureInv, AskedInv', UNCHANGED <<config, world>>,
         ready' => Promised',
         \A q \in Procs : Sure(q)' \/ procs'[q] = procs[q],
         ReadyIsServed'
  PROVE  SureInv'
<1>1. ASSUME NEW q \in Procs PROVE Sure(q)'
  BY SureKept DEF SureInv
<1>2. QED  BY <1>1 DEF SureInv

LEMMA InitKeepsSure ==
  ASSUME SureInv, AskedInv', NEW p \in Procs,
         InitWrite(p) \/ InitRename(p) \/ InitProbe(p) \/ InitAuth(p)
  PROVE  SureInv'
<1>1. TypeOK /\ procs[p] \in InitProcs  BY InitKind
  DEF SureInv, AskedInv, InitWrite, InitRename, InitProbe, InitAuth, At
<1>2. procs'[p].cmd # "sync" /\ (last' = last \/ last'.cmd # "sync")
  BY <1>1, InitEffect DEF Idle
<1>3. Sure(p)' /\ ReadyIsServed'
  BY <1>2, NoSyncIsSure, ServedKept DEF SureInv
<1>4. ready' => ready /\ UNCHANGED <<config, world>>
  BY DEF InitWrite, InitRename, InitProbe, InitAuth, files
<1>5. ready' => Promised'
  BY <1>4, PromisedKept DEF SureInv
<1>6. ASSUME NEW q \in Procs \ {p} PROVE Sure(q)'
  <2>1. procs'[q] = Unsure(q) \/ procs'[q] = procs[q]  BY <1>1, InitEffect
  <2>2. UNCHANGED <<config, world>> \/ procs'[q] = Unsure(q)  BY <1>1, InitEffect
  <2>3. Sure(q)  BY DEF SureInv
  <2>4. QED  BY <1>1, <2>1, <2>2, <2>3, SureKept, UnsureIsSure
<1>7. QED  BY <1>3, <1>5, <1>6 DEF SureInv

\* A sync that is sure of what doctor said is not refused for want of it.
LEMMA SureIsServed ==
  ASSUME SureInv, NEW p \in Procs, SyncBuild(p) \/ SyncOpen(p) \/ SyncRun(p)
  PROVE  ReadyIsServed'
<1>1. TypeOK /\ procs[p].cmd = "sync" /\ Initialized /\ Load(config) = config /\ Sure(p)
  BY DEF SureInv, AskedInv, Asked, SyncBuild, SyncOpen, SyncRun, At, Initialized, Load
<1>2. CASE last' = last  BY <1>2, ServedKept DEF SureInv
<1>3. CASE ~ procs[p].sure /\ last'.sure = procs[p].sure
  BY <1>3 DEF ReadyIsServed
<1>4. CASE procs[p].sure
  <2>1. /\ Granted(config, ResolveEnv(procs[p].env))
        /\ Built(p) => procs[p].cfg = config /\ procs[p].vals = ResolveEnv(procs[p].env)
    BY <1>1, <1>4 DEF Sure, Promised
  <2>2. CASE SyncBuild(p)
    <3>1. ~ (config.notion /\ ResolveEnv(procs[p].env).token = "none")
      BY <2>1 DEF Granted
    <3>2. last' = last  BY <1>1, <2>2, <3>1 DEF SyncBuild
    <3>3. QED  BY <1>2, <3>2
  <2>3. CASE SyncOpen(p)
    <3>1. world.writable  BY <2>1 DEF Granted
    <3>2. last' = last  BY <2>3, <3>1 DEF SyncOpen
    <3>3. QED  BY <1>2, <3>2
  <2>4. CASE SyncRun(p)
    <3> DEFINE sources == config.sources
               vals == ResolveEnv(procs[p].env)
    <3>1. Built(p) /\ procs[p].cfg = config /\ procs[p].vals = vals
      BY <2>1, <2>4 DEF SyncRun, Built
    <3>2. procs[p].adapters \subseteq Configured(config)
      BY <3>1 DEF SureInv, AskedInv, RunsAllAsked
    <3>3. ASSUME NEW n \in FeishuNeeds(sources), "feishu" \in procs[p].adapters,
                 ~ Met(n, sources, vals)
          PROVE  n = "metas" \/ (n = "wiki" /\ "library" \in sources)
      <4> HIDE DEF vals
      <4>1. FeishuConfigured(config)
        BY <3>2, <3>3 DEF Configured
      <4>2. Granted(config, vals)  BY <2>1 DEF vals
      <4>3. /\ vals.lark \notin {"old", "gone"} /\ world.auth = "ready"
            /\ "wiki" \in sources => "wiki" \in world.granted
            /\ {"drive", "library"} \cap sources # {} => "files" \in world.granted
            /\ \A t \in sources \ {"library"} : t \in world.reach
        BY <4>1, <4>2 DEF Granted
      <4>4. QED  BY <3>3, <4>3 DEF FeishuNeeds, Met
    <3>4. ASSUME "notion" \in procs[p].adapters PROVE vals.token # "stale"
      <4>1. config.notion  BY <3>2, <3>4 DEF Configured
      <4>2. QED  BY <2>1, <4>1 DEF Granted
    <3>5. Unmet(p) \subseteq {"metas"} \cup (IF "library" \in sources THEN {"wiki"} ELSE {})
      BY <3>1, <3>3, <3>4 DEF Unmet
    <3>6. last'.exit = 0 /\ last'.unmet = Unmet(p) /\ last'.cfg = config
      BY <2>4, <3>1 DEF SyncRun, SyncEnd
    <3>7. QED  BY <3>5, <3>6 DEF ReadyIsServed
  <2>5. QED  BY <2>2, <2>3, <2>4
<1>5. last' = last \/ last'.sure = procs[p].sure
  <2>1. ASSUME NEW exit, NEW unmet, SyncEnd(p, exit, unmet) PROVE last'.sure = procs[p].sure
    BY <2>1 DEF SyncEnd
  <2>2. QED  BY <2>1 DEF SyncBuild, SyncOpen, SyncRun
<1>6. QED  BY <1>2, <1>3, <1>4, <1>5

LEMMA SyncKeepsSure ==
  ASSUME SureInv, AskedInv', NEW p \in Procs, SyncBuild(p) \/ SyncOpen(p) \/ SyncRun(p)
  PROVE  SureInv'
<1>1. /\ TypeOK /\ procs[p] \in SyncProcs /\ procs[p].cmd = "sync" /\ Initialized
      /\ Load(config) = config /\ Sure(p)
  BY SyncKind
  DEF SureInv, AskedInv, Asked, SyncBuild, SyncOpen, SyncRun, At, Initialized, Load
<1>2. UNCHANGED <<config, world>> /\ (ready' => ready)
  BY DEF SyncBuild, SyncOpen, SyncRun, files
<1>3. ready' => Promised'  BY <1>2, PromisedKept DEF SureInv
<1>4. ASSUME NEW c, Run(p, c), Sure(p)' PROVE SureInv'
  BY <1>1, <1>2, <1>3, <1>4, RunEffect, SureIsServed, HarmlessStep
<1>5. ASSUME NEW exit, NEW unmet, SyncEnd(p, exit, unmet) PROVE SureInv'
  <2>1. Run(p, Idle)  BY <1>5 DEF SyncEnd
  <2>2. procs'[p].cmd # "sync"  BY <1>1, <2>1, RunEffect DEF Idle
  <2>3. QED  BY <1>4, <2>1, <2>2, NoSyncIsSure
<1>6. CASE SyncBuild(p) /\ ~ SyncEnd(p, ExitError, {"token"})
  <2> DEFINE vals == ResolveEnv(procs[p].env)
             c == [procs[p] EXCEPT !.pc = "built", !.cfg = config, !.vals = vals,
                                   !.adapters = Configured(config) \cap procs[p].wanted]
  <2>1. Run(p, c)  BY <1>1, <1>6 DEF SyncBuild
  <2>2. /\ c.cmd = "sync" /\ c.cfg = config /\ c.vals = vals /\ c.env = procs[p].env
        /\ c.sure = procs[p].sure
    BY <1>1 DEF SyncProcs
  <2>3. procs'[p] = c  BY <1>1, <2>1, RunEffect
  <2>4. Sure(p)'
    <3> HIDE DEF c
    <3>1. QED  BY <1>1, <1>2, <2>2, <2>3, PromisedKept DEF Sure
  <2>5. QED  BY <1>4, <2>1, <2>4
<1>7. CASE SyncOpen(p) /\ world.writable
  <2> DEFINE c == [procs[p] EXCEPT !.pc = "running", !.knobs = config.knobs]
  <2>1. Run(p, c) /\ Built(p)  BY <1>1, <1>7 DEF SyncOpen, Built
  <2>2. /\ c.cmd = "sync" /\ c.cfg = procs[p].cfg /\ c.vals = procs[p].vals
        /\ c.env = procs[p].env /\ c.sure = procs[p].sure
    BY <1>1 DEF SyncProcs
  <2>3. procs'[p] = c  BY <1>1, <2>1, RunEffect
  <2>4. Sure(p)'
    <3> HIDE DEF c
    <3>1. QED  BY <1>1, <1>2, <2>1, <2>2, <2>3, PromisedKept DEF Sure
  <2>5. QED  BY <1>4, <2>1, <2>4
<1>8. QED  BY <1>5, <1>6, <1>7 DEF SyncOpen, SyncRun

LEMMA NextKeepsSure ==
  ASSUME SureInv, [Next]_vars PROVE SureInv'
<1>1. TypeOK /\ AskedInv /\ AskedInv' /\ ReadyIsServed /\ (ready => Promised)
  BY NextKeepsAsked DEF SureInv, AskedInv
<1>2. ASSUME UNCHANGED <<config, world>>, ready' => Promised,
             \A q \in Procs : procs'[q] = procs[q] \/ Sure(q)',
             last' = last \/ last'.cmd # "sync" \/ last'.exit = 3
      PROVE  SureInv'
  <2>1. ReadyIsServed'  BY <1>1, <1>2 DEF ReadyIsServed
  <2>2. ready' => Promised'  BY <1>2, PromisedKept
  <2>3. QED  BY <1>1, <1>2, <2>1, <2>2, HarmlessStep
<1>3. CASE UNCHANGED vars
  BY <1>1, <1>2, <1>3 DEF vars, files, counts
<1>4. ASSUME NEW forced \in SUBSET Platforms, Doctor(forced) PROVE SureInv'
  <2>1. UNCHANGED <<config, world, procs>> /\ last'.cmd = "doctor"
    BY <1>4 DEF Doctor, files
  <2>2. ASSUME ready' PROVE Promised
    <3> DEFINE failed == Probes(Load(config), ResolveEnv("shell"), forced)
    <3> HIDE DEF failed
    <3>1. Initialized /\ failed = {}
      <4>1. ready' = (last'.exit = 0)  BY <1>4 DEF Doctor
      <4>2. last'.exit = 0  BY <2>2, <4>1, Zenon
      <4>3. last'.exit = 0 => Initialized /\ failed = {}
        BY <1>4 DEF Doctor, ExitError, failed
      <4>4. QED  BY <4>2, <4>3
    <3>2. Load(config) = config /\ config \in Configs
      BY <1>1, <3>1 DEF Load, Initialized, TypeOK
    <3>3. QED  BY <3>1, <3>2, NoProbeFails DEF Promised, failed
  <2>3. QED  BY <1>2, <2>1, <2>2
<1>5. ASSUME NEW p \in Procs, NEW force \in BOOLEAN, NEW interactive \in BOOLEAN,
             NEW cfg \in Asks, InitStart(p, force, interactive, cfg)
      PROVE  SureInv'
  <2> DEFINE c == [cmd |-> "init", pc |-> "asking", cfg |-> cfg, force |-> force,
                   interactive |-> interactive, todo |-> "probe"]
  <2>1. UNCHANGED <<config, world, ready>>  BY <1>5 DEF InitStart, files
  <2>2. last' = last \/ last'.cmd # "sync"
    <3>1. last' = last \/ last' = [cmd |-> "init", exit |-> ExitError]
      BY <1>5 DEF InitStart
    <3>2. QED  BY <3>1
  <2>3. procs' = procs \/ Run(p, c)  BY <1>5 DEF InitStart
  <2>4. ASSUME Run(p, c) PROVE Sure(p)' /\ \A q \in Procs \ {p} : procs'[q] = procs[q]
    <3>1. procs'[p].cmd # "sync"  BY <1>1, <2>4, RunEffect
    <3>2. QED  BY <1>1, <2>4, <3>1, RunEffect, NoSyncIsSure
  <2> HIDE DEF c
  <2>5. QED  BY <1>1, <1>2, <2>1, <2>2, <2>3, <2>4
<1>6. ASSUME NEW p \in Procs, NEW env \in Environments,
             NEW wanted \in {Platforms, {"feishu"}, {"notion"}}, SyncStart(p, env, wanted)
      PROVE  SureInv'
  <2> DEFINE same == ready /\ ResolveEnv(env) = ResolveEnv("shell")
             c == [cmd |-> "sync", pc |-> "started", env |-> env, wanted |-> wanted,
                   adapters |-> {}, cfg |-> Default, knobs |-> TRUE, vals |-> Unset,
                   sure |-> same]
  <2>1. UNCHANGED <<config, world, ready>>  BY <1>6 DEF SyncStart, files
  <2>2. last' = last \/ last'.exit = 3
    <3>1. last' = last \/ last' = [cmd |-> "sync", exit |-> 3, env |-> env]
      BY <1>6 DEF SyncStart
    <3>2. QED  BY <3>1
  <2>3. procs' = procs \/ Run(p, c)  BY <1>6 DEF SyncStart
  <2>4. ASSUME Run(p, c) PROVE Sure(p)' /\ \A q \in Procs \ {p} : procs'[q] = procs[q]
    <3>1. procs'[p] = c /\ \A q \in Procs \ {p} : procs'[q] = procs[q]
      BY <1>1, <2>4, RunEffect
    <3>2. c.env = env /\ c.sure = same /\ c.pc = "started"  OBVIOUS
    <3>3. Sure(p)'
      <4> HIDE DEF c
      <4>1. QED
        BY <1>1, <2>1, <3>1, <3>2, PromisedKept DEF Sure, Built, At
    <3>4. QED  BY <3>1, <3>3
  <2> HIDE DEF c
  <2>5. QED  BY <1>1, <1>2, <2>1, <2>2, <2>3, <2>4
<1>7. ASSUME NEW p \in Procs, Crash(p) PROVE SureInv'
  <2>1. Run(p, Idle) /\ UNCHANGED <<config, world, ready, last>>
    BY <1>7 DEF Crash, files
  <2>2. procs'[p].cmd # "sync" /\ \A q \in Procs \ {p} : procs'[q] = procs[q]
    BY <1>1, <2>1, RunEffect DEF Idle
  <2>3. QED  BY <1>1, <1>2, <2>1, <2>2, NoSyncIsSure
<1>8. CASE ScheduleAt \/ ScheduleRemove
  <2>1. UNCHANGED <<config, world, procs, ready>> /\ last'.cmd = "schedule"
    BY <1>8 DEF ScheduleAt, ScheduleRemove
  <2>2. QED  BY <1>1, <1>2, <2>1
<1>9. CASE Launchctl
  BY <1>1, <1>2, <1>9 DEF Launchctl
<1>10. CASE Change
  <2>1. ~ ready' /\ last' = last /\ \A q \in Procs : procs'[q] = Unsure(q)
    BY <1>10 DEF Change
  <2>2. ReadyIsServed'  BY <1>1, <2>1, ServedKept
  <2>3. \A q \in Procs : Sure(q)'  BY <1>1, <2>1, UnsureIsSure
  <2>4. QED  BY <1>1, <2>1, <2>2, <2>3 DEF SureInv
<1>11. QED
  BY <1>1, <1>3, <1>4, <1>5, <1>6, InitKeepsSure, SyncKeepsSure, <1>7, <1>8, <1>9, <1>10 DEF Next

\* What doctor passed is served: while nothing changes, a sync that reads the
\* same variables is admitted and refused nothing that doctor probes.
THEOREM ReadyAlwaysServed == Spec => []ReadyIsServed
<1>1. Init => SureInv
  <2>1. SUFFICES ASSUME Init PROVE SureInv  OBVIOUS
  <2>2. AskedInv  BY <2>1, InitAsked
  <2>3. QED  BY <2>1, <2>2 DEF Init, SureInv, Sure, ReadyIsServed, Idle
<1>2. SureInv /\ [Next]_vars => SureInv'  BY NextKeepsSure
<1>3. SureInv => ReadyIsServed  BY DEF SureInv
<1>4. QED  BY <1>1, <1>2, <1>3, PTL DEF Spec

-----------------------------------------------------------------------------
(* Sequences and what their elements list. *)

Elements(s) == {s[n] : n \in DOMAIN s}

LEMMA HeadAndTail ==
  ASSUME NEW S, NEW s \in Seq(S), s # <<>>
  PROVE  /\ Head(s) \in S /\ Tail(s) \in Seq(S)
         /\ Elements(s) = {Head(s)} \cup Elements(Tail(s))
<1>1. Head(s) \in S /\ Tail(s) \in Seq(S)  OBVIOUS
<1>2. ASSUME NEW x \in Elements(s) PROVE x \in {Head(s)} \cup Elements(Tail(s))
  <2>1. PICK n \in 1..Len(s) : x = s[n]  BY <1>2 DEF Elements
  <2>2. CASE n = 1  BY <2>1, <2>2
  <2>3. CASE n # 1
    <3>1. n - 1 \in DOMAIN Tail(s) /\ Tail(s)[n - 1] = s[n]  BY <2>1, <2>3
    <3>2. QED  BY <2>1, <3>1 DEF Elements
  <2>4. QED  BY <2>2, <2>3
<1>3. ASSUME NEW x \in Elements(Tail(s)) PROVE x \in Elements(s)
  <2>1. PICK n \in DOMAIN Tail(s) : x = Tail(s)[n]  BY <1>3 DEF Elements
  <2>2. n + 1 \in DOMAIN s /\ s[n + 1] = Tail(s)[n]  BY <2>1
  <2>3. QED  BY <2>1, <2>2 DEF Elements
<1>4. Head(s) \in Elements(s)
  <2>1. 1 \in DOMAIN s /\ Head(s) = s[1]  OBVIOUS
  <2>2. QED  BY <2>1 DEF Elements
<1>5. QED  BY <1>1, <1>2, <1>3, <1>4

LEMMA ElementsOfAppend ==
  ASSUME NEW S, NEW s \in Seq(S), NEW x \in S
  PROVE  Append(s, x) \in Seq(S) /\ Elements(Append(s, x)) = Elements(s) \cup {x}
<1>1. Append(s, x) \in Seq(S) /\ DOMAIN Append(s, x) = DOMAIN s \cup {Len(s) + 1}  OBVIOUS
<1>2. \A n \in DOMAIN s : Append(s, x)[n] = s[n]  OBVIOUS
<1>3. Append(s, x)[Len(s) + 1] = x  OBVIOUS
<1>4. QED  BY <1>1, <1>2, <1>3 DEF Elements

LEMMA ElementsOfConcatenation ==
  ASSUME NEW S, NEW s \in Seq(S), NEW t \in Seq(S)
  PROVE  s \o t \in Seq(S) /\ Elements(s \o t) = Elements(s) \cup Elements(t)
<1>1. s \o t \in Seq(S)  OBVIOUS
<1>2. ASSUME NEW x \in Elements(s \o t) PROVE x \in Elements(s) \cup Elements(t)
  <2>1. PICK n \in 1..Len(s \o t) : x = (s \o t)[n]  BY <1>1, <1>2 DEF Elements
  <2>2. CASE n <= Len(s)
    <3>1. n \in DOMAIN s /\ (s \o t)[n] = s[n]  BY <2>1, <2>2
    <3>2. QED  BY <2>1, <3>1 DEF Elements
  <2>3. CASE n > Len(s)
    <3>1. n - Len(s) \in DOMAIN t /\ (s \o t)[n] = t[n - Len(s)]  BY <2>1, <2>3
    <3>2. QED  BY <2>1, <3>1 DEF Elements
  <2>4. QED  BY <2>1, <2>2, <2>3
<1>3. ASSUME NEW x \in Elements(s) PROVE x \in Elements(s \o t)
  <2>1. PICK n \in DOMAIN s : x = s[n]  BY <1>3 DEF Elements
  <2>2. n \in DOMAIN (s \o t) /\ (s \o t)[n] = s[n]  BY <2>1
  <2>3. QED  BY <2>1, <2>2 DEF Elements
<1>4. ASSUME NEW x \in Elements(t) PROVE x \in Elements(s \o t)
  <2>1. PICK n \in DOMAIN t : x = t[n]  BY <1>4 DEF Elements
  <2>2. n + Len(s) \in DOMAIN (s \o t) /\ (s \o t)[n + Len(s)] = t[n]  BY <2>1
  <2>3. QED  BY <2>1, <2>2 DEF Elements
<1>5. QED  BY <1>1, <1>2, <1>3, <1>4

LEMMA ContentsOfElements ==
  ASSUME NEW s PROVE Contents(s) = UNION {Content(i) : i \in Elements(s)}
BY DEF Contents, Elements

\* A page gives way to what it is answered with.
LEMMA AnswerKeepsContents ==
  ASSUME EnumerationAssumption, agenda \in Seq(Pages \cup Docs), agenda # <<>>,
         Head(agenda) \in Pages
  PROVE  /\ Reply[Head(agenda)] \o Tail(agenda) \in Seq(Pages \cup Docs)
         /\ Contents(Reply[Head(agenda)] \o Tail(agenda)) = Contents(agenda)
<1> DEFINE r == Reply[Head(agenda)]
<1>1. r \in Seq(Pages \cup Docs) /\ Below[Head(agenda)] = Contents(r)
  BY DEF EnumerationAssumption
<1>2. /\ Tail(agenda) \in Seq(Pages \cup Docs)
      /\ Elements(agenda) = {Head(agenda)} \cup Elements(Tail(agenda))
  BY HeadAndTail
<1>3. /\ r \o Tail(agenda) \in Seq(Pages \cup Docs)
      /\ Elements(r \o Tail(agenda)) = Elements(r) \cup Elements(Tail(agenda))
  <2> HIDE DEF r
  <2> DEFINE rest == Tail(agenda)
  <2>1. rest \in Seq(Pages \cup Docs)  BY <1>2
  <2> HIDE DEF rest
  <2>2. r \o rest \in Seq(Pages \cup Docs) /\ Elements(r \o rest) = Elements(r) \cup Elements(rest)
    BY <1>1, <2>1, ElementsOfConcatenation
  <2>3. QED  BY <2>2 DEF rest
<1>4. Content(Head(agenda)) = Contents(r)  BY <1>1 DEF Content
<1>5. Contents(r \o Tail(agenda)) = Contents(r) \cup Contents(Tail(agenda))
  BY <1>3, ContentsOfElements
<1>6. Contents(agenda) = Content(Head(agenda)) \cup Contents(Tail(agenda))
  BY <1>2, ContentsOfElements
<1>7. QED  BY <1>3, <1>4, <1>5, <1>6

-----------------------------------------------------------------------------
(* Requests. *)

\* The bucket is an interval ahead of every slot it has given; a caller that is
\* about to repeat a request has an attempt left.
Ahead == \A c \in Callers : HasSlot(c) => next >= timer[c] + Interval
AttemptLeft == \A c \in Callers : stage[c] = "delaying" => tries[c] < Attempts

RequestsInv == RequestsTypeOK /\ Ahead /\ AttemptLeft /\ SlotsApart

\* An attempt takes the slot that the bucket is at, which is after all others.
LEMMA AttemptKeepsInv ==
  ASSUME RequestsAssumption, RequestsInv, NEW c \in Callers, Attempt(c), UNCHANGED cancelled,
         tries' \in [Callers -> 0..Attempts], \A e \in Callers \ {c} : tries'[e] = tries[e]
  PROVE  RequestsInv'
<1> USE DEF RequestsAssumption, RequestsInv, RequestsTypeOK
<1>1. next \in Nat /\ next' = next + Interval /\ timer' = [timer EXCEPT ![c] = next]
  BY DEF Attempt, Reserve
<1>2. /\ stage' \in [Callers -> {"idle", "waiting", "sent", "delaying", "returned"}]
      /\ stage'[c] # "delaying" /\ \A e \in Callers \ {c} : stage'[e] = stage[e]
      /\ result' \in [Callers -> {"none", "data", "error"}]
  BY DEF Attempt, Move, Return
<1>3. RequestsTypeOK'
  <2>1. next' \in Nat /\ timer' \in [Callers -> Int]  BY <1>1
  <2>2. cancelled' \in BOOLEAN  OBVIOUS
  <2>3. QED  BY <1>2, <2>1, <2>2
<1>4. Ahead'  BY <1>1, <1>2 DEF Ahead, HasSlot
<1>5. AttemptLeft'  BY <1>2 DEF AttemptLeft
<1>6. SlotsApart'
  <2> SUFFICES ASSUME NEW d \in Callers, NEW e \in Callers, d # e, HasSlot(d)', HasSlot(e)',
                      timer'[d] <= timer'[e]
               PROVE  timer'[e] - timer'[d] >= Interval
    BY DEF SlotsApart
  <2>1. CASE d = c
    <3>1. HasSlot(e) /\ timer'[e] = timer[e]  BY <1>1, <1>2, <2>1 DEF HasSlot
    <3>2. next >= timer[e] + Interval /\ timer'[d] = next  BY <1>1, <2>1, <3>1 DEF Ahead
    <3>3. QED  BY <3>1, <3>2
  <2>2. CASE e = c
    <3>1. HasSlot(d) /\ timer'[d] = timer[d]  BY <1>1, <1>2, <2>2 DEF HasSlot
    <3>2. next >= timer[d] + Interval /\ timer'[e] = next  BY <1>1, <2>2, <3>1 DEF Ahead
    <3>3. QED  BY <3>1, <3>2
  <2>3. CASE d # c /\ e # c
    BY <1>1, <1>2, <2>3 DEF HasSlot, SlotsApart
  <2>4. QED  BY <2>1, <2>2, <2>3
<1>7. QED  BY <1>3, <1>4, <1>5, <1>6

\* Steps in which no caller gets a slot and none of the slots there are changes.
LEMMA SlotsKept ==
  ASSUME RequestsAssumption, RequestsInv, RequestsTypeOK', AttemptLeft', next' = next,
         \A c \in Callers : HasSlot(c)' => HasSlot(c) /\ timer'[c] = timer[c]
  PROVE  RequestsInv'
BY DEF RequestsInv, Ahead, SlotsApart

LEMMA StepKeepsInv ==
  ASSUME RequestsAssumption, RequestsInv, NEW c \in Callers, Step(c)
  PROVE  RequestsInv'
<1> USE DEF RequestsAssumption
<1>1. CASE Call(c)
  <2>1. tries' \in [Callers -> 0..Attempts] /\ \A e \in Callers \ {c} : tries'[e] = tries[e]
    BY <1>1 DEF Call, RequestsInv, RequestsTypeOK
  <2>2. Attempt(c) /\ UNCHANGED cancelled  BY <1>1 DEF Call
  <2>3. QED  BY <2>1, <2>2, AttemptKeepsInv
<1>2. CASE Wake(c)
  <2>1. RequestsTypeOK' /\ AttemptLeft' /\ next' = next
    BY <1>2 DEF Wake, Move, RequestsInv, RequestsTypeOK, AttemptLeft
  <2>2. \A e \in Callers : HasSlot(e)' => HasSlot(e) /\ timer'[e] = timer[e]
    BY <1>2 DEF Wake, Move, HasSlot, RequestsInv, RequestsTypeOK
  <2>3. QED  BY <2>1, <2>2, SlotsKept
<1>3. CASE Interrupt(c)
  <2>1. RequestsTypeOK' /\ AttemptLeft' /\ next' = next
    BY <1>3 DEF Interrupt, Return, Move, RequestsInv, RequestsTypeOK, AttemptLeft
  <2>2. \A e \in Callers : HasSlot(e)' => HasSlot(e) /\ timer'[e] = timer[e]
    BY <1>3 DEF Interrupt, Return, Move, HasSlot, RequestsInv, RequestsTypeOK
  <2>3. QED  BY <2>1, <2>2, SlotsKept
<1>4. CASE Answer(c)
  <2>1. RequestsTypeOK' /\ next' = next
    BY <1>4 DEF Answer, Return, Move, RequestsInv, RequestsTypeOK
  <2>2. AttemptLeft'
    BY <1>4 DEF Answer, Return, Move, Exhausted, RequestsInv, RequestsTypeOK, AttemptLeft
  <2>3. \A e \in Callers : HasSlot(e)' => HasSlot(e) /\ timer'[e] = timer[e]
    BY <1>4 DEF Answer, Return, Move, HasSlot, RequestsInv, RequestsTypeOK
  <2>4. QED  BY <2>1, <2>2, <2>3, SlotsKept
<1>5. CASE Repeat(c)
  <2>1. tries[c] + 1 \in 0..Attempts
    BY <1>5 DEF Repeat, RequestsInv, RequestsTypeOK, AttemptLeft
  <2>2. tries' \in [Callers -> 0..Attempts] /\ \A e \in Callers \ {c} : tries'[e] = tries[e]
    BY <1>5, <2>1 DEF Repeat, RequestsInv, RequestsTypeOK
  <2>3. Attempt(c) /\ UNCHANGED cancelled  BY <1>5 DEF Repeat
  <2>4. QED  BY <2>2, <2>3, AttemptKeepsInv
<1>6. QED  BY <1>1, <1>2, <1>3, <1>4, <1>5 DEF Step

LEMMA ResetKeepsInv ==
  ASSUME RequestsAssumption, RequestsInv, NEW c \in Callers, Reset(c)
  PROVE  RequestsInv'
<1>1. RequestsTypeOK' /\ AttemptLeft' /\ next' = next
  BY DEF Reset, Move, RequestsAssumption, RequestsInv, RequestsTypeOK, AttemptLeft
<1>2. \A e \in Callers : HasSlot(e)' => HasSlot(e) /\ timer'[e] = timer[e]
  BY DEF Reset, Move, HasSlot, RequestsInv, RequestsTypeOK
<1>3. QED  BY <1>1, <1>2, SlotsKept

\* Time passes for the bucket and for the slots alike.
LEMMA TickKeepsInv ==
  ASSUME RequestsAssumption, RequestsInv, Tick
  PROVE  RequestsInv'
<1> USE DEF RequestsAssumption, RequestsInv, RequestsTypeOK
<1>1. RequestsTypeOK'  BY DEF Tick, Passed
<1>2. \A c \in Callers : HasSlot(c)' => HasSlot(c) /\ timer'[c] = timer[c] - 1
  BY DEF Tick, Passed, HasSlot
<1>3. Ahead'  BY <1>2 DEF Tick, Ahead, HasSlot
<1>4. AttemptLeft'  BY DEF Tick, AttemptLeft
<1>5. SlotsApart'  BY <1>2 DEF SlotsApart
<1>6. QED  BY <1>1, <1>3, <1>4, <1>5

-----------------------------------------------------------------------------
(* The enumeration. *)

All == Below[Root]

\* What the producer has found, has still to ask for and has handed over is all
\* there is, until it fails.
Complete ==
  /\ prod = "read" => got = {} /\ Elements(found) \cup Contents(agenda) = All
  /\ prod = "replay" => got \cup Elements(found) = All
  /\ prod \in {"close", "end"} /\ errc = "empty" => got = All

\* A channel is closed by the producer's last steps, the error is sent before,
\* and the engine has seen what it stopped receiving from.
Order ==
  /\ prod \in {"read", "replay", "fail"} => errc = "empty" /\ ~errClosed /\ ~outClosed
  /\ outClosed => prod = "end"
  /\ ~docOpen => outClosed
  /\ ~errOpen => errClosed
  /\ errc = "drained" => answer # NoDocs
  /\ answer = NoDocs /\ ~errOpen => errc = "empty"

EnumerationInv == EnumerationTypeOK /\ RequestsInv /\ Complete /\ Order

LEMMA EnumerationInitially ==
  ASSUME RequestsAssumption, EnumerationAssumption, EnumerationInit
  PROVE  EnumerationInv
<1>1. RequestsTypeOK
  <2>1. Attempts \in Nat /\ 0 \in 0..Attempts  BY DEF RequestsAssumption
  <2>2. tries \in [Callers -> 0..Attempts] /\ timer \in [Callers -> Int]
    BY <2>1 DEF EnumerationInit, RequestsInit
  <2>3. /\ next \in Nat /\ cancelled \in BOOLEAN
        /\ stage \in [Callers -> {"idle", "waiting", "sent", "delaying", "returned"}]
        /\ result \in [Callers -> {"none", "data", "error"}]
    BY DEF EnumerationInit, RequestsInit
  <2>4. QED  BY <2>2, <2>3 DEF RequestsTypeOK
<1>2. EnumerationTypeOK
  <2>1. agenda \in Seq(Pages \cup Docs)  BY DEF EnumerationAssumption, EnumerationInit
  <2>2. found \in Seq(Docs)  BY DEF EnumerationInit
  <2>3. QED  BY <1>1, <2>1, <2>2 DEF EnumerationInit, EnumerationTypeOK
<1> USE DEF EnumerationInit, RequestsInit
<1>3. RequestsInv  BY <1>1 DEF RequestsInv, Ahead, AttemptLeft, SlotsApart, HasSlot
<1>4. Complete
  <2>2. agenda = <<Root>>  OBVIOUS
  <2>3. Elements(found) = {}  BY DEF Elements
  <2>4. Contents(agenda) = Content(Root)  BY <2>2 DEF Contents
  <2>5. Content(Root) = All  BY DEF Content, All, EnumerationAssumption
  <2>6. QED  BY <2>3, <2>4, <2>5 DEF Complete
<1>5. Order  BY DEF Order, NoDocs
<1>6. QED  BY <1>2, <1>3, <1>4, <1>5 DEF EnumerationInv

\* Steps that only make requests, or let time pass.
LEMMA RequestsOnly ==
  ASSUME EnumerationInv, RequestsInv', UNCHANGED <<producing, channels, consuming>>
  PROVE  EnumerationInv'
BY DEF EnumerationInv, EnumerationTypeOK, RequestsInv, Complete, Order, producing, channels, consuming, All, Contents,
       Content, Elements

LEMMA RequestsUnchanged ==
  ASSUME RequestsInv, UNCHANGED requests, cancelled' \in BOOLEAN
  PROVE  RequestsInv'
BY DEF RequestsInv, RequestsTypeOK, Ahead, AttemptLeft, SlotsApart, HasSlot, requests

LEMMA ProduceKeepsInv ==
  ASSUME RequestsAssumption, EnumerationAssumption, EnumerationInv, Produce
  PROVE  EnumerationInv'
<1> USE DEF EnumerationInv
<1>1. CASE TakeDoc
  <2>1. RequestsInv'  BY <1>1, RequestsUnchanged DEF TakeDoc, RequestsInv, RequestsTypeOK
  <2>2. /\ Head(agenda) \in Docs /\ Tail(agenda) \in Seq(Pages \cup Docs)
        /\ Elements(agenda) = {Head(agenda)} \cup Elements(Tail(agenda))
    BY <1>1, HeadAndTail DEF TakeDoc, EnumerationTypeOK
  <2>3. found' \in Seq(Docs) /\ Elements(found') = Elements(found) \cup {Head(agenda)}
    BY <1>1, <2>2, ElementsOfAppend DEF TakeDoc, EnumerationTypeOK
  <2>4. Content(Head(agenda)) = {Head(agenda)}  BY <2>2 DEF Content, EnumerationAssumption
  <2>5. Contents(agenda) = {Head(agenda)} \cup Contents(agenda')
    BY <1>1, <2>2, <2>4, ContentsOfElements DEF TakeDoc
  <2>6. EnumerationTypeOK'  BY <1>1, <2>1, <2>2, <2>3 DEF TakeDoc, EnumerationTypeOK, RequestsInv, channels, consuming
  <2>7. Complete'  BY <1>1, <2>3, <2>5 DEF TakeDoc, Complete, All, channels, consuming
  <2>8. Order'  BY <1>1 DEF TakeDoc, Order, channels, consuming
  <2>9. QED  BY <2>1, <2>6, <2>7, <2>8
<1>2. CASE TakeReply
  <2>1. RequestsInv'  BY <1>2, ResetKeepsInv DEF TakeReply, EnumerationAssumption
  <2>2. CASE result[producer] = "data"
    <3>1. /\ agenda' \in Seq(Pages \cup Docs) /\ Contents(agenda') = Contents(agenda)
      BY <1>2, <2>2, AnswerKeepsContents DEF TakeReply, Reading, EnumerationTypeOK
    <3>2. EnumerationTypeOK'  BY <1>2, <2>1, <2>2, <3>1 DEF TakeReply, EnumerationTypeOK, RequestsInv, channels, consuming
    <3>3. Complete'  BY <1>2, <2>2, <3>1 DEF TakeReply, Complete, All, channels, consuming
    <3>4. Order'  BY <1>2, <2>2 DEF TakeReply, Order, channels, consuming
    <3>5. QED  BY <2>1, <3>2, <3>3, <3>4
  <2>3. CASE result[producer] # "data"
    <3>1. EnumerationTypeOK'  BY <1>2, <2>1, <2>3 DEF TakeReply, EnumerationTypeOK, RequestsInv, channels, consuming
    <3>2. Complete'  BY <1>2, <2>3 DEF TakeReply, Complete, All, channels, consuming
    <3>3. Order'  BY <1>2, <2>3 DEF TakeReply, Reading, Order, channels, consuming
    <3>4. QED  BY <2>1, <3>1, <3>2, <3>3
  <2>4. QED  BY <2>2, <2>3
<1>3. CASE BeginReplay
  <2>1. RequestsInv'  BY <1>3, RequestsUnchanged DEF BeginReplay, RequestsInv, RequestsTypeOK
  <2>2. Contents(agenda) = {}  BY <1>3 DEF BeginReplay, Contents
  <2>3. Complete'  BY <1>3, <2>2 DEF BeginReplay, Complete, All, channels, consuming
  <2>4. QED  BY <1>3, <2>1, <2>3 DEF BeginReplay, EnumerationTypeOK, RequestsInv, Order, channels, consuming
<1>4. CASE HandOver
  <2>1. RequestsInv'  BY <1>4, RequestsUnchanged DEF HandOver, RequestsInv, RequestsTypeOK
  <2>2. /\ Head(found) \in Docs /\ Tail(found) \in Seq(Docs)
        /\ Elements(found) = {Head(found)} \cup Elements(Tail(found))
    BY <1>4, HeadAndTail DEF HandOver, EnumerationTypeOK
  <2>3. Complete'  BY <1>4, <2>2 DEF HandOver, Complete, All, channels
  <2>4. EnumerationTypeOK'  BY <1>4, <2>1, <2>2 DEF HandOver, EnumerationTypeOK, RequestsInv, channels
  <2>5. Order'  BY <1>4 DEF HandOver, Order, channels
  <2>6. QED  BY <2>1, <2>3, <2>4, <2>5
<1>5. CASE StopReplay
  <2>1. RequestsInv'  BY <1>5, RequestsUnchanged DEF StopReplay, RequestsInv, RequestsTypeOK
  <2>2. QED  BY <1>5, <2>1 DEF StopReplay, EnumerationTypeOK, RequestsInv, Complete, Order, channels, consuming
<1>6. CASE SendError
  <2>1. RequestsInv'  BY <1>6, RequestsUnchanged DEF SendError, RequestsInv, RequestsTypeOK
  <2>2. EnumerationTypeOK' /\ Complete'
    BY <1>6, <2>1 DEF SendError, EnumerationTypeOK, RequestsInv, Complete, consuming
  <2>3. Order'  BY <1>6 DEF SendError, Order, consuming
  <2>4. QED  BY <2>1, <2>2, <2>3
<1>7. CASE EndReplay
  <2>1. RequestsInv'  BY <1>7, RequestsUnchanged DEF EndReplay, RequestsInv, RequestsTypeOK
  <2>2. Elements(found) = {}  BY <1>7 DEF EndReplay, Elements
  <2>3. Complete'  BY <1>7, <2>2 DEF EndReplay, Complete, All, channels, consuming
  <2>4. QED  BY <1>7, <2>1, <2>3 DEF EndReplay, EnumerationTypeOK, RequestsInv, Order, channels, consuming
<1>8. CASE Close
  <2>1. RequestsInv'  BY <1>8, RequestsUnchanged DEF Close, RequestsInv, RequestsTypeOK
  <2>2. EnumerationTypeOK'  BY <1>8, <2>1 DEF Close, EnumerationTypeOK, RequestsInv, consuming
  <2>3. Complete'  BY <1>8 DEF Close, Complete, All, consuming
  <2>4. Order'  BY <1>8 DEF Close, Order, consuming
  <2>5. QED  BY <2>1, <2>2, <2>3, <2>4
<1>9. CASE Reading /\ Step(producer) /\ UNCHANGED <<producing, channels, consuming>>
  <2>1. RequestsInv'  BY <1>9, StepKeepsInv DEF EnumerationAssumption
  <2>2. QED  BY <1>9, <2>1, RequestsOnly
<1>10. QED
  BY <1>1, <1>2, <1>3, <1>4, <1>5, <1>6, <1>7, <1>8, <1>9 DEF Produce

LEMMA ConsumeKeepsInv ==
  ASSUME EnumerationAssumption, EnumerationInv, Consume
  PROVE  EnumerationInv'
<1> USE DEF EnumerationInv
<1>1. RequestsInv'
  BY RequestsUnchanged DEF Consume, SeeDocsClosed, SeeErrorsClosed, ReceiveError, SeeCancelled,
                           Finish, RequestsInv, RequestsTypeOK
<1>2. RequestsTypeOK'  BY <1>1 DEF RequestsInv
<1>3. CASE SeeDocsClosed
  BY <1>1, <1>2, <1>3 DEF SeeDocsClosed, EnumerationTypeOK, Complete, Order, producing, channels
<1>4. CASE SeeErrorsClosed
  <2>1. EnumerationTypeOK' /\ Complete'
    BY <1>2, <1>4 DEF SeeErrorsClosed, EnumerationTypeOK, Complete, producing, channels
  <2>2. answer = NoDocs /\ errc = "empty"
    BY <1>4 DEF SeeErrorsClosed, Collecting, Order, EnumerationTypeOK
  <2>3. Order'  BY <1>4, <2>2 DEF SeeErrorsClosed, Order, producing, channels
  <2>4. QED  BY <1>1, <2>1, <2>3
<1>5. CASE ReceiveError
  <2>1. answer' # NoDocs  BY <1>5 DEF ReceiveError, NoDocs, Failure
  <2>2. EnumerationTypeOK' /\ Complete'
    BY <1>2, <1>5 DEF ReceiveError, EnumerationTypeOK, Complete, producing
  <2>3. Order'  BY <1>5, <2>1 DEF ReceiveError, Order, producing
  <2>4. QED  BY <1>1, <2>2, <2>3
<1>6. CASE SeeCancelled
  <2>1. answer' # NoDocs  BY <1>6 DEF SeeCancelled, NoDocs, Failure
  <2>2. EnumerationTypeOK' /\ Complete'
    BY <1>2, <1>6 DEF SeeCancelled, EnumerationTypeOK, Complete, producing, channels
  <2>3. Order'  BY <1>6, <2>1 DEF SeeCancelled, Order, producing, channels
  <2>4. QED  BY <1>1, <2>2, <2>3
<1>7. CASE Finish
  <2>1. answer' # NoDocs  BY <1>7 DEF Finish, NoDocs, Found
  <2>2. EnumerationTypeOK' /\ Complete'
    BY <1>2, <1>7 DEF Finish, EnumerationTypeOK, Complete, producing, channels
  <2>3. Order'  BY <1>7, <2>1 DEF Finish, Order, producing, channels
  <2>4. QED  BY <1>1, <2>2, <2>3
<1>8. QED  BY <1>3, <1>4, <1>5, <1>6, <1>7 DEF Consume

LEMMA EnumerationKeepsInv ==
  ASSUME RequestsAssumption, EnumerationAssumption, EnumerationInv, [EnumerationNext]_enumeration
  PROVE  EnumerationInv'
<1> USE DEF EnumerationInv
<1>1. CASE Produce  BY <1>1, ProduceKeepsInv
<1>2. CASE Consume  BY <1>2, ConsumeKeepsInv
<1>3. CASE Others
  <2>1. RequestsInv' /\ UNCHANGED <<producing, channels, consuming>>
    BY <1>3, StepKeepsInv DEF Others
  <2>2. QED  BY <2>1, RequestsOnly
<1>4. CASE Time
  <2>1. RequestsInv' /\ UNCHANGED <<producing, channels, consuming>>
    BY <1>4, TickKeepsInv DEF Time
  <2>2. QED  BY <2>1, RequestsOnly
<1>5. CASE Cancel
  <2>1. RequestsInv' /\ UNCHANGED <<producing, channels, consuming>>
    BY <1>5, RequestsUnchanged DEF Cancel
  <2>2. QED  BY <2>1, RequestsOnly
<1>6. CASE UNCHANGED enumeration
  <2>1. RequestsInv' /\ UNCHANGED <<producing, channels, consuming>>
    BY <1>6, RequestsUnchanged DEF enumeration, RequestsInv, RequestsTypeOK
  <2>2. QED  BY <2>1, RequestsOnly
<1>7. QED  BY <1>1, <1>2, <1>3, <1>4, <1>5, <1>6 DEF EnumerationNext

LEMMA AlwaysInv ==
  ASSUME RequestsAssumption, EnumerationAssumption
  PROVE  EnumerationSpec => []EnumerationInv
<1>1. EnumerationInit => EnumerationInv  BY EnumerationInitially
<1>2. EnumerationInv /\ [EnumerationNext]_enumeration => EnumerationInv'  BY EnumerationKeepsInv
<1>3. QED  BY <1>1, <1>2, PTL DEF EnumerationSpec

-----------------------------------------------------------------------------
(* Every reachable state of an enumeration is well typed; in particular no
   request is attempted more than Attempts times (Backoff.Retry). *)
THEOREM EnumerationTypeCorrect ==
  ASSUME RequestsAssumption, EnumerationAssumption
  PROVE  EnumerationSpec => []EnumerationTypeOK
<1>1. EnumerationInv => EnumerationTypeOK  BY DEF EnumerationInv
<1>2. QED  BY <1>1, AlwaysInv, PTL

(* Concurrent callers of Bucket.Wait get slots that are an interval apart,
   however many there are and whichever of them are cancelled. *)
THEOREM SlotsAreApart ==
  ASSUME RequestsAssumption, EnumerationAssumption
  PROVE  EnumerationSpec => []SlotsApart
<1>1. EnumerationInv => SlotsApart  BY DEF EnumerationInv, RequestsInv
<1>2. QED  BY <1>1, AlwaysInv, PTL

(* collectEnumeration implements Collection: it gives all that can be enumerated
   or an error, and it gives it once. *)
THEOREM EnumerationImplementsCollection ==
  ASSUME RequestsAssumption, EnumerationAssumption
  PROVE  EnumerationSpec => WholeOrErrorSafe
<1>1. EnumerationInit => C!Init  BY DEF EnumerationInit, C!Init
<1>2. EnumerationInv /\ [EnumerationNext]_enumeration => [C!Next]_answer
  <2> SUFFICES ASSUME EnumerationInv, [EnumerationNext]_enumeration, answer' # answer PROVE C!Next
    OBVIOUS
  <2>1. CASE ReceiveError \/ SeeCancelled
    BY <2>1 DEF ReceiveError, SeeCancelled, Collecting, C!Next
  <2>2. CASE Finish
    <3>1. outClosed /\ errc = "empty" /\ answer = NoDocs
      BY <2>2 DEF Finish, Finished, EnumerationInv, Order
    <3>2. got = All  BY <3>1 DEF EnumerationInv, Order, Complete
    <3>3. QED  BY <2>2, <3>1, <3>2 DEF Finish, All, C!Next
  <2>3. QED
    BY <2>1, <2>2 DEF EnumerationNext, Produce, Consume, Others, Time, Cancel, TakeDoc, TakeReply, BeginReplay,
                      HandOver, StopReplay, SendError, EndReplay, Close, SeeDocsClosed,
                      SeeErrorsClosed, enumeration, consuming
<1>3. QED  BY <1>1, <1>2, AlwaysInv, PTL DEF EnumerationSpec, WholeOrErrorSafe, C!Spec
=============================================================================

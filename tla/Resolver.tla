------------------------------ MODULE Resolver ------------------------------
(***************************************************************************)
(* How the resolver decides the configuration of a module: get_config in   *)
(* src/core/resolver.cpp, over the settings database of module Settings.   *)
(*                                                                         *)
(* The setting of each module of each process is cached behind its MODREF. *)
(* A resolve for a module first needs the setting of the process (from the *)
(* database, else inherited from the parent process, else the default) and *)
(* then its own.  Resolves of one process are serialised by the loader's   *)
(* locks; processes, and the clients of the database, interleave.          *)
(***************************************************************************)
EXTENDS Settings

CONSTANTS
  Procs,        \* processes
  Exes,         \* the paths that are executables
  Shared,       \* modules mapped in the shared arena (IS_SHARED)
  ExtensionsDisabled, \* DisableExtensions, chosen at installation
  FreedReads,   \* what a read of a freed map node may yield
  NoProc,       \* no parent process, or a DOS or Win16 one
  NoPath,       \* the process has not started
  NotLoaded     \* the module has no MODREF in the process

ASSUME ResolverAssumption ==
  /\ Exes \subseteq Paths
  /\ Exes \cap Shared = {} /\ Shared \subseteq Paths
  /\ ExtensionsDisabled \in BOOLEAN
  /\ FreedReads \subseteq Setting
  /\ NoProc \notin Procs /\ NoPath \notin Paths
  /\ NotLoaded \notin AppSetting

VARIABLES
  exe,      \* the path of each process's executable (pExeMODREF)
  parent,   \* ParentPDB
  running,  \* the processes not terminated nor terminating
  as,       \* the setting cached with each MODREF
  call,     \* the get_config in progress in each process
  source    \* history: whose database answer the process's setting is

resolverVars == <<exe, parent, running, as, call, source>>
vars == <<settingsVars, resolverVars>>

NoCall == [at |-> "none"]

\* A lookup left the critical section: it holds an iterator to key's node, or
\* the end.  freed: the node has been erased since.
Reading == [at : {"readExe", "readModule"}, mod : Paths,
            key : Keys \cup {NoEntry}, freed : BOOLEAN]
Finding == [at : {"findModule"}, mod : Paths]

ResolverTypeOK ==
  /\ exe \in [Procs -> Paths \cup {NoPath}]
  /\ parent \in [Procs -> Procs \cup {NoProc}]
  /\ running \subseteq Procs
  /\ as \in [Procs -> [Paths -> AppSetting \cup {NotLoaded}]]
  /\ call \in [Procs -> {NoCall} \cup Reading \cup Finding]
  /\ source \in [Procs -> [root : Procs \cup {NoProc}, given : AppSetting]]

Valid(s)   == "VALID" \in s.flags
ExeAs(p)   == as[p][exe[p]]
Loaded(p, m)  == as[p][m] # NotLoaded
Settled(p, m) == Loaded(p, m) /\ Valid(as[p][m])

\* get_config's return value: extended API for the module.
Extended(s) == Valid(s) /\ "KEX_DISABLE" \notin s.flags

DefaultSetting ==
  IF ExtensionsDisabled
  THEN [conf |-> NoConf, flags |-> {"VALID", "KEX_DISABLE"}]
  ELSE [conf |-> DefaultConf, flags |-> {"VALID"}]

-----------------------------------------------------------------------------
(* Processes and their modules: the operating system's loader *)

Start(p, q, x) ==
  /\ p \notin running /\ exe[p] = NoPath
  /\ q \in running \cup {NoProc}
  /\ exe' = [exe EXCEPT ![p] = x]
  /\ parent' = [parent EXCEPT ![p] = q]
  /\ running' = running \cup {p}
  /\ as' = [as EXCEPT ![p][x] = Unset]
  /\ UNCHANGED <<settingsVars, call, source>>

LoadModule(p, m) ==
  /\ p \in running /\ call[p] = NoCall
  /\ m \notin Exes /\ ~Loaded(p, m)
  /\ as' = [as EXCEPT ![p][m] = Unset]
  /\ UNCHANGED <<settingsVars, exe, parent, running, call, source>>

UnloadModule(p, m) ==
  /\ p \in running /\ call[p] = NoCall
  /\ m # exe[p] /\ Loaded(p, m)
  /\ as' = [as EXCEPT ![p][m] = NotLoaded]
  /\ UNCHANGED <<settingsVars, exe, parent, running, call, source>>

\* A process may be terminated in the middle of a resolve.
End(p) ==
  /\ p \in running
  /\ running' = running \ {p}
  /\ as' = [as EXCEPT ![p] = [m \in Paths |-> NotLoaded]]
  /\ call' = [call EXCEPT ![p] = NoCall]
  /\ UNCHANGED <<settingsVars, exe, parent, source>>

-----------------------------------------------------------------------------
(* get_config *)

\* What get_appsetting returns for the iterator it found.
LookupResults(c) ==
  IF c.key = NoEntry THEN {Unset}
  ELSE IF c.freed THEN {Answer(e) : e \in FreedReads}
  ELSE {Answer(db[c.key])}

\* Mutation: the cached setting is not looked at.
AlwaysNeedsSetting(p, m) ==
  /\ p \in running /\ call[p] = NoCall
  /\ Loaded(p, m) /\ m \notin Shared

NeedsSetting(p, m) ==
  /\ p \in running /\ call[p] = NoCall
  /\ Loaded(p, m) /\ m \notin Shared
  /\ ~Valid(as[p][m])

\* The setting of the process is not known: look its executable up.
BeginWithExe(p, m) ==
  /\ NeedsSetting(p, m)
  /\ ~Valid(ExeAs(p))
  /\ cs = NoClient
  /\ call' = [call EXCEPT ![p] = [at |-> "readExe", mod |-> m,
                                  key |-> FindKey(exe[p]), freed |-> FALSE]]
  /\ UNCHANGED <<settingsVars, exe, parent, running, as, source>>

\* Mutation: LDR_NO_INHERIT is ignored.
InheritsAnyway(p) == parent[p] \in running /\ Valid(ExeAs(parent[p]))

\* The parent exists, has not ended, knows its own setting and lets go of it.
Inherits(p) ==
  LET q == parent[p]
  IN  /\ q \in running
      /\ Valid(ExeAs(q)) /\ "NO_INHERIT" \notin ExeAs(q).flags

\* Mutation: the hook flag is inherited as well.
ProcessSettingHooked(p, found) ==
  IF Valid(found) THEN found
  ELSE IF Inherits(p) THEN ExeAs(parent[p])
  ELSE DefaultSetting

WithoutHook(s) == [s EXCEPT !.flags = @ \ {"HOOK_APIS"}]

\* The setting of the process, and whose answer it goes back to.
ProcessSetting(p, found) ==
  IF Valid(found) THEN found
  ELSE IF Inherits(p) THEN WithoutHook(ExeAs(parent[p]))
  ELSE DefaultSetting

SettingSource(p, found) ==
  IF Valid(found) THEN [root |-> p, given |-> found]
  ELSE IF Inherits(p) THEN source[parent[p]]
  ELSE [root |-> NoProc, given |-> DefaultSetting]

\* The process's setting is decided, and the module's too when it is the
\* executable or when the process overrides its modules' settings.
DecideExe(p) ==
  /\ call[p].at = "readExe"
  /\ \E found \in LookupResults(call[p]) :
       LET s == ProcessSetting(p, found)
           m == call[p].mod
           forAll == "OVERRIDE_PROC_MOD" \in s.flags
           decided == IF forAll THEN {exe[p], m} ELSE {exe[p]}
       IN  /\ as' = [as EXCEPT ![p] = [n \in Paths |->
                       IF n \in decided THEN s ELSE as[p][n]]]
           /\ call' = [call EXCEPT ![p] =
                         IF forAll \/ m = exe[p] THEN NoCall
                         ELSE [at |-> "findModule", mod |-> m]]
           /\ source' = [source EXCEPT ![p] = SettingSource(p, found)]
  /\ UNCHANGED <<settingsVars, exe, parent, running>>

\* Mutation: modules are looked up under an overriding process, too.
BeginWithAnyModule(p, m) ==
  /\ NeedsSetting(p, m)
  /\ Valid(ExeAs(p))
  /\ call' = [call EXCEPT ![p] = [at |-> "findModule", mod |-> m]]
  /\ UNCHANGED <<settingsVars, exe, parent, running, as, source>>

\* The setting of the process is known: it is the module's, or the module is
\* to be looked up.
BeginWithModule(p, m) ==
  /\ NeedsSetting(p, m)
  /\ Valid(ExeAs(p))
  /\ IF "OVERRIDE_PROC_MOD" \in ExeAs(p).flags
     THEN /\ as' = [as EXCEPT ![p][m] = ExeAs(p)]
          /\ UNCHANGED call
     ELSE /\ call' = [call EXCEPT ![p] = [at |-> "findModule", mod |-> m]]
          /\ UNCHANGED as
  /\ UNCHANGED <<settingsVars, exe, parent, running, source>>

FindModule(p) ==
  /\ call[p].at = "findModule"
  /\ cs = NoClient
  /\ call' = [call EXCEPT ![p] = [at |-> "readModule", mod |-> call[p].mod,
                                  key |-> FindKey(call[p].mod),
                                  freed |-> FALSE]]
  /\ UNCHANGED <<settingsVars, exe, parent, running, as, source>>

\* Mutation: a module with its own setting is not hooked with its process.
ModuleSettingUnhooked(p, found) == IF Valid(found) THEN found ELSE ExeAs(p)

\* The module's own setting, with the process's hook flag added, or the
\* process's.
ModuleSetting(p, found) ==
  IF Valid(found)
  THEN [found EXCEPT !.flags = @ \cup (ExeAs(p).flags \cap {"HOOK_APIS"})]
  ELSE ExeAs(p)

DecideModule(p) ==
  /\ call[p].at = "readModule"
  /\ \E found \in LookupResults(call[p]) :
       as' = [as EXCEPT ![p][call[p].mod] = ModuleSetting(p, found)]
  /\ call' = [call EXCEPT ![p] = NoCall]
  /\ UNCHANGED <<settingsVars, exe, parent, running, source>>

-----------------------------------------------------------------------------
(* The database changes under the lookups in progress *)

Erased(keys) ==
  call' = [p \in Procs |->
             IF call[p].at \in {"readExe", "readModule"} /\ call[p].key \in keys
             THEN [call[p] EXCEPT !.freed = TRUE] ELSE call[p]]

DbUpdate(c) == UpdateDb(c) /\ Erased({op[c].path})
DbFlush(c)  == FlushConfigs(c) /\ Erased(Keys)

DbOther(c) ==
  /\ \/ \E p \in Paths, entry \in UpdateEntries : BeginUpdate(c, p, entry)
     \/ WriteFlags(c)
     \/ FlushFlags(c)
  /\ UNCHANGED call

DbStep(c) ==
  /\ DbUpdate(c) \/ DbFlush(c) \/ DbOther(c)
  /\ UNCHANGED <<exe, parent, running, as, source>>

-----------------------------------------------------------------------------
ResolverInit ==
  /\ Init
  /\ exe = [p \in Procs |-> NoPath]
  /\ parent = [p \in Procs |-> NoProc]
  /\ running = {}
  /\ as = [p \in Procs |-> [m \in Paths |-> NotLoaded]]
  /\ call = [p \in Procs |-> NoCall]
  /\ source = [p \in Procs |-> [root |-> NoProc, given |-> Unset]]

ProcStep(p) ==
  \/ \E q \in Procs \cup {NoProc}, x \in Exes : Start(p, q, x)
  \/ \E m \in Paths : LoadModule(p, m) \/ UnloadModule(p, m)
  \/ \E m \in Paths : BeginWithExe(p, m) \/ BeginWithModule(p, m)
  \/ DecideExe(p) \/ FindModule(p) \/ DecideModule(p)
  \/ End(p)

ResolverNext == (\E p \in Procs : ProcStep(p)) \/ (\E c \in Clients : DbStep(c))

ResolverSpec == ResolverInit /\ [][ResolverNext]_vars

-----------------------------------------------------------------------------
(* Properties *)

(* DBGASSERT(module.as.conf != NULL) before the configuration is used: a   *)
(* module with the extended API has a configuration, whatever a lookup     *)
(* read.                                                                   *)
ExtendedHasConf ==
  \A p \in running, m \in Paths :
    Settled(p, m) /\ Extended(as[p][m]) => as[p][m].conf # NoConf

(* resolver.h, LDR_OVERRIDE_PROC_MOD: "use same configuration and flags    *)
(* for all modules in a process", however resolves, database changes and   *)
(* module loads interleave.                                                *)
OverrideIsForAll ==
  \A p \in running :
    Settled(p, exe[p]) /\ "OVERRIDE_PROC_MOD" \in ExeAs(p).flags =>
      \A m \in Paths : Settled(p, m) => as[p][m] = ExeAs(p)

(* Tracing a process traces all its modules: the hook flag of the          *)
(* executable reaches every module decided in it.                          *)
HookReachesModules ==
  \A p \in running, m \in Paths :
    Settled(p, m) =>
      /\ Settled(p, exe[p])
      /\ "HOOK_APIS" \in ExeAs(p).flags => "HOOK_APIS" \in as[p][m].flags

(* resolver.h, LDR_NO_INHERIT and the comment "don't inherit hook flag":   *)
(* through any number of generations a process has the database's answer   *)
(* for itself, that of an ancestor which allows inheritance, without its   *)
(* hook flag, or the default.                                              *)
SettingHasItsSource ==
  \A p \in running :
    Settled(p, exe[p]) =>
      LET from == source[p]
      IN  /\ ExeAs(p) = IF from.root = p THEN from.given
                        ELSE WithoutHook(from.given)
          /\ from.root \notin {p, NoProc} => "NO_INHERIT" \notin from.given.flags
          /\ from.root = NoProc => from.given = DefaultSetting

-----------------------------------------------------------------------------
(* The resolver implements ModuleConfig: a setting that is not valid yet is *)
(* no decision.                                                             *)
Decisions ==
  [p \in Procs |-> [m \in Paths |->
     IF ~Loaded(p, m) THEN NotLoaded
     ELSE IF Valid(as[p][m]) THEN as[p][m] ELSE Unset]]

Config == INSTANCE ModuleConfig WITH
            Decided <- {s \in AppSetting : Valid(s)},
            Overrides <- LAMBDA s : "OVERRIDE_PROC_MOD" \in s.flags,
            Absent <- NotLoaded, Undecided <- Unset,
            decision <- Decisions

(* Every behaviour of the resolver is one of ModuleConfig's: modules are    *)
(* decided once, after their executable, and all alike under an override.   *)
ImplementsModuleConfig == Config!Spec

=============================================================================

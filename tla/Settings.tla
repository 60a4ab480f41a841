------------------------------ MODULE Settings ------------------------------
(***************************************************************************)
(* The settings database of the core: src/core/SettingsDB.cpp with the     *)
(* calls of src/core/kexcoresdk.cpp that reach it.                         *)
(*                                                                         *)
(* A setting of a module (an API configuration and resolver flags) lives   *)
(* twice: in the registry, under AppSettings\Configs and AppSettings\Flags,*)
(* and in the database, which every process shares.  The property tab      *)
(* changes both copies in three unsynchronised steps; a flush clears the   *)
(* database and loads it again from the registry, holding the database's   *)
(* critical section; a lookup finds an entry inside that section and reads *)
(* it outside.                                                             *)
(***************************************************************************)
EXTENDS Naturals, FiniteSets

CONSTANTS
  Paths,        \* full paths of modules, upper case: the exact keys
  Patterns,     \* keys with wildcards
  EnvNames,     \* registry value names spelled with environment variables
  Expand,       \* what ExpandEnvironmentStrings makes of a value name
  Matches,      \* the paths each pattern matches (wildcmp)
  FirstPattern, \* of a set of patterns, the first in the order of std::map
  EnumOrders,   \* of a set of value names, the one the registry enumerates
                \* first, for each order it may enumerate them in
  Confs,        \* the API configurations that were loaded
  UnknownConf,  \* a configuration name in the registry that names none of them
  DefaultConf,  \* apiconfmgr.get_default_configuration()
  NoConf,       \* a NULL configuration, or no value under Configs
  OwnPath,      \* the path of KernelEx.dll
  LibPaths,     \* the paths of the loaded API libraries
  Clients,      \* threads, of any process, that call kex*ModuleSettings
  UpdateEntries,\* what clients store: settings, and NoEntry for a reset
  InitConfs,    \* AppSettings\Configs as installed
  InitFlags,    \* AppSettings\Flags as installed
  RegOpens,     \* the outcomes RegOpenKeyEx may have for a writer
  MaxUpdates,   \* bound on the updates and flushes of a behaviour
  NoEntry,      \* no value in the registry or in the database
  NoClient      \* the critical section is free

Keys  == Paths \cup Patterns
Names == Keys \cup EnvNames

FlagBits == {"KEX_DISABLE", "OVERRIDE_PROC_MOD", "HOOK_APIS", "NO_INHERIT"}
AppFlags == FlagBits \cup {"VALID"}

\* No value under Flags.
NoFlags == {"NO_VALUE"}

\* appsetting as the database keeps it, and as a lookup answers it.
Setting    == [conf : Confs \cup {NoConf}, flags : SUBSET FlagBits]
AppSetting == [conf : Confs \cup {NoConf}, flags : SUBSET AppFlags]

ASSUME KeysAssumption ==
  /\ Paths \cap Patterns = {} /\ Keys \cap EnvNames = {}
  /\ Expand \in [Names -> Keys] /\ \A k \in Keys : Expand[k] = k
  /\ Matches \in [Patterns -> SUBSET Paths]
  /\ \A S \in SUBSET Patterns : S # {} => FirstPattern[S] \in S
  /\ EnumOrders # {}
  /\ \A first \in EnumOrders, S \in SUBSET Names : S # {} => first[S] \in S
  /\ OwnPath \in Paths /\ LibPaths \subseteq Paths

ASSUME ValuesAssumption ==
  /\ DefaultConf \in Confs /\ NoConf \notin Confs
  /\ UnknownConf \notin Confs \cup {NoConf}
  /\ NoEntry \notin Setting
  /\ UpdateEntries \subseteq Setting \cup {NoEntry}
  /\ InitConfs \in [Names -> Confs \cup {UnknownConf, NoConf}]
  /\ InitFlags \in [Keys -> (SUBSET FlagBits) \cup {NoFlags}]
  /\ RegOpens \subseteq BOOLEAN /\ RegOpens # {}
  /\ NoClient \notin Clients
  /\ MaxUpdates \in Nat

VARIABLES
  regConf,    \* AppSettings\Configs
  regFlags,   \* AppSettings\Flags; a value under an EnvName matches no module
  db,         \* SettingsDB::db (on Paths) and SettingsDB::db_wild (on Patterns)
  cs,         \* the owner of SettingsDB::cs across steps: a client in flush_all
  op,         \* the update or flush each client is in
  updates,    \* number of updates and flushes begun, for the bound
  dirty       \* history: paths whose entry may differ from a reload's

settingsVars == <<regConf, regFlags, db, cs, op, updates, dirty>>

Idle == [at |-> "idle"]

\* The states of write_single and reset_single: the value under Flags and then
\* the database are still to change.  ok: no registry key failed to open;
\* alone: no other update of the path has been in progress meanwhile.
Updating == [at : {"flags", "db"}, path : Paths,
             entry : Setting \cup {NoEntry}, ok : BOOLEAN, alone : BOOLEAN]
Flushing == [at : {"flush"}]

TypeOK ==
  /\ regConf \in [Names -> Confs \cup {UnknownConf, NoConf}]
  /\ regFlags \in [Keys -> (SUBSET FlagBits) \cup {NoFlags}]
  /\ db \in [Keys -> Setting \cup {NoEntry}]
  /\ cs \in Clients \cup {NoClient}
  /\ op \in [Clients -> {Idle} \cup Updating \cup Flushing]
  /\ updates \in 0..MaxUpdates
  /\ dirty \subseteq Paths

InUpdate(c) == op[c].at \in {"flags", "db"}
Quiet(p)    == \A c \in Clients : InUpdate(c) => op[c].path # p

-----------------------------------------------------------------------------
(* Loading the database from the registry *)

Disabled == [conf |-> NoConf, flags |-> {"KEX_DISABLE"}]

\* Mutation: names of configurations that were not loaded are not skipped.
SpelledUnchecked(k) == {n \in Names : Expand[n] = k /\ regConf[n] # NoConf}

\* The values that make an entry for a key.
Spelled(k) == {n \in Names : Expand[n] = k /\ regConf[n] \in Confs}

\* The database after clear() and parse_configs() when values are enumerated
\* in the order given: insert() keeps the first entry of a key, and own_path
\* was inserted before them all.
ParseConfigs(first) ==
  [k \in Keys |->
     IF k = OwnPath THEN Disabled
     ELSE IF Spelled(k) = {} THEN NoEntry
     ELSE [conf |-> regConf[first[Spelled(k)]], flags |-> {}]]

\* parse_flags() sets the flags of an entry or inserts one.
ParseFlags(table) ==
  [k \in Keys |->
     IF regFlags[k] = NoFlags THEN table[k]
     ELSE [conf  |-> IF table[k] = NoEntry THEN NoConf ELSE table[k].conf,
           flags |-> regFlags[k]]]

AddApilibExcludes(table) ==
  [k \in Keys |-> IF k \in LibPaths THEN Disabled ELSE table[k]]

\* What a flush with no one else active makes of the database.
Reloaded(first) == AddApilibExcludes(ParseFlags(ParseConfigs(first)))

-----------------------------------------------------------------------------
(* get_appsetting *)

\* The key of the entry that answers for a path: the path itself, else the
\* first pattern in the map's order that matches it.
FindKey(path) ==
  LET matching == {w \in Patterns : db[w] # NoEntry /\ path \in Matches[w]}
  IN  IF db[path] # NoEntry THEN path
      ELSE IF matching = {} THEN NoEntry
      ELSE FirstPattern[matching]

\* appsetting(): no setting at all.
Unset == [conf |-> NoConf, flags |-> {}]

\* Mutation: no default configuration for an entry that has only flags.
AnswerAsStored(entry) ==
  [conf |-> entry.conf, flags |-> entry.flags \cup {"VALID"}]

\* The answer made of the entry read outside the critical section.
Answer(entry) ==
  [conf  |-> IF entry.conf = NoConf /\ "KEX_DISABLE" \notin entry.flags
             THEN DefaultConf ELSE entry.conf,
   flags |-> entry.flags \cup {"VALID"}]

-----------------------------------------------------------------------------
(* write_single and reset_single *)

\* Mutation: a reset stores zero flags where it should delete the value.
FlagsZeroed(entry) == IF entry = NoEntry THEN {} ELSE entry.flags

\* The registry values that stand for an entry.
ConfValue(entry)  == IF entry = NoEntry THEN NoConf ELSE entry.conf
FlagsValue(entry) == IF entry = NoEntry THEN NoFlags ELSE entry.flags

\* The value under Configs is set, or deleted for a reset or an unknown name.
BeginUpdate(c, p, entry) ==
  /\ op[c] = Idle
  /\ updates < MaxUpdates
  /\ updates' = updates + 1
  /\ \E ok \in RegOpens :
       /\ regConf' = IF ~ok THEN regConf
                     ELSE [regConf EXCEPT ![p] = ConfValue(entry)]
       /\ op' = [d \in Clients |->
                   IF d = c
                   THEN [at |-> "flags", path |-> p, entry |-> entry,
                         ok |-> ok, alone |-> Quiet(p)]
                   ELSE IF InUpdate(d) /\ op[d].path = p
                   THEN [op[d] EXCEPT !.alone = FALSE]
                   ELSE op[d]]
  /\ UNCHANGED <<regFlags, db, cs, dirty>>

\* Mutation: a reset deletes the value under Configs only.
WriteFlagsOfSettings(c) ==
  /\ op[c].at = "flags"
  /\ \E ok \in RegOpens :
       /\ regFlags' = IF ~ok \/ op[c].entry = NoEntry THEN regFlags
                      ELSE [regFlags EXCEPT ![op[c].path] = op[c].entry.flags]
       /\ op' = [op EXCEPT ![c].at = "db", ![c].ok = @ /\ ok]
  /\ UNCHANGED <<regConf, db, cs, updates, dirty>>

WriteFlags(c) ==
  /\ op[c].at = "flags"
  /\ \E ok \in RegOpens :
       /\ regFlags' = IF ~ok THEN regFlags
                      ELSE [regFlags EXCEPT ![op[c].path] =
                              FlagsValue(op[c].entry)]
       /\ op' = [op EXCEPT ![c].at = "db", ![c].ok = @ /\ ok]
  /\ UNCHANGED <<regConf, db, cs, updates, dirty>>

\* A path whose entry a reload takes from its own registry values alone.
Plain(p) ==
  /\ p \notin LibPaths \cup {OwnPath}
  /\ \A n \in Names : Expand[n] = p => n = p

\* The entry is erased and, unless this is a reset, inserted anew.
UpdateDb(c) ==
  /\ op[c].at = "db"
  /\ cs = NoClient
  /\ db' = [db EXCEPT ![op[c].path] = op[c].entry]
  /\ op' = [op EXCEPT ![c] = Idle]
  /\ dirty' = IF op[c].ok /\ op[c].alone /\ Plain(op[c].path)
              THEN dirty \ {op[c].path} ELSE dirty \cup {op[c].path}
  /\ UNCHANGED <<regConf, regFlags, cs, updates>>

-----------------------------------------------------------------------------
(* flush_all: the registry is read in two passes under the lock *)

\* Mutation: the first pass does not clear the database.
FlushConfigsUncleared(c) ==
  /\ op[c] = Idle /\ updates < MaxUpdates /\ cs = NoClient
  /\ updates' = updates + 1
  /\ cs' = c
  /\ op' = [op EXCEPT ![c] = [at |-> "flush"]]
  /\ \E first \in EnumOrders :
       db' = [k \in Keys |-> IF db[k] # NoEntry THEN db[k]
                              ELSE ParseConfigs(first)[k]]
  /\ UNCHANGED <<regConf, regFlags, dirty>>

FlushConfigs(c) ==
  /\ op[c] = Idle
  /\ updates < MaxUpdates
  /\ updates' = updates + 1
  /\ cs = NoClient
  /\ cs' = c
  /\ op' = [op EXCEPT ![c] = [at |-> "flush"]]
  /\ \E first \in EnumOrders : db' = ParseConfigs(first)
  /\ UNCHANGED <<regConf, regFlags, dirty>>

FlushFlags(c) ==
  /\ op[c].at = "flush"
  /\ db' = AddApilibExcludes(ParseFlags(db))
  /\ cs' = NoClient
  /\ op' = [op EXCEPT ![c] = Idle]
  /\ dirty' = {p \in dirty : ~Quiet(p)}
  /\ UNCHANGED <<regConf, regFlags, updates>>

-----------------------------------------------------------------------------
\* The state load_api_configurations leaves behind: one flush of what setup
\* and earlier sessions stored.
Init ==
  /\ regConf = InitConfs
  /\ regFlags = InitFlags
  /\ \E order \in EnumOrders : db = Reloaded(order)
  /\ cs = NoClient
  /\ op = [c \in Clients |-> Idle]
  /\ updates = 0
  /\ dirty = {}

ClientStep(c) ==
  \/ \E p \in Paths, entry \in UpdateEntries : BeginUpdate(c, p, entry)
  \/ WriteFlags(c)
  \/ UpdateDb(c)
  \/ FlushConfigs(c)
  \/ FlushFlags(c)

Next == \E c \in Clients : ClientStep(c)

Spec == Init /\ [][Next]_settingsVars

-----------------------------------------------------------------------------
(* Properties *)

(* The database is what a reload would make of it (kexFlushAppSettings,    *)
(* "Reloads all module settings from registry"): outside updates in        *)
(* progress, each entry agrees with the registry, except where updates of  *)
(* one path overlapped, a registry key did not open, or the path has other *)
(* sources than its own two values.                                        *)
LiveMatchesRegistry ==
  cs = NoClient =>
    \A k \in Keys : (k \in Paths => Quiet(k) /\ k \notin dirty) =>
      \E order \in EnumOrders : db[k] = Reloaded(order)[k]

(* What makes the above inductive.  An update that has met no other and no *)
(* registry error finds in the registry exactly what it has written so far,*)
(* and a flush finds, between its two passes, what the first one read.     *)
UpdateOwnsItsValues ==
  \A c \in Clients : InUpdate(c) /\ op[c].alone =>
    /\ \A d \in Clients \ {c} : InUpdate(d) => op[d].path # op[c].path
    /\ op[c].ok => regConf[op[c].path] = ConfValue(op[c].entry)
    /\ op[c].ok /\ op[c].at = "db" =>
         regFlags[op[c].path] = FlagsValue(op[c].entry)

FlushReadsItsFirstPass ==
  /\ \A c \in Clients : (op[c].at = "flush") <=> (cs = c)
  /\ cs # NoClient =>
       \A k \in Keys : (k \in Paths => Quiet(k)) =>
         \E order \in EnumOrders : db[k] = ParseConfigs(order)[k]

(* What kexcoresdk.h says kexSetModuleSettings does ("Set per module       *)
(* settings"): an update that met no other update and no registry error    *)
(* leaves what every reload gives, for any module that is not excluded.    *)
SettingSurvivesReload ==
  [][\A c \in Clients :
       /\ op[c].at = "db" /\ op'[c] = Idle
       /\ op[c].ok /\ op[c].alone /\ op[c].entry # NoEntry
       /\ op[c].path \notin LibPaths \cup {OwnPath}
       => \A order \in EnumOrders :
            Reloaded(order)'[op[c].path] = db'[op[c].path]]_settingsVars

=============================================================================

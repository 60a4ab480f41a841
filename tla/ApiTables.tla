----------------------------- MODULE ApiTables -----------------------------
(***************************************************************************)
(* API libraries and API configurations: src/core/apilib.cpp, apiconf.cpp  *)
(* and apiconfmgr.cpp.                                                     *)
(*                                                                         *)
(* An API library overrides functions of system DLLs.  core.ini lists the  *)
(* configurations: what each inherits, which libraries it joins and which  *)
(* functions it takes from elsewhere.  They are loaded one by one when the *)
(* core starts; each keeps, for every overridden DLL, a sorted table of    *)
(* names and a table of ordinals.                                          *)
(***************************************************************************)
EXTENDS Addresses, SequencesExt

CONSTANTS
  LibTables, \* what get_api_table of each library returns
  Handle,    \* where each library is in the process that starts the core
  System,    \* the exports of each system DLL, what follows their table, and where
             \* it is if it is shared
  Inis,      \* what core.ini may be: [default, sections]
  Names,     \* of functions: numbers in strcmp's order
  None       \* "none" in core.ini, and no function

Libs    == DOMAIN LibTables
Targets == DOMAIN System
STD     == "STD"

Sorted(entries) ==
  \A j, k \in DOMAIN entries : j < k => entries[j].key <= entries[k].key

NamedApis   == Seq([key : Names, addr : Dword])
OrdinalApis == Seq([key : Nat \ {0}, addr : Dword])

\* are_api_tables_sorted: load_apilib refuses others.
ASSUME TablesAssumption ==
  /\ STD \notin Libs /\ Names \subseteq Int
  /\ \A lib \in Libs :
       /\ Handle[lib] \in Dword \ {0}
       /\ LibTables[lib] \in Seq([target : Targets, named : NamedApis, ordinals : OrdinalApis])
       /\ \A k \in DOMAIN LibTables[lib] :
            Sorted(LibTables[lib][k].named) /\ Sorted(LibTables[lib][k].ordinals)

\* The exports of a DLL: its names are sorted, and the numbers of its functions have
\* room above the addresses, as parse_system_dll asserts.
ASSUME SystemAssumption ==
  \A t \in Targets :
    LET dll == System[t]
    IN  /\ dll.functions \in Seq(ToSet(dll.functions)) /\ Len(dll.functions) < FORWARDS
        /\ \A f \in DOMAIN dll.functions : dll.functions[f].rva + dll.handle \in Dword
        /\ dll.names \in Seq([key : Names, function : DOMAIN dll.functions])
        /\ Sorted(dll.names)

\* A configuration has one section of its name.
ASSUME InisAssumption ==
  \A i \in Inis :
    /\ i.default \in Nat \ {0} /\ i.sections \in Seq(ToSet(i.sections))
    /\ \A j, k \in DOMAIN i.sections : i.sections[j].name = i.sections[k].name => j = k
    /\ \A k \in DOMAIN i.sections :
         /\ i.sections[k].name # None
         /\ i.sections[k].contents \in Seq(Libs \cup {STD})
         /\ i.sections[k].overrides \in Seq(ToSet(i.sections[k].overrides))
         /\ \A o \in ToSet(i.sections[k].overrides) : o.kind \in {"name", "ordinal"} /\ o.id \in Nat

VARIABLES
  ini,        \* core.ini
  apilibs,    \* apilib_ptrs: the names of the libraries, STD the first
  overridden, \* overridden_module_names
  apiconfs,   \* apiconf_ptrs: [name, tables]
  entry,      \* the entry of core.ini being loaded
  apiconf,    \* the configuration made of it
  default_apiconf,
  phase

confVars   == <<ini, apilibs, overridden, apiconfs, default_apiconf>>
tablesVars == <<confVars, entry, apiconf, phase>>

-----------------------------------------------------------------------------
(* Libraries *)

\* parse_system_dll, of a function with this number in the DLL: one that it
\* forwards, or an RVA to which the address of a shared DLL is added.  A number
\* that is not used has the RVA 0, and gets the DLL's address just the same.
StdAddress(t, f) ==
  LET fun == System[t].functions[f]
  IN  IF fun.forward # None THEN ForwardOf(f) ELSE fun.rva + System[t].handle

StdTable(t) ==
  [target   |-> t,
   named    |-> [k \in DOMAIN System[t].names |->
                   [key  |-> System[t].names[k].key,
                    addr |-> StdAddress(t, System[t].names[k].function)]],
   ordinals |-> [f \in DOMAIN System[t].functions |->
                   [key |-> f, addr |-> StdAddress(t, f)]]]

\* api_tables of a library; STD's are the exports of all overridden modules.
TablesOf(lib) ==
  IF lib = STD THEN [k \in DOMAIN overridden |-> StdTable(overridden[k])]
  ELSE LibTables[lib]

\* The library's first table for a DLL.
Overrides(lib, t) == \E k \in DOMAIN TablesOf(lib) : TablesOf(lib)[k].target = t
TableFor(lib, t)  ==
  TablesOf(lib)[Min({k \in DOMAIN TablesOf(lib) : TablesOf(lib)[k].target = t})]

Encoded(addr, lib) ==
  encode_address(addr, SelectInSeq(apilibs, LAMBDA l : l = lib) - 1,
                 IF lib = STD THEN 0 ELSE Handle[lib])

AppendNew(s, x) == IF x \in ToSet(s) THEN s ELSE Append(s, x)

\* Each of xs, if it is not there yet.
AppendAll(s, xs) ==
  LET all[k \in 0..Len(xs)] == IF k = 0 THEN s ELSE AppendNew(all[k - 1], xs[k])
  IN  all[Len(xs)]

\* add_overridden_module, for the targets of each library.
TargetsOf(libs) ==
  FlattenSeq([k \in DOMAIN libs |->
    IF libs[k] = STD THEN <<>>
    ELSE [m \in DOMAIN LibTables[libs[k]] |-> LibTables[libs[k]][m].target]])

\* load_apilib, for the libraries of a configuration.
LoadApilibs(libs) ==
  /\ apilibs' = AppendAll(apilibs, libs)
  /\ overridden' = AppendAll(overridden, TargetsOf(libs))

-----------------------------------------------------------------------------
(* Tables of a configuration, one per overridden DLL *)

EmptyTable == [named |-> <<>>, unnamed |-> <<>>]

\* recalloc(api_tables, overridden_module_count), if there is no i-th one.
Grown(tables, i) ==
  IF i <= Len(tables) THEN tables
  ELSE [k \in DOMAIN overridden |->
          IF k <= Len(tables) THEN tables[k] ELSE EmptyTable]

GrownOrdinals(unnamed, count) ==
  [o \in 1..Max({Len(unnamed), count}) |-> IF o <= Len(unnamed) THEN unnamed[o] ELSE 0]

\* The first place from here on of an entry that is not before the key, or the end.
PlaceFrom(entries, from, key) ==
  Min({k \in from..Len(entries) : key <= entries[k].key} \cup {Len(entries) + 1})
LowerBound(entries, key) == PlaceFrom(entries, 1, key)
IsAt(entries, k, key)    == k \in DOMAIN entries /\ entries[k].key = key

\* An entry takes the place of the one with its name, or goes in between.
PutAt(named, k, new) ==
  IF IsAt(named, k, new.key) THEN ReplaceAt(named, k, new) ELSE InsertAt(named, k, new)

\* Mutation: of functions with one ordinal the last is taken.
JoinOrdinalsLast(unnamed, src, lib) ==
  LET last == IF src = <<>> THEN 0 ELSE src[Len(src)].key
      own(o) == {k \in DOMAIN src : src[k].key = o}
  IN  [o \in DOMAIN GrownOrdinals(unnamed, last) |->
         IF own(o) = {} THEN GrownOrdinals(unnamed, last)[o]
         ELSE Encoded(src[Max(own(o))].addr, lib)]

\* "join ordinal apis": the first of those with one ordinal.
JoinOrdinals(unnamed, src, lib) ==
  LET last == IF src = <<>> THEN 0 ELSE src[Len(src)].key
      own(o) == {k \in DOMAIN src : src[k].key = o}
  IN  [o \in DOMAIN GrownOrdinals(unnamed, last) |->
         IF own(o) = {} THEN GrownOrdinals(unnamed, last)[o]
         ELSE Encoded(src[Min(own(o))].addr, lib)]

\* "join named apis", both sorted: of functions with one name the first.  The next
\* has its place after this one's.
JoinNames(dst, src, lib) ==
  LET join[j \in 0..Len(src)] ==
        IF j = 0 THEN [named |-> dst, next |-> 1]
        ELSE LET done == join[j - 1]
                 new  == [key |-> src[j].key, addr |-> Encoded(src[j].addr, lib)]
                 k    == PlaceFrom(done.named, done.next, new.key)
             IN  IF j > 1 /\ src[j - 1].key = new.key THEN done
                 ELSE [named |-> PutAt(done.named, k, new), next |-> k + 1]
  IN  join[Len(src)].named

\* merge(apilib): every overridden DLL that the library has a table for.
MergeLib(tables, lib) ==
  LET own == {i \in DOMAIN overridden : Overrides(lib, overridden[i])}
      all == Grown(tables, Max(own \cup {0}))
      Joined(i) ==
        LET src == TableFor(lib, overridden[i])
        IN  [named   |-> JoinNames(all[i].named, src.named, lib),
             unnamed |-> JoinOrdinals(all[i].unnamed, src.ordinals, lib)]
  IN  [i \in DOMAIN all |-> IF i \in own THEN Joined(i) ELSE all[i]]

\* The second loop of join_apilibs.
MergeLibs(tables, libs) ==
  LET merged[k \in 0..Len(libs)] ==
        IF k = 0 THEN tables ELSE MergeLib(merged[k - 1], libs[k])
  IN  merged[Len(libs)]

-----------------------------------------------------------------------------
(* Overrides of single functions: [kind, target, key, lib, id] stands for a   *)
(* line "target.key=lib.id" of one of the two sections.  What fails leaves    *)
(* Failed, and so does what follows.                                          *)

Failed == << [failed |-> TRUE] >>

\* The id-th of the library's functions with that name or ordinal.
SourceOf(o) ==
  LET t == TableFor(o.lib, o.target)
  IN  IF o.kind = "name" THEN t.named ELSE t.ordinals
PlaceIn(o) == LowerBound(SourceOf(o), o.key) + o.id

CanMerge(o) ==
  /\ o.lib \in ToSet(apilibs) /\ Overrides(o.lib, o.target)
  /\ IsAt(SourceOf(o), PlaceIn(o), o.key)

PutName(named, new) == PutAt(named, LowerBound(named, new.key), new)

\* merge(module, api_name, apilib, id) and merge(module, ordinal, apilib, id).
MergeOne(tables, o, i) ==
  LET all  == Grown(tables, i)
      addr == Encoded(SourceOf(o)[PlaceIn(o)].addr, o.lib)
  IN  IF o.kind = "name"
      THEN [all EXCEPT ![i].named = PutName(@, [key |-> o.key, addr |-> addr])]
      ELSE [all EXCEPT ![i].unnamed = [GrownOrdinals(@, o.key) EXCEPT ![o.key] = addr]]

\* erase(module, api_name) and erase(module, ordinal).
CanErase(tables, o, i) ==
  /\ i \in DOMAIN tables
  /\ IF o.kind = "name"
     THEN IsAt(tables[i].named, LowerBound(tables[i].named, o.key), o.key)
     ELSE o.key \in DOMAIN tables[i].unnamed

EraseOne(tables, o, i) ==
  IF o.kind = "name"
  THEN [tables EXCEPT ![i].named = RemoveAt(@, LowerBound(@, o.key))]
  ELSE [tables EXCEPT ![i].unnamed[o.key] = 0]

\* A line of parse_overrides.
Override(tables, o) ==
  LET i == SelectInSeq(overridden, LAMBDA t : t = o.target)
  IN  IF tables = Failed \/ i = 0 THEN Failed
      ELSE IF o.lib = None
        THEN IF CanErase(tables, o, i) THEN EraseOne(tables, o, i) ELSE Failed
      ELSE IF CanMerge(o) THEN MergeOne(tables, o, i) ELSE Failed

\* parse_overrides.
Overriding(tables, lines) ==
  LET after[k \in 0..Len(lines)] ==
        IF k = 0 THEN tables ELSE Override(after[k - 1], lines[k])
  IN  after[Len(lines)]

-----------------------------------------------------------------------------
(* load_api_configurations *)

Section == ini.sections[entry]
Found(name) == SelectInSeq(apiconfs, LAMBDA c : c.name = name)

\* Mutation: without its default configuration the core goes on.
NextEntryAnyway ==
  /\ entry' = entry + 1
  /\ phase' = "libraries"
  /\ UNCHANGED <<apiconf, apiconfs>>

\* __error: the configuration is deleted; without the default there is none.
NextEntry ==
  /\ entry' = entry + 1
  /\ phase' = IF entry = ini.default THEN "aborted" ELSE "libraries"
  /\ UNCHANGED <<apiconf, apiconfs>>

\* The configuration inherits from one loaded before, or is empty, and its
\* libraries are loaded.  Libraries may be missing.
LoadLibraries(missing) ==
  /\ phase = "libraries" /\ entry \in DOMAIN ini.sections
  /\ LET contents == Section.contents
         bad  == {k \in DOMAIN contents : contents[k] \in missing}
         from == Found(Section.inherit)
         tables == IF from = 0 THEN <<>> ELSE apiconfs[from].tables
     IN  IF Section.inherit # None /\ from = 0
         THEN NextEntry /\ UNCHANGED <<apilibs, overridden>>
         ELSE /\ LoadApilibs(IF bad = {} THEN contents
                             ELSE SubSeq(contents, 1, Min(bad) - 1))
              /\ IF bad # {} THEN NextEntry
                 ELSE /\ apiconf' = [name |-> Section.name,
                                     tables |-> Grown(tables, Len(overridden))]
                      /\ phase' = "tables"
                      /\ UNCHANGED <<entry, apiconfs>>
  /\ UNCHANGED <<ini, default_apiconf>>

\* The libraries are joined in their order, and then the overrides.  Memory may
\* run out.
MakeTables(memory) ==
  /\ phase = "tables"
  /\ LET joined == MergeLibs(apiconf.tables, Section.contents)
         tables == Overriding(joined, Section.overrides)
     IN  IF memory /\ tables # Failed
         THEN /\ apiconfs' = Append(apiconfs, [apiconf EXCEPT !.tables = tables])
              /\ entry' = entry + 1 /\ phase' = "libraries"
              /\ UNCHANGED apiconf
         ELSE NextEntry
  /\ UNCHANGED <<ini, apilibs, overridden, default_apiconf>>

\* No more entries.  The default configuration is the one with its number among
\* those loaded; the array has something else where there are fewer.
EndOfEntries ==
  /\ phase = "libraries" /\ entry \notin DOMAIN ini.sections
  /\ phase' = IF entry <= ini.default THEN "aborted" ELSE "ready"
  /\ default_apiconf' =
       IF phase' = "ready" /\ ini.default \in DOMAIN apiconfs
       THEN apiconfs[ini.default].name ELSE None
  /\ UNCHANGED <<ini, apilibs, overridden, apiconfs, entry, apiconf>>

TablesInit ==
  /\ ini \in Inis
  /\ apilibs = <<STD>> /\ overridden = <<>>
  /\ apiconfs = <<>> /\ entry = 1
  /\ apiconf = [name |-> None, tables |-> <<>>]
  /\ default_apiconf = None
  /\ phase = "libraries"

TablesNext ==
  \/ \E missing \in SUBSET Libs : LoadLibraries(missing)
  \/ \E memory \in BOOLEAN : MakeTables(memory)
  \/ EndOfEntries

-----------------------------------------------------------------------------
(* Looking functions up *)

\* The binary search of get and of OriExportFromName.
Search(named, key, first, last) ==
  LET search[part \in (0..Len(named)) \X (-1..Len(named)-1)] ==
        LET lo   == part[1]
            hi   == part[2]
            curr == (lo + hi) \div 2
        IN  IF lo > hi THEN 0
            ELSE IF key > named[curr + 1].key THEN search[<<curr + 1, hi>>]
            ELSE IF key < named[curr + 1].key THEN search[<<lo, curr - 1>>]
            ELSE named[curr + 1].addr
  IN  search[<<first, last>>]

\* get(table_id, hint, api_name): the loader's hint first.
GetNamed(named, hint, key) ==
  LET last == Len(named) - 1
  IN  IF hint > last THEN Search(named, key, 0, last)
      ELSE IF key > named[hint + 1].key THEN Search(named, key, hint + 1, last)
      ELSE IF key < named[hint + 1].key THEN Search(named, key, 0, hint - 1)
      ELSE named[hint + 1].addr

\* get(table_id, api_ordinal).
GetOrdinal(unnamed, ord) == IF ord > Len(unnamed) THEN 0 ELSE unnamed[ord]

\* is_table_empty: a table is one of ordinals.
IsTableEmpty(tables, i) == i \notin DOMAIN tables \/ tables[i].unnamed = <<>>

\* Where a function is: in a DLL or library, from where that is in the process,
\* in the shared arena, or where a forwarded export leads.
Nowhere    == [in |-> None, at |-> 0]
InArena(a) == [in |-> "arena", at |-> a]

\* OriExportFromOrdinal and OriExportFromName.  The number after the last one is
\* let through, and what follows the table is taken.
OriExportFromOrdinal(t, ord) ==
  IF ord \notin 1..Len(System[t].functions)+1 THEN Nowhere
  ELSE LET fun == Append(System[t].functions, System[t].after)[ord]
       IN  IF fun.forward # None THEN [in |-> "forward", at |-> fun.forward]
           ELSE IF fun.rva = 0 THEN Nowhere
           ELSE IF IS_SHARED(System[t].handle) THEN InArena(System[t].handle + fun.rva)
           ELSE [in |-> t, at |-> fun.rva]

OriExportFromName(t, key) ==
  LET ks == {k \in DOMAIN System[t].names : System[t].names[k].key = key}
  IN  IF ks = {} THEN Nowhere
      ELSE OriExportFromOrdinal(t, System[t].names[Min(ks)].function)

\* decode_address, but for where a library is in the process.
decode_address(p, t) ==
  CASE KindOf(p) = "none"      -> Nowhere
    [] KindOf(p) = "forward"   -> OriExportFromOrdinal(t, OrdinalOf(p))
    [] KindOf(p) = "inTarget"  -> [in |-> t, at |-> p]
    [] KindOf(p) = "inLibrary" -> [in |-> apilibs[LibraryOf(p) + 1], at |-> OffsetOf(p)]
    [] KindOf(p) = "absolute"  -> InArena(p)

\* ExportFromName and ExportFromOrdinal for a caller with the tables of a
\* configuration.
ExportFromName(tables, t, hint, key) ==
  LET i == SelectInSeq(overridden, LAMBDA m : m = t)
  IN  IF i = 0 \/ IsTableEmpty(tables, i) THEN OriExportFromName(t, key)
      ELSE decode_address(GetNamed(tables[i].named, hint, key), t)

ExportFromOrdinal(tables, t, ord) ==
  LET i == SelectInSeq(overridden, LAMBDA m : m = t)
  IN  IF i = 0 \/ IsTableEmpty(tables, i) THEN OriExportFromOrdinal(t, ord)
      ELSE decode_address(GetOrdinal(tables[i].unnamed, ord), t)

-----------------------------------------------------------------------------
(* Properties *)

\* Names are in strcmp's order, each once.
Increasing(named) == \A j, k \in DOMAIN named : j < k => named[j].key < named[k].key

Tables == Seq([named : NamedApis, unnamed : Seq(Dword)])
Full(tables) ==
  /\ tables \in Tables /\ Len(tables) <= Len(overridden)
  /\ \A i \in DOMAIN tables : Increasing(tables[i].named)

TablesTypeOK ==
  /\ entry \in Nat \ {0}
  /\ apilibs \in Seq(Libs \cup {STD}) /\ apilibs # <<>> /\ apilibs[1] = STD
  /\ overridden \in Seq(Targets) /\ IsInjective(apilibs) /\ IsInjective(overridden)
  /\ apiconfs \in Seq(ToSet(apiconfs))
  /\ \A c \in ToSet(apiconfs) \cup {apiconf} : Full(c.tables)
  /\ phase \in {"libraries", "tables", "ready", "aborted"}

\* A library's functions of a DLL, by names or by ordinals, and where those with one
\* name or ordinal are among them.
FunctionsOf(lib, kind, t) ==
  LET own == {k \in DOMAIN LibTables[lib] : LibTables[lib][k].target = t}
  IN  IF own = {} THEN <<>>
      ELSE IF kind = "name" THEN LibTables[lib][Min(own)].named
      ELSE LibTables[lib][Min(own)].ordinals

PlacesOf(lib, kind, t, key) ==
  IF lib # STD
  THEN {k \in DOMAIN FunctionsOf(lib, kind, t) : FunctionsOf(lib, kind, t)[k].key = key}
  ELSE IF kind = "name"
  THEN {k \in DOMAIN System[t].names : System[t].names[k].key = key}
  ELSE {key} \cap DOMAIN System[t].functions

\* Where the id-th of them is.
FunctionOf(lib, kind, t, key, id) ==
  LET k == Min(PlacesOf(lib, kind, t, key)) + id
      addr == FunctionsOf(lib, kind, t)[k].addr
  IN  IF PlacesOf(lib, kind, t, key) = {} THEN Nowhere
      ELSE IF lib = STD
      THEN OriExportFromOrdinal(t, IF kind = "name" THEN System[t].names[k].function ELSE k)
      ELSE IF IS_SHARED(Handle[lib]) THEN InArena(addr)
      ELSE [in |-> lib, at |-> addr - Handle[lib]]

\* What a section of core.ini says of a function: the last of its overrides, else
\* the last of its libraries that has it, else what it inherits; and of what no
\* one speaks the DLL's own is left.
Said(sections, n, kind, t, key) ==
  LET said[m \in DOMAIN sections] ==
        LET sec   == sections[m]
            lines == {j \in DOMAIN sec.overrides :
                        /\ sec.overrides[j].kind = kind
                        /\ sec.overrides[j].target = t /\ sec.overrides[j].key = key}
            last  == sec.overrides[Max(lines)]
            libs  == {j \in DOMAIN sec.contents : PlacesOf(sec.contents[j], kind, t, key) # {}}
            ups   == {up \in 1..m-1 : sections[up].name = sec.inherit}
        IN  IF lines # {}
            THEN IF last.lib = None THEN Nowhere ELSE FunctionOf(last.lib, kind, t, key, last.id)
            ELSE IF libs # {} THEN FunctionOf(sec.contents[Max(libs)], kind, t, key, 0)
            ELSE IF ups # {} THEN said[Max(ups)]
            ELSE FunctionOf(STD, kind, t, key, 0)
  IN  said[n]

SectionOf(c) == CHOOSE n \in DOMAIN ini.sections : ini.sections[n].name = c.name

\* Numbers of functions that a DLL or one of the libraries has.
Ordinals(t) ==
  DOMAIN System[t].functions
    \cup {e.key : e \in UNION {ToSet(FunctionsOf(lib, "ordinal", t)) : lib \in Libs}}

\* A number a shared DLL does not use may resolve to the DLL's first byte, and the one
\* after its last to what follows the table, where nothing should be found.
Stray(t, ord) ==
  LET functions == System[t].functions
  IN  \/ ord = Len(functions) + 1
      \/ /\ IS_SHARED(System[t].handle)
         /\ ord \in DOMAIN functions /\ functions[ord].forward = None /\ functions[ord].rva = 0

\* "driver hijacked apis so the address is now above 0xc0000000 ... create a stub":
\* a stub leads to the address it was made for.
Reaches(found, said) ==
  \/ found = said
  \/ /\ said.in = "arena" /\ said.at >= ENCODED * SEGMENT
     /\ found = InArena(Stub[said.at])

\* Functions are in their DLLs and libraries: those of shared ones in the shared arena
\* or, of the system's, above it; others have room below it, and encode_address asserts
\* that those of a library fit in its segment.  What has a name is used.
ASSUME PlacesAssumption ==
  /\ IsFiniteSet(Names) /\ IsFiniteSet(Libs) /\ HasSegment(Cardinality(Libs))
  /\ \A lib \in Libs : \A k \in DOMAIN LibTables[lib] :
       \A e \in ToSet(LibTables[lib][k].named) \cup ToSet(LibTables[lib][k].ordinals) :
         IF IS_SHARED(Handle[lib]) THEN IS_SHARED(e.addr) /\ e.addr < ENCODED * SEGMENT
         ELSE Fits(e.addr, Handle[lib])
  /\ \A t \in Targets :
       LET dll == System[t]
       IN  /\ dll.handle \in Nat /\ (dll.handle # 0 => IS_SHARED(dll.handle))
           /\ dll.functions # <<>>
           /\ \A fun \in ToSet(dll.functions) :
                /\ fun.rva \in Nat /\ ~IS_SHARED(fun.rva) /\ ~IsForward(fun.rva + dll.handle)
           /\ \A n \in ToSet(dll.names) :
                dll.functions[n.function].forward = None => dll.functions[n.function].rva # 0

\* STD is joined with the DLLs that a configuration overrides functions of, by itself or
\* by one that it inherits: is_table_empty goes by its numbers, and the DLL's other
\* functions are found in a table as well.
JoinsStd(sections, dlls) ==
  \A n \in DOMAIN sections :
    LET sec == sections[n]
        own == ToSet(TargetsOf(sec.contents))
        ups == {up \in 1..n-1 : sections[up].name = sec.inherit}
    IN  /\ own \cup {o.target : o \in ToSet(sec.overrides)} \subseteq dlls[n]
        /\ dlls[n] = (IF STD \in ToSet(sec.contents) THEN own ELSE {})
                       \cup UNION {dlls[up] : up \in ups}

ASSUME JoinedAssumption ==
  \A i \in Inis : \E dlls \in [DOMAIN i.sections -> SUBSET Targets] : JoinsStd(i.sections, dlls)

(* Whatever libraries are joined, tables inherited, functions overridden    *)
(* and entries of core.ini fail, and whatever hint the loader has: a        *)
(* function comes from where core.ini says, in every configuration that is  *)
(* loaded (apiconf.cpp, get: "Api address or 0 if api address not found").  *)
LookupsAreAsConfigured ==
  phase = "libraries" =>
  \A c \in ToSet(apiconfs), t \in Targets :
    /\ \A key \in Names, hint \in 0..Cardinality(Names) :
         Reaches(ExportFromName(c.tables, t, hint, key),
               Said(ini.sections, SectionOf(c), "name", t, key))
    /\ \A ord \in Ordinals(t) :
         LET said == Said(ini.sections, SectionOf(c), "ordinal", t, ord)
         IN  \/ Reaches(ExportFromOrdinal(c.tables, t, ord), said)
             \/ Stray(t, ord) /\ said = Nowhere

(* "Failed to load default api configuration - aborting": the core starts   *)
(* with the default of core.ini or not at all, unless an entry before it    *)
(* failed, by which its number is off.                                      *)
DefaultOrNothing ==
  phase = "ready" =>
    LET name(k) == ini.sections[k].name
        loaded  == {c.name : c \in ToSet(apiconfs)}
    IN  \/ default_apiconf = name(ini.default)
        \/ \E k \in 1..ini.default-1 : name(k) \notin loaded

=============================================================================

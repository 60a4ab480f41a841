------------------------------ MODULE Imports ------------------------------
(***************************************************************************)
(* Imports of functions of API libraries: resolve_nonshared_addr and       *)
(* KexLoadTreeNotify in src/core/resolver.cpp, with src/core/ModInit.cpp,  *)
(* over the tables of module ApiTables.                                    *)
(*                                                                         *)
(* A library that is not shared is loaded into a process by the first      *)
(* import of one of its functions.  One that a static import loads, while  *)
(* a module is being loaded, is listed by the process's module initialiser *)
(* and started before that module is; one that GetProcAddress loads is     *)
(* started at once.  The former happens under krnl32lock, the latter under *)
(* the process's own lock: a process may do one of each at a time.         *)
(***************************************************************************)
EXTENDS ApiTables

CONSTANTS
  Procs,
  Bases,     \* where else than at Handle a library may be loaded
  Nobody

ASSUME ImportsAssumption ==
  /\ Nobody \notin Procs
  /\ Bases \subseteq 1..(SHARED * SEGMENT - 1)

VARIABLES
  base,       \* where each library is in each process, 0 if it is not
  uses,       \* how often it was loaded there
  marked,     \* IMTEs, that is libraries at a base, with their mod_index
  modinits,   \* the module initialisers made in each process: [data, init]
  modinit,    \* the one in its process storage, 0 if there is none
  attached,   \* libraries started in each process
  refused,    \* libraries that did not start
  thread,     \* the two imports a process may do at a time
  krnl32lock,
  bound       \* what the imports of each process were answered

processVars == <<base, uses, marked, modinits, modinit, attached, refused>>
importsVars == <<tablesVars, processVars, thread, krnl32lock, bound>>

Kinds == {"static", "dynamic"}
Idle  == [at |-> "idle", fun |-> Nowhere, mi |-> 0, libs |-> {}]

At(p, k)     == thread[p][k].at
Fun(p, k)    == thread[p][k].fun
Lib(p, k)    == Fun(p, k).in
Mi(p, k)     == thread[p][k].mi
To(p, k, at) == thread' = [thread EXCEPT ![p][k].at = at]

-----------------------------------------------------------------------------
(* Beginning an import *)

\* The loader maps a module and resolves its imports under krnl32lock.
BeginLoad(p) ==
  /\ phase = "ready" /\ At(p, "static") = "idle" /\ krnl32lock = Nobody
  /\ krnl32lock' = p
  /\ To(p, "static", "imports")
  /\ UNCHANGED <<tablesVars, processVars, bound>>

\* An import that the tables lead to a library that is not shared.
Import(p, k) ==
  /\ phase = "ready"
  /\ At(p, k) = IF k = "static" THEN "imports" ELSE "idle"
  /\ \E c \in ToSet(apiconfs), t \in Targets, key \in Names :
       LET fun == ExportFromName(c.tables, t, 0, key)
       IN  /\ fun.in \in Libs
           /\ thread' = [thread EXCEPT ![p][k].fun = fun, ![p][k].at = "instance"]
  /\ UNCHANGED <<tablesVars, processVars, krnl32lock, bound>>

\* ModuleInitializer::get_instance(true): it is read, made and published without
\* a lock.
GetInstance(p, k) ==
  /\ At(p, k) = "instance"
  /\ thread' = [thread EXCEPT ![p][k].mi = modinit[p],
                              ![p][k].at = IF modinit[p] = 0 THEN "make" ELSE "scan"]
  /\ UNCHANGED <<tablesVars, processVars, krnl32lock, bound>>

MakeInstance(p, k) ==
  /\ At(p, k) = "make"
  /\ modinits' = [modinits EXCEPT ![p] = Append(@, [data |-> <<>>, init |-> 0])]
  /\ modinit' = [modinit EXCEPT ![p] = Len(modinits'[p])]
  /\ thread' = [thread EXCEPT ![p][k].mi = modinit'[p], ![p][k].at = "scan"]
  /\ UNCHANGED <<tablesVars, base, uses, marked, attached, refused, krnl32lock, bound>>

\* Mutation: every process is told the address in the core's.
AnswerHandle(p, k, lib, at) ==
  /\ bound' = [bound EXCEPT ![p] = @ \cup {[fun |-> Fun(p, k), address |-> Handle[lib] + Fun(p, k).at]}]
  /\ thread' = [thread EXCEPT ![p][k] =
       IF k = "dynamic" THEN Idle
       ELSE [Idle EXCEPT !.at = "imports", !.libs = thread[p][k].libs \cup {lib}]]

\* img_base + (addr & 0x00ffffff); a static load goes on to its next import.
Answer(p, k, lib, at) ==
  /\ bound' = [bound EXCEPT ![p] = @ \cup {[fun |-> Fun(p, k), address |-> at + Fun(p, k).at]}]
  /\ thread' = [thread EXCEPT ![p][k] =
       IF k = "dynamic" THEN Idle
       ELSE [Idle EXCEPT !.at = "imports", !.libs = thread[p][k].libs \cup {lib}]]

\* Mutation: what a failed load leaves locked stays so.
NoAnswerLocked(p, k) ==
  /\ thread' = [thread EXCEPT ![p][k] = Idle]
  /\ UNCHANGED <<krnl32lock, bound>>

\* An import that fails; with it the load of a module does.
NoAnswer(p, k) ==
  /\ thread' = [thread EXCEPT ![p][k] = Idle]
  /\ krnl32lock' = IF k = "static" THEN Nobody ELSE krnl32lock
  /\ UNCHANGED bound

-----------------------------------------------------------------------------
(* resolve_nonshared_addr *)

Data(p, mi) == modinits[p][mi].data

\* get_handle_for_index: a library in the list whose IMTE has the index.  The
\* list may have a library that was freed; its IMTE may be found in it or not.
Scan(p, k) ==
  LET lib  == Lib(p, k)
      hits == IF lib \notin ToSet(Data(p, Mi(p, k))) THEN {}
              ELSE {a \in Bases \cup {Handle[lib]} :
                      <<lib, a>> \in marked /\ base[p][lib] \in {0, a}}
  IN  /\ At(p, k) = "scan"
      /\ \/ \E a \in hits : Answer(p, k, lib, a)
         \/ /\ hits = {} \/ base[p][lib] = 0
            /\ To(p, k, "load")
            /\ UNCHANGED bound
      /\ UNCHANGED <<tablesVars, processVars, krnl32lock>>

\* MRLoadTree and add_module, under krnl32lock.
Load(p, k) ==
  LET lib == Lib(p, k) IN
  /\ At(p, k) = "load"
  /\ krnl32lock = IF k = "static" THEN p ELSE Nobody
  /\ \/ \E a \in Bases \cup {Handle[lib]} :
          /\ base[p][lib] \in {0, a}
          /\ \A other \in Libs \ {lib} : base[p][other] # a
          /\ base' = [base EXCEPT ![p][lib] = a]
          /\ uses' = [uses EXCEPT ![p][lib] = @ + 1]
          /\ modinits' = [modinits EXCEPT ![p][Mi(p, k)].data = Append(@, lib)]
          /\ To(p, k, IF k = "static" THEN "mark" ELSE "start")
          /\ UNCHANGED <<bound, krnl32lock>>
     \/ NoAnswer(p, k) /\ UNCHANGED <<base, uses, modinits>>
  /\ UNCHANGED <<tablesVars, marked, modinit, attached, refused>>

\* FLoadTreeNotify of a library that is started already does nothing.
Attaches(p, lib) == attached' = [attached EXCEPT ![p] = @ \cup {lib}]
Refuses(p, lib)  ==
  /\ lib \notin attached[p]
  /\ refused' = [refused EXCEPT ![p] = @ \cup {lib}]

\* A library is loaded where the core has it, or by a process.
IsLoaded(lib, a) == a = Handle[lib] \/ \E p \in Procs : base[p][lib] = a

\* GetProcAddress: the library is started, or freed again, and with its last
\* instance at a base its IMTE.
Start(p, k) ==
  LET lib == Lib(p, k) IN
  /\ At(p, k) = "start"
  /\ \/ /\ Attaches(p, lib)
        /\ To(p, k, "mark")
        /\ UNCHANGED <<base, uses, marked, refused, bound, krnl32lock>>
     \/ /\ Refuses(p, lib)
        /\ uses' = [uses EXCEPT ![p][lib] = @ - 1]
        /\ base' = [base EXCEPT ![p][lib] = IF uses[p][lib] = 1 THEN 0 ELSE @]
        /\ marked' = {m \in marked : IsLoaded(m[1], m[2])'}
        /\ NoAnswer(p, k)
        /\ UNCHANGED attached
  /\ UNCHANGED <<tablesVars, modinits, modinit>>

\* Mutation: the IMTE of a library that was loaded elsewhere gets no index.
MarkNothing(p, k) ==
  /\ At(p, k) = "mark"
  /\ Answer(p, k, Lib(p, k), base[p][Lib(p, k)])
  /\ UNCHANGED <<tablesVars, processVars, krnl32lock>>

\* imte->mod_index = idx.
Mark(p, k) ==
  /\ At(p, k) = "mark"
  /\ marked' = marked \cup {<<Lib(p, k), base[p][Lib(p, k)]>>}
  /\ Answer(p, k, Lib(p, k), base[p][Lib(p, k)])
  /\ UNCHANGED <<tablesVars, base, uses, modinits, modinit, attached, refused, krnl32lock>>

-----------------------------------------------------------------------------
(* KexLoadTreeNotify, for a module whose imports are resolved *)

EndLoad(p) ==
  /\ At(p, "static") = "imports"
  /\ krnl32lock' = Nobody
  /\ thread' = [thread EXCEPT ![p]["static"].at = "notify", ![p]["static"].mi = modinit[p]]
  /\ UNCHANGED <<tablesVars, processVars, bound>>

\* Mutation: the last library of the list is left for later.
HasInitializeLater(p, mi) == mi # 0 /\ modinits[p][mi].init + 1 < Len(modinits[p][mi].data)

HasInitialize(p, mi) == mi # 0 /\ modinits[p][mi].init < Len(modinits[p][mi].data)

\* initialize_modules takes the next library of the list.
Initialize(p) ==
  LET mi == Mi(p, "static") IN
  /\ At(p, "static") = "notify" /\ HasInitialize(p, mi)
  /\ modinits' = [modinits EXCEPT ![p][mi].init = @ + 1]
  /\ thread' = [thread EXCEPT ![p]["static"].at = "attach",
       ![p]["static"].fun = [in |-> Data(p, mi)[modinits[p][mi].init + 1], at |-> 0]]
  /\ UNCHANGED <<tablesVars, base, uses, marked, modinit, attached, refused, krnl32lock, bound>>

\* FLoadTreeNotify of it; what is read of a freed one may be either.
Attach(p) ==
  LET lib == Lib(p, "static") IN
  /\ At(p, "static") = "attach"
  /\ \/ /\ To(p, "static", "notify")
        /\ IF base[p][lib] = 0 THEN UNCHANGED attached ELSE Attaches(p, lib)
        /\ UNCHANGED refused
     \/ /\ thread' = [thread EXCEPT ![p]["static"] = Idle]
        /\ Refuses(p, lib)
        /\ UNCHANGED attached
  /\ UNCHANGED <<tablesVars, base, uses, marked, modinits, modinit, krnl32lock, bound>>

\* The module itself is started, and runs.
Run(p) ==
  /\ At(p, "static") = "notify" /\ ~HasInitialize(p, Mi(p, "static"))
  /\ To(p, "static", "running")
  /\ UNCHANGED <<tablesVars, processVars, krnl32lock, bound>>

Ran(p) ==
  /\ At(p, "static") = "running"
  /\ thread' = [thread EXCEPT ![p]["static"] = Idle]
  /\ UNCHANGED <<tablesVars, processVars, krnl32lock, bound>>

-----------------------------------------------------------------------------
ImportsInit ==
  /\ TablesInit
  /\ base = [p \in Procs |-> [lib \in Libs |-> 0]]
  /\ uses = [p \in Procs |-> [lib \in Libs |-> 0]]
  /\ marked = {<<lib, Handle[lib]>> : lib \in Libs}
  /\ modinits = [p \in Procs |-> <<>>] /\ modinit = [p \in Procs |-> 0]
  /\ attached = [p \in Procs |-> {}] /\ refused = [p \in Procs |-> {}]
  /\ thread = [p \in Procs |-> [k \in Kinds |-> Idle]]
  /\ krnl32lock = Nobody
  /\ bound = [p \in Procs |-> {}]

Resolve(p, k) ==
  \/ Import(p, k) \/ GetInstance(p, k) \/ MakeInstance(p, k)
  \/ Scan(p, k) \/ Load(p, k) \/ Start(p, k) \/ Mark(p, k)

LoadModule(p) ==
  BeginLoad(p) \/ EndLoad(p) \/ Initialize(p) \/ Attach(p) \/ Run(p) \/ Ran(p)

ImportsNext ==
  \/ TablesNext /\ UNCHANGED <<processVars, thread, krnl32lock, bound>>
  \/ \E p \in Procs : LoadModule(p) \/ \E k \in Kinds : Resolve(p, k)

ImportsSpec == ImportsInit /\ [][ImportsNext]_importsVars

-----------------------------------------------------------------------------
(* Properties *)

(* The types of the tables and of processes.  A library is loaded where it   *)
(* has its place, and as long as it is used; krnl32lock is owned while an    *)
(* import is resolved and while no initialiser runs.                         *)
ImportsTypeOK ==
  /\ TablesTypeOK
  /\ \A p \in Procs, lib \in Libs :
       /\ base[p][lib] \in Bases \cup {0, Handle[lib]} /\ uses[p][lib] \in Nat
       /\ base[p][lib] = 0 <=> uses[p][lib] = 0
  /\ \A p \in Procs : modinit[p] = Len(modinits[p])
  /\ \A p \in Procs : \A mi \in DOMAIN modinits[p] :
       modinits[p][mi].init \in 0..Len(Data(p, mi))
  /\ \A p \in Procs :
       krnl32lock = p <=> At(p, "static") \notin {"idle", "notify", "attach", "running"}

(* "Valid address to function for calling process" (resolver.cpp, 189):     *)
(* whatever imports of one process and of others run meanwhile, and         *)
(* wherever each loads the library, an import is bound to the function in   *)
(* the instance of its process - unless a library did not start, which is   *)
(* freed but stays in the list.                                             *)
BoundInProcess ==
  \A p \in Procs : \A b \in bound[p] :
    LET lib == b.fun.in IN
    lib \notin refused[p] =>
      base[p][lib] # 0 /\ b.address = base[p][lib] + b.fun.at

(* A module runs only after the libraries that its imports led to have been *)
(* started or have refused to, if the process has made one initialiser: the *)
(* two imports of a process may each make one, and one is lost.             *)
StartedBeforeUse ==
  \A p \in Procs :
    At(p, "static") = "running" /\ Len(modinits[p]) <= 1 =>
      thread[p]["static"].libs \subseteq attached[p] \cup refused[p]

(* "first check if api library has already been loaded" (resolver.cpp,      *)
(* 209): the list of 64 places does not grow with every import, while all   *)
(* libraries start.                                                         *)
ListedOnceByEach ==
  \A p \in Procs : \A mi \in DOMAIN modinits[p] :
    refused[p] = {} =>
      \A lib \in Libs : Cardinality({k \in DOMAIN Data(p, mi) : Data(p, mi)[k] = lib}) <= 2

=============================================================================

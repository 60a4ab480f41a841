------------------------------- MODULE TlsExt -------------------------------
(***************************************************************************)
(* Thread local storage beyond the 80 slots of Windows 9x:                 *)
(* src/apilibs/kexbasen/kernel32/TlsExt.c.                                 *)
(*                                                                         *)
(* Indices below LastSlot are the slots of the operating system, handed    *)
(* out by the bits of the process database.  The last slot is reserved: it *)
(* holds the thread's pointer to a table of further slots, handed out by   *)
(* the bits of ExtTlsBitmap.  TlsFree clears the value of an index in      *)
(* every thread, one thread after the other, holding the locks that        *)
(* TlsAlloc and the thread list need; TlsGetValue, TlsSetValue and the     *)
(* detaching of a thread take no lock.                                     *)
(***************************************************************************)
EXTENDS Naturals, FiniteSets

CONSTANTS
  Threads,   \* threads of the process, over time
  Values,    \* what programs store
  NULL,
  NoTable,   \* the last slot of a thread that has stored in none beyond it
  NoWalk,    \* TlsLock is free
  LastSlot,  \* TLS_SIZE-1, the reserved index: 79
  ExtSize,   \* EXT_TLS_SIZE: 1024
  WordSize,  \* bits of a DWORD of the bitmaps: 32
  Taken,     \* indices the operating system and other modules took before
  MaxOwners  \* bound on the times an index beyond the last slot is handed out
             \* and not freed

Native    == 0..LastSlot-1
ExtSlots  == 0..ExtSize-1
TotalSize == LastSlot + ExtSize

\* A TlsFree that holds the locks: the slot to clear, and the threads to do so.
Walks == [slot : Native \cup ExtSlots, ext : BOOLEAN, todo : SUBSET Threads]

\* The bits of the last word beyond those of the slots are never set, so the
\* scan of the slots never finds that word full.
ASSUME SizesAssumption ==
  /\ LastSlot \in Nat \ {0} /\ ExtSize \in Nat /\ WordSize \in Nat \ {0}
  /\ (LastSlot + 1) % WordSize # 0
  /\ Taken \subseteq Native
  /\ MaxOwners \in Nat \ {0} /\ NULL \notin Values
  /\ NoTable \notin [ExtSlots -> Values \cup {NULL}]
  /\ NoWalk \notin Walks

VARIABLES
  inUse,    \* pdb->tlsInUseBits, for the indices below LastSlot
  extInUse, \* ExtTlsBitmap
  alive,    \* pdb->ThreadList
  slot,     \* tdb->TlsSlots, for the indices below LastSlot
  table,    \* tdb->TlsSlots[LastSlot]
  freed,    \* threads whose last slot points to a table already freed
  walk,     \* the TlsFree that holds the locks: its slot and threads to visit
  owners    \* history: how often TlsAlloc returned an index, less its TlsFrees

vars == <<inUse, extInUse, alive, slot, table, freed, walk, owners>>

Cleared == [i \in Native |-> NULL]

TypeOK ==
  /\ inUse \subseteq Native
  /\ extInUse \subseteq ExtSlots
  /\ alive \subseteq Threads
  /\ slot \in [Threads -> [Native -> Values \cup {NULL}]]
  /\ table \in [Threads -> [ExtSlots -> Values \cup {NULL}] \cup {NoTable}]
  /\ freed \subseteq Threads
  /\ walk \in Walks \cup {NoWalk}
  /\ owners \in [0..TotalSize-1 -> 0..MaxOwners]

Held == {i \in 0..TotalSize-1 : owners[i] > 0}

Lowest(S, b) == b \in S /\ \A c \in S : b <= c

-----------------------------------------------------------------------------
(* TlsAlloc *)

\* Mutation: a full word is not skipped; its mask is shifted out to zero, and
\* the first index of the next word is found clear.
FreeSlotsUnguarded ==
  (Native \ inUse) \cup
    (IF 0..WordSize-1 \subseteq inUse THEN {WordSize} \cap Native ELSE {})

\* The bits the first scan finds clear, and the indices it returns for them.
FreeSlots == Native \ inUse

AllocSlot ==
  /\ walk = NoWalk
  /\ \E i \in Native :
       /\ Lowest(FreeSlots, i)
       /\ inUse' = inUse \cup {i}
       /\ owners' = [owners EXCEPT ![i] = @ + 1]
  /\ UNCHANGED <<extInUse, alive, slot, table, freed, walk>>

\* The index with which the second scan begins: the first one stopped at
\* LastSlot inside its last word, and went on to "the next word" from there.
FirstExt == LastSlot + WordSize

\* The bits the second scan reaches and finds clear.
FreeExtBits == {b \in ExtSlots \ extInUse : FirstExt + b < TotalSize}

AllocExt ==
  /\ walk = NoWalk
  /\ FreeSlots = {}
  /\ \E b \in ExtSlots :
       /\ Lowest(FreeExtBits, b)
       /\ extInUse' = extInUse \cup {b}
       /\ owners[FirstExt + b] < MaxOwners
       /\ owners' = [owners EXCEPT ![FirstExt + b] = @ + 1]
  /\ UNCHANGED <<inUse, alive, slot, table, freed, walk>>

-----------------------------------------------------------------------------
(* TlsFree *)

\* The bit that stands for an index, if TlsFree finds it set.
CanFree(i) ==
  IF i < LastSlot THEN i \in inUse ELSE i - LastSlot \in extInUse

\* One owner of the index, if it has any, gives it up.
Disowned(i) ==
  IF i \in Held THEN [owners EXCEPT ![i] = @ - 1] ELSE owners

FreeSlot(i) ==
  /\ walk = NoWalk
  /\ i < LastSlot /\ CanFree(i)
  /\ inUse' = inUse \ {i}
  /\ owners' = Disowned(i)
  /\ walk' = [slot |-> i, ext |-> FALSE, todo |-> alive]
  /\ UNCHANGED <<extInUse, alive, slot, table, freed>>

FreeExt(i) ==
  /\ walk = NoWalk
  /\ i >= LastSlot /\ CanFree(i)
  /\ extInUse' = extInUse \ {i - LastSlot}
  /\ owners' = Disowned(i)
  /\ walk' = [slot |-> i - LastSlot, ext |-> TRUE, todo |-> alive]
  /\ UNCHANGED <<inUse, alive, slot, table, freed>>

\* ERROR_INVALID_PARAMETER.
FreeFails(i) ==
  /\ walk = NoWalk
  /\ ~CanFree(i)
  /\ owners' = Disowned(i)
  /\ UNCHANGED <<inUse, extInUse, alive, slot, table, freed, walk>>

\* Mutation: only the thread's table is cleared.
VisitTable(t) ==
  /\ walk # NoWalk /\ t \in walk.todo
  /\ walk' = [walk EXCEPT !.todo = @ \ {t}]
  /\ table' = IF walk.ext /\ table[t] # NoTable
              THEN [table EXCEPT ![t][walk.slot] = NULL] ELSE table
  /\ UNCHANGED <<inUse, extInUse, alive, slot, freed, owners>>

\* The value is cleared in one thread; in memory already freed if the thread
\* is at this moment detaching.
Visit(t) ==
  /\ walk # NoWalk /\ t \in walk.todo
  /\ walk' = [walk EXCEPT !.todo = @ \ {t}]
  /\ IF walk.ext
     THEN /\ table' = IF table[t] = NoTable THEN table
                      ELSE [table EXCEPT ![t][walk.slot] = NULL]
          /\ UNCHANGED slot
     ELSE /\ slot' = [slot EXCEPT ![t][walk.slot] = NULL]
          /\ UNCHANGED table
  /\ UNCHANGED <<inUse, extInUse, alive, freed, owners>>

Unlock ==
  /\ walk # NoWalk /\ walk.todo = {}
  /\ walk' = NoWalk
  /\ UNCHANGED <<inUse, extInUse, alive, slot, table, freed, owners>>

-----------------------------------------------------------------------------
(* TlsSetValue, for an index the program holds *)

SetSlot(t, i, v) ==
  /\ t \in alive
  /\ i \in Held /\ i < LastSlot
  /\ slot' = [slot EXCEPT ![t][i] = v]
  /\ UNCHANGED <<inUse, extInUse, alive, table, freed, walk, owners>>

\* The thread's first value beyond the last slot allocates its table, which
\* only this thread uses before the value is in it.
SetExt(t, i, v) ==
  /\ t \in alive \ freed
  /\ i \in Held /\ i >= LastSlot
  /\ LET old == IF table[t] = NoTable THEN [b \in ExtSlots |-> NULL]
                ELSE table[t]
     IN  table' = [table EXCEPT ![t] = [old EXCEPT ![i - LastSlot] = v]]
  /\ UNCHANGED <<inUse, extInUse, alive, slot, freed, walk, owners>>

-----------------------------------------------------------------------------
(* detach_exttls and the thread list *)

\* The table is freed first and forgotten then.
DetachFree(t) ==
  /\ t \in alive \ freed /\ table[t] # NoTable
  /\ freed' = freed \cup {t}
  /\ UNCHANGED <<inUse, extInUse, alive, slot, table, walk, owners>>

DetachForget(t) ==
  /\ t \in freed
  /\ freed' = freed \ {t}
  /\ table' = [table EXCEPT ![t] = NoTable]
  /\ UNCHANGED <<inUse, extInUse, alive, slot, walk, owners>>

\* A thread leaves the list, or a new one joins it, under k32lock.  A table
\* allocated after the thread detached is lost.
ThreadEnds(t) ==
  /\ walk = NoWalk /\ t \in alive \ freed
  /\ alive' = alive \ {t}
  /\ slot' = [slot EXCEPT ![t] = Cleared]
  /\ table' = [table EXCEPT ![t] = NoTable]
  /\ UNCHANGED <<inUse, extInUse, freed, walk, owners>>

ThreadStarts(t) ==
  /\ walk = NoWalk /\ t \in Threads \ alive
  /\ alive' = alive \cup {t}
  /\ UNCHANGED <<inUse, extInUse, slot, table, freed, walk, owners>>

-----------------------------------------------------------------------------
\* After init_exttls.
Init ==
  /\ inUse = Taken
  /\ extInUse = {}
  /\ alive = Threads
  /\ slot = [t \in Threads |-> Cleared]
  /\ table = [t \in Threads |-> NoTable]
  /\ freed = {}
  /\ walk = NoWalk
  /\ owners = [i \in 0..TotalSize-1 |-> 0]

\* Programs free any index that is not another module's.
TlsFree(i) == FreeSlot(i) \/ FreeExt(i) \/ FreeFails(i)

ThreadStep(t) ==
  \/ Visit(t)
  \/ \E i \in Held, v \in Values : SetSlot(t, i, v) \/ SetExt(t, i, v)
  \/ DetachFree(t) \/ DetachForget(t)
  \/ ThreadEnds(t) \/ ThreadStarts(t)

Next ==
  \/ AllocSlot \/ AllocExt \/ Unlock
  \/ \E i \in (0..TotalSize-1) \ Taken : TlsFree(i)
  \/ \E t \in Threads : ThreadStep(t)

Spec == Init /\ [][Next]_vars

-----------------------------------------------------------------------------
(* Properties *)

(* CHANGELOG.txt on TlsFree(ext), "return error if TLS index has already    *)
(* been freed", for the slots of the operating system: whatever programs    *)
(* free, and however often, a slot in use has exactly one owner and a slot  *)
(* not in use has none.                                                     *)
SlotsHaveOneOwner ==
  \A i \in Native : owners[i] = IF i \in inUse \ Taken THEN 1 ELSE 0

(* A slot no one owns is NULL in every thread, so TlsAlloc returns a slot   *)
(* that reads as NULL, although threads store, start and end meanwhile.     *)
FreshSlotIsNull ==
  \A t \in alive, i \in FreeSlots :
    slot[t][i] # NULL =>
      walk # NoWalk /\ ~walk.ext /\ walk.slot = i /\ t \in walk.todo

(* The same of every index ("return 1 for success consistently"): TlsFree   *)
(* accepts whatever TlsAlloc handed out.                                    *)
HeldIndexCanBeFreed == \A i \in Held : CanFree(i)

=============================================================================

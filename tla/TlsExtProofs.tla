---------------------------- MODULE TlsExtProofs ----------------------------
(***************************************************************************)
(* For any number of threads, slots and programs: slots of the operating   *)
(* system have one owner, and are NULL when they are handed out.           *)
(***************************************************************************)
EXTENDS TlsExt, TLAPS

\* A thread that has ended leaves no values to one that takes its place.
EndedLeaveNothing == \A t \in Threads \ alive : slot[t] = Cleared

\* No program frees what others took.
TakenStayTaken == Taken \subseteq inUse

\* The induction hypothesis.
IndInv == TypeOK /\ SlotsHaveOneOwner /\ FreshSlotIsNull /\ EndedLeaveNothing
          /\ TakenStayTaken

LEMMA SizeFacts ==
  /\ LastSlot \in Nat /\ ExtSize \in Nat /\ WordSize \in Nat
  /\ TotalSize \in Nat /\ FirstExt \in Nat /\ MaxOwners \in Nat
  /\ LastSlot <= TotalSize /\ 1 <= MaxOwners /\ FirstExt > LastSlot
  BY SizesAssumption DEF TotalSize, FirstExt

LEMMA WalksAreNotNoWalk == \A w \in Walks : w # NoWalk
  BY SizesAssumption

\* Giving an index up takes one owner from it, and changes no other.
LEMMA DisownedFacts ==
  ASSUME TypeOK, NEW i \in 0..TotalSize-1
  PROVE  /\ Disowned(i) \in [0..TotalSize-1 -> 0..MaxOwners]
         /\ \A j \in (0..TotalSize-1) \ {i} : Disowned(i)[j] = owners[j]
         /\ Disowned(i)[i] = IF owners[i] = 0 THEN 0 ELSE owners[i] - 1
<1>. owners \in [0..TotalSize-1 -> 0..MaxOwners]
  BY DEF TypeOK
<1>1. CASE i \in Held
  <2>. owners[i] > 0 /\ owners[i] \in 0..MaxOwners /\ owners[i] - 1 \in 0..MaxOwners
    BY <1>1, SizeFacts DEF Held
  <2>. QED BY <1>1 DEF Disowned
<1>2. CASE i \notin Held
  <2>. owners[i] = 0
    BY <1>2, SizeFacts DEF Held
  <2>. QED BY <1>2 DEF Disowned
<1>. QED BY <1>1, <1>2

LEMMA InitInv == Init => IndInv
<1>. SUFFICES ASSUME Init PROVE IndInv
  OBVIOUS
<1>1. TypeOK
  BY SizesAssumption, SizeFacts DEF Init, TypeOK, Cleared, Native
<1>2. SlotsHaveOneOwner
  BY SizeFacts DEF Init, SlotsHaveOneOwner, Native
<1>3. FreshSlotIsNull
  BY DEF Init, FreshSlotIsNull, FreeSlots, Cleared
<1>4. EndedLeaveNothing
  BY DEF Init, EndedLeaveNothing
<1>5. TakenStayTaken
  BY DEF Init, TakenStayTaken
<1>. QED BY <1>1, <1>2, <1>3, <1>4, <1>5 DEF IndInv

-----------------------------------------------------------------------------
(* Each step preserves the induction hypothesis *)

LEMMA AllocSlotInv == IndInv /\ AllocSlot => IndInv'
<1>. SUFFICES ASSUME IndInv, AllocSlot PROVE IndInv'
  OBVIOUS
<1>1. PICK i \in Native :
        /\ i \in FreeSlots
        /\ inUse' = inUse \cup {i}
        /\ owners' = [owners EXCEPT ![i] = @ + 1]
  BY DEF AllocSlot, Lowest
<1>. UNCHANGED <<extInUse, alive, slot, table, freed, walk>> /\ walk = NoWalk
  BY DEF AllocSlot
<1>2. i \in 0..TotalSize-1 /\ i \notin inUse /\ owners[i] = 0
  BY <1>1, SizeFacts DEF FreeSlots, IndInv, SlotsHaveOneOwner, Native
<1>3. owners' \in [0..TotalSize-1 -> 0..MaxOwners]
  BY <1>1, <1>2, SizeFacts DEF IndInv, TypeOK
<1>4. TypeOK'
  BY <1>1, <1>3 DEF IndInv, TypeOK
<1>5. SlotsHaveOneOwner'
  <2>. SUFFICES ASSUME NEW j \in Native
                PROVE  owners'[j] = IF j \in inUse' \ Taken THEN 1 ELSE 0
    BY DEF SlotsHaveOneOwner
  <2>1. j \in 0..TotalSize-1
    BY SizeFacts DEF Native
  <2>2. i \notin Taken
    BY <1>2 DEF IndInv, TakenStayTaken
  <2>. QED BY <1>1, <1>2, <2>1, <2>2 DEF IndInv, TypeOK, SlotsHaveOneOwner
<1>6. FreshSlotIsNull'
  BY <1>1 DEF IndInv, FreshSlotIsNull, FreeSlots
<1>7. EndedLeaveNothing' /\ TakenStayTaken'
  BY <1>1 DEF IndInv, EndedLeaveNothing, TakenStayTaken
<1>. QED BY <1>4, <1>5, <1>6, <1>7 DEF IndInv

\* The bits and owners beyond the last slot are no one's concern here.
LEMMA AllocExtInv == IndInv /\ AllocExt => IndInv'
<1>. SUFFICES ASSUME IndInv, AllocExt PROVE IndInv'
  OBVIOUS
<1>1. PICK b \in ExtSlots :
        /\ FirstExt + b < TotalSize
        /\ extInUse' = extInUse \cup {b}
        /\ owners[FirstExt + b] < MaxOwners
        /\ owners' = [owners EXCEPT ![FirstExt + b] = @ + 1]
  BY DEF AllocExt, Lowest, FreeExtBits
<1>. UNCHANGED <<inUse, alive, slot, table, freed, walk>>
  BY DEF AllocExt
<1>2. FirstExt + b \in 0..TotalSize-1 /\ FirstExt + b \notin Native
  BY <1>1, SizeFacts DEF ExtSlots, Native
<1>3. owners' \in [0..TotalSize-1 -> 0..MaxOwners]
  BY <1>1, <1>2, SizeFacts DEF IndInv, TypeOK
<1>4. TypeOK'
  BY <1>1, <1>3 DEF IndInv, TypeOK
<1>5. SlotsHaveOneOwner'
  <2>. \A j \in Native : j \in 0..TotalSize-1
    BY SizeFacts DEF Native
  <2>. QED BY <1>1, <1>2 DEF IndInv, TypeOK, SlotsHaveOneOwner
<1>6. FreshSlotIsNull' /\ EndedLeaveNothing' /\ TakenStayTaken'
  BY DEF IndInv, FreshSlotIsNull, FreeSlots, EndedLeaveNothing, TakenStayTaken
<1>. QED BY <1>4, <1>5, <1>6 DEF IndInv

LEMMA FreeSlotInv ==
  ASSUME IndInv, NEW i \in (0..TotalSize-1) \ Taken, FreeSlot(i)
  PROVE  IndInv'
<1>1. /\ i \in Native /\ i \in inUse
      /\ inUse' = inUse \ {i}
      /\ owners' = Disowned(i)
      /\ walk = NoWalk
      /\ walk' = [slot |-> i, ext |-> FALSE, todo |-> alive]
  BY SizeFacts DEF FreeSlot, CanFree, Native
<1>. UNCHANGED <<extInUse, alive, slot, table, freed>>
  BY DEF FreeSlot
<1>2. TypeOK'
  BY <1>1, DisownedFacts DEF IndInv, TypeOK, Walks
<1>3. SlotsHaveOneOwner'
  <2>. SUFFICES ASSUME NEW j \in Native
                PROVE  owners'[j] = IF j \in inUse' \ Taken THEN 1 ELSE 0
    BY DEF SlotsHaveOneOwner
  <2>1. j \in 0..TotalSize-1
    BY SizeFacts DEF Native
  <2>2. CASE j = i
    <3>1. owners[i] = 1
      BY <1>1 DEF IndInv, SlotsHaveOneOwner
    <3>. QED BY <2>2, <3>1, <1>1, DisownedFacts DEF IndInv
  <2>3. CASE j # i
    BY <2>1, <2>3, <1>1, DisownedFacts DEF IndInv, SlotsHaveOneOwner
  <2>. QED BY <2>2, <2>3
<1>4. FreshSlotIsNull'
  <2>1. walk' \in Walks
    BY <1>1 DEF Walks, IndInv, TypeOK
  <2>2. walk' # NoWalk
    BY <2>1, WalksAreNotNoWalk
  <2>. QED BY <1>1, <2>2 DEF IndInv, FreshSlotIsNull, FreeSlots
<1>5. EndedLeaveNothing' /\ TakenStayTaken'
  BY <1>1 DEF IndInv, EndedLeaveNothing, TakenStayTaken
<1>. QED BY <1>2, <1>3, <1>4, <1>5 DEF IndInv

LEMMA FreeExtInv ==
  ASSUME IndInv, NEW i \in (0..TotalSize-1) \ Taken, FreeExt(i)
  PROVE  IndInv'
<1>1. /\ i \notin Native /\ i - LastSlot \in ExtSlots
      /\ extInUse' = extInUse \ {i - LastSlot}
      /\ owners' = Disowned(i)
      /\ walk = NoWalk
      /\ walk' = [slot |-> i - LastSlot, ext |-> TRUE, todo |-> alive]
  BY SizeFacts DEF FreeExt, CanFree, Native, IndInv, TypeOK
<1>. UNCHANGED <<inUse, alive, slot, table, freed>>
  BY DEF FreeExt
<1>2. TypeOK'
  BY <1>1, DisownedFacts DEF IndInv, TypeOK, Walks
<1>3. SlotsHaveOneOwner'
  <2>. \A j \in Native : j \in (0..TotalSize-1) \ {i}
    BY <1>1, SizeFacts DEF Native
  <2>. QED BY <1>1, DisownedFacts DEF IndInv, SlotsHaveOneOwner
<1>4. FreshSlotIsNull' /\ EndedLeaveNothing' /\ TakenStayTaken'
  BY <1>1 DEF IndInv, FreshSlotIsNull, FreeSlots, EndedLeaveNothing,
              TakenStayTaken
<1>. QED BY <1>2, <1>3, <1>4 DEF IndInv

LEMMA FreeFailsInv ==
  ASSUME IndInv, NEW i \in (0..TotalSize-1) \ Taken, FreeFails(i)
  PROVE  IndInv'
<1>. owners' = Disowned(i)
     /\ UNCHANGED <<inUse, extInUse, alive, slot, table, freed, walk>>
  BY DEF FreeFails
<1>1. TypeOK'
  BY DisownedFacts DEF IndInv, TypeOK
<1>2. SlotsHaveOneOwner'
  <2>. SUFFICES ASSUME NEW j \in Native
                PROVE  owners'[j] = IF j \in inUse \ Taken THEN 1 ELSE 0
    BY DEF SlotsHaveOneOwner
  <2>1. j \in 0..TotalSize-1
    BY SizeFacts DEF Native
  <2>2. CASE j = i
    <3>1. i \notin inUse
      BY <2>2, SizeFacts DEF FreeFails, CanFree, Native
    <3>2. owners[i] = 0
      BY <2>2, <3>1 DEF IndInv, SlotsHaveOneOwner
    <3>. QED BY <2>2, <3>1, <3>2, DisownedFacts DEF IndInv
  <2>3. CASE j # i
    BY <2>1, <2>3, DisownedFacts DEF IndInv, SlotsHaveOneOwner
  <2>. QED BY <2>2, <2>3
<1>3. FreshSlotIsNull' /\ EndedLeaveNothing' /\ TakenStayTaken'
  BY DEF IndInv, FreshSlotIsNull, FreeSlots, EndedLeaveNothing, TakenStayTaken
<1>. QED BY <1>1, <1>2, <1>3 DEF IndInv

\* Threads neither take nor give up indices.
LEMMA SameOwners ==
  ASSUME IndInv, UNCHANGED <<inUse, owners>>
  PROVE  SlotsHaveOneOwner' /\ TakenStayTaken'
  BY DEF IndInv, SlotsHaveOneOwner, TakenStayTaken

LEMMA VisitInv == ASSUME IndInv, NEW t \in Threads, Visit(t) PROVE IndInv'
<1>. /\ walk \in Walks /\ walk' = [walk EXCEPT !.todo = @ \ {t}]
     /\ UNCHANGED <<inUse, extInUse, alive, freed, owners>>
  BY DEF Visit, IndInv, TypeOK
<1>1. walk' \in Walks
  BY DEF Walks
<1>2. CASE walk.ext
  <2>1. UNCHANGED slot
        /\ table' = IF table[t] = NoTable THEN table
                    ELSE [table EXCEPT ![t][walk.slot] = NULL]
    BY <1>2 DEF Visit
  <2>2. table' \in [Threads -> [ExtSlots -> Values \cup {NULL}] \cup {NoTable}]
    BY <2>1 DEF IndInv, TypeOK
  <2>3. TypeOK'
    BY <1>1, <2>1, <2>2 DEF IndInv, TypeOK
  <2>4. FreshSlotIsNull' /\ EndedLeaveNothing'
    BY <1>2, <2>1 DEF IndInv, FreshSlotIsNull, FreeSlots, EndedLeaveNothing
  <2>. QED BY <2>3, <2>4, SameOwners DEF IndInv
<1>3. CASE ~walk.ext
  <2>1. UNCHANGED table /\ slot' = [slot EXCEPT ![t][walk.slot] = NULL]
    BY <1>3 DEF Visit
  <2>2. slot' \in [Threads -> [Native -> Values \cup {NULL}]]
    BY <2>1 DEF IndInv, TypeOK
  <2>3. TypeOK'
    BY <1>1, <2>1, <2>2 DEF IndInv, TypeOK
  <2>4. FreshSlotIsNull'
    <3>. SUFFICES ASSUME NEW u \in alive, NEW i \in FreeSlots,
                         slot'[u][i] # NULL
                  PROVE  walk' # NoWalk /\ ~walk'.ext /\ walk'.slot = i
                         /\ u \in walk'.todo
      BY DEF FreshSlotIsNull, FreeSlots
    <3>1. slot[u][i] # NULL
      BY <2>1 DEF IndInv, TypeOK
    <3>2. ~walk.ext /\ walk.slot = i /\ u \in walk.todo
      BY <3>1 DEF IndInv, FreshSlotIsNull
    <3>3. u # t
      BY <2>1, <3>2 DEF IndInv, TypeOK, FreeSlots
    <3>4. walk' # NoWalk
      BY <1>1, WalksAreNotNoWalk
    <3>. QED BY <3>2, <3>3, <3>4 DEF Walks
  <2>5. EndedLeaveNothing'
    <3>. SUFFICES ASSUME NEW u \in Threads \ alive PROVE slot'[u] = Cleared
      BY DEF EndedLeaveNothing
    <3>1. slot[u] = Cleared
      BY DEF IndInv, EndedLeaveNothing
    <3>2. [Cleared EXCEPT ![walk.slot] = NULL] = Cleared
      BY DEF Cleared
    <3>. QED BY <2>1, <3>1, <3>2 DEF IndInv, TypeOK
  <2>. QED BY <2>3, <2>4, <2>5, SameOwners DEF IndInv
<1>. QED BY <1>2, <1>3 DEF Walks

LEMMA UnlockInv == IndInv /\ Unlock => IndInv'
<1>. SUFFICES ASSUME IndInv, Unlock PROVE IndInv'
  OBVIOUS
<1>. /\ walk # NoWalk /\ walk.todo = {} /\ walk' = NoWalk
     /\ UNCHANGED <<inUse, extInUse, alive, slot, table, freed, owners>>
  BY DEF Unlock
<1>1. TypeOK'
  BY DEF IndInv, TypeOK
<1>2. FreshSlotIsNull' /\ EndedLeaveNothing'
  BY DEF IndInv, FreshSlotIsNull, FreeSlots, EndedLeaveNothing
<1>. QED BY <1>1, <1>2, SameOwners DEF IndInv

LEMMA SetSlotInv ==
  ASSUME IndInv, NEW t \in Threads, NEW i \in Held, NEW v \in Values,
         SetSlot(t, i, v)
  PROVE  IndInv'
<1>. /\ t \in alive /\ slot' = [slot EXCEPT ![t][i] = v]
     /\ UNCHANGED <<inUse, extInUse, alive, table, freed, walk, owners>>
  BY DEF SetSlot
<1>1. i \in Native /\ i \notin FreeSlots
  BY SizeFacts DEF SetSlot, Held, Native, FreeSlots, IndInv, SlotsHaveOneOwner
<1>2. TypeOK'
  BY <1>1 DEF IndInv, TypeOK
<1>3. FreshSlotIsNull'
  BY <1>1 DEF IndInv, TypeOK, FreshSlotIsNull, FreeSlots
<1>4. EndedLeaveNothing'
  BY DEF IndInv, TypeOK, EndedLeaveNothing
<1>. QED BY <1>2, <1>3, <1>4, SameOwners DEF IndInv

LEMMA SetExtInv ==
  ASSUME IndInv, NEW t \in Threads, NEW i \in Held, NEW v \in Values,
         SetExt(t, i, v)
  PROVE  IndInv'
<1>. UNCHANGED <<inUse, extInUse, alive, slot, freed, walk, owners>>
  BY DEF SetExt
<1>1. i - LastSlot \in ExtSlots
  BY SizeFacts DEF SetExt, Held, ExtSlots, TotalSize
<1>2. table' \in [Threads -> [ExtSlots -> Values \cup {NULL}] \cup {NoTable}]
  <2>. DEFINE old == IF table[t] = NoTable THEN [b \in ExtSlots |-> NULL]
                     ELSE table[t]
  <2>1. old \in [ExtSlots -> Values \cup {NULL}]
    BY DEF IndInv, TypeOK
  <2>2. table' = [table EXCEPT ![t] = [old EXCEPT ![i - LastSlot] = v]]
    BY DEF SetExt
  <2>. HIDE DEF old
  <2>. QED BY <1>1, <2>1, <2>2 DEF IndInv, TypeOK
<1>3. TypeOK'
  BY <1>2 DEF IndInv, TypeOK
<1>4. FreshSlotIsNull' /\ EndedLeaveNothing'
  BY DEF IndInv, FreshSlotIsNull, FreeSlots, EndedLeaveNothing
<1>. QED BY <1>3, <1>4, SameOwners DEF IndInv

\* A thread detaches, ends or starts.
LEMMA ThreadInv ==
  ASSUME IndInv, NEW t \in Threads,
         DetachFree(t) \/ DetachForget(t) \/ ThreadEnds(t) \/ ThreadStarts(t)
  PROVE  IndInv'
<1>1. CASE DetachFree(t) \/ DetachForget(t)
  <2>. UNCHANGED <<inUse, extInUse, alive, slot, walk, owners>>
    BY <1>1 DEF DetachFree, DetachForget
  <2>1. TypeOK'
    BY <1>1 DEF DetachFree, DetachForget, IndInv, TypeOK
  <2>2. FreshSlotIsNull' /\ EndedLeaveNothing'
    BY DEF IndInv, FreshSlotIsNull, FreeSlots, EndedLeaveNothing
  <2>. QED BY <2>1, <2>2, SameOwners DEF IndInv
<1>2. CASE ThreadEnds(t)
  <2>. /\ alive' = alive \ {t} /\ slot' = [slot EXCEPT ![t] = Cleared]
       /\ UNCHANGED <<inUse, extInUse, freed, walk, owners>>
    BY <1>2 DEF ThreadEnds
  <2>1. TypeOK'
    BY <1>2 DEF ThreadEnds, IndInv, TypeOK, Cleared
  <2>2. FreshSlotIsNull' /\ EndedLeaveNothing'
    BY DEF IndInv, TypeOK, FreshSlotIsNull, FreeSlots, EndedLeaveNothing
  <2>. QED BY <2>1, <2>2, SameOwners DEF IndInv
<1>3. CASE ThreadStarts(t)
  <2>. /\ alive' = alive \cup {t}
       /\ UNCHANGED <<inUse, extInUse, slot, table, freed, walk, owners>>
    BY <1>3 DEF ThreadStarts
  <2>1. TypeOK'
    BY DEF IndInv, TypeOK
  <2>2. FreshSlotIsNull' /\ EndedLeaveNothing'
    BY <1>3 DEF ThreadStarts, IndInv, FreshSlotIsNull, FreeSlots,
                EndedLeaveNothing, Cleared
  <2>. QED BY <2>1, <2>2, SameOwners DEF IndInv
<1>. QED BY <1>1, <1>2, <1>3

LEMMA NextInv == IndInv /\ [Next]_vars => IndInv'
<1>. SUFFICES ASSUME IndInv, [Next]_vars PROVE IndInv'
  OBVIOUS
<1>1. CASE AllocSlot \/ AllocExt \/ Unlock
  BY <1>1, AllocSlotInv, AllocExtInv, UnlockInv
<1>2. ASSUME NEW i \in (0..TotalSize-1) \ Taken, TlsFree(i) PROVE IndInv'
  BY <1>2, FreeSlotInv, FreeExtInv, FreeFailsInv DEF TlsFree
<1>3. ASSUME NEW t \in Threads, ThreadStep(t) PROVE IndInv'
  BY <1>3, VisitInv, SetSlotInv, SetExtInv, ThreadInv DEF ThreadStep
<1>4. CASE UNCHANGED vars
  <2>. UNCHANGED <<inUse, extInUse, alive, slot, table, freed, walk, owners>>
    BY <1>4 DEF vars
  <2>1. TypeOK'
    BY DEF IndInv, TypeOK
  <2>2. FreshSlotIsNull' /\ EndedLeaveNothing'
    BY DEF IndInv, FreshSlotIsNull, FreeSlots, EndedLeaveNothing
  <2>. QED BY <2>1, <2>2, SameOwners DEF IndInv
<1>. QED BY <1>1, <1>2, <1>3, <1>4 DEF Next

-----------------------------------------------------------------------------
(* The variables range over their types, which is what the other theorem's *)
(* induction needs of them.                                                *)
THEOREM TlsTypeCorrect == Spec => []TypeOK
<1>1. IndInv => TypeOK
  BY DEF IndInv
<1>. QED BY <1>1, InitInv, NextInv, PTL DEF Spec

(* TlsAlloc and TlsFree of the slots of the operating system, with any     *)
(* number of threads, whatever is freed and however often: a slot has one  *)
(* owner while in use.                                                     *)
THEOREM SlotsAreExclusive == Spec => []SlotsHaveOneOwner
<1>1. IndInv => SlotsHaveOneOwner
  BY DEF IndInv
<1>. QED BY <1>1, InitInv, NextInv, PTL DEF Spec

(* And no thread finds an old value in a slot that TlsAlloc returns, though *)
(* TlsFree clears it in one thread after another while they start and end.  *)
THEOREM FreshSlotsAreNull == Spec => []FreshSlotIsNull
<1>1. IndInv => FreshSlotIsNull
  BY DEF IndInv
<1>. QED BY <1>1, InitInv, NextInv, PTL DEF Spec

=============================================================================

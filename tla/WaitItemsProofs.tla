--------------------------- MODULE WaitItemsProofs ---------------------------
(***************************************************************************)
(* Registered waits keep their types, and no asynchronous callback of an   *)
(* item runs once a blocking UnregisterWaitEx has returned, nor does the   *)
(* wait thread work with an item that was destroyed, unless it may remove  *)
(* it twice.                                                               *)
(***************************************************************************)
EXTENDS WaitItems, FiniteSetTheorems, TLAPS

-----------------------------------------------------------------------------
(* The inductive invariant *)

\* The calls of an item that CallbacksPending counts.
Counted(i) ==
  {c \in Calls : call[c].item = i /\ call[c].at \in {"queued", "running", "ran"}}

\* Calls have an item, and an item counts its calls.
CallsCounted ==
  /\ \A c \in Calls : call[c].at # "none" => call[c].item \in Items
  /\ \A i \in Items : pending[i] = Cardinality(Counted(i))

\* The wait thread waits for items.  None has two places, not even among those
\* that were left without being cleared.
Places == {waitItems[k] : k \in 1..MAX_WAIT_ITEMS}

ListHolds ==
  /\ \A k \in 1..nItems : waitItems[k] \in Items
  /\ \A j, k \in 1..MAX_WAIT_ITEMS :
       waitItems[j] = waitItems[k] /\ waitItems[j] # NoItem => j = k
  /\ thread.at \in {"new", "idle", "waiting"} => nItems >= 0

\* What the thread works with it waits for, until it has taken it off the list;
\* WaitEvent is reset before it decides to call back.
Working == {"fired", "check", "dispatch", "callback", "after"}

ThreadHolds ==
  /\ thread.at \in Working => thread.item \in Waited
  /\ thread.at = "mark" => thread.item \in Items \ Waited
  /\ thread.at \notin Working \cup {"mark"} => thread.item = NoItem
  /\ thread.at \in {"check", "dispatch"} => ~waitEvent

\* Each APC is queued once, and the one that adds an item while it registers.
Apcs == [proc : {"Add", "Remove"}, item : Items]
Queued(a) == \E k \in 1..Len(apcs) : apcs[k] = a
AddQueued(i) == Queued([proc |-> "Add", item |-> i])
RemoveQueued(i) == Queued([proc |-> "Remove", item |-> i])

QueuedOnce == \A j, k \in 1..Len(apcs) : apcs[j] = apcs[k] => j = k

Removing(i) == thread.at = "mark" /\ thread.item = i

\* An item that is being registered has wait_cs, and a place.
Registering(i) ==
  /\ AddQueued(i) => user[i].at = "adding"
  /\ user[i].at \in {"adding", "added"} => cs = i
  /\ user[i].at = "adding" => nItems < MAX_WAIT_ITEMS

\* Not added yet, an item is nobody's but the program's.
Unadded(i) ==
  user[i].at \in {"out", "adding", "refused"} =>
    /\ state[i] = "ACTIVE"
    /\ i \notin Places /\ thread.item # i
    /\ i \in freed => user[i].at = "refused"

\* Unregistering is what takes an item out of its first states.
Registered == {"out", "adding", "added", "refused", "held"}

Unregistering(i) ==
  /\ user[i].at \in Registered =>
       state[i] \in {"ACTIVE", "ABANDONED"} /\ ~RemoveQueued(i)
  /\ user[i].at \notin Registered => state[i] # "ACTIVE"

\* An item that may be destroyed is not waited for.
GoneFromList(i) ==
  state[i] \in {"REMOVED", "ABANDONED", "GAMEOVER"} \/ i \in freed =>
    i \notin Waited

\* An item that is called back again and again is removed once, and lives until
\* then.
RemovedOnce(i) ==
  ~Once(i) =>
    /\ RemoveQueued(i) \/ Removing(i) =>
         state[i] \in {"UNREGISTERED", "DELETESYNC"} /\ Alive(i)
    /\ Removing(i) => ~RemoveQueued(i)

\* Nothing is called back any more once WaitEvent has been passed, and no call
\* is left when a blocking unregister has seen that none is pending.
CallsEnd(i) ==
  /\ thread.at = "dispatch" /\ thread.item = i =>
       state[i] = "ACTIVE" \/ user[i].at = "wait"
  /\ user[i].mode = "block" /\ user[i].at \in {"finish", "mark", "done"} =>
       Counted(i) = {}
  /\ user[i].at = "event" => user[i].mode = "event"

ItemInv(i) ==
  /\ Registering(i) /\ Unadded(i) /\ Unregistering(i)
  /\ GoneFromList(i) /\ RemovedOnce(i) /\ CallsEnd(i)

WaitInv ==
  /\ TypeOK
  /\ CallsCounted /\ ListHolds /\ ThreadHolds /\ QueuedOnce
  /\ \A i \in Items : ItemInv(i)

-----------------------------------------------------------------------------
(* The queue of APCs as a set *)

LEMMA EmptyQueue ==
  ASSUME apcs = <<>>
  PROVE  QueuedOnce /\ \A a : ~Queued(a)
  BY DEF QueuedOnce, Queued

LEMMA Enqueue ==
  ASSUME apcs \in Seq(Apcs), QueuedOnce, NEW a \in Apcs, ~Queued(a),
         apcs' = Append(apcs, a)
  PROVE  /\ apcs' \in Seq(Apcs) /\ QueuedOnce'
         /\ \A b : Queued(b)' <=> Queued(b) \/ b = a
<1>1. /\ apcs' \in Seq(Apcs) /\ Len(apcs) \in Nat /\ Len(apcs') = Len(apcs) + 1
      /\ \A k \in 1..Len(apcs) : apcs'[k] = apcs[k]
      /\ apcs'[Len(apcs) + 1] = a
    OBVIOUS
<1>2. ASSUME NEW b PROVE Queued(b)' <=> Queued(b) \/ b = a
    BY <1>1 DEF Queued
<1>3. QueuedOnce'
    BY <1>1 DEF QueuedOnce, Queued
<1>. QED BY <1>1, <1>2, <1>3

LEMMA Dequeue ==
  ASSUME apcs \in Seq(Apcs), QueuedOnce, apcs # <<>>, apcs' = Tail(apcs)
  PROVE  /\ apcs' \in Seq(Apcs) /\ QueuedOnce'
         /\ Head(apcs) \in Apcs /\ Queued(Head(apcs))
         /\ \A b : Queued(b)' <=> Queued(b) /\ b # Head(apcs)
<1>1. /\ apcs' \in Seq(Apcs) /\ Len(apcs) \in Nat \ {0}
      /\ Len(apcs') = Len(apcs) - 1
      /\ \A k \in 1..Len(apcs) - 1 : apcs'[k] = apcs[k + 1]
      /\ Head(apcs) = apcs[1] /\ Head(apcs) \in Apcs
    OBVIOUS
<1>2. ASSUME NEW b PROVE Queued(b)' <=> Queued(b) /\ b # Head(apcs)
  <2>1. Queued(b)' => Queued(b) /\ b # Head(apcs)
      BY <1>1 DEF Queued, QueuedOnce
  <2>2. ASSUME Queued(b), b # Head(apcs) PROVE Queued(b)'
    <3>1. PICK k \in 1..Len(apcs) : apcs[k] = b
        BY <2>2 DEF Queued
    <3>2. k # 1 /\ k - 1 \in 1..Len(apcs') /\ apcs'[k - 1] = b
        BY <1>1, <2>2, <3>1
    <3>. QED BY <3>2 DEF Queued
  <2>. QED BY <2>1, <2>2
<1>3. QueuedOnce'
    BY <1>1 DEF QueuedOnce
<1>4. Queued(Head(apcs))
    BY <1>1 DEF Queued
<1>. QED BY <1>1, <1>2, <1>3, <1>4

-----------------------------------------------------------------------------
(* What the wait thread waits for *)

\* The list is as TypeOK and ListHolds have it.
LEMMA RemoveFromList ==
  ASSUME TypeOK, ListHolds, NEW i \in Items, Remove(i)
  PROVE  /\ waitItems' \in [1..MAX_WAIT_ITEMS -> Items \cup {NoItem}]
         /\ nItems' \in Int /\ nItems' <= nItems
         /\ \A k \in 1..nItems' : waitItems'[k] \in Items
         /\ \A j, k \in 1..MAX_WAIT_ITEMS :
              waitItems'[j] = waitItems'[k] /\ waitItems'[j] # NoItem => j = k
         /\ Waited' \subseteq Waited \ {i}
         /\ Places' \subseteq Places \cup {NoItem}
<1>1. /\ nItems \in Int /\ nItems <= MAX_WAIT_ITEMS /\ MAX_WAIT_ITEMS \in Nat
      /\ waitItems \in [1..MAX_WAIT_ITEMS -> Items \cup {NoItem}]
      /\ \A k \in 1..nItems : waitItems[k] \in Items
      /\ \A j, k \in 1..MAX_WAIT_ITEMS :
           waitItems[j] = waitItems[k] /\ waitItems[j] # NoItem => j = k
      /\ NoItem \notin Items
    BY ItemsAssumption DEF TypeOK, ListHolds
<1>2. CASE \E k \in 1..MAX_WAIT_ITEMS : waitItems[k] = i
  <2> DEFINE First(k) == /\ waitItems[k] = i
                         /\ \A m \in 1..k-1 : waitItems[m] # i
  <2>1. \E k \in 1..MAX_WAIT_ITEMS : First(k)
    <3>1. PICK k \in 1..MAX_WAIT_ITEMS : waitItems[k] = i
        BY <1>2
    <3>2. \A m \in 1..k-1 : m \in 1..MAX_WAIT_ITEMS /\ m # k
        BY <1>1
    <3>3. First(k)
        BY <1>1, <3>1, <3>2
    <3>. QED BY <3>3
  <2>2. PICK k \in 1..MAX_WAIT_ITEMS :
          /\ First(k)
          /\ nItems' = nItems - 1
          /\ waitItems' = [m \in 1..MAX_WAIT_ITEMS |->
               CASE m \in k..nItems-1 -> waitItems[m + 1]
                 [] m = nItems /\ k < nItems -> NoItem
                 [] OTHER -> waitItems[m]]
    <3>1. /\ nItems' = nItems - 1
          /\ LET k == CHOOSE k \in 1..MAX_WAIT_ITEMS : First(k)
             IN  waitItems' = [m \in 1..MAX_WAIT_ITEMS |->
                   CASE m \in k..nItems-1 -> waitItems[m + 1]
                     [] m = nItems /\ k < nItems -> NoItem
                     [] OTHER -> waitItems[m]]
        BY <1>2 DEF Remove
    <3>2. /\ (CHOOSE k \in 1..MAX_WAIT_ITEMS : First(k)) \in 1..MAX_WAIT_ITEMS
          /\ First(CHOOSE k \in 1..MAX_WAIT_ITEMS : First(k))
        BY <2>1
    <3> HIDE DEF First
    <3>. QED BY <3>1, <3>2
  <2>3. waitItems[k] = i /\ k \in Nat
      BY <2>2
  <2>4. \A m \in 1..MAX_WAIT_ITEMS :
          IF k <= m /\ m < nItems THEN waitItems'[m] = waitItems[m + 1]
          ELSE IF m = nItems /\ k < nItems THEN waitItems'[m] = NoItem
          ELSE waitItems'[m] = waitItems[m]
      BY <1>1, <2>2, <2>3
  <2>5. waitItems' \in [1..MAX_WAIT_ITEMS -> Items \cup {NoItem}]
      BY <1>1, <2>2
  <2>6. \A m \in 1..nItems' : waitItems'[m] \in Items \ {i} /\ waitItems'[m] \in Waited
    <3>1. ASSUME NEW m \in 1..nItems'
          PROVE  waitItems'[m] \in Items \ {i} /\ waitItems'[m] \in Waited
      <4>1. m \in 1..nItems /\ m + 1 \in 1..nItems /\ m \in 1..MAX_WAIT_ITEMS
            /\ m + 1 \in 1..MAX_WAIT_ITEMS /\ m # nItems
          BY <1>1, <2>2
      <4>2. CASE k <= m
          BY <1>1, <2>3, <2>4, <4>1, <4>2 DEF Waited
      <4>3. CASE ~(k <= m)
          BY <1>1, <2>3, <2>4, <4>1, <4>3 DEF Waited
      <4>. QED BY <4>2, <4>3
    <3>. QED BY <3>1
  <2>7. ASSUME NEW m \in 1..MAX_WAIT_ITEMS, NEW n \in 1..MAX_WAIT_ITEMS,
               waitItems'[m] = waitItems'[n], waitItems'[m] # NoItem
        PROVE  m = n
    <3> DEFINE From(x) == IF k <= x /\ x < nItems THEN x + 1 ELSE x
    <3>1. \A x \in 1..MAX_WAIT_ITEMS :
            From(x) \in 1..MAX_WAIT_ITEMS
            /\ (waitItems'[x] = NoItem \/ waitItems'[x] = waitItems[From(x)])
        BY <1>1, <2>4
    <3>2. From(m) = From(n)
        BY <1>1, <2>7, <3>1
    <3>3. ~(m = nItems /\ k < nItems) /\ ~(n = nItems /\ k < nItems)
        BY <1>1, <2>4, <2>7
    <3>. QED BY <1>1, <2>3, <3>2, <3>3
  <2>8. Places' \subseteq Places \cup {NoItem}
      BY <1>1, <2>3, <2>4 DEF Places
  <2>9. Waited' \subseteq Waited \ {i}
      BY <2>6 DEF Waited
  <2>. QED BY <1>1, <2>2, <2>5, <2>6, <2>7, <2>8, <2>9
<1>3. CASE ~ \E k \in 1..MAX_WAIT_ITEMS : waitItems[k] = i
    BY <1>1, <1>3 DEF Remove, Waited, Places
<1>. QED BY <1>2, <1>3

LEMMA AddToList ==
  ASSUME TypeOK, ListHolds, NEW i \in Items, i \notin Places,
         0 <= nItems, nItems < MAX_WAIT_ITEMS,
         waitItems' = [waitItems EXCEPT ![nItems + 1] = i],
         nItems' = nItems + 1
  PROVE  /\ waitItems' \in [1..MAX_WAIT_ITEMS -> Items \cup {NoItem}]
         /\ nItems' \in Int /\ nItems' <= MAX_WAIT_ITEMS
         /\ \A k \in 1..nItems' : waitItems'[k] \in Items
         /\ \A j, k \in 1..MAX_WAIT_ITEMS :
              waitItems'[j] = waitItems'[k] /\ waitItems'[j] # NoItem => j = k
         /\ Waited' = Waited \cup {i}
         /\ Places' \subseteq Places \cup {i}
<1>1. /\ nItems \in Int /\ MAX_WAIT_ITEMS \in Nat
      /\ waitItems \in [1..MAX_WAIT_ITEMS -> Items \cup {NoItem}]
    BY ItemsAssumption DEF TypeOK
<1>2. /\ \A k \in 1..MAX_WAIT_ITEMS :
           /\ waitItems[k] # i
           /\ waitItems'[k] = IF k = nItems + 1 THEN i ELSE waitItems[k]
      /\ nItems + 1 \in 1..MAX_WAIT_ITEMS
      /\ \A k \in 1..nItems : k \in 1..MAX_WAIT_ITEMS /\ k # nItems + 1
    BY <1>1 DEF Places
<1>3. \A k \in 1..nItems' : k \in 1..nItems \/ k = nItems + 1
    BY <1>1
<1>4. Waited' = Waited \cup {i}
  <2>1. Waited' \subseteq Waited \cup {i}
      BY <1>2, <1>3 DEF Waited
  <2>2. nItems + 1 \in 1..nItems' /\ 1..nItems \subseteq 1..nItems'
      BY <1>1
  <2>3. Waited \cup {i} \subseteq Waited'
      BY <1>2, <2>2 DEF Waited
  <2>. QED BY <2>1, <2>3
<1>5. waitItems' \in [1..MAX_WAIT_ITEMS -> Items \cup {NoItem}]
    BY <1>1
<1>6. \A k \in 1..nItems' : waitItems'[k] \in Items
    BY <1>2, <1>3 DEF ListHolds
<1>7. \A j, k \in 1..MAX_WAIT_ITEMS :
        waitItems'[j] = waitItems'[k] /\ waitItems'[j] # NoItem => j = k
    BY <1>2 DEF ListHolds
<1>8. Places' \subseteq Places \cup {i}
    BY <1>2 DEF Places
<1>. QED BY <1>1, <1>4, <1>5, <1>6, <1>7, <1>8

-----------------------------------------------------------------------------
(* Asynchronous calls and their count *)

LEMMA CountedIsFinite ==
  ASSUME NEW i
  PROVE  /\ IsFiniteSet(Counted(i)) /\ Cardinality(Counted(i)) \in Nat
         /\ Cardinality(Counted(i)) = 0 <=> Counted(i) = {}
<1>1. IsFiniteSet(Counted(i))
    BY ItemsAssumption, FS_Subset DEF Counted
<1>. QED BY <1>1, FS_CardinalityType, FS_EmptySet

\* One call moves.
LEMMA CountedAfter ==
  ASSUME TypeOK, NEW c \in Calls, NEW i, \A d \in Calls \ {c} : call'[d] = call[d]
  PROVE  Counted(i)' = IF /\ call'[c].item = i
                          /\ call'[c].at \in {"queued", "running", "ran"}
                       THEN Counted(i) \cup {c} ELSE Counted(i) \ {c}
  BY DEF Counted

\* A call that is counted comes, or goes.
LEMMA CountChanges ==
  ASSUME NEW i, NEW c \in Calls
  PROVE  /\ c \notin Counted(i) =>
              Cardinality(Counted(i) \cup {c}) = Cardinality(Counted(i)) + 1
         /\ c \in Counted(i) =>
              Cardinality(Counted(i) \ {c}) = Cardinality(Counted(i)) - 1
  BY CountedIsFinite, FS_AddElement, FS_RemoveElement

-----------------------------------------------------------------------------
(* Every step keeps the invariant *)

\* Steps of the thread that leave items and the list alone.
LEMMA ThreadMovesKeep ==
  ASSUME WaitInv,
         Top \/ Fire \/ Reset \/ Check \/ CallbackEnds \/ IdleEnds \/ Leave
  PROVE  WaitInv'
<1>1. TypeOK /\ ListHolds /\ ThreadHolds /\ CallsCounted /\ QueuedOnce
    BY DEF WaitInv
<1>2. UNCHANGED <<itemVars, listVars, apcs, call, user, cs>>
    BY DEF Top, Fire, Reset, Check, CallbackEnds, IdleEnds, Leave
<1>3. \A k \in 1..nItems : waitItems[k] \in Items /\ waitItems[k] \in Waited
    BY <1>1 DEF ListHolds, Waited
<1>4. NoItem \notin Items
    BY ItemsAssumption
<1>5. TypeOK'
  <2>1. thread.item \in Items \cup {NoItem} /\ waitEvent \in BOOLEAN
      BY <1>1 DEF TypeOK
  <2>2. waitEvent' \in BOOLEAN
      BY <2>1 DEF Top, Fire, Reset, Check, CallbackEnds, IdleEnds, Leave
  <2>3. \E at \in {"none", "top", "idle", "waiting", "fired", "check", "dispatch",
                   "callback", "after", "leaving"}, i \in Items \cup {NoItem} :
          thread' = [at |-> at, item |-> i]
      BY <1>3, <2>1
         DEF ThreadTo, Top, Fire, Reset, Check, CallbackEnds, IdleEnds, Leave
  <2>. QED BY <1>1, <1>2, <2>2, <2>3 DEF TypeOK, itemVars, listVars
<1>6. CallsCounted' /\ QueuedOnce'
    BY <1>1, <1>2 DEF CallsCounted, Counted, QueuedOnce, itemVars
<1>7. ListHolds'
    BY <1>1, <1>2
       DEF TypeOK, ListHolds, ThreadTo, Top, Fire, Reset, Check, CallbackEnds,
           IdleEnds, Leave, listVars
<1>8. ThreadHolds'
    BY <1>1, <1>2, <1>3
       DEF TypeOK, ThreadHolds, Working, ThreadTo, Top, Fire, Reset, Check,
           CallbackEnds, IdleEnds, Leave, listVars, Waited
<1>9. ASSUME NEW i \in Items PROVE ItemInv(i)'
  <2>1. ItemInv(i)
      BY DEF WaitInv
  <2>2. /\ thread'.item \in {NoItem, thread.item} \cup Waited
        /\ thread'.at # "mark"
        /\ thread'.at = "dispatch" => state[thread'.item] = "ACTIVE"
      BY <1>1, <1>3
         DEF TypeOK, ThreadTo, Top, Fire, Reset, Check, CallbackEnds, IdleEnds,
             Leave
  <2>3. Waited \subseteq Places
      BY <1>1, ItemsAssumption DEF TypeOK, Waited, Places
  <2>4. Unadded(i)'
      BY <1>2, <1>4, <2>1, <2>2, <2>3
         DEF ItemInv, Unadded, itemVars, listVars, Waited, Places
  <2>5. Registering(i)' /\ Unregistering(i)' /\ GoneFromList(i)'
      BY <1>2, <2>1
         DEF ItemInv, Registering, Unregistering, GoneFromList, Waited,
             AddQueued, RemoveQueued, Queued, itemVars, listVars
  <2>6. RemovedOnce(i)' /\ CallsEnd(i)'
      BY <1>2, <2>1, <2>2
         DEF ItemInv, RemovedOnce, CallsEnd, Removing, Once, Alive, Counted,
             RemoveQueued, Queued, itemVars, listVars
  <2>. QED BY <2>4, <2>5, <2>6 DEF ItemInv
<1>. QED BY <1>5, <1>6, <1>7, <1>8, <1>9 DEF WaitInv

\* The thread queues a callback.
LEMMA DispatchKeeps == ASSUME WaitInv, Dispatch PROVE WaitInv'
<1>1. TypeOK /\ ListHolds /\ ThreadHolds /\ CallsCounted /\ QueuedOnce
    BY DEF WaitInv
<1>2. /\ UNCHANGED <<state, cbEvent, completion, freed, listVars, waitEvent,
                     apcs, user, cs>>
      /\ thread.at = "dispatch" /\ thread' = [at |-> "after", item |-> thread.item]
    BY DEF Dispatch, ThreadTo
<1>3. PICK t \in Items : t = thread.item /\ t \in Waited
    BY <1>1, <1>2 DEF ThreadHolds, Working, ListHolds, Waited
<1>4. \/ UNCHANGED <<call, pending>>
      \/ \E c \in Calls :
           /\ call[c].at = "none"
           /\ call' = [call EXCEPT ![c] = [at |-> "queued", item |-> t]]
           /\ pending' = [pending EXCEPT ![t] = @ + 1]
    BY <1>3 DEF Dispatch
<1>5. CallsCounted' /\ \A i \in Items \ {t} : Counted(i)' = Counted(i)
  <2>1. CASE UNCHANGED <<call, pending>>
      BY <1>1, <2>1 DEF CallsCounted, Counted
  <2>2. ASSUME NEW c \in Calls, call[c].at = "none",
               call' = [call EXCEPT ![c] = [at |-> "queued", item |-> t]],
               pending' = [pending EXCEPT ![t] = @ + 1]
        PROVE  CallsCounted' /\ \A i \in Items \ {t} : Counted(i)' = Counted(i)
    <3>1. /\ call'[c] = [at |-> "queued", item |-> t]
          /\ \A d \in Calls \ {c} : call'[d] = call[d]
        BY <1>1, <2>2 DEF TypeOK
    <3>2. \A i \in Items : c \notin Counted(i)
        BY <2>2 DEF Counted
    <3>3. Counted(t)' = Counted(t) \cup {c}
        BY <1>1, <3>1, CountedAfter
    <3>4. ASSUME NEW i \in Items \ {t} PROVE Counted(i)' = Counted(i)
      <4>1. Counted(i)' = Counted(i) \ {c}
          BY <1>1, <3>1, CountedAfter
      <4>. QED BY <3>2, <4>1
    <3>5. ASSUME NEW i \in Items PROVE pending'[i] = Cardinality(Counted(i)')
      <4>1. CASE i = t
        <5>1. Cardinality(Counted(t) \cup {c}) = Cardinality(Counted(t)) + 1
            BY <1>3, <3>2, CountChanges
        <5>2. pending'[t] = pending[t] + 1 /\ pending[t] = Cardinality(Counted(t))
            BY <1>1, <2>2 DEF TypeOK, CallsCounted
        <5>. QED BY <3>3, <4>1, <5>1, <5>2
      <4>2. CASE i # t
          BY <1>1, <2>2, <3>4, <4>2 DEF TypeOK, CallsCounted
      <4>. QED BY <4>1, <4>2
    <3>6. \A d \in Calls : call'[d].at # "none" => call'[d].item \in Items
        BY <1>1, <1>3, <3>1 DEF CallsCounted
    <3>. QED BY <3>4, <3>5, <3>6 DEF CallsCounted
  <2>. QED BY <1>4, <2>1, <2>2
<1>6. TypeOK'
  <2>1. pending' \in [Items -> Nat]
    <3>1. \A i \in Items : pending[i] \in Nat /\ pending[i] + 1 \in Nat
        BY <1>1 DEF TypeOK
    <3>. QED BY <1>1, <1>3, <1>4, <3>1 DEF TypeOK
  <2>2. call' \in [Calls -> [at : {"none", "queued", "running", "ran", "notify",
                                   "notifylast", "last", "mark"},
                             item : Items \cup {NoItem}]]
    <3>1. [at |-> "queued", item |-> t] \in
            [at : {"none", "queued", "running", "ran", "notify", "notifylast",
                   "last", "mark"}, item : Items \cup {NoItem}]
        OBVIOUS
    <3>. QED BY <1>1, <1>4, <3>1 DEF TypeOK
  <2>. QED BY <1>1, <1>2, <1>3, <2>1, <2>2 DEF TypeOK, listVars
<1>7. ListHolds' /\ ThreadHolds' /\ QueuedOnce'
    BY <1>1, <1>2, <1>3
       DEF ListHolds, ThreadHolds, QueuedOnce, Working, Waited, listVars
<1>8. ASSUME NEW i \in Items PROVE ItemInv(i)'
  <2>1. ItemInv(i)
      BY DEF WaitInv
  <2>2. Registering(i)' /\ Unadded(i)' /\ Unregistering(i)' /\ GoneFromList(i)'
      BY <1>2, <2>1
         DEF ItemInv, Registering, Unadded, Unregistering, GoneFromList, Waited,
             Places, AddQueued, RemoveQueued, Queued, listVars
  <2>3. RemovedOnce(i)'
      BY <1>2, <2>1
         DEF ItemInv, RemovedOnce, Removing, Once, Alive, RemoveQueued, Queued,
             listVars
  <2>4. CallsEnd(i)'
    <3>1. i = t => user[i].at \in Registered \cup {"wait"}
        BY <1>2, <1>3, <2>1 DEF ItemInv, CallsEnd, Unregistering
    <3>. QED BY <1>2, <1>5, <2>1, <3>1 DEF ItemInv, CallsEnd, Registered
  <2>. QED BY <2>2, <2>3, <2>4 DEF ItemInv
<1>. QED BY <1>5, <1>6, <1>7, <1>8 DEF WaitInv

\* An item is marked when it has been taken off the list.
LEMMA MarkKeeps == ASSUME WaitInv, Mark PROVE WaitInv'
<1>1. TypeOK /\ ListHolds /\ ThreadHolds /\ CallsCounted /\ QueuedOnce
    BY DEF WaitInv
<1>2. PICK t \in Items : t = thread.item /\ t \notin Waited
    BY <1>1 DEF Mark, ThreadHolds
<1>3. /\ UNCHANGED <<pending, cbEvent, completion, freed, listVars, waitEvent,
                     apcs, call, user, cs>>
      /\ thread.at = "mark" /\ thread' = [at |-> "top", item |-> NoItem]
      /\ state' = [state EXCEPT ![t] = CASE @ = "ACTIVE" -> "ABANDONED"
                                         [] @ = "UNREGISTERED" -> "REMOVED"
                                         [] OTHER -> @]
    BY <1>2 DEF Mark, ThreadTo
<1>4. /\ state' \in [Items -> States]
      /\ \A i \in Items \ {t} : state'[i] = state[i]
      /\ \/ state[t] = "ACTIVE" /\ state'[t] = "ABANDONED"
         \/ state[t] = "UNREGISTERED" /\ state'[t] = "REMOVED"
         \/ state[t] \notin {"ACTIVE", "UNREGISTERED"} /\ state'[t] = state[t]
    BY <1>1, <1>3 DEF TypeOK, States
<1>5. TypeOK'
    BY <1>1, <1>3, <1>4 DEF TypeOK, listVars
<1>6. CallsCounted' /\ ListHolds' /\ ThreadHolds' /\ QueuedOnce'
    BY <1>1, <1>3
       DEF CallsCounted, Counted, ListHolds, ThreadHolds, Working, QueuedOnce,
           listVars
<1>7. ASSUME NEW i \in Items PROVE ItemInv(i)'
  <2>1. ItemInv(i)
      BY DEF WaitInv
  <2>2. Registering(i)' /\ Unadded(i)' /\ Unregistering(i)'
      BY <1>2, <1>3, <1>4, <2>1, ItemsAssumption
         DEF ItemInv, Registering, Unadded, Unregistering, Places, AddQueued,
             RemoveQueued, Queued, listVars, Waited, Registered
  <2>3. GoneFromList(i)'
      BY <1>2, <1>3, <1>4, <2>1 DEF ItemInv, GoneFromList, Waited, listVars
  <2>4. RemovedOnce(i)'
      BY <1>2, <1>3, <1>4, <2>1
         DEF ItemInv, RemovedOnce, Removing, Once, Alive, RemoveQueued, Queued,
             listVars
  <2>5. CallsEnd(i)'
      BY <1>3, <2>1 DEF ItemInv, CallsEnd, Counted
  <2>. QED BY <2>2, <2>3, <2>4, <2>5 DEF ItemInv
<1>. QED BY <1>5, <1>6, <1>7 DEF WaitInv

\* Whether in a call or in UnregisterWaitEx, an item's state only moves on.
LEMMA ItemMoves ==
  ASSUME NEW i \in Items, ItemInv(i), UNCHANGED <<listVars, apcs, thread, cs>>,
         \/ user'[i].at = user[i].at
         \/ user[i].at \notin Registered /\ user'[i].at \notin Registered,
         \/ /\ state'[i] = state[i]
            /\ i \in freed' <=> i \in freed
         \/ /\ <<state[i], state'[i]>> \in {<<"UNREGISTERED", "DELETESYNC">>,
                                            <<"ABANDONED", "REMOVED">>}
            /\ i \in freed' <=> i \in freed
            /\ state[i] = "ABANDONED" => user[i].at \notin Registered
         \/ state[i] = "REMOVED" /\ state'[i] = "GAMEOVER",
         CallsEnd(i)'
  PROVE  ItemInv(i)'
<1>1. Registering(i)' /\ Unadded(i)' /\ Unregistering(i)'
    BY DEF ItemInv, Registering, Unadded, Unregistering, Registered, Places, Waited,
           AddQueued, RemoveQueued, Queued, listVars
<1>2. GoneFromList(i)'
    BY DEF ItemInv, GoneFromList, Waited, listVars
<1>3. RemovedOnce(i)'
    BY DEF ItemInv, RemovedOnce, Removing, Once, Alive, RemoveQueued, Queued,
           listVars
<1>. QED BY <1>1, <1>2, <1>3 DEF ItemInv

\* The rest of the invariant says nothing of states and events.
LEMMA ListStays ==
  ASSUME WaitInv, UNCHANGED <<listVars, apcs, thread, waitEvent>>
  PROVE  ListHolds' /\ ThreadHolds' /\ QueuedOnce'
  BY DEF WaitInv, ListHolds, ThreadHolds, QueuedOnce, Working, Waited, listVars

\* UnregisterWaitEx, after it has made the item UNREGISTERED or found it
\* ABANDONED.
LEMMA UnregisterMovesKeep ==
  ASSUME WaitInv, NEW i \in Items, UnregisterStep(i) \/ PassWaitEvent(i)
  PROVE  WaitInv'
<1>1. TypeOK /\ CallsCounted /\ ThreadHolds /\ ItemInv(i)
    BY DEF WaitInv
<1>2. /\ UNCHANGED <<pending, listVars, waitEvent, apcs, thread, call, cs>>
      /\ \A j \in Items \ {i} : /\ state'[j] = state[j] /\ user'[j] = user[j]
                                /\ j \in freed' <=> j \in freed
    BY <1>1
       DEF TypeOK, UnregisterStep, PassWaitEvent, AbandonedToRemoved, ReadPending,
           SetCompletion, Block, Finish, FinishLater, Exchange, UserTo, Destroy,
           itemVars
<1>3. /\ user[i].at \notin Registered
      /\ user'[i].mode = user[i].mode
      /\ user'[i].at \notin Registered \cup {"wait"}
      /\ user'[i].at = "event" => user[i].mode = "event"
      /\ user[i].at = "wait" => waitEvent
      /\ \/ user[i].at \in {"finish", "mark"}
         \/ user[i].at \in {"read", "block"} /\ pending[i] = 0
         \/ user'[i].at \notin {"finish", "mark", "done"}
         \/ user[i].mode # "block"
  <2>1. user[i].mode \in Modes /\ (user[i].at = "event" => user[i].mode = "event")
      BY <1>1 DEF TypeOK, ItemInv, CallsEnd
  <2>2. CASE ReadPending(i)
    <3>1. /\ user[i].at = "read" /\ user'[i].mode = user[i].mode
          /\ user'[i].at = IF pending[i] = 0 THEN "finish"
                           ELSE CASE user[i].mode = "leave" -> "done"
                                  [] user[i].mode = "event" -> "event"
                                  [] user[i].mode = "block" -> "block"
        BY <1>1, <2>2 DEF TypeOK, ReadPending, UserTo
    <3>. QED BY <2>1, <3>1 DEF Modes, Registered
  <2>3. CASE Block(i)
      BY <1>1, <2>3 DEF TypeOK, Block, UserTo, Registered
  <2>4. CASE Finish(i) \/ FinishLater(i)
      BY <1>1, <2>4 DEF TypeOK, Finish, FinishLater, UserTo, Registered
  <2>5. CASE SetCompletion(i)
      BY <1>1, <2>1, <2>5 DEF TypeOK, SetCompletion, UserTo, Registered
  <2>6. CASE AbandonedToRemoved(i) \/ PassWaitEvent(i)
      BY <1>1, <2>6 DEF TypeOK, AbandonedToRemoved, PassWaitEvent, UserTo, Registered
  <2>. QED BY <2>2, <2>3, <2>4, <2>5, <2>6 DEF UnregisterStep
<1>4. \/ state'[i] = state[i] /\ freed' = freed
      \/ state[i] = "ABANDONED" /\ state'[i] = "REMOVED" /\ freed' = freed
      \/ state[i] = "UNREGISTERED" /\ state'[i] = "DELETESYNC" /\ freed' = freed
      \/ state[i] = "REMOVED" /\ state'[i] = "GAMEOVER" /\ freed' = freed \cup {i}
    BY <1>1
       DEF TypeOK, UnregisterStep, PassWaitEvent, AbandonedToRemoved, ReadPending,
           SetCompletion, Block, Finish, FinishLater, Exchange, Destroy, itemVars
<1>5. TypeOK'
  <2>1. state' \in [Items -> States] /\ freed' \subseteq Items
      BY <1>1
         DEF TypeOK, UnregisterStep, PassWaitEvent, AbandonedToRemoved, ReadPending,
             SetCompletion, Block, Finish, FinishLater, Exchange, Destroy, States,
             itemVars
  <2>2. cbEvent' \in [Items -> BOOLEAN] /\ completion' \in [Items -> BOOLEAN]
      BY <1>1
         DEF TypeOK, UnregisterStep, PassWaitEvent, AbandonedToRemoved, ReadPending,
             SetCompletion, Block, Finish, FinishLater, itemVars
  <2>3. \E at \in {"done", "event", "block", "finish", "mark", "read"} :
          user' = [user EXCEPT ![i].at = at]
      BY <1>1
         DEF TypeOK, UnregisterStep, PassWaitEvent, AbandonedToRemoved, ReadPending,
             SetCompletion, Block, Finish, FinishLater, UserTo, Modes
  <2>4. PICK at \in {"done", "event", "block", "finish", "mark", "read"} :
          user' = [user EXCEPT ![i].at = at]
      BY <2>3
  <2>5. user' \in [Items -> [at : {"out", "adding", "added", "refused", "held",
                                  "wait", "abandoned", "read", "event", "block",
                                  "finish", "mark", "done"},
                            mode : Modes]]
      BY <1>1, <2>4 DEF TypeOK
  <2>. QED BY <1>1, <1>2, <2>1, <2>2, <2>5 DEF TypeOK, listVars
<1>6. ListHolds' /\ ThreadHolds' /\ QueuedOnce'
    BY <1>2, ListStays
<1>7. CallsCounted'
    BY <1>1, <1>2 DEF CallsCounted, Counted
<1>8. ItemInv(i)'
  <2>1. CallsEnd(i)'
    <3>1. /\ thread.at = "dispatch" => ~waitEvent
          /\ thread.at = "dispatch" /\ thread.item = i =>
               state[i] = "ACTIVE" \/ user[i].at = "wait"
          /\ state[i] # "ACTIVE" /\ Counted(i)' = Counted(i)
        BY <1>1, <1>2, <1>3
           DEF ThreadHolds, ItemInv, CallsEnd, Unregistering, Counted
    <3>2. pending[i] = 0 => Counted(i) = {}
        BY <1>1, CountedIsFinite DEF CallsCounted
    <3>3. ~(thread.at = "dispatch" /\ thread.item = i)
        BY <1>3, <3>1
    <3>. QED BY <1>1, <1>2, <1>3, <3>1, <3>2, <3>3 DEF ItemInv, CallsEnd
  <2>. QED BY <1>1, <1>2, <1>3, <1>4, <2>1, ItemMoves
<1>9. ASSUME NEW j \in Items, j # i PROVE ItemInv(j)'
  <2>1. ItemInv(j) /\ state'[j] = state[j] /\ user'[j] = user[j]
        /\ (j \in freed' <=> j \in freed)
      BY <1>2, <1>9 DEF WaitInv
  <2>2. CallsEnd(j)'
      BY <1>2, <2>1 DEF ItemInv, CallsEnd, Counted
  <2>. QED BY <1>2, <2>1, <2>2, ItemMoves
<1>. QED BY <1>5, <1>6, <1>7, <1>8, <1>9 DEF WaitInv

\* Calls: those that keep the count, and the decrement.
LEMMA CallMovesKeep ==
  ASSUME WaitInv, NEW c \in Calls, CallStep(c)
  PROVE  WaitInv'
<1>1. TypeOK /\ CallsCounted /\ ThreadHolds
    BY DEF WaitInv
<1>2. PICK i \in Items : i = call[c].item
    BY <1>1
       DEF CallsCounted, CallStep, Start, Return, Decrement, Notify, Last,
           MarkForRemoval
<1>3. ItemInv(i)
    BY DEF WaitInv
<1>4. /\ UNCHANGED <<completion, listVars, waitEvent, apcs, thread, user, cs>>
      /\ \A d \in Calls \ {c} : call'[d] = call[d]
      /\ \A j \in Items \ {i} : /\ state'[j] = state[j] /\ pending'[j] = pending[j]
                                /\ j \in freed' <=> j \in freed
    BY <1>1, <1>2
       DEF TypeOK, CallStep, Start, Return, Decrement, Notify, Last, MarkForRemoval,
           CallTo, EndCall, Exchange, Destroy, itemVars
<1>5. /\ call'[c].item \in {i, NoItem}
      /\ call'[c].at # "none" => call'[c].item = i
      /\ call'[c].at \in {"none", "running", "ran", "notify", "notifylast", "last",
                          "mark"}
      /\ \/ /\ call[c].at \in {"queued", "running"}
            /\ call'[c].item = i /\ call'[c].at \in {"running", "ran"}
            /\ pending'[i] = pending[i]
         \/ /\ call[c].at = "ran"
            /\ call'[c].at \notin {"queued", "running", "ran"}
            /\ pending'[i] = pending[i] - 1
         \/ /\ call[c].at \notin {"queued", "running", "ran"}
            /\ call'[c].at \notin {"queued", "running", "ran"}
            /\ pending'[i] = pending[i]
  <2>1. call[c] = [at |-> call[c].at, item |-> i]
      BY <1>1, <1>2 DEF TypeOK
  <2>2. CASE Start(c)
      BY <1>1, <1>2, <2>1, <2>2 DEF TypeOK, Start, CallTo, itemVars
  <2>3. CASE Return(c)
      BY <1>1, <1>2, <2>1, <2>3 DEF TypeOK, Return, CallTo, itemVars
  <2>4. CASE Decrement(c)
      BY <1>1, <1>2, <2>1, <2>4 DEF TypeOK, Decrement, CallTo
  <2>5. CASE Notify(c)
      BY <1>1, <1>2, <2>1, <2>5 DEF TypeOK, Notify, CallTo, EndCall
  <2>6. CASE Last(c)
      BY <1>1, <1>2, <2>1, <2>6 DEF TypeOK, Last, CallTo, EndCall
  <2>7. CASE MarkForRemoval(c)
      BY <1>1, <1>2, <2>1, <2>7 DEF TypeOK, MarkForRemoval, EndCall
  <2>. QED BY <2>2, <2>3, <2>4, <2>5, <2>6, <2>7 DEF CallStep
<1>6. \/ state'[i] = state[i] /\ freed' = freed
      \/ state[i] = "UNREGISTERED" /\ state'[i] = "DELETESYNC" /\ freed' = freed
      \/ state[i] = "REMOVED" /\ state'[i] = "GAMEOVER" /\ freed' = freed \cup {i}
    BY <1>1, <1>2
       DEF TypeOK, CallStep, Start, Return, Decrement, Notify, Last, MarkForRemoval,
           Exchange, Destroy, itemVars
<1>7. \A j \in Items \ {i} : Counted(j)' = Counted(j)
    BY <1>2, <1>4, <1>5 DEF Counted
<1>8. Counted(i)' \subseteq Counted(i) /\ pending'[i] = Cardinality(Counted(i)')
  <2>1. Counted(i)' = IF /\ call'[c].item = i
                         /\ call'[c].at \in {"queued", "running", "ran"}
                      THEN Counted(i) \cup {c} ELSE Counted(i) \ {c}
      BY <1>1, <1>4, CountedAfter
  <2>2. c \in Counted(i) <=> call[c].at \in {"queued", "running", "ran"}
      BY <1>2 DEF Counted
  <2>3. pending[i] = Cardinality(Counted(i))
      BY <1>1 DEF CallsCounted
  <2>4. CASE call[c].at = "ran" /\ call'[c].at \notin {"queued", "running", "ran"}
             /\ pending'[i] = pending[i] - 1
    <3>1. Counted(i)' = Counted(i) \ {c}
        BY <2>1, <2>4
    <3>2. Cardinality(Counted(i) \ {c}) = Cardinality(Counted(i)) - 1
        BY <2>2, <2>4, CountChanges
    <3>. QED BY <2>3, <2>4, <3>1, <3>2
  <2>5. CASE pending'[i] = pending[i] /\ Counted(i)' = Counted(i)
      BY <2>3, <2>5
  <2>. QED BY <1>5, <2>1, <2>2, <2>4, <2>5
<1>9. CallsCounted'
  <2>1. \A d \in Calls : call'[d].at # "none" => call'[d].item \in Items
      BY <1>1, <1>4, <1>5 DEF CallsCounted
  <2>2. ASSUME NEW j \in Items PROVE pending'[j] = Cardinality(Counted(j)')
    <3>1. CASE j = i
        BY <1>8, <3>1
    <3>2. CASE j # i
        BY <1>1, <1>4, <1>7, <3>2 DEF CallsCounted
    <3>. QED BY <3>1, <3>2
  <2>. QED BY <2>1, <2>2 DEF CallsCounted
<1>10. TypeOK'
  <2>1. state' \in [Items -> States] /\ freed' \subseteq Items
      BY <1>1, <1>2
         DEF TypeOK, CallStep, Start, Return, Decrement, Notify, Last,
             MarkForRemoval, Exchange, Destroy, States, itemVars
  <2>2. cbEvent' \in [Items -> BOOLEAN]
      BY <1>1
         DEF TypeOK, CallStep, Start, Return, Decrement, Notify, Last,
             MarkForRemoval, itemVars
  <2>3. pending' \in [Items -> Nat]
    <3>1. \A j \in Items : pending'[j] \in Nat
      <4>1. ASSUME NEW S \in SUBSET Calls PROVE Cardinality(S) \in Nat
          BY ItemsAssumption, FS_Subset, FS_CardinalityType
      <4>2. \A j \in Items : Counted(j)' \in SUBSET Calls
          BY DEF Counted
      <4>. QED BY <1>9, <4>1, <4>2 DEF CallsCounted
    <3>2. pending' = pending \/ pending' = [pending EXCEPT ![i] = @ - 1]
        BY <1>2
           DEF CallStep, Start, Return, Decrement, Notify, Last, MarkForRemoval,
               itemVars
    <3>. QED BY <1>1, <3>1, <3>2 DEF TypeOK
  <2>4. call' \in [Calls -> [at : {"none", "queued", "running", "ran", "notify",
                                   "notifylast", "last", "mark"},
                             item : Items \cup {NoItem}]]
    <3>1. \/ \E at \in {"running", "ran", "notify", "notifylast", "last", "mark"} :
               call' = [call EXCEPT ![c].at = at]
          \/ call' = [call EXCEPT ![c] = [at |-> "none", item |-> NoItem]]
        BY DEF CallStep, Start, Return, Decrement, Notify, Last, MarkForRemoval,
               CallTo, EndCall
    <3>2. CASE call' = [call EXCEPT ![c] = [at |-> "none", item |-> NoItem]]
      <4>1. [at |-> "none", item |-> NoItem] \in
              [at : {"none", "queued", "running", "ran", "notify", "notifylast",
                     "last", "mark"}, item : Items \cup {NoItem}]
          OBVIOUS
      <4>. QED BY <1>1, <3>2, <4>1 DEF TypeOK
    <3>3. ASSUME NEW at \in {"running", "ran", "notify", "notifylast", "last", "mark"},
                 call' = [call EXCEPT ![c].at = at]
          PROVE  call' \in [Calls -> [at : {"none", "queued", "running", "ran",
                                           "notify", "notifylast", "last", "mark"},
                                     item : Items \cup {NoItem}]]
        BY <1>1, <3>3 DEF TypeOK
    <3>. QED BY <3>1, <3>2, <3>3
  <2>. QED BY <1>1, <1>4, <2>1, <2>2, <2>3, <2>4 DEF TypeOK, listVars
<1>11. ListHolds' /\ ThreadHolds' /\ QueuedOnce'
    BY <1>4, ListStays
<1>12. ASSUME NEW j \in Items PROVE ItemInv(j)'
  <2>1. ItemInv(j)
      BY DEF WaitInv
  <2>2. Counted(j)' \subseteq Counted(j)
      BY <1>7, <1>8
  <2>3. state[j] = "ACTIVE" => state'[j] = "ACTIVE"
      BY <1>4, <1>6
  <2>4. CallsEnd(j)'
      BY <1>4, <2>1, <2>2, <2>3 DEF ItemInv, CallsEnd
  <2>5. CASE j = i
      BY <1>4, <1>6, <2>1, <2>4, <2>5, ItemMoves
  <2>6. CASE j # i
      BY <1>4, <2>1, <2>4, <2>6, ItemMoves
  <2>. QED BY <2>5, <2>6
<1>. QED BY <1>9, <1>10, <1>11, <1>12 DEF WaitInv

\* The thread takes an item off its list, after a callback or by an APC.
LEMMA RemovalKeeps ==
  ASSUME WaitInv, NEW i \in Items, Remove(i), UNCHANGED <<waitEvent, call, user, cs>>,
         \/ i \in Waited /\ Once(i) /\ UNCHANGED apcs
         \/ /\ apcs # <<>> /\ apcs' = Tail(apcs)
            /\ Head(apcs) = [proc |-> "Remove", item |-> i]
  PROVE  WaitInv'
<1> DEFINE a == [proc |-> "Remove", item |-> i]
<1>1. TypeOK /\ CallsCounted /\ ListHolds /\ ThreadHolds /\ QueuedOnce /\ ItemInv(i)
    BY DEF WaitInv
<1>2. apcs \in Seq(Apcs) /\ NoItem \notin Items
    BY <1>1, ItemsAssumption DEF TypeOK, Apcs
<1>3. /\ apcs' \in Seq(Apcs) /\ QueuedOnce'
      /\ \A b : Queued(b)' => Queued(b)
      /\ ~Once(i) => Queued(a) /\ ~Queued(a)'
  <2>1. CASE i \in Waited /\ Once(i) /\ UNCHANGED apcs
      BY <1>1, <1>2, <2>1 DEF QueuedOnce, Queued
  <2>2. CASE apcs # <<>> /\ apcs' = Tail(apcs) /\ Head(apcs) = a
      BY <1>1, <1>2, <2>2, Dequeue
  <2>. QED BY <2>1, <2>2
<1>4. user[i].at \notin {"out", "adding", "refused"}
  <2>1. CASE i \in Waited
      BY <1>1, <2>1, ItemsAssumption DEF ItemInv, Unadded, Waited, Places, TypeOK
  <2>2. CASE Queued(a)
      BY <1>1, <2>2 DEF ItemInv, Unregistering, RemoveQueued, Registered
  <2>. QED BY <1>1, <1>2, <2>1, <2>2, Dequeue
<1>5. /\ waitItems' \in [1..MAX_WAIT_ITEMS -> Items \cup {NoItem}]
      /\ nItems' \in Int /\ nItems' <= nItems
      /\ \A k \in 1..nItems' : waitItems'[k] \in Items
      /\ \A j, k \in 1..MAX_WAIT_ITEMS :
           waitItems'[j] = waitItems'[k] /\ waitItems'[j] # NoItem => j = k
      /\ Waited' \subseteq Waited \ {i}
      /\ Places' \subseteq Places \cup {NoItem}
    BY <1>1, RemoveFromList
<1>6. /\ UNCHANGED <<pending, cbEvent, completion, object, options>>
      /\ \/ /\ state[i] = "DELETESYNC" /\ thread' = [at |-> "top", item |-> NoItem]
            /\ state' = [state EXCEPT ![i] = "GAMEOVER"] /\ freed' = freed \cup {i}
         \/ /\ state[i] # "DELETESYNC" /\ thread' = [at |-> "mark", item |-> i]
            /\ state' = state /\ freed' = freed
    BY DEF Remove, Destroy, ThreadTo
<1>7. TypeOK'
  <2>1. nItems' <= MAX_WAIT_ITEMS
      BY <1>1, <1>5, ItemsAssumption DEF TypeOK
  <2>2. state' \in [Items -> States] /\ freed' \subseteq Items
      BY <1>1, <1>6 DEF TypeOK, States
  <2>3. \E at \in {"top", "mark"}, j \in Items \cup {NoItem} :
          thread' = [at |-> at, item |-> j]
      BY <1>6
  <2>4. apcs' \in Seq([proc : {"Add", "Remove"}, item : Items])
      BY <1>3 DEF Apcs
  <2>. QED BY <1>1, <1>5, <1>6, <2>1, <2>2, <2>3, <2>4 DEF TypeOK
<1>8. CallsCounted'
    BY <1>1, <1>6 DEF CallsCounted, Counted
<1>9. ListHolds' /\ ThreadHolds'
    BY <1>2, <1>5, <1>6 DEF ListHolds, ThreadHolds, Working
<1>10. ASSUME NEW j \in Items PROVE ItemInv(j)'
  <2>1. ItemInv(j)
      BY DEF WaitInv
  <2>2. /\ state'[j] # state[j] =>
             j = i /\ state[i] = "DELETESYNC" /\ state'[i] = "GAMEOVER"
        /\ j # i => (j \in freed' <=> j \in freed)
        /\ (j \in freed' /\ j \notin freed) => state[j] = "DELETESYNC"
      BY <1>1, <1>6 DEF TypeOK
  <2>3. Registering(j)'
      BY <1>1, <1>3, <1>5, <2>1, ItemsAssumption
         DEF TypeOK, ItemInv, Registering, AddQueued
  <2>4. Unadded(j)'
      BY <1>2, <1>4, <1>5, <1>6, <2>1, <2>2 DEF ItemInv, Unadded
  <2>5. Unregistering(j)'
      BY <1>3, <2>1, <2>2 DEF ItemInv, Unregistering, RemoveQueued
  <2>6. GoneFromList(j)'
      BY <1>5, <2>1, <2>2 DEF ItemInv, GoneFromList
  <2>7. RemovedOnce(j)'
    <3>1. CASE j = i
        BY <1>2, <1>3, <1>6, <2>1, <2>2, <3>1
           DEF ItemInv, RemovedOnce, Removing, Once, Alive, RemoveQueued
    <3>2. CASE j # i
        BY <1>2, <1>3, <1>6, <2>1, <2>2, <3>2
           DEF ItemInv, RemovedOnce, Removing, Once, Alive, RemoveQueued
    <3>. QED BY <3>1, <3>2
  <2>8. CallsEnd(j)'
      BY <1>6, <2>1 DEF ItemInv, CallsEnd, Counted
  <2>. QED BY <2>3, <2>4, <2>5, <2>6, <2>7, <2>8 DEF ItemInv
<1>. QED BY <1>3, <1>7, <1>8, <1>9, <1>10 DEF WaitInv

\* After a callback an item stays, or is removed.
LEMMA AfterKeeps == ASSUME WaitInv, After PROVE WaitInv'
<1>1. TypeOK /\ CallsCounted /\ ListHolds /\ ThreadHolds /\ QueuedOnce
    BY DEF WaitInv
<1>2. PICK i \in Items : i = thread.item /\ i \in Waited
    BY <1>1 DEF After, ThreadHolds, Working, ListHolds, Waited
<1>3. CASE Once(i) /\ Remove(i)
    BY <1>2, <1>3, RemovalKeeps DEF After
<1>4. CASE /\ thread' = [at |-> "top", item |-> NoItem]
           /\ UNCHANGED <<itemVars, listVars>>
  <2>1. UNCHANGED <<itemVars, listVars, waitEvent, apcs, call, user, cs>>
      BY <1>4 DEF After
  <2>2. TypeOK'
      BY <1>1, <1>4, <2>1 DEF TypeOK, itemVars, listVars
  <2>3. CallsCounted' /\ ListHolds' /\ ThreadHolds' /\ QueuedOnce'
      BY <1>1, <1>4, <2>1
         DEF CallsCounted, Counted, ListHolds, ThreadHolds, Working, QueuedOnce,
             itemVars, listVars
  <2>4. ASSUME NEW j \in Items PROVE ItemInv(j)'
    <3>1. ItemInv(j)
        BY DEF WaitInv
    <3>2. Registering(j)' /\ Unadded(j)' /\ Unregistering(j)' /\ GoneFromList(j)'
        BY <1>4, <2>1, <3>1, ItemsAssumption
           DEF ItemInv, Registering, Unadded, Unregistering, GoneFromList, Waited,
               Places, AddQueued, RemoveQueued, Queued, itemVars, listVars
    <3>3. RemovedOnce(j)' /\ CallsEnd(j)'
        BY <1>4, <2>1, <3>1
           DEF ItemInv, RemovedOnce, CallsEnd, Removing, Once, Alive, Counted,
               RemoveQueued, Queued, itemVars, listVars
    <3>. QED BY <3>2, <3>3 DEF ItemInv
  <2>. QED BY <2>2, <2>3, <2>4 DEF WaitInv
<1>. QED BY <1>2, <1>3, <1>4 DEF After, ThreadTo

\* An APC adds an item, or finds its handle on the list.
LEMMA AdditionKeeps ==
  ASSUME WaitInv, NEW i \in Items, Add(i), UNCHANGED <<waitEvent, call, cs>>,
         thread.at \in {"new", "idle", "waiting"},
         apcs # <<>>, apcs' = Tail(apcs), Head(apcs) = [proc |-> "Add", item |-> i]
  PROVE  WaitInv'
<1>1. TypeOK /\ CallsCounted /\ ListHolds /\ ThreadHolds /\ QueuedOnce /\ ItemInv(i)
    BY DEF WaitInv
<1>2. apcs \in Seq(Apcs) /\ NoItem \notin Items
    BY <1>1, ItemsAssumption DEF TypeOK, Apcs
<1>3. /\ apcs' \in Seq(Apcs) /\ QueuedOnce'
      /\ \A b : Queued(b)' => Queued(b)
      /\ AddQueued(i) /\ ~AddQueued(i)'
    BY <1>1, <1>2, Dequeue DEF AddQueued
<1>4. /\ user[i].at = "adding" /\ cs = i
      /\ state[i] = "ACTIVE" /\ i \notin Places /\ i \notin freed
      /\ 0 <= nItems /\ nItems < MAX_WAIT_ITEMS
    BY <1>1, <1>3 DEF ItemInv, Registering, Unadded, ListHolds
<1>5. /\ UNCHANGED <<itemVars, object, options>>
      /\ thread' = [at |-> "top", item |-> NoItem]
      /\ \/ /\ user' = [user EXCEPT ![i].at = "refused"]
            /\ UNCHANGED <<waitItems, nItems>>
         \/ /\ user' = [user EXCEPT ![i].at = "added"]
            /\ waitItems' = [waitItems EXCEPT ![nItems + 1] = i]
            /\ nItems' = nItems + 1
    BY DEF Add, ThreadTo, UserTo
<1>6. /\ waitItems' \in [1..MAX_WAIT_ITEMS -> Items \cup {NoItem}]
      /\ nItems' \in Int /\ nItems' <= MAX_WAIT_ITEMS
      /\ \A k \in 1..nItems' : waitItems'[k] \in Items
      /\ \A j, k \in 1..MAX_WAIT_ITEMS :
           waitItems'[j] = waitItems'[k] /\ waitItems'[j] # NoItem => j = k
      /\ Waited' \subseteq Waited \cup {i} /\ Places' \subseteq Places \cup {i}
      /\ user'[i].at = "refused" => Places' = Places
  <2>1. CASE UNCHANGED <<waitItems, nItems>>
      BY <1>1, <2>1 DEF TypeOK, ListHolds, Waited, Places
  <2>2. CASE /\ user' = [user EXCEPT ![i].at = "added"]
             /\ waitItems' = [waitItems EXCEPT ![nItems + 1] = i]
             /\ nItems' = nItems + 1
    <3>1. user'[i].at = "added"
        BY <1>1, <2>2 DEF TypeOK
    <3>. QED BY <1>1, <1>4, <2>2, <3>1, AddToList
  <2>. QED BY <1>5, <2>1, <2>2
<1>7. /\ user'[i].at \in {"added", "refused"} /\ user'[i].mode = user[i].mode
      /\ \A j \in Items \ {i} : user'[j] = user[j]
    BY <1>1, <1>5 DEF TypeOK
<1>8. TypeOK'
  <2>1. user' \in [Items -> [at : {"out", "adding", "added", "refused", "held",
                                  "wait", "abandoned", "read", "event", "block",
                                  "finish", "mark", "done"},
                            mode : Modes]]
    <3>1. CASE user' = [user EXCEPT ![i].at = "refused"]
        BY <1>1, <3>1 DEF TypeOK
    <3>2. CASE user' = [user EXCEPT ![i].at = "added"]
        BY <1>1, <3>2 DEF TypeOK
    <3>. QED BY <1>5, <3>1, <3>2
  <2>2. apcs' \in Seq([proc : {"Add", "Remove"}, item : Items])
      BY <1>3 DEF Apcs
  <2>. QED BY <1>1, <1>5, <1>6, <2>1, <2>2 DEF TypeOK, itemVars
<1>9. CallsCounted'
    BY <1>1, <1>5 DEF CallsCounted, Counted, itemVars
<1>10. ListHolds' /\ ThreadHolds'
    BY <1>2, <1>5, <1>6 DEF ListHolds, ThreadHolds, Working
<1>11. ASSUME NEW j \in Items PROVE ItemInv(j)'
  <2>1. ItemInv(j)
      BY DEF WaitInv
  <2>2. CASE j = i
    <3>1. Registering(i)'
        BY <1>3, <1>4, <1>7 DEF Registering
    <3>2. Unadded(i)'
        BY <1>2, <1>4, <1>5, <1>6, <1>7 DEF Unadded, itemVars
    <3>3. Unregistering(i)' /\ GoneFromList(i)'
        BY <1>1, <1>3, <1>4, <1>5, <1>7
           DEF ItemInv, Unregistering, GoneFromList, RemoveQueued, Registered, itemVars
    <3>4. RemovedOnce(i)' /\ CallsEnd(i)'
        BY <1>1, <1>3, <1>4, <1>5, <1>7
           DEF ItemInv, RemovedOnce, CallsEnd, Unregistering, Removing, Alive,
               Registered, RemoveQueued, itemVars
    <3>. QED BY <2>2, <3>1, <3>2, <3>3, <3>4 DEF ItemInv
  <2>3. CASE j # i
    <3>1. Registering(j)' /\ Unadded(j)'
        BY <1>2, <1>3, <1>4, <1>5, <1>6, <1>7, <2>1, <2>3
           DEF ItemInv, Registering, Unadded, AddQueued, itemVars
    <3>2. Unregistering(j)' /\ GoneFromList(j)'
        BY <1>3, <1>5, <1>6, <1>7, <2>1, <2>3
           DEF ItemInv, Unregistering, GoneFromList, RemoveQueued, itemVars
    <3>3. RemovedOnce(j)' /\ CallsEnd(j)'
        BY <1>3, <1>5, <1>7, <2>1, <2>3
           DEF ItemInv, RemovedOnce, CallsEnd, Removing, Once, Alive, RemoveQueued,
               Counted, itemVars
    <3>. QED BY <3>1, <3>2, <3>3 DEF ItemInv
  <2>. QED BY <2>2, <2>3
<1>. QED BY <1>3, <1>8, <1>9, <1>10, <1>11 DEF WaitInv

\* An APC runs.
LEMMA ApcKeeps == ASSUME WaitInv, Apc PROVE WaitInv'
<1>1. apcs \in Seq(Apcs) /\ QueuedOnce
    BY DEF WaitInv, TypeOK, Apcs
<1>2. apcs # <<>> /\ apcs' = Tail(apcs) /\ UNCHANGED <<waitEvent, call, cs>>
      /\ thread.at \in {"new", "idle", "waiting"}
    BY DEF Apc
<1>3. PICK a \in Apcs : a = Head(apcs)
    BY <1>1, <1>2, Dequeue
<1>4. a = [proc |-> a.proc, item |-> a.item] /\ a.item \in Items
    BY DEF Apcs
<1>5. CASE a.proc = "Add" /\ Add(a.item)
    BY <1>2, <1>3, <1>4, <1>5, AdditionKeeps
<1>6. CASE a.proc = "Remove" /\ Remove(a.item) /\ UNCHANGED user
    BY <1>2, <1>3, <1>4, <1>6, RemovalKeeps
<1>. QED BY <1>3, <1>5, <1>6 DEF Apc

\* Where the program is with its items.
Users ==
  [Items -> [at : {"out", "adding", "added", "refused", "held", "wait", "abandoned",
                   "read", "event", "block", "finish", "mark", "done"},
             mode : Modes]]

LEMMA UserMoves ==
  ASSUME user \in Users, NEW i \in Items,
         \/ \E at \in {"adding", "refused", "held"} : user' = [user EXCEPT ![i].at = at]
         \/ \E at \in {"wait", "abandoned"}, mode \in Modes :
              user' = [user EXCEPT ![i] = [at |-> at, mode |-> mode]]
         \/ user' = user
  PROVE  user' \in Users
<1>1. ASSUME NEW at \in {"adding", "refused", "held"},
             user' = [user EXCEPT ![i].at = at]
      PROVE  user' \in Users
    BY <1>1 DEF Users
<1>2. ASSUME NEW at \in {"wait", "abandoned"}, NEW mode \in Modes,
             user' = [user EXCEPT ![i] = [at |-> at, mode |-> mode]]
      PROVE  user' \in Users
    BY <1>2 DEF Users
<1>3. CASE user' = user
    BY <1>3
<1>. QED BY <1>1, <1>2, <1>3

\* What is waited for has a place.
LEMMA WaitedHasPlace == TypeOK => Waited \subseteq Places
  BY ItemsAssumption DEF TypeOK, Waited, Places

\* The program registers an item: an APC will add it.
LEMMA RegisterKeeps == ASSUME WaitInv, NEW i \in Items, Register(i) PROVE WaitInv'
<1> DEFINE a == [proc |-> "Add", item |-> i]
<1>1. TypeOK /\ CallsCounted /\ ListHolds /\ ThreadHolds /\ QueuedOnce /\ ItemInv(i)
    BY DEF WaitInv
<1>2. apcs \in Seq(Apcs) /\ a \in Apcs /\ NoItem \notin Items
    BY <1>1, ItemsAssumption DEF TypeOK, Apcs
<1>3. /\ user[i].at = "out" /\ cs = NoItem /\ cs' = i
      /\ apcs' = Append(apcs, a)
      /\ user' = [user EXCEPT ![i].at = "adding"]
      /\ UNCHANGED <<itemVars, object, options, call>>
      /\ \/ /\ thread' = [at |-> "new", item |-> NoItem]
            /\ waitItems' = [k \in 1..MAX_WAIT_ITEMS |-> NoItem] /\ nItems' = 0
            /\ thread.at = "none" /\ waitEvent' = TRUE
         \/ UNCHANGED <<thread, waitItems, nItems, waitEvent>> /\ nItems # MAX_WAIT_ITEMS
    BY DEF Register, UserTo, ThreadTo, listVars
<1>4. /\ user'[i].at = "adding" /\ user'[i].mode = user[i].mode
      /\ \A j \in Items \ {i} : user'[j] = user[j]
    BY <1>1, <1>3 DEF TypeOK
<1>5. ~Queued(a)
    BY <1>1, <1>3 DEF ItemInv, Registering, AddQueued
<1>6. /\ apcs' \in Seq(Apcs) /\ QueuedOnce'
      /\ \A j \in Items : /\ AddQueued(j)' => AddQueued(j) \/ j = i
                          /\ RemoveQueued(j)' => RemoveQueued(j)
  <2>1. \A b : Queued(b)' <=> Queued(b) \/ b = a
      BY <1>1, <1>2, <1>3, <1>5, Enqueue
  <2>2. apcs' \in Seq(Apcs) /\ QueuedOnce'
      BY <1>1, <1>2, <1>3, <1>5, Enqueue
  <2>3. ASSUME NEW j \in Items
        PROVE  /\ AddQueued(j)' => AddQueued(j) \/ j = i
               /\ RemoveQueued(j)' => RemoveQueued(j)
      BY <2>1 DEF AddQueued, RemoveQueued
  <2>. QED BY <2>2, <2>3
<1>7. /\ waitItems' \in [1..MAX_WAIT_ITEMS -> Items \cup {NoItem}]
      /\ nItems' \in Int /\ nItems' < MAX_WAIT_ITEMS
      /\ \A k \in 1..nItems' : waitItems'[k] \in Items
      /\ \A j, k \in 1..MAX_WAIT_ITEMS :
           waitItems'[j] = waitItems'[k] /\ waitItems'[j] # NoItem => j = k
      /\ Waited' \subseteq Waited /\ Places' \subseteq Places \cup {NoItem}
  <2>1. CASE UNCHANGED <<waitItems, nItems>> /\ nItems # MAX_WAIT_ITEMS
      BY <1>1, <2>1, ItemsAssumption DEF TypeOK, ListHolds, Waited, Places
  <2>2. CASE waitItems' = [k \in 1..MAX_WAIT_ITEMS |-> NoItem] /\ nItems' = 0
      BY <1>1, <2>2, ItemsAssumption DEF TypeOK, Waited, Places
  <2>. QED BY <1>3, <2>1, <2>2
<1>8. \/ thread' = [at |-> "new", item |-> NoItem] /\ nItems' = 0
      \/ UNCHANGED <<thread, waitEvent, waitItems, nItems>>
    BY <1>3
<1>9. TypeOK'
  <2>1. user' \in Users
      BY <1>1, <1>3, UserMoves DEF TypeOK, Users
  <2>2. apcs' \in Seq([proc : {"Add", "Remove"}, item : Items])
      BY <1>6 DEF Apcs
  <2>3. nItems' <= MAX_WAIT_ITEMS /\ waitEvent' \in BOOLEAN
    <3>1. MAX_WAIT_ITEMS \in Nat
        BY ItemsAssumption
    <3>2. waitEvent' \in BOOLEAN
        BY <1>1, <1>3 DEF TypeOK
    <3>. QED BY <1>7, <3>1, <3>2
  <2>. QED BY <1>1, <1>3, <1>7, <1>8, <2>1, <2>2, <2>3 DEF TypeOK, Users, itemVars
<1>10. CallsCounted'
    BY <1>1, <1>3 DEF CallsCounted, Counted, itemVars
<1>11. ListHolds' /\ ThreadHolds'
  <2>1. ListHolds'
      BY <1>1, <1>7, <1>8 DEF ListHolds
  <2>2. ThreadHolds'
    <3>1. CASE thread' = [at |-> "new", item |-> NoItem]
        BY <3>1 DEF ThreadHolds, Working
    <3>2. CASE UNCHANGED <<thread, waitEvent, waitItems, nItems>>
        BY <1>1, <3>2 DEF ThreadHolds, Working, Waited
    <3>. QED BY <1>8, <3>1, <3>2
  <2>. QED BY <2>1, <2>2
<1>12. ASSUME NEW j \in Items PROVE ItemInv(j)'
  <2>1. ItemInv(j)
      BY DEF WaitInv
  <2>2. thread'.item \in {thread.item, NoItem}
        /\ (thread' = thread \/ thread'.at = "new")
      BY <1>8
  <2>3. Registering(j)'
      BY <1>2, <1>3, <1>4, <1>6, <1>7, <2>1 DEF ItemInv, Registering
  <2>4. Unadded(j)'
      BY <1>2, <1>3, <1>4, <1>7, <2>1, <2>2 DEF ItemInv, Unadded, itemVars
  <2>5. Unregistering(j)' /\ GoneFromList(j)'
      BY <1>3, <1>4, <1>6, <1>7, <2>1
         DEF ItemInv, Unregistering, GoneFromList, Registered, itemVars
  <2>6. RemovedOnce(j)' /\ CallsEnd(j)'
      BY <1>3, <1>4, <1>6, <2>1, <2>2
         DEF ItemInv, RemovedOnce, CallsEnd, Removing, Once, Alive, Counted, itemVars
  <2>. QED BY <2>3, <2>4, <2>5, <2>6 DEF ItemInv
<1>. QED BY <1>6, <1>9, <1>10, <1>11, <1>12 DEF WaitInv

\* An item without a place can be destroyed as its registration fails.
LEMMA RegisterEndKeeps ==
  ASSUME WaitInv, NEW i \in Items, RegisterNowhere(i) \/ RegisterReturns(i)
  PROVE  WaitInv'
<1>1. TypeOK /\ CallsCounted /\ ItemInv(i) /\ NoItem \notin Items
    BY ItemsAssumption DEF WaitInv
<1>2. /\ UNCHANGED <<state, pending, cbEvent, completion, listVars, waitEvent, apcs,
                     thread, call>>
      /\ cs' = cs \/ (cs = i /\ cs' = NoItem)
      /\ \/ /\ user[i].at = "out" /\ user' = [user EXCEPT ![i].at = "refused"]
            /\ freed' = freed \cup {i}
         \/ /\ user[i].at = "added" /\ user' = [user EXCEPT ![i].at = "held"]
            /\ freed' = freed
         \/ user[i].at = "refused" /\ user' = user /\ freed' = freed \cup {i}
    BY DEF RegisterNowhere, RegisterReturns, UserTo
<1>3. /\ user'[i].at \in {"refused", "held"} /\ user'[i].mode = user[i].mode
      /\ user'[i].at = "refused" <=> user[i].at # "added"
      /\ \A j \in Items \ {i} : /\ user'[j] = user[j]
                                /\ j \in freed' <=> j \in freed
    BY <1>1, <1>2 DEF TypeOK
<1>4. TypeOK'
  <2>1. user' \in Users
      BY <1>1, <1>2, UserMoves DEF TypeOK, Users
  <2>2. freed' \subseteq Items /\ cs' \in Items \cup {NoItem}
      BY <1>1, <1>2 DEF TypeOK
  <2>. QED BY <1>1, <1>2, <2>1, <2>2 DEF TypeOK, Users, listVars
<1>5. CallsCounted' /\ ListHolds' /\ ThreadHolds' /\ QueuedOnce'
  <2>1. CallsCounted'
      BY <1>1, <1>2 DEF CallsCounted, Counted
  <2>. QED BY <1>2, <2>1, ListStays
<1>6. ItemInv(i)'
  <2>1. Registering(i)' /\ Unadded(i)' /\ Unregistering(i)'
      BY <1>1, <1>2, <1>3
         DEF ItemInv, Registering, Unadded, Unregistering, Registered, Waited,
             Places, AddQueued, RemoveQueued, Queued, listVars
  <2>2. user[i].at # "added" => i \notin Waited /\ thread.item # i /\ ~RemoveQueued(i)
      BY <1>1, <1>2, WaitedHasPlace DEF ItemInv, Unadded, Unregistering, Registered
  <2>3. GoneFromList(i)' /\ RemovedOnce(i)'
      BY <1>1, <1>2, <1>3, <2>2
         DEF ItemInv, GoneFromList, RemovedOnce, Removing, Once, Alive, RemoveQueued,
             Queued, Waited, listVars
  <2>4. CallsEnd(i)'
      BY <1>1, <1>2, <1>3 DEF ItemInv, CallsEnd, Counted
  <2>. QED BY <2>1, <2>3, <2>4 DEF ItemInv
<1>7. ASSUME NEW j \in Items, j # i PROVE ItemInv(j)'
  <2>1. ItemInv(j)
      BY DEF WaitInv
  <2>2. Registering(j)' /\ Unadded(j)' /\ Unregistering(j)' /\ GoneFromList(j)'
      BY <1>2, <1>3, <1>7, <2>1
         DEF ItemInv, Registering, Unadded, Unregistering, GoneFromList, Waited,
             Places, AddQueued, RemoveQueued, Queued, listVars
  <2>3. RemovedOnce(j)' /\ CallsEnd(j)'
      BY <1>2, <1>3, <1>7, <2>1
         DEF ItemInv, RemovedOnce, CallsEnd, Removing, Once, Alive, Counted,
             RemoveQueued, Queued, listVars
  <2>. QED BY <2>2, <2>3 DEF ItemInv
<1>. QED BY <1>4, <1>5, <1>6, <1>7 DEF WaitInv

\* What was ACTIVE is UNREGISTERED, and an APC will remove it.
LEMMA UnregisterKeeps ==
  ASSUME WaitInv, NEW i \in Items, NEW mode \in Modes, Unregister(i, mode)
  PROVE  WaitInv'
<1> DEFINE a == [proc |-> "Remove", item |-> i]
<1>1. TypeOK /\ CallsCounted /\ ListHolds /\ ThreadHolds /\ QueuedOnce /\ ItemInv(i)
    BY DEF WaitInv
<1>2. apcs \in Seq(Apcs) /\ a \in Apcs
    BY <1>1 DEF TypeOK, Apcs
<1>3. /\ user[i].at = "held" /\ i \notin freed
      /\ UNCHANGED <<pending, cbEvent, completion, freed, listVars, waitEvent, thread,
                     call, cs>>
      /\ \/ /\ state[i] = "ACTIVE" /\ state' = [state EXCEPT ![i] = "UNREGISTERED"]
            /\ apcs' = Append(apcs, a)
            /\ user' = [user EXCEPT ![i] = [at |-> "wait", mode |-> mode]]
         \/ /\ state[i] # "ACTIVE" /\ state' = state /\ apcs' = apcs
            /\ user' = [user EXCEPT ![i] = [at |-> "abandoned", mode |-> mode]]
    BY DEF Unregister, Exchange, Alive
<1>4. /\ state[i] = "ACTIVE" => state'[i] = "UNREGISTERED" /\ user'[i].at = "wait"
      /\ state[i] # "ACTIVE" => state'[i] = state[i] /\ user'[i].at = "abandoned"
      /\ user'[i].at \in {"wait", "abandoned"}
      /\ \A j \in Items \ {i} : user'[j] = user[j] /\ state'[j] = state[j]
    BY <1>1, <1>3 DEF TypeOK
<1>5. ~Queued(a)
    BY <1>1, <1>3 DEF ItemInv, Unregistering, RemoveQueued, Registered
<1>6. /\ apcs' \in Seq(Apcs) /\ QueuedOnce'
      /\ \A j \in Items :
           /\ AddQueued(j)' => AddQueued(j)
           /\ RemoveQueued(j)' => RemoveQueued(j) \/ (j = i /\ state[i] = "ACTIVE")
  <2>1. CASE state[i] = "ACTIVE" /\ apcs' = Append(apcs, a)
    <3>1. \A b : Queued(b)' <=> Queued(b) \/ b = a
        BY <1>1, <1>2, <1>5, <2>1, Enqueue
    <3>2. apcs' \in Seq(Apcs) /\ QueuedOnce'
        BY <1>1, <1>2, <1>5, <2>1, Enqueue
    <3>3. ASSUME NEW j \in Items
          PROVE  /\ AddQueued(j)' => AddQueued(j)
                 /\ RemoveQueued(j)' => RemoveQueued(j) \/ j = i
        BY <3>1 DEF AddQueued, RemoveQueued
    <3>. QED BY <2>1, <3>2, <3>3
  <2>2. CASE apcs' = apcs
      BY <1>1, <1>2, <2>2 DEF QueuedOnce, AddQueued, RemoveQueued, Queued
  <2>. QED BY <1>3, <2>1, <2>2
<1>7. TypeOK'
  <2>1. state' \in [Items -> States]
    <3>1. state' = state \/ state' = [state EXCEPT ![i] = "UNREGISTERED"]
        BY <1>3
    <3>2. "UNREGISTERED" \in States
        BY DEF States
    <3>. QED BY <1>1, <3>1, <3>2 DEF TypeOK
  <2>2. user' \in Users
      BY <1>1, <1>3, UserMoves DEF TypeOK, Users
  <2>3. apcs' \in Seq([proc : {"Add", "Remove"}, item : Items])
      BY <1>6 DEF Apcs
  <2>. QED BY <1>1, <1>3, <2>1, <2>2, <2>3 DEF TypeOK, Users, listVars
<1>8. CallsCounted'
    BY <1>1, <1>3 DEF CallsCounted, Counted
<1>9. ListHolds' /\ ThreadHolds'
    BY <1>1, <1>3 DEF ListHolds, ThreadHolds, Working, Waited, listVars
<1>10. ItemInv(i)'
  <2>1. Registering(i)' /\ Unadded(i)' /\ Unregistering(i)'
      BY <1>1, <1>3, <1>4, <1>6
         DEF ItemInv, Registering, Unadded, Unregistering, Registered
  <2>2. GoneFromList(i)' /\ CallsEnd(i)'
      BY <1>1, <1>3, <1>4
         DEF ItemInv, GoneFromList, CallsEnd, Waited, listVars
  <2>3. RemovedOnce(i)'
      BY <1>1, <1>3, <1>4, <1>6
         DEF ItemInv, RemovedOnce, Removing, Once, Alive, listVars
  <2>. QED BY <2>1, <2>2, <2>3 DEF ItemInv
<1>11. ASSUME NEW j \in Items, j # i PROVE ItemInv(j)'
  <2>1. ItemInv(j)
      BY DEF WaitInv
  <2>2. Registering(j)' /\ Unadded(j)' /\ Unregistering(j)' /\ GoneFromList(j)'
      BY <1>3, <1>4, <1>6, <1>11, <2>1
         DEF ItemInv, Registering, Unadded, Unregistering, GoneFromList, Waited,
             Places, listVars
  <2>3. RemovedOnce(j)' /\ CallsEnd(j)'
      BY <1>3, <1>4, <1>6, <1>11, <2>1
         DEF ItemInv, RemovedOnce, CallsEnd, Removing, Once, Alive, Counted, listVars
  <2>. QED BY <2>2, <2>3 DEF ItemInv
<1>. QED BY <1>6, <1>7, <1>8, <1>9, <1>10, <1>11 DEF WaitInv

LEMMA InitInv == Init => WaitInv
<1> SUFFICES ASSUME Init PROVE WaitInv
    OBVIOUS
<1>1. TypeOK
  <2>1. apcs \in Seq([proc : {"Add", "Remove"}, item : Items])
      BY DEF Init
  <2>2. state \in [Items -> States] /\ user \in Users /\ pending \in [Items -> Nat]
      BY DEF Init, States, Users, Modes
  <2>. QED BY <2>1, <2>2, ItemsAssumption DEF Init, TypeOK, Users
<1>2. \A i : Counted(i) = {}
    BY DEF Init, Counted
<1>3. CallsCounted
    BY <1>2, FS_EmptySet DEF Init, CallsCounted
<1>4. ListHolds /\ ThreadHolds
    BY DEF Init, ListHolds, ThreadHolds, Working
<1>5. QueuedOnce /\ \A a : ~Queued(a)
    BY EmptyQueue DEF Init
<1>6. ASSUME NEW i \in Items PROVE ItemInv(i)
  <2>1. ~AddQueued(i) /\ ~RemoveQueued(i)
      BY <1>5 DEF AddQueued, RemoveQueued
  <2>2. Waited = {} /\ i \notin Places
      BY ItemsAssumption DEF Init, Waited, Places
  <2>3. Registering(i) /\ Unadded(i) /\ Unregistering(i) /\ GoneFromList(i)
      BY <2>1, <2>2, ItemsAssumption
         DEF Init, Registering, Unadded, Unregistering, GoneFromList, Registered
  <2>4. RemovedOnce(i) /\ CallsEnd(i)
      BY <2>1 DEF Init, RemovedOnce, CallsEnd, Removing
  <2>. QED BY <2>3, <2>4 DEF ItemInv
<1>. QED BY <1>1, <1>3, <1>4, <1>5, <1>6 DEF WaitInv

LEMMA NextInv == WaitInv /\ [Next]_vars => WaitInv'
<1> SUFFICES ASSUME WaitInv, [Next]_vars PROVE WaitInv'
    OBVIOUS
<1>1. CASE ThreadStep \/ Fire
    BY <1>1, ThreadMovesKeep, DispatchKeeps, AfterKeeps, MarkKeeps, ApcKeeps
       DEF ThreadStep
<1>2. ASSUME NEW c \in Calls, CallStep(c) PROVE WaitInv'
    BY <1>2, CallMovesKeep
<1>3. ASSUME NEW i \in Items, UserStep(i) PROVE WaitInv'
    BY <1>3, RegisterKeeps, RegisterEndKeeps, UnregisterKeeps, UnregisterMovesKeep
       DEF UserStep
<1>4. CASE UNCHANGED vars
  <2>1. UNCHANGED <<itemVars, listVars, waitEvent, apcs, thread, call, user, cs>>
      BY <1>4 DEF vars
  <2>2. TypeOK /\ CallsCounted
      BY DEF WaitInv
  <2>3. TypeOK' /\ CallsCounted'
      BY <2>1, <2>2 DEF TypeOK, CallsCounted, Counted, itemVars, listVars
  <2>4. ListHolds' /\ ThreadHolds' /\ QueuedOnce'
      BY <2>1, ListStays
  <2>5. ASSUME NEW i \in Items PROVE ItemInv(i)'
    <3>1. ItemInv(i) /\ state' = state /\ freed' = freed /\ user' = user
        BY <2>1 DEF WaitInv, itemVars
    <3>2. CallsEnd(i)'
        BY <2>1, <3>1 DEF ItemInv, CallsEnd, Counted
    <3>. QED BY <2>1, <3>1, <3>2, ItemMoves
  <2>. QED BY <2>3, <2>4, <2>5 DEF WaitInv
<1>. QED BY <1>1, <1>2, <1>3, <1>4 DEF Next

LEMMA InvariantHolds == Spec => []WaitInv
  BY InitInv, NextInv, PTL DEF Spec

-----------------------------------------------------------------------------
(* The variables keep their types: CallbacksPending, above all, is never    *)
(* decremented below zero, and the list never holds more than its array.    *)
THEOREM WaitsTypeCorrect == Spec => []TypeOK
<1>1. WaitInv => TypeOK
    BY DEF WaitInv
<1>. QED BY <1>1, InvariantHolds, PTL

(* "wait for callbacks to finish": no asynchronous callback of an item runs *)
(* after a blocking UnregisterWaitEx has returned, for any number of items  *)
(* and of calls at a time.                                                  *)
THEOREM CallbacksEnd == Spec => []CallbacksEndFirst
<1>1. WaitInv => CallbacksEndFirst
  <2>1. ASSUME WaitInv, NEW i \in Items, NEW c \in Calls,
               user[i] = [at |-> "done", mode |-> "block"],
               call[c] = [at |-> "running", item |-> i]
        PROVE  FALSE
    <3>1. Counted(i) = {}
        BY <2>1 DEF WaitInv, ItemInv, CallsEnd
    <3>2. c \in Counted(i)
        BY <2>1 DEF Counted
    <3>. QED BY <3>1, <3>2
  <2>. QED BY <2>1 DEF CallbacksEndFirst, Running
<1>. QED BY <1>1, InvariantHolds, PTL

(* The wait thread waits for items that live, and works with such or, when  *)
(* they are called back once, with ones that were removed before.           *)
THEOREM ThreadItemsLive == Spec => []ThreadUsesLiveItems
<1>1. ASSUME WaitInv PROVE ThreadUsesLiveItems
  <2>1. TypeOK /\ ListHolds /\ ThreadHolds /\ \A i \in Items : ItemInv(i)
      BY <1>1 DEF WaitInv
  <2>2. Waited \subseteq Items /\ freed \subseteq Items
      BY <2>1 DEF TypeOK, ListHolds, Waited
  <2>3. Waited \cap freed = {}
      BY <2>1, <2>2 DEF ItemInv, GoneFromList
  <2>4. thread.item \in freed => Once(thread.item)
    <3>1. CASE thread.at \in Working
        BY <2>1, <2>3, <3>1 DEF ThreadHolds
    <3>2. CASE thread.at = "mark"
        BY <2>1, <3>2 DEF ThreadHolds, ItemInv, RemovedOnce, Removing, Alive
    <3>3. CASE thread.at \notin Working \cup {"mark"}
        BY <2>1, <2>2, <3>3, ItemsAssumption DEF ThreadHolds
    <3>. QED BY <3>1, <3>2, <3>3
  <2>5. ASSUME NEW k \in 1..Len(apcs), apcs[k].item \in freed
        PROVE  Once(apcs[k].item)
    <3>1. apcs[k] \in Apcs
      <4>1. apcs \in Seq(Apcs)
          BY <2>1 DEF TypeOK, Apcs
      <4>. QED BY <4>1
    <3>2. PICK i \in Items : i = apcs[k].item
        BY <3>1 DEF Apcs
    <3>3. \/ apcs[k] = [proc |-> "Add", item |-> i]
          \/ apcs[k] = [proc |-> "Remove", item |-> i]
        BY <3>1, <3>2 DEF Apcs
    <3>4. AddQueued(i) \/ RemoveQueued(i)
        BY <3>3 DEF AddQueued, RemoveQueued, Queued
    <3>5. ~AddQueued(i)
        BY <2>1, <2>5, <3>2 DEF ItemInv, Registering, Unadded
    <3>. QED BY <2>1, <2>5, <3>2, <3>4, <3>5 DEF ItemInv, RemovedOnce, Alive
  <2>. QED BY <2>3, <2>4, <2>5 DEF ThreadUsesLiveItems
<1>. QED BY <1>1, InvariantHolds, PTL

=============================================================================

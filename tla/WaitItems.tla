------------------------------ MODULE WaitItems ------------------------------
(***************************************************************************)
(* Registered waits: src/apilibs/kexbasen/kernel32/ThreadPool.c, 77-468.   *)
(*                                                                         *)
(* A program registers work items with a wait thread, by an APC, and       *)
(* unregisters them, by another.  When an object is signalled the wait     *)
(* thread calls back itself or has a pool thread do it.  The item is       *)
(* destroyed by whoever is done with it last: the program's unregister     *)
(* call, the wait thread or an asynchronous call.  They settle that with   *)
(* compare-and-exchanges on the item's state.                              *)
(*                                                                         *)
(* There is one wait thread (MAX_WAIT_THREADS = 1) and one program thread  *)
(* per item.  Who finds an item destroyed that it still works with stops   *)
(* there.                                                                  *)
(***************************************************************************)
EXTENDS Integers, Sequences, FiniteSets

CONSTANTS
  Items,          \* work items, each registered at most once
  Handles,        \* of the objects waited for
  MAX_WAIT_ITEMS, \* 32 in the code
  Calls,          \* asynchronous calls that there is memory for
  NoItem

ASSUME ItemsAssumption ==
  /\ NoItem \notin Items
  /\ MAX_WAIT_ITEMS \in Nat \ {0}
  /\ IsFiniteSet(Calls)

VARIABLES
  state,      \* workItem->State
  pending,    \* workItem->CallbacksPending
  cbEvent,    \* workItem->CallbackEvent is signalled
  completion, \* workItem->CompletionEvent is the program's event
  freed,      \* items destroyed
  waitItems,  \* threadinfo->waitItems
  nItems,     \* threadinfo->nItems
  object,     \* workItem->Object, as it will be once the item is registered
  options,    \* once (or a timeout of zero), and in the wait thread, likewise
  waitEvent,  \* threadinfo->WaitEvent is signalled
  apcs,       \* the wait thread's queue of APCs
  thread,     \* where the wait thread is, and with which item
  call,       \* where each asynchronous call is, and with which item
  user,       \* where the program is with each item, and how it unregisters it
  cs          \* the item whose registration holds wait_cs

itemVars == <<state, pending, cbEvent, completion, freed>>
listVars == <<waitItems, nItems, object, options>>
vars == <<itemVars, listVars, waitEvent, apcs, thread, call, user, cs>>

States ==
  {"ACTIVE", "UNREGISTERED", "REMOVED", "DELETESYNC", "GAMEOVER", "ABANDONED"}
Options == {"once", "sync"}  \* WT_EXECUTEONLYONCE, WT_EXECUTEINWAITTHREAD
Modes == {"leave", "event", "block"}  \* CompletionEvent: NULL, an event, -1

TypeOK ==
  /\ state \in [Items -> States]
  /\ pending \in [Items -> Nat]
  /\ cbEvent \in [Items -> BOOLEAN] /\ completion \in [Items -> BOOLEAN]
  /\ freed \subseteq Items
  /\ waitItems \in [1..MAX_WAIT_ITEMS -> Items \cup {NoItem}]
  /\ nItems \in Int /\ nItems <= MAX_WAIT_ITEMS
  /\ object \in [Items -> Handles]
  /\ options \in [Items -> SUBSET Options]
  /\ waitEvent \in BOOLEAN
  /\ apcs \in Seq([proc : {"Add", "Remove"}, item : Items])
  /\ thread \in [at : {"none", "new", "top", "idle", "waiting", "fired",
                       "check", "dispatch", "callback", "after", "mark",
                       "leaving"},
                 item : Items \cup {NoItem}]
  /\ call \in [Calls -> [at : {"none", "queued", "running", "ran", "notify",
                               "notifylast", "last", "mark"},
                         item : Items \cup {NoItem}]]
  /\ user \in [Items -> [at : {"out", "adding", "added", "refused", "held",
                               "wait", "abandoned", "read", "event", "block",
                               "finish", "mark", "done"},
                         mode : Modes]]
  /\ cs \in Items \cup {NoItem}

Once(i) == "once" \in options[i]
Sync(i) == "sync" \in options[i]
Alive(i) == i \notin freed

ThreadTo(at, i) == thread' = [at |-> at, item |-> i]
CallTo(c, at) == call' = [call EXCEPT ![c].at = at]
UserTo(i, at) == user' = [user EXCEPT ![i].at = at]

\* InterlockedCompareExchange(&workItem->State, new, old)
Exchange(i, new, old) ==
  state' = IF state[i] = old THEN [state EXCEPT ![i] = new] ELSE state

\* The item is destroyed and, unless UnregisterWaitEx does it, CompletionEvent
\* signalled if there is one.
Destroy(i) ==
  /\ state' = [state EXCEPT ![i] = "GAMEOVER"]
  /\ freed' = freed \cup {i}

-----------------------------------------------------------------------------
(* RegisterWaitItem, with what RegisterWaitForSingleObject does around it *)

\* The thread is created if there is none; an APC is queued that adds the item,
\* and wait_cs is kept until it has.
Register(i) ==
  /\ user[i].at = "out" /\ cs = NoItem
  /\ thread.at # "callback"
  /\ thread.at = "none" \/ nItems # MAX_WAIT_ITEMS
  /\ cs' = i
  /\ apcs' = Append(apcs, [proc |-> "Add", item |-> i])
  /\ UserTo(i, "adding")
  /\ IF thread.at = "none"
       THEN /\ ThreadTo("new", NoItem)
            /\ waitItems' = [k \in 1..MAX_WAIT_ITEMS |-> NoItem]
            /\ nItems' = 0
            /\ waitEvent' = TRUE
       ELSE UNCHANGED <<thread, listVars, waitEvent>>
  /\ UNCHANGED <<itemVars, object, options, call>>

\* The thread is full or in a synchronous callback, and there is no other.
RegisterNowhere(i) ==
  /\ user[i].at = "out" /\ cs = NoItem
  /\ thread.at # "none"
  /\ thread.at = "callback" \/ nItems = MAX_WAIT_ITEMS
  /\ freed' = freed \cup {i}
  /\ UserTo(i, "refused")
  /\ UNCHANGED <<state, pending, cbEvent, completion, listVars,
                 waitEvent, apcs, thread, call, cs>>

\* The item was added, or its handle was there already.
RegisterReturns(i) ==
  /\ cs = i
  /\ \/ user[i].at = "added" /\ UserTo(i, "held") /\ UNCHANGED freed
     \/ user[i].at = "refused" /\ freed' = freed \cup {i} /\ UNCHANGED user
  /\ cs' = NoItem
  /\ UNCHANGED <<state, pending, cbEvent, completion, listVars,
                 waitEvent, apcs, thread, call>>

-----------------------------------------------------------------------------
(* The wait thread: WaitThreadProc *)

\* Mutation: WaitEvent is set before synchronous callbacks only.
TopQuietly ==
  /\ thread.at = "top" /\ nItems >= 0
  /\ ThreadTo(IF nItems = 0 THEN "idle" ELSE "waiting", NoItem)
  /\ UNCHANGED <<itemVars, listVars, waitEvent, apcs, call, user, cs>>

\* SetEvent(WaitEvent); then a wait for the items, or for three seconds.  With
\* fewer than no items the array of handles has a negative size: no step.
Top ==
  /\ thread.at = "top" /\ nItems >= 0
  /\ waitEvent' = TRUE
  /\ ThreadTo(IF nItems = 0 THEN "idle" ELSE "waiting", NoItem)
  /\ UNCHANGED <<itemVars, listVars, apcs, call, user, cs>>

\* The object of an item or its timer is signalled.
Fire ==
  /\ thread.at = "waiting"
  /\ \E k \in 1..nItems : ThreadTo("fired", waitItems[k])
  /\ UNCHANGED <<itemVars, listVars, waitEvent, apcs, call, user, cs>>

\* ResetEvent(WaitEvent).
Reset ==
  /\ thread.at = "fired"
  /\ waitEvent' = FALSE
  /\ ThreadTo("check", thread.item)
  /\ UNCHANGED <<itemVars, listVars, apcs, call, user, cs>>

\* Items that are unregistered do not run.  Before a synchronous callback
\* WaitEvent is set.
Check ==
  LET i == thread.item IN
  /\ thread.at = "check" /\ Alive(i)
  /\ \/ /\ state[i] # "ACTIVE"
        /\ ThreadTo("top", NoItem)
        /\ UNCHANGED waitEvent
     \/ /\ state[i] = "ACTIVE" /\ ~Sync(i)
        /\ ThreadTo("dispatch", i)
        /\ UNCHANGED waitEvent
     \/ /\ state[i] = "ACTIVE" /\ Sync(i)
        /\ ThreadTo("callback", i)
        /\ waitEvent' = TRUE
  /\ UNCHANGED <<itemVars, listVars, apcs, call, user, cs>>

CallbackEnds ==
  /\ thread.at = "callback"
  /\ ThreadTo("after", thread.item)
  /\ UNCHANGED <<itemVars, listVars, waitEvent, apcs, call, user, cs>>

\* Mutation: the call is not counted.
DispatchUncounted ==
  LET i == thread.item IN
  /\ thread.at = "dispatch" /\ Alive(i)
  /\ \E c \in Calls :
       /\ call[c].at = "none"
       /\ call' = [call EXCEPT ![c] = [at |-> "queued", item |-> i]]
  /\ ThreadTo("after", i)
  /\ UNCHANGED <<itemVars, listVars, waitEvent, apcs, user, cs>>

\* The callback is queued to the pool and counted, if there is memory.
Dispatch ==
  LET i == thread.item IN
  /\ thread.at = "dispatch" /\ Alive(i)
  /\ \/ \E c \in Calls :
          /\ call[c].at = "none"
          /\ call' = [call EXCEPT ![c] = [at |-> "queued", item |-> i]]
          /\ pending' = [pending EXCEPT ![i] = @ + 1]
     \/ /\ \A c \in Calls : call[c].at # "none"
        /\ UNCHANGED <<call, pending>>
  /\ ThreadTo("after", i)
  /\ UNCHANGED <<state, cbEvent, completion, freed, listVars,
                 waitEvent, apcs, user, cs>>

\* RemoveWaitItem up to its first exchange.  All of the array is searched.
\* Items move down, and the last place is cleared only if one moved.
Remove(i) ==
  /\ Alive(i)
  /\ IF \E k \in 1..MAX_WAIT_ITEMS : waitItems[k] = i
       THEN LET k == CHOOSE k \in 1..MAX_WAIT_ITEMS :
                       /\ waitItems[k] = i
                       /\ \A m \in 1..k-1 : waitItems[m] # i
            IN  /\ nItems' = nItems - 1
                /\ waitItems' = [m \in 1..MAX_WAIT_ITEMS |->
                     CASE m \in k..nItems-1 -> waitItems[m + 1]
                       [] m = nItems /\ k < nItems -> NoItem
                       [] OTHER -> waitItems[m]]
       ELSE UNCHANGED <<waitItems, nItems>>
  /\ IF state[i] = "DELETESYNC"
       THEN Destroy(i) /\ ThreadTo("top", NoItem)
       ELSE ThreadTo("mark", i) /\ UNCHANGED <<state, freed>>
  /\ UNCHANGED <<pending, cbEvent, completion, object, options>>

\* RemoveWaitItem: ACTIVE to ABANDONED, UNREGISTERED to REMOVED.
Mark ==
  LET i == thread.item IN
  /\ thread.at = "mark" /\ Alive(i)
  /\ state' = [state EXCEPT ![i] = CASE @ = "ACTIVE" -> "ABANDONED"
                                     [] @ = "UNREGISTERED" -> "REMOVED"
                                     [] OTHER -> @]
  /\ ThreadTo("top", NoItem)
  /\ UNCHANGED <<pending, cbEvent, completion, freed, listVars,
                 waitEvent, apcs, call, user, cs>>

\* After a callback or its dispatch.
After ==
  LET i == thread.item IN
  /\ thread.at = "after" /\ Alive(i)
  /\ \/ Once(i) /\ Remove(i)
     \/ ~Once(i) /\ ThreadTo("top", NoItem) /\ UNCHANGED <<itemVars, listVars>>
  /\ UNCHANGED <<waitEvent, apcs, call, user, cs>>

Waited == {waitItems[k] : k \in 1..nItems}

\* AddWaitItem: a handle is waited for once.
Add(i) ==
  /\ IF \E j \in Waited : object[j] = object[i]
       THEN UserTo(i, "refused") /\ UNCHANGED <<waitItems, nItems>>
       ELSE /\ waitItems' = [waitItems EXCEPT ![nItems + 1] = i]
            /\ nItems' = nItems + 1
            /\ UserTo(i, "added")
  /\ ThreadTo("top", NoItem)
  /\ UNCHANGED <<itemVars, object, options>>

\* An alertable wait runs an APC.
Apc ==
  /\ thread.at \in {"new", "idle", "waiting"} /\ apcs # <<>>
  /\ apcs' = Tail(apcs)
  /\ LET a == Head(apcs) IN
       \/ a.proc = "Add" /\ Add(a.item)
       \/ a.proc = "Remove" /\ Remove(a.item) /\ UNCHANGED user
  /\ UNCHANGED <<waitEvent, call, cs>>

\* Three seconds went by without an APC.
IdleEnds ==
  /\ thread.at = "idle" /\ apcs = <<>>
  /\ ThreadTo("leaving", NoItem)
  /\ UNCHANGED <<itemVars, listVars, waitEvent, apcs, call, user, cs>>

\* TerminateWaitThread, of a thread without items: it has to enter wait_cs.
Leave ==
  /\ thread.at = "leaving" /\ cs = NoItem
  /\ apcs = <<>>
  /\ ThreadTo("none", NoItem)
  /\ UNCHANGED <<itemVars, listVars, waitEvent, apcs, call, user, cs>>

-----------------------------------------------------------------------------
(* Asynchronous calls: AsyncWaiterCall *)

Start(c) ==
  LET i == call[c].item IN
  /\ call[c].at = "queued" /\ Alive(i)
  /\ CallTo(c, IF state[i] \in {"ACTIVE", "ABANDONED"} THEN "running" ELSE "ran")
  /\ UNCHANGED <<itemVars, listVars, waitEvent, apcs, thread, user, cs>>

Return(c) ==
  /\ call[c].at = "running"
  /\ CallTo(c, "ran")
  /\ UNCHANGED <<itemVars, listVars, waitEvent, apcs, thread, user, cs>>

\* CallbacksPending is decremented, and remembered if it was the last.
Decrement(c) ==
  LET i == call[c].item IN
  /\ call[c].at = "ran" /\ Alive(i)
  /\ pending' = [pending EXCEPT ![i] = @ - 1]
  /\ CallTo(c, IF pending[i] = 1 THEN "notifylast" ELSE "notify")
  /\ UNCHANGED <<state, cbEvent, completion, freed, listVars,
                 waitEvent, apcs, thread, user, cs>>

EndCall(c) == call' = [call EXCEPT ![c] = [at |-> "none", item |-> NoItem]]

\* SetEvent(CallbackEvent).
Notify(c) ==
  LET i == call[c].item IN
  /\ call[c].at \in {"notify", "notifylast"} /\ Alive(i)
  /\ cbEvent' = [cbEvent EXCEPT ![i] = TRUE]
  /\ IF call[c].at = "notifylast" THEN CallTo(c, "last") ELSE EndCall(c)
  /\ UNCHANGED <<state, pending, completion, freed, listVars,
                 waitEvent, apcs, thread, user, cs>>

\* The last call destroys an item that is removed.
Last(c) ==
  LET i == call[c].item IN
  /\ call[c].at = "last" /\ Alive(i)
  /\ \/ state[i] = "REMOVED" /\ Destroy(i) /\ EndCall(c)
     \/ /\ state[i] = "ACTIVE" /\ EndCall(c)
        /\ UNCHANGED <<state, freed>>
     \/ /\ state[i] \notin {"ACTIVE", "REMOVED"} /\ CallTo(c, "mark")
        /\ UNCHANGED <<state, freed>>
  /\ UNCHANGED <<pending, cbEvent, completion, listVars, waitEvent, apcs,
                 thread, user, cs>>

\* One that is not is to be destroyed with its removal.
MarkForRemoval(c) ==
  LET i == call[c].item IN
  /\ call[c].at = "mark" /\ Alive(i)
  /\ Exchange(i, "DELETESYNC", "UNREGISTERED")
  /\ EndCall(c)
  /\ UNCHANGED <<pending, cbEvent, completion, freed, listVars,
                 waitEvent, apcs, thread, user, cs>>

-----------------------------------------------------------------------------
(* UnregisterWaitEx *)

\* An item that is ACTIVE becomes UNREGISTERED and an APC is queued that removes
\* it.  The thread has not left: it stays for three seconds without items.
Unregister(i, mode) ==
  /\ user[i].at = "held" /\ Alive(i)
  /\ Exchange(i, "UNREGISTERED", "ACTIVE")
  /\ IF state[i] = "ACTIVE"
       THEN /\ thread.at # "none"
            /\ apcs' = Append(apcs, [proc |-> "Remove", item |-> i])
            /\ user' = [user EXCEPT ![i] = [at |-> "wait", mode |-> mode]]
       ELSE /\ user' = [user EXCEPT ![i] = [at |-> "abandoned", mode |-> mode]]
            /\ UNCHANGED apcs
  /\ UNCHANGED <<pending, cbEvent, completion, freed, listVars,
                 waitEvent, thread, call, cs>>

\* WaitForSingleObject(WaitEvent).  Its ten seconds do not go by: while the
\* event is reset the thread calls nobody back.
PassWaitEvent(i) ==
  /\ user[i].at = "wait" /\ waitEvent
  /\ UserTo(i, "read")
  /\ UNCHANGED <<itemVars, listVars, waitEvent, apcs, thread, call, cs>>

\* ABANDONED to REMOVED.
AbandonedToRemoved(i) ==
  /\ user[i].at = "abandoned" /\ Alive(i)
  /\ Exchange(i, "REMOVED", "ABANDONED")
  /\ UserTo(i, "read")
  /\ UNCHANGED <<pending, cbEvent, completion, freed, listVars,
                 waitEvent, apcs, thread, call, cs>>

\* Are callbacks pending?  Then what the caller asked for decides.
ReadPending(i) ==
  /\ user[i].at = "read" /\ Alive(i)
  /\ UserTo(i, IF pending[i] = 0 THEN "finish"
               ELSE CASE user[i].mode = "leave" -> "done"
                      [] user[i].mode = "event" -> "event"
                      [] user[i].mode = "block" -> "block")
  /\ UNCHANGED <<itemVars, listVars, waitEvent, apcs, thread, call, cs>>

\* InterlockedExchangePointer(CompletionEvent).
SetCompletion(i) ==
  /\ user[i].at = "event" /\ Alive(i)
  /\ completion' = [completion EXCEPT ![i] = TRUE]
  /\ UserTo(i, "done")
  /\ UNCHANGED <<state, pending, cbEvent, freed, listVars, waitEvent,
                 apcs, thread, call, cs>>

\* Mutation: one callback is waited for.
BlockOnce(i) ==
  /\ user[i].at = "block" /\ Alive(i)
  /\ cbEvent[i]
  /\ cbEvent' = [cbEvent EXCEPT ![i] = FALSE]
  /\ UserTo(i, "finish")
  /\ UNCHANGED <<state, pending, completion, freed, listVars,
                 waitEvent, apcs, thread, call, cs>>

\* A callback has ended; others may be pending.
Block(i) ==
  /\ user[i].at = "block" /\ Alive(i)
  /\ cbEvent[i]
  /\ cbEvent' = [cbEvent EXCEPT ![i] = FALSE]
  /\ UserTo(i, IF pending[i] = 0 THEN "finish" ELSE "block")
  /\ UNCHANGED <<state, pending, completion, freed, listVars,
                 waitEvent, apcs, thread, call, cs>>

\* Mutation: an item that is on its way out is destroyed.
FinishEarly(i) ==
  /\ user[i].at = "finish" /\ Alive(i)
  /\ IF state[i] \in {"REMOVED", "UNREGISTERED"}
       THEN Destroy(i) /\ UserTo(i, "done")
       ELSE UserTo(i, "mark") /\ UNCHANGED <<state, freed>>
  /\ UNCHANGED <<pending, cbEvent, completion, listVars, waitEvent, apcs,
                 thread, call, cs>>

\* No callbacks are pending: an item that is removed is destroyed.
Finish(i) ==
  /\ user[i].at = "finish" /\ Alive(i)
  /\ IF state[i] = "REMOVED"
       THEN Destroy(i) /\ UserTo(i, "done")
       ELSE UserTo(i, "mark") /\ UNCHANGED <<state, freed>>
  /\ UNCHANGED <<pending, cbEvent, completion, listVars, waitEvent,
                 apcs, thread, call, cs>>

\* One that is not is to be destroyed with its removal.
FinishLater(i) ==
  /\ user[i].at = "mark" /\ Alive(i)
  /\ Exchange(i, "DELETESYNC", "UNREGISTERED")
  /\ UserTo(i, "done")
  /\ UNCHANGED <<pending, cbEvent, completion, freed, listVars,
                 waitEvent, apcs, thread, call, cs>>

-----------------------------------------------------------------------------
\* init_threadpool.
Init ==
  /\ state = [i \in Items |-> "ACTIVE"]
  /\ pending = [i \in Items |-> 0]
  /\ cbEvent = [i \in Items |-> FALSE]
  /\ completion = [i \in Items |-> FALSE]
  /\ freed = {}
  /\ waitItems = [k \in 1..MAX_WAIT_ITEMS |-> NoItem] /\ nItems = 0
  /\ object \in [Items -> Handles]
  /\ options \in [Items -> SUBSET Options]
  /\ waitEvent = TRUE
  /\ apcs = <<>>
  /\ thread = [at |-> "none", item |-> NoItem]
  /\ call = [c \in Calls |-> [at |-> "none", item |-> NoItem]]
  /\ user = [i \in Items |-> [at |-> "out", mode |-> "leave"]]
  /\ cs = NoItem

ThreadStep ==
  \/ Top \/ Reset \/ Check \/ CallbackEnds \/ Dispatch \/ After \/ Mark
  \/ Apc \/ IdleEnds \/ Leave

CallStep(c) ==
  Start(c) \/ Return(c) \/ Decrement(c) \/ Notify(c) \/ Last(c) \/ MarkForRemoval(c)

UnregisterStep(i) ==
  \/ AbandonedToRemoved(i) \/ ReadPending(i) \/ SetCompletion(i) \/ Block(i)
  \/ Finish(i) \/ FinishLater(i)

UserStep(i) ==
  \/ Register(i) \/ RegisterNowhere(i) \/ RegisterReturns(i)
  \/ \E mode \in Modes : Unregister(i, mode)
  \/ PassWaitEvent(i)
  \/ UnregisterStep(i)

Next ==
  \/ ThreadStep \/ Fire
  \/ \E c \in Calls : CallStep(c)
  \/ \E i \in Items : UserStep(i)

Spec == Init /\ [][Next]_vars

\* Threads run when they can and asynchronous callbacks return.  The wait on
\* WaitEvent succeeds if it is set again and again.
Fairness ==
  /\ WF_vars(ThreadStep)
  /\ \A c \in Calls : WF_vars(CallStep(c))
  /\ \A i \in Items : WF_vars(UnregisterStep(i)) /\ SF_vars(PassWaitEvent(i))

FairSpec == Spec /\ Fairness

-----------------------------------------------------------------------------
(* Properties *)

Running(i) == \E c \in Calls : call[c] = [at |-> "running", item |-> i]

(* "wait for callbacks to finish" (line 425): no asynchronous callback of an *)
(* item runs after a blocking UnregisterWaitEx has returned.                 *)
CallbacksEndFirst ==
  \A i \in Items :
    user[i] = [at |-> "done", mode |-> "block"] => ~Running(i)

(* "there are still pending callbacks and item will be destroyed as soon as  *)
(* all callbacks end" (line 443): when it is, and the completion event set,  *)
(* they have ended.                                                          *)
DestroyedAfterCallbacks == \A i \in freed : ~Running(i)

(* UnregisterWaitEx returns, unless the item is destroyed under it.          *)
UnregisterReturns ==
  \A i \in Items : user[i].at = "wait" ~> user[i].at = "done" \/ i \in freed

(* "make sure thread is in wait state and isn't doing sth with item we       *)
(* delete" (line 413): what the wait thread waits for is not destroyed, nor  *)
(* what it works with or has yet to remove, unless it may remove it twice.   *)
ThreadUsesLiveItems ==
  /\ Waited \cap freed = {}
  /\ thread.item \in freed => Once(thread.item)
  /\ \A k \in 1..Len(apcs) : apcs[k].item \in freed => Once(apcs[k].item)

=============================================================================

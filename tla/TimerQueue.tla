------------------------------ MODULE TimerQueue ------------------------------
(***************************************************************************)
(* Timer queues: src/apilibs/kexbasen/kernel32/ThreadPool.c, 470-826.      *)
(*                                                                         *)
(* A queue has a thread, which waits for its timers and calls back itself  *)
(* or has a pool thread do it.  Timers are added, changed and removed by   *)
(* APCs of that thread.  A timer is deleted by the program, by its own     *)
(* callback, or with its queue by the queue's thread; all three run the    *)
(* same function, DeleteTimerQueueTimer, and the timer is destroyed by     *)
(* whoever is done with it last.                                           *)
(*                                                                         *)
(* There is one queue and one thread of the program that uses it; the      *)
(* handle of a timer is given up once, by it or by the timer's callback.   *)
(* Who finds a timer destroyed that it still works with stops there, and   *)
(* so does who finds the queue destroyed.                                  *)
(***************************************************************************)
EXTENDS Integers, Sequences, FiniteSets, SequencesExt

CONSTANTS
  Timers,     \* each created at most once
  MAX_TIMERS, \* 64 in the code
  Calls,      \* asynchronous calls at a time
  MaxChanges, \* bound on changes and cancellations
  Program, Queue, \* who deletes timers, beside calls
  Null

ASSUME TimersAssumption ==
  /\ Null \notin Timers \cup Calls
  /\ Program # Queue /\ {Program, Queue} \cap Calls = {}
  /\ MAX_TIMERS \in Nat \ {0} /\ MaxChanges \in Nat
  /\ IsFiniteSet(Calls)

VARIABLES
  options,    \* of each timer: once (or a period of zero), and in the timer thread
  state,      \* timer->State
  pending,    \* timer->CallbacksPending
  cbEvent,    \* timer->CallbackEvent is signalled
  armed,      \* TimerObject will be signalled
  freed,      \* timers destroyed
  handle,     \* of each timer: how its deletion was asked for, if it was
  timers,     \* timerqueue->timers, up to nItems
  waitEvent,  \* timerqueue->WaitEvent is signalled
  done,       \* timerqueue->CompletionEvent: "none", "reset", or it has been "set"
  apcs,       \* the thread's queue of APCs
  thread,     \* where the thread is, with which timer, and if inside its wait
  call,       \* where each asynchronous call is, and with which timer
  deletion,   \* where who deletes is, with which timer, and how
  program,    \* where the program is
  uncounted,  \* the call that was counted for a timer could not be queued
  changes

timerVars == <<state, pending, cbEvent, armed, freed, handle>>
queueVars == <<timers, waitEvent, done, apcs>>
others == <<options, program, uncounted, changes>>
vars == <<timerVars, queueVars, thread, call, deletion, others>>

States  == {"ACTIVE", "UNREGISTERED", "REMOVED", "DELETESYNC", "GAMEOVER"}
Options == {"once", "sync"}  \* WT_EXECUTEONLYONCE, WT_EXECUTEINTIMERTHREAD
Modes   == {"leave", "block"}  \* CompletionEvent: NULL or an event, -1
Handles == {"none", "held", "refused"} \cup Modes
Deleters == {Program, Queue} \cup Calls

TypeOK ==
  /\ options \in [Timers -> SUBSET Options]
  /\ state \in [Timers -> States]
  /\ pending \in [Timers -> Nat]
  /\ cbEvent \in [Timers -> BOOLEAN] /\ armed \in [Timers -> BOOLEAN]
  /\ freed \subseteq Timers /\ handle \in [Timers -> Handles]
  /\ timers \in Seq(Timers) /\ Len(timers) <= MAX_TIMERS /\ IsInjective(timers)
  /\ waitEvent \in BOOLEAN /\ done \in {"none", "reset", "set"}
  /\ apcs \in Seq([proc : {"Add", "Change", "Remove", "Finish", "Terminate"},
                   timer : Timers \cup {Null}])
  /\ thread \in [at : {"apc", "top", "idle", "waiting", "fired", "check", "dispatch",
                       "callback", "add", "mark", "finish", "delete", "gone"},
                 timer : Timers \cup {Null}, waits : BOOLEAN]
  /\ call \in [Calls -> [at : {"none", "queued", "running", "ran", "notify", "notifylast",
                               "last", "mark"},
                         timer : Timers \cup {Null}]]
  /\ deletion \in [Deleters -> [at : {"out", "queue", "wait", "read", "block", "finish", "mark"},
                                timer : Timers \cup {Null}, mode : Modes]]
  /\ program \in {"out", "adding", "read", "wait", "close", "over", "lost"}
  /\ uncounted \subseteq Timers
  /\ changes \in 0..MaxChanges

Once(t) == "once" \in options[t]
Sync(t) == "sync" \in options[t]
Alive(t) == t \notin freed

ThreadTo(at, t) == thread' = [thread EXCEPT !.at = at, !.timer = t]
CallTo(c, at) == call' = [call EXCEPT ![c].at = at]
QueueUserAPC(proc, t) == apcs' = Append(apcs, [proc |-> proc, timer |-> t])

\* InterlockedCompareExchange(&timer->State, new, old)
Exchange(t, new, old) ==
  state' = IF state[t] = old THEN [state EXCEPT ![t] = new] ELSE state

\* DestroyTimerItem, with the exchange that precedes it.
Destroy(t) ==
  /\ state' = [state EXCEPT ![t] = "GAMEOVER"]
  /\ freed' = freed \cup {t}

-----------------------------------------------------------------------------
(* The queue's thread *)

\* A wait for APCs or also for the timers.
Wait(event) ==
  /\ thread.at = "top"
  /\ waitEvent' = event
  /\ thread' = [at |-> IF timers = <<>> THEN "idle" ELSE "waiting", timer |-> Null,
                waits |-> timers # <<>>]
  /\ UNCHANGED <<timerVars, timers, done, apcs, call, deletion, others>>

\* Mutation: WaitEvent is set before synchronous callbacks only.
TopQuietly == Wait(waitEvent)

\* SetEvent(WaitEvent) comes first.
Top == Wait(TRUE)

\* A timer goes off, while there are calls to spare (a bound).  It does so again
\* if it is periodic.
Fire ==
  /\ thread.at = "waiting"
  /\ \E c \in Calls : call[c].at = "none"
  /\ \E t \in ToSet(timers) :
       /\ armed[t]
       /\ ThreadTo("fired", t)
       /\ armed' = [armed EXCEPT ![t] = ~Once(t)]
  /\ UNCHANGED <<state, pending, cbEvent, freed, handle, queueVars, call, deletion, others>>

\* ResetEvent(WaitEvent), also when APCs ended the wait.
Reset ==
  /\ thread.at = "fired"
  /\ waitEvent' = FALSE
  /\ ThreadTo(IF thread.timer = Null THEN "top" ELSE "check", thread.timer)
  /\ UNCHANGED <<timerVars, timers, done, apcs, call, deletion, others>>

\* A timer that is deleted does not run.  Before a synchronous callback WaitEvent
\* is set.
Check ==
  LET t == thread.timer IN
  /\ thread.at = "check" /\ Alive(t)
  /\ IF state[t] # "ACTIVE" THEN ThreadTo("top", Null)
     ELSE IF Sync(t) THEN ThreadTo("callback", t) ELSE ThreadTo("dispatch", t)
  /\ waitEvent' = (waitEvent \/ (state[t] = "ACTIVE" /\ Sync(t)))
  /\ UNCHANGED <<timerVars, timers, done, apcs, call, deletion, others>>

CallbackEnds ==
  /\ thread.at = "callback" /\ deletion[Queue].at = "out"
  /\ ThreadTo("top", Null)
  /\ UNCHANGED <<timerVars, queueVars, call, deletion, others>>

\* The callback is given to the pool, which may fail.
DispatchCounting(n) ==
  LET t == thread.timer IN
  /\ thread.at = "dispatch" /\ Alive(t)
  /\ pending' = [pending EXCEPT ![t] = @ + n]
  /\ \/ \E c \in Calls :
          /\ call[c].at = "none"
          /\ call' = [call EXCEPT ![c] = [at |-> "queued", timer |-> t]]
          /\ UNCHANGED uncounted
     \/ t \notin uncounted /\ uncounted' = uncounted \cup {t} /\ UNCHANGED call
  /\ ThreadTo("top", Null)
  /\ UNCHANGED <<options, state, cbEvent, armed, freed, handle, queueVars, deletion, program,
                 changes>>

\* Mutation: it is not counted.
DispatchUncounted == DispatchCounting(0)

\* It is counted before.
Dispatch == DispatchCounting(1)

-----------------------------------------------------------------------------
(* Its APCs *)

\* AddTimerItem, up to setting the event for which the program waits.  A timer that
\* is one too many is returned to the program all the same, who must not use it.
Add(t) ==
  /\ IF Len(timers) = MAX_TIMERS
       THEN /\ handle' = [handle EXCEPT ![t] = "refused"]
            /\ ThreadTo("apc", Null)
            /\ UNCHANGED timers
       ELSE /\ timers' = Append(timers, t)
            /\ handle' = [handle EXCEPT ![t] = "held"]
            /\ ThreadTo("add", t)
  /\ program' = "out"
  /\ UNCHANGED <<options, state, freed, armed, deletion>>

\* ChangeTimerItem.
Change(t) ==
  /\ Alive(t)
  /\ armed' = [armed EXCEPT ![t] = TRUE]
  /\ ThreadTo("apc", Null)
  /\ UNCHANGED <<options, state, freed, handle, timers, deletion, program>>

\* RemoveTimerItem up to its first exchange.  It may leave the timer behind the last
\* place of the array, where nothing finds it: a timer is removed once.
RemoveTimer(t) ==
  /\ Alive(t)
  /\ timers' = IF t \in ToSet(timers)
                 THEN RemoveAt(timers, CHOOSE k \in 1..Len(timers) : timers[k] = t)
                 ELSE timers
  /\ IF state[t] = "DELETESYNC"
       THEN Destroy(t) /\ ThreadTo("apc", Null)
       ELSE ThreadTo("mark", t) /\ UNCHANGED <<state, freed>>
  /\ UNCHANGED <<options, armed, handle, deletion, program>>

\* FinishTimerQueue: its timers will be deleted, the last one first.
BeginFinish ==
  /\ ThreadTo("finish", IF timers = <<>> THEN Null ELSE Last(timers))
  /\ UNCHANGED <<options, state, freed, armed, handle, timers, deletion, program>>

\* TerminateTimerQueue.
Terminate ==
  /\ ThreadTo("gone", Null)
  /\ UNCHANGED <<options, state, freed, armed, handle, timers, deletion, program>>

\* All APCs that are queued run before the wait returns, and those that they queue.
Apc ==
  /\ thread.at \in {"idle", "waiting", "apc"} /\ apcs # <<>>
  /\ apcs' = Tail(apcs)
  /\ LET a == Head(apcs) IN
       \/ a.proc = "Add" /\ Add(a.timer)
       \/ a.proc = "Change" /\ Change(a.timer)
       \/ a.proc = "Remove" /\ RemoveTimer(a.timer)
       \/ a.proc = "Finish" /\ BeginFinish
       \/ a.proc = "Terminate" /\ Terminate
  /\ UNCHANGED <<pending, cbEvent, waitEvent, done, call, uncounted, changes>>

\* SleepEx begins anew; after a wait for timers its result is looked at.
ApcsEnd ==
  /\ thread.at = "apc" /\ apcs = <<>>
  /\ ThreadTo(IF thread.waits THEN "fired" ELSE "top", Null)
  /\ UNCHANGED <<timerVars, queueVars, call, deletion, others>>

\* The end of AddTimerItem: the timer is started.
StartTimer ==
  /\ thread.at = "add"
  /\ Change(thread.timer)
  /\ UNCHANGED <<pending, cbEvent, waitEvent, done, apcs, call, uncounted, changes>>

\* RemoveTimerItem: UNREGISTERED to REMOVED.  A timer that was marked DELETESYNC since
\* the first exchange stays so, and nobody destroys it.
Mark ==
  /\ thread.at = "mark" /\ Alive(thread.timer)
  /\ Exchange(thread.timer, "REMOVED", "UNREGISTERED")
  /\ ThreadTo("apc", Null)
  /\ UNCHANGED <<pending, cbEvent, armed, freed, handle, queueVars, call, deletion, others>>

\* DeleteTimerQueueTimer, called by d: up to its first exchange.
StartDelete(d, t, mode) ==
  /\ Alive(t)
  /\ Exchange(t, "UNREGISTERED", "ACTIVE")
  /\ deletion' = [deletion EXCEPT ![d] =
       [at |-> IF state[t] = "ACTIVE" THEN "queue" ELSE "read", timer |-> t, mode |-> mode]]

\* The program gives up the handle with it.
GiveUp(d, t, mode) ==
  /\ handle[t] = "held"
  /\ StartDelete(d, t, mode)
  /\ handle' = [handle EXCEPT ![t] = mode]

\* FinishTimerQueue: one of its timers is deleted.
FinishOne ==
  /\ thread.at = "finish" /\ thread.timer # Null
  /\ StartDelete(Queue, thread.timer, "block")
  /\ ThreadTo("delete", thread.timer)
  /\ UNCHANGED <<pending, cbEvent, armed, freed, handle, queueVars, call, others>>

\* Then the one before it.  No APC runs meanwhile, so that the list stays.
FinishDownTo(first) ==
  /\ thread.at = "delete" /\ deletion[Queue].at = "out"
  /\ \E k \in 1..Len(timers) :
       /\ timers[k] = thread.timer
       /\ ThreadTo("finish", IF k <= first THEN Null ELSE timers[k - 1])
  /\ UNCHANGED <<timerVars, queueVars, call, deletion, others>>

\* Mutation: the first timer is left out.
FinishNextButFirst == FinishDownTo(2)

FinishNext == FinishDownTo(1)

\* SetEvent(CompletionEvent), and an APC that ends the thread.
Finished ==
  /\ thread.at = "finish" /\ thread.timer = Null
  /\ done' = IF done = "none" THEN done ELSE "set"
  /\ QueueUserAPC("Terminate", Null)
  /\ ThreadTo("apc", Null)
  /\ UNCHANGED <<timerVars, timers, waitEvent, call, deletion, others>>

-----------------------------------------------------------------------------
(* Asynchronous calls: AsyncTimerCall *)

Start(c) ==
  LET t == call[c].timer IN
  /\ call[c].at = "queued" /\ Alive(t)
  /\ CallTo(c, IF state[t] = "ACTIVE" THEN "running" ELSE "ran")
  /\ UNCHANGED <<timerVars, queueVars, thread, deletion, others>>

Return(c) ==
  /\ call[c].at = "running" /\ deletion[c].at = "out"
  /\ CallTo(c, "ran")
  /\ UNCHANGED <<timerVars, queueVars, thread, deletion, others>>

\* CallbacksPending is decremented, and remembered if it was the last.
Decrement(c) ==
  LET t == call[c].timer IN
  /\ call[c].at = "ran" /\ Alive(t)
  /\ pending' = [pending EXCEPT ![t] = @ - 1]
  /\ CallTo(c, IF pending[t] = 1 THEN "notifylast" ELSE "notify")
  /\ UNCHANGED <<state, cbEvent, armed, freed, handle, queueVars, thread, deletion, others>>

EndCall(c) == call' = [call EXCEPT ![c] = [at |-> "none", timer |-> Null]]

\* SetEvent(CallbackEvent).
Notify(c) ==
  LET t == call[c].timer IN
  /\ call[c].at \in {"notify", "notifylast"} /\ Alive(t)
  /\ cbEvent' = [cbEvent EXCEPT ![t] = TRUE]
  /\ IF call[c].at = "notifylast" THEN CallTo(c, "last") ELSE EndCall(c)
  /\ UNCHANGED <<state, pending, armed, freed, handle, queueVars, thread, deletion, others>>

\* The last call destroys a timer that is removed.
EndLast(c) ==
  LET t == call[c].timer IN
  /\ call[c].at = "last" /\ Alive(t)
  /\ \/ state[t] = "REMOVED" /\ Destroy(t) /\ EndCall(c)
     \/ state[t] = "ACTIVE" /\ EndCall(c) /\ UNCHANGED <<state, freed>>
     \/ /\ state[t] \notin {"ACTIVE", "REMOVED"} /\ CallTo(c, "mark")
        /\ UNCHANGED <<state, freed>>
  /\ UNCHANGED <<pending, cbEvent, armed, handle, queueVars, thread, deletion, others>>

\* "destroy it with removal".
MarkForRemoval(c) ==
  /\ call[c].at = "mark" /\ Alive(call[c].timer)
  /\ Exchange(call[c].timer, "DELETESYNC", "UNREGISTERED")
  /\ EndCall(c)
  /\ UNCHANGED <<pending, cbEvent, armed, freed, handle, queueVars, thread, deletion,
                 others>>

-----------------------------------------------------------------------------
(* The rest of DeleteTimerQueueTimer, called by d *)

DeletionTo(d, at) == deletion' = [deletion EXCEPT ![d].at = at]

DeletionEnds(d) ==
  deletion' = [deletion EXCEPT ![d] = [at |-> "out", timer |-> Null, mode |-> "leave"]]

\* A timer that was ACTIVE will be removed by an APC.
QueueRemove(d) ==
  /\ deletion[d].at = "queue" /\ thread.at # "gone"
  /\ QueueUserAPC("Remove", deletion[d].timer)
  /\ DeletionTo(d, "wait")
  /\ UNCHANGED <<timerVars, timers, waitEvent, done, thread, call, others>>

\* WaitForSingleObject(WaitEvent).  Its ten seconds do not go by: while the event is
\* reset the thread calls nobody back.
PassWaitEvent(d) ==
  /\ deletion[d].at = "wait" /\ waitEvent /\ thread.at # "gone"
  /\ DeletionTo(d, "read")
  /\ UNCHANGED <<timerVars, queueVars, thread, call, others>>

\* Are callbacks pending?  Then the caller waits, or leaves the timer to them.
ReadPending(d) ==
  LET t == deletion[d].timer IN
  /\ deletion[d].at = "read" /\ Alive(t)
  /\ IF pending[t] > 0 /\ deletion[d].mode = "leave"
       THEN DeletionEnds(d)
       ELSE DeletionTo(d, IF pending[t] > 0 THEN "block" ELSE "finish")
  /\ UNCHANGED <<timerVars, queueVars, thread, call, others>>

\* A callback has ended; others may be pending.
BlockWhile(d, more) ==
  LET t == deletion[d].timer IN
  /\ deletion[d].at = "block" /\ Alive(t) /\ cbEvent[t]
  /\ cbEvent' = [cbEvent EXCEPT ![t] = FALSE]
  /\ DeletionTo(d, IF more THEN "block" ELSE "finish")
  /\ UNCHANGED <<state, pending, armed, freed, handle, queueVars, thread, call, others>>

\* Mutation: one callback is waited for.
BlockOnce(d) == BlockWhile(d, FALSE)

Block(d) == BlockWhile(d, pending[deletion[d].timer] > 0)

\* No callbacks are pending: a timer that is removed is destroyed.
DestroyIf(d, removed) ==
  /\ deletion[d].at = "finish" /\ Alive(deletion[d].timer)
  /\ IF state[deletion[d].timer] \in removed
       THEN Destroy(deletion[d].timer) /\ DeletionEnds(d)
       ELSE DeletionTo(d, "mark") /\ UNCHANGED <<state, freed>>
  /\ UNCHANGED <<pending, cbEvent, armed, handle, queueVars, thread, call, others>>

\* Mutation: and one that is on its way out.
FinishEarly(d) == DestroyIf(d, {"REMOVED", "UNREGISTERED"})

Finish(d) == DestroyIf(d, {"REMOVED"})

\* One that is not is to be destroyed with its removal.
FinishLater(d) ==
  /\ deletion[d].at = "mark" /\ Alive(deletion[d].timer)
  /\ Exchange(deletion[d].timer, "DELETESYNC", "UNREGISTERED")
  /\ DeletionEnds(d)
  /\ UNCHANGED <<pending, cbEvent, armed, freed, handle, queueVars, thread, call, others>>

-----------------------------------------------------------------------------
(* The program *)

Idle == program = "out" /\ deletion[Program].at = "out"

\* CreateTimerQueueTimer: it waits until the timer is added.
Create(t) ==
  /\ Idle /\ handle[t] = "none"
  /\ QueueUserAPC("Add", t)
  /\ program' = "adding"
  /\ UNCHANGED <<options, timerVars, timers, waitEvent, done, thread, call, deletion, uncounted,
                 changes>>

Delete(t, mode) ==
  /\ Idle
  /\ GiveUp(Program, t, mode)
  /\ UNCHANGED <<pending, cbEvent, armed, freed, queueVars, thread, call, others>>

\* A timer's callback deletes it, in a call of the pool or in the queue's thread.
DeleteOwn(d, t) ==
  /\ deletion[d].at = "out"
  /\ GiveUp(d, t, "leave")
  /\ UNCHANGED <<pending, cbEvent, armed, freed, queueVars, thread, call, others>>

CallbackDeletes ==
  \/ \E c \in Calls : call[c].at = "running" /\ DeleteOwn(c, call[c].timer)
  \/ thread.at = "callback" /\ DeleteOwn(Queue, thread.timer)

\* ChangeTimerQueueTimer.
ChangeTimer(t) ==
  /\ Idle /\ handle[t] = "held" /\ Alive(t) /\ state[t] = "ACTIVE"
  /\ changes < MaxChanges /\ changes' = changes + 1
  /\ QueueUserAPC("Change", t)
  /\ UNCHANGED <<options, timerVars, timers, waitEvent, done, thread, call, deletion, program,
                 uncounted>>

\* CancelTimerQueueTimer.  A timer that was signalled stays so.
CancelTimer(t) ==
  /\ Idle /\ handle[t] = "held" /\ Alive(t) /\ state[t] = "ACTIVE"
  /\ armed[t] /\ armed' = [armed EXCEPT ![t] = FALSE]
  /\ changes < MaxChanges /\ changes' = changes + 1
  /\ UNCHANGED <<options, state, pending, cbEvent, freed, handle, queueVars, thread, call,
                 deletion, program, uncounted>>

\* DeleteTimerQueueEx, with an event to set at the end or without.
DeleteQueue(completion, at) ==
  /\ Idle /\ done = "none"
  /\ done' = completion
  /\ QueueUserAPC("Finish", Null)
  /\ program' = at
  /\ UNCHANGED <<options, timerVars, timers, waitEvent, thread, call, deletion, uncounted,
                 changes>>

DeleteQueueAnyway ==
  \/ DeleteQueue("none", "over")    \* NULL
  \/ DeleteQueue("reset", "over")   \* an event of the program
  \/ DeleteQueue("reset", "read")   \* -1

\* The event's handle is read from the queue, which may be destroyed already, before
\* the wait and after it.
ReadEvent ==
  /\ program \in {"read", "close"}
  /\ program' = IF thread.at = "gone" THEN "lost"
                ELSE IF program = "read" THEN "wait" ELSE "over"
  /\ UNCHANGED <<options, timerVars, queueVars, thread, call, deletion, uncounted, changes>>

WaitEnds ==
  /\ program = "wait" /\ done = "set"
  /\ program' = "close"
  /\ UNCHANGED <<options, timerVars, queueVars, thread, call, deletion, uncounted, changes>>

-----------------------------------------------------------------------------
\* CreateTimerQueue.
Init ==
  /\ options \in [Timers -> SUBSET Options]
  /\ state = [t \in Timers |-> "ACTIVE"]
  /\ pending = [t \in Timers |-> 0]
  /\ cbEvent = [t \in Timers |-> FALSE] /\ armed = [t \in Timers |-> FALSE]
  /\ freed = {} /\ handle = [t \in Timers |-> "none"]
  /\ timers = <<>> /\ waitEvent = TRUE /\ done = "none" /\ apcs = <<>>
  /\ thread = [at |-> "top", timer |-> Null, waits |-> FALSE]
  /\ call = [c \in Calls |-> [at |-> "none", timer |-> Null]]
  /\ deletion = [d \in Deleters |-> [at |-> "out", timer |-> Null, mode |-> "leave"]]
  /\ program = "out"
  /\ uncounted = {} /\ changes = 0

ThreadStep ==
  \/ Top \/ Reset \/ Check \/ CallbackEnds \/ Dispatch \/ Apc \/ ApcsEnd \/ StartTimer \/ Mark
  \/ FinishOne \/ FinishNext \/ Finished

CallStep(c) ==
  Start(c) \/ Return(c) \/ Decrement(c) \/ Notify(c) \/ EndLast(c) \/ MarkForRemoval(c)

DeletionStep(d) ==
  QueueRemove(d) \/ ReadPending(d) \/ Block(d) \/ Finish(d) \/ FinishLater(d)

ProgramStep ==
  \/ \E t \in Timers : Create(t) \/ ChangeTimer(t) \/ CancelTimer(t)
  \/ \E t \in Timers, mode \in Modes : Delete(t, mode)
  \/ CallbackDeletes
  \/ DeleteQueueAnyway

Next ==
  \/ ThreadStep \/ Fire
  \/ \E c \in Calls : CallStep(c)
  \/ \E d \in Deleters : DeletionStep(d) \/ PassWaitEvent(d)
  \/ ProgramStep \/ ReadEvent \/ WaitEnds

Spec == Init /\ [][Next]_vars

\* Threads run when they can and asynchronous callbacks return.  Timers do not keep
\* the thread from its APCs for good, nor a wait that finds WaitEvent set again and
\* again from ending.
Fairness ==
  /\ WF_vars(ThreadStep) /\ SF_vars(Apc)
  /\ \A c \in Calls : WF_vars(CallStep(c))
  /\ \A d \in Deleters : WF_vars(DeletionStep(d)) /\ SF_vars(PassWaitEvent(d))
  /\ WF_vars(ReadEvent) /\ WF_vars(WaitEnds)

FairSpec == Spec /\ Fairness

-----------------------------------------------------------------------------
(* Properties *)

Running(t) == \E c \in Calls : call[c] = [at |-> "running", timer |-> t]

(* "make sure thread is in wait state and isn't doing sth with item we       *)
(* delete" (line 595): what the thread waits for, works with or has an APC   *)
(* for is not destroyed.                                                     *)
ThreadUsesLiveTimers ==
  /\ ToSet(timers) \cap freed = {}
  /\ thread.timer \notin freed
  /\ \A k \in 1..Len(apcs) : apcs[k].timer \notin freed

(* No asynchronous callback of a timer runs after a blocking                 *)
(* DeleteTimerQueueTimer has returned ("while (timer->CallbacksPending)",    *)
(* line 606), nor, when the event of the queue's deletion is set, one of a   *)
(* timer that was not deleted before ("delete all timers, waiting", 646).    *)
CallbacksEndFirst ==
  \A t \in Timers :
    \/ handle[t] = "block" /\ deletion[Program].timer # t
    \/ handle[t] = "held" /\ done = "set"
    => ~Running(t)

(* The queue is destroyed (line 634) after all its timers were removed, with *)
(* no APC to come.  (A callback that deletes its own timer may still wait    *)
(* for the queue's WaitEvent: see the README.)                               *)
TimersEndWithQueue ==
  thread.at = "gone" =>
    /\ timers = <<>> /\ apcs = <<>>
    /\ \A d \in Deleters : deletion[d].at # "queue"

(* DeleteTimerQueueEx returns that waits, if all callbacks could be queued;  *)
(* or it finds the queue destroyed.                                          *)
DeleteQueueReturns ==
  program = "read" ~> program \in {"over", "lost"} \/ uncounted # {}

=============================================================================

-------------------------- MODULE TimerQueueProofs --------------------------
(***************************************************************************)
(* Timer queues keep their types, no asynchronous callback of a timer runs *)
(* once its blocking deletion has returned, the queue's thread works with  *)
(* no timer that was destroyed, and the queue is destroyed with no timer   *)
(* in it and no APC to come.                                               *)
(***************************************************************************)
EXTENDS TimerQueue, FiniteSetTheorems, SequenceTheorems, TLAPS

-----------------------------------------------------------------------------
(* The inductive invariant *)

\* The calls of a timer that CallbacksPending counts.
Counted(t) ==
  {c \in Calls : call[c].timer = t /\ call[c].at \in {"queued", "running", "ran"}}

\* Calls have a timer, and a timer counts its calls with one that was not queued.
CallsCounted ==
  /\ \A c \in Calls : call[c].at # "none" => call[c].timer \in Timers
  /\ \A t \in Timers :
       pending[t] = Cardinality(Counted(t)) + IF t \in uncounted THEN 1 ELSE 0

\* APCs but those that change a timer are queued once; a timer is not changed
\* after its removal, nor is one added while another is.  The thread's end comes last.
Apcs == [proc : {"Add", "Change", "Remove", "Finish", "Terminate"},
         timer : Timers \cup {Null}]
Queued(proc, t) == \E k \in 1..Len(apcs) : apcs[k] = [proc |-> proc, timer |-> t]

QueueHolds ==
  /\ \A j, k \in 1..Len(apcs) :
       /\ apcs[j] = apcs[k] /\ apcs[j].proc # "Change" => j = k
       /\ apcs[j].proc = "Remove" /\ apcs[k].proc = "Change"
          /\ apcs[j].timer = apcs[k].timer => k < j
       /\ apcs[j].proc = "Add" /\ apcs[k].proc = "Add" => j = k
       /\ apcs[j].proc = "Terminate" => j = Len(apcs)
  /\ \A k \in 1..Len(apcs) :
       apcs[k].timer = Null <=> apcs[k].proc \in {"Finish", "Terminate"}

\* The thread works with timers of its list, but for the one it has just taken off;
\* WaitEvent is reset before it decides to call back.
Listed == ToSet(timers)
Working == {"check", "dispatch", "callback", "add", "delete"}

ThreadHolds ==
  /\ thread.at \in Working => thread.timer \in Listed
  /\ thread.at \in {"fired", "finish"} => thread.timer \in Listed \cup {Null}
  /\ thread.at \notin Working \cup {"fired", "finish", "mark"} => thread.timer = Null
  /\ thread.at \in {"check", "dispatch"} => ~waitEvent

\* The end of the queue has three phases, in which the program does nothing else.
Finishing == thread.at \in {"finish", "delete"}
Ending == Queued("Terminate", Null) \/ thread.at = "gone"
Deleted == program \in {"read", "wait", "close", "over", "lost"}

\* A timer of the list that the end of the queue is done with.
Processed(t) == Counted(t) = {} /\ Queued("Remove", t)

PhasesHold ==
  /\ Queued("Finish", Null) \/ Finishing \/ Ending => Deleted
  /\ Queued("Finish", Null) => ~Finishing /\ ~Ending
  /\ Finishing => ~Ending
  /\ done = "set" => Ending
  /\ thread.at = "gone" => apcs = <<>> /\ timers = <<>>
  /\ Ending => thread.at \in {"apc", "mark", "gone"}
  /\ Ending => \A t \in Listed : Queued("Remove", t)
  /\ Finishing =>
       \A k \in 1..Len(timers) :
         thread.timer = Null \/ (\E j \in 1..k-1 : timers[j] = thread.timer) =>
           Processed(timers[k])
  /\ thread.at = "delete" /\ deletion[Queue].at = "out" => Processed(thread.timer)

\* Who has yet to queue the APC that removes a timer.
Removes(d, t) == deletion[d].at = "queue" /\ deletion[d].timer = t
Waiting(t) == state[t] \in {"UNREGISTERED", "DELETESYNC"}
Removing(t) == thread.at = "mark" /\ thread.timer = t

\* A timer is the program's until it is added, and in the list until its APC.
InList(t) ==
  /\ Queued("Add", t) => handle[t] = "none" /\ program = "adding"
  /\ handle[t] \in {"none", "refused"} => state[t] = "ACTIVE" /\ t \notin Listed
  /\ t \in freed <=> state[t] = "GAMEOVER"
  /\ state[t] \in {"REMOVED", "GAMEOVER"} => t \notin Listed
  /\ Queued("Change", t) => t \in Listed
  /\ handle[t] = "held" /\ t \notin Listed => Ending

\* One that is deleted is removed once, by an APC.
RemovedOnce(t) ==
  /\ Queued("Remove", t) \/ (\E d \in Deleters : Removes(d, t)) => t \in Listed /\ Waiting(t)
  /\ Queued("Remove", t) => \A d \in Deleters : ~Removes(d, t)
  /\ \A d, e \in Deleters : Removes(d, t) /\ Removes(e, t) => d = e
  /\ t \in Listed /\ state[t] # "ACTIVE" =>
       Queued("Remove", t) \/ \E d \in Deleters : Removes(d, t)
  /\ Removing(t) => t \notin Listed /\ Waiting(t)

\* Nothing is called back any more once WaitEvent has been passed, and no call is
\* left when a blocking deletion has seen that none is pending.
CallsEnd(t) ==
  /\ handle[t] \in Modes => state[t] # "ACTIVE"
  /\ handle[t] = "held" /\ state[t] # "ACTIVE" => Finishing \/ Ending
  /\ handle[t] = "held" /\ Ending => Counted(t) = {}
  /\ thread.at = "dispatch" /\ thread.timer = t /\ state[t] # "ACTIVE" =>
       \E d \in Deleters : deletion[d].at \in {"queue", "wait"} /\ deletion[d].timer = t
  /\ handle[t] = "block" =>
       \/ deletion[Program].timer = t /\ deletion[Program].at \notin {"finish", "mark"}
       \/ Counted(t) = {}

TimerInv(t) == InList(t) /\ RemovedOnce(t) /\ CallsEnd(t)

\* Deletions: by a callback that runs, by the program with the handle, or by the
\* queue's thread in a callback or at its end.
Deleting(d) ==
  LET t == deletion[d].timer IN
  /\ deletion[d].at = "out" <=> t = Null
  /\ t # Null => handle[t] \notin {"none", "refused"} /\ state[t] # "ACTIVE"
  /\ d \in Calls /\ t # Null =>
       /\ call[d].at = "running" /\ call[d].timer = t /\ handle[t] = "leave"
       /\ deletion[d].at \in {"queue", "wait", "read"} /\ deletion[d].mode = "leave"
  /\ d = Program /\ t # Null => program = "out" /\ handle[t] = deletion[d].mode
  /\ d = Queue /\ t # Null =>
       /\ thread.timer = t
       /\ \/ thread.at = "callback" /\ deletion[d].mode = "leave" /\ handle[t] = "leave"
          \/ thread.at = "delete" /\ deletion[d].mode = "block"
  /\ d = Queue /\ thread.at = "delete" /\ deletion[d].at \in {"finish", "mark"} =>
       Counted(t) = {}

TimersInv ==
  /\ TypeOK
  /\ CallsCounted /\ QueueHolds /\ ThreadHolds /\ PhasesHold
  /\ \A t \in Timers : TimerInv(t)
  /\ \A d \in Deleters : Deleting(d)

-----------------------------------------------------------------------------
(* The queue of APCs *)

LEMMA Enqueue ==
  ASSUME apcs \in Seq(Apcs), QueueHolds, NEW proc, NEW t,
         [proc |-> proc, timer |-> t] \in Apcs,
         t = Null <=> proc \in {"Finish", "Terminate"},
         ~Queued("Terminate", Null),
         proc # "Change" => ~Queued(proc, t),
         proc = "Change" => ~Queued("Remove", t),
         proc = "Add" => \A u \in Timers : ~Queued("Add", u),
         QueueUserAPC(proc, t)
  PROVE  /\ apcs' \in Seq(Apcs) /\ QueueHolds'
         /\ \A q, u : Queued(q, u)' <=> Queued(q, u) \/ (q = proc /\ u = t)
<1> DEFINE a == [proc |-> proc, timer |-> t]
<1>1. /\ apcs' \in Seq(Apcs) /\ Len(apcs) \in Nat /\ Len(apcs') = Len(apcs) + 1
      /\ \A k \in 1..Len(apcs) : apcs'[k] = apcs[k] /\ apcs[k] \in Apcs
      /\ apcs'[Len(apcs) + 1] = a
    BY DEF QueueUserAPC
<1>2. ASSUME NEW q, NEW u PROVE Queued(q, u)' <=> Queued(q, u) \/ (q = proc /\ u = t)
    BY <1>1 DEF Queued
<1>3. \A k \in 1..Len(apcs) :
        /\ apcs[k] = [proc |-> apcs[k].proc, timer |-> apcs[k].timer]
        /\ apcs[k].timer \in Timers \cup {Null}
        /\ Queued(apcs[k].proc, apcs[k].timer)
    BY <1>1 DEF Apcs, Queued
<1>4. ASSUME NEW k \in 1..Len(apcs)
      PROVE  /\ apcs[k].proc # "Terminate"
             /\ apcs[k] = a => proc = "Change"
             /\ apcs[k].proc = "Remove" /\ apcs[k].timer = t => proc # "Change"
             /\ apcs[k].proc = "Add" => proc # "Add"
  <2>1. apcs[k].timer = Null <=> apcs[k].proc \in {"Finish", "Terminate"}
      BY DEF QueueHolds
  <2>2. apcs[k] = a => apcs[k].proc = proc /\ apcs[k].timer = t
      OBVIOUS
  <2>. QED BY <1>3, <2>1, <2>2
<1>5. QueueHolds'
    BY <1>1, <1>4, SMTT(30) DEF QueueHolds
<1>. QED BY <1>1, <1>2, <1>5

LEMMA Dequeue ==
  ASSUME apcs \in Seq(Apcs), QueueHolds, apcs # <<>>, apcs' = Tail(apcs),
         NEW a, a = Head(apcs)
  PROVE  /\ apcs' \in Seq(Apcs) /\ QueueHolds'
         /\ a \in Apcs
         /\ Queued(a.proc, a.timer)
         /\ a.timer = Null <=> a.proc \in {"Finish", "Terminate"}
         /\ \A q, u :
              /\ Queued(q, u)' => Queued(q, u)
              /\ Queued(q, u) =>
                   Queued(q, u)' \/ (q = a.proc /\ u = a.timer)
         /\ a.proc # "Change" => ~Queued(a.proc, a.timer)'
         /\ a.proc = "Remove" => ~Queued("Change", a.timer)
         /\ a.proc = "Add" => \A u : ~Queued("Add", u)'
         /\ a.proc = "Terminate" => apcs' = <<>>
<1>1. /\ apcs' \in Seq(Apcs) /\ Len(apcs) \in Nat \ {0}
      /\ Len(apcs') = Len(apcs) - 1
      /\ \A k \in 1..Len(apcs) - 1 : apcs'[k] = apcs[k + 1]
      /\ a = apcs[1] /\ a \in Apcs /\ 1 \in 1..Len(apcs)
    OBVIOUS
<1>2. a = [proc |-> a.proc, timer |-> a.timer]
    BY <1>1 DEF Apcs
<1>3. Queued(a.proc, a.timer)
    BY <1>1, <1>2 DEF Queued
<1>4. a.timer = Null <=> a.proc \in {"Finish", "Terminate"}
    BY <1>1 DEF QueueHolds
<1>5. ASSUME NEW q, NEW u
      PROVE  /\ Queued(q, u)' => Queued(q, u)
             /\ Queued(q, u) => Queued(q, u)' \/ (q = a.proc /\ u = a.timer)
  <2>1. Queued(q, u)' => Queued(q, u)
      BY <1>1 DEF Queued
  <2>2. ASSUME Queued(q, u), ~(q = a.proc /\ u = a.timer) PROVE Queued(q, u)'
    <3>1. PICK k \in 1..Len(apcs) : apcs[k] = [proc |-> q, timer |-> u]
        BY <2>2 DEF Queued
    <3>2. apcs[k].proc = q /\ apcs[k].timer = u
        BY <3>1
    <3>3. k # 1 /\ k - 1 \in 1..Len(apcs') /\ apcs'[k - 1] = apcs[k]
        BY <1>1, <2>2, <3>2
    <3>. QED BY <3>1, <3>3 DEF Queued
  <2>. QED BY <2>1, <2>2
<1>6. QueueHolds'
  <2>1. \A k \in 1..Len(apcs') : k + 1 \in 1..Len(apcs) /\ apcs'[k] = apcs[k + 1]
      BY <1>1
  <2>0. Len(apcs) = Len(apcs') + 1 /\ Len(apcs') \in Nat
      BY <1>1
  <2>2. ASSUME NEW j \in 1..Len(apcs'), NEW k \in 1..Len(apcs')
        PROVE  /\ apcs'[j] = apcs'[k] /\ apcs'[j].proc # "Change" => j = k
               /\ apcs'[j].proc = "Remove" /\ apcs'[k].proc = "Change"
                  /\ apcs'[j].timer = apcs'[k].timer => k < j
               /\ apcs'[j].proc = "Add" /\ apcs'[k].proc = "Add" => j = k
               /\ apcs'[j].proc = "Terminate" => j = Len(apcs')
    <3> DEFINE m == j + 1
               n == k + 1
    <3>1. /\ apcs[m] = apcs[n] /\ apcs[m].proc # "Change" => m = n
          /\ apcs[m].proc = "Remove" /\ apcs[n].proc = "Change"
             /\ apcs[m].timer = apcs[n].timer => n < m
          /\ apcs[m].proc = "Add" /\ apcs[n].proc = "Add" => m = n
          /\ apcs[m].proc = "Terminate" => m = Len(apcs)
      <4>0. j + 1 \in 1..Len(apcs) /\ k + 1 \in 1..Len(apcs)
          BY <2>1
      <4>. HIDE DEF m, n
      <4>1. m \in 1..Len(apcs) /\ n \in 1..Len(apcs)
          BY <4>0 DEF m, n
      <4>. QED BY <4>1 DEF QueueHolds
    <3>2. apcs'[j] = apcs[m] /\ apcs'[k] = apcs[n]
        BY <2>1
    <3>3. /\ m = n => j = k
          /\ n < m => k < j
          /\ m = Len(apcs) => j = Len(apcs')
      <4>1. PICK len \in Nat : len = Len(apcs')
          BY <2>0
      <4>2. j \in 1..len /\ k \in 1..len /\ Len(apcs) = len + 1
          BY <2>0, <4>1
      <4>3. m = n => j = k
          BY <4>2
      <4>4. n < m => k < j
          BY <4>2
      <4>5. m = Len(apcs) => j = len
          BY <4>2
      <4>. QED BY <4>1, <4>3, <4>4, <4>5
    <3>. HIDE DEF m, n
    <3>. QED BY <3>1, <3>2, <3>3
  <2>3. ASSUME NEW k \in 1..Len(apcs')
        PROVE  apcs'[k].timer = Null <=> apcs'[k].proc \in {"Finish", "Terminate"}
      BY <2>1 DEF QueueHolds
  <2>. QED BY <2>2, <2>3 DEF QueueHolds
<1>7. a.proc # "Change" => ~Queued(a.proc, a.timer)'
  <2> SUFFICES ASSUME a.proc # "Change", Queued(a.proc, a.timer)' PROVE FALSE
      OBVIOUS
  <2>1. PICK k \in 1..Len(apcs') : apcs'[k] = [proc |-> a.proc, timer |-> a.timer]
      BY DEF Queued
  <2>2. k + 1 \in 1..Len(apcs) /\ apcs[k + 1] = apcs[1] /\ apcs[1].proc # "Change"
        /\ k + 1 # 1 /\ 1 \in 1..Len(apcs)
      BY <1>1, <1>2, <2>1
  <2>. QED BY <2>2 DEF QueueHolds
<1>8. a.proc = "Remove" => ~Queued("Change", a.timer)
  <2> SUFFICES ASSUME a.proc = "Remove", Queued("Change", a.timer) PROVE FALSE
      OBVIOUS
  <2>1. PICK k \in 1..Len(apcs) : apcs[k] = [proc |-> "Change", timer |-> a.timer]
      BY DEF Queued
  <2>2. apcs[k].proc = "Change" /\ apcs[k].timer = apcs[1].timer
        /\ apcs[1].proc = "Remove" /\ 1 \in 1..Len(apcs)
      BY <1>1, <2>1
  <2>3. k < 1
      BY <2>2 DEF QueueHolds
  <2>. QED BY <2>3
<1>9. a.proc = "Terminate" => apcs' = <<>>
  <2> SUFFICES ASSUME a.proc = "Terminate" PROVE apcs' = <<>>
      OBVIOUS
  <2>1. apcs[1].proc = "Terminate"
      BY <1>1
  <2>2. 1 = Len(apcs)
      BY <1>1, <2>1 DEF QueueHolds
  <2>. QED BY <1>1, <2>2
<1>10. a.proc = "Add" => \A u : ~Queued("Add", u)'
  <2> SUFFICES ASSUME a.proc = "Add", NEW u, Queued("Add", u)' PROVE FALSE
      OBVIOUS
  <2>1. PICK k \in 1..Len(apcs') : apcs'[k] = [proc |-> "Add", timer |-> u]
      BY DEF Queued
  <2>2. k + 1 \in 1..Len(apcs) /\ apcs[k + 1].proc = "Add" /\ apcs[1].proc = "Add"
        /\ k + 1 # 1 /\ 1 \in 1..Len(apcs)
      BY <1>1, <2>1
  <2>. QED BY <2>2 DEF QueueHolds
<1>. QED BY <1>1, <1>3, <1>4, <1>5, <1>6, <1>7, <1>8, <1>9, <1>10

-----------------------------------------------------------------------------
(* The list of timers *)

LEMMA SeqFacts ==
  ASSUME NEW S, NEW s \in Seq(S)
  PROVE  /\ Len(s) \in Nat /\ ToSet(s) \subseteq S
         /\ \A x : x \in ToSet(s) <=> \E k \in 1..Len(s) : s[k] = x
         /\ IsInjective(s) <=> \A j, k \in 1..Len(s) : s[j] = s[k] => j = k
<1>1. Len(s) \in Nat /\ DOMAIN s = 1..Len(s) /\ \A k \in 1..Len(s) : s[k] \in S
    OBVIOUS
<1>. QED BY <1>1 DEF ToSet, IsInjective

LEMMA ListTypes ==
  ASSUME TypeOK
  PROVE  /\ timers \in Seq(Timers)
         /\ Len(timers) \in Nat /\ Listed \subseteq Timers
         /\ \A k \in 1..Len(timers) : timers[k] \in Listed
         /\ \A t \in Listed : \E k \in 1..Len(timers) : timers[k] = t
         /\ \A j, k \in 1..Len(timers) : timers[j] = timers[k] => j = k
         /\ Null \notin Listed /\ Null \notin Timers
         /\ MAX_TIMERS \in Nat /\ Len(timers) <= MAX_TIMERS
<1>1. timers \in Seq(Timers) /\ IsInjective(timers) /\ Len(timers) <= MAX_TIMERS
    BY DEF TypeOK
<1>2. Null \notin Timers /\ MAX_TIMERS \in Nat
    BY TimersAssumption
<1>. QED BY <1>1, <1>2, SeqFacts DEF Listed

LEMMA PutOnList ==
  ASSUME TypeOK, NEW t \in Timers, t \notin Listed, Len(timers) # MAX_TIMERS,
         timers' = Append(timers, t)
  PROVE  /\ timers' \in Seq(Timers) /\ Len(timers') <= MAX_TIMERS
         /\ IsInjective(timers')
         /\ Listed' = Listed \cup {t}
<1> DEFINE s == Append(timers, t)
<1>1. /\ s \in Seq(Timers) /\ Len(s) = Len(timers) + 1
      /\ \A k \in 1..Len(timers) : s[k] = timers[k]
      /\ s[Len(timers) + 1] = t
    BY ListTypes, AppendProperties
<1>. HIDE DEF s
<1>2. IsInjective(s)
  <2>1. ASSUME NEW j \in 1..Len(s), NEW k \in 1..Len(s), s[j] = s[k]
        PROVE  j = k
      BY <1>1, <2>1, ListTypes
  <2>. QED BY <1>1, <2>1, SeqFacts
<1>3. ToSet(s) = Listed \cup {t}
  <2>1. ASSUME NEW x PROVE x \in ToSet(s) <=> \E k \in 1..Len(s) : s[k] = x
      BY <1>1, SeqFacts
  <2>2. ASSUME NEW x PROVE x \in Listed <=> \E k \in 1..Len(timers) : timers[k] = x
      BY ListTypes
  <2>. QED BY <1>1, <2>1, <2>2, ListTypes
<1>4. timers' = s
    BY DEF s
<1>. QED BY <1>1, <1>2, <1>3, <1>4, ListTypes DEF Listed

LEMMA RemoveAtFacts ==
  ASSUME NEW S, NEW s \in Seq(S), NEW k \in 1..Len(s)
  PROVE  /\ RemoveAt(s, k) \in Seq(S) /\ Len(RemoveAt(s, k)) = Len(s) - 1
         /\ \A j \in 1..Len(s) - 1 :
              RemoveAt(s, k)[j] = s[IF j < k THEN j ELSE j + 1]
<1> DEFINE front == SubSeq(s, 1, k - 1)
           back == SubSeq(s, k + 1, Len(s))
<1>1. /\ Len(s) \in Nat /\ k \in Int
      /\ \A j \in 1..k-1 : s[j] \in S
      /\ \A j \in k+1..Len(s) : s[j] \in S
    OBVIOUS
<1>2. /\ front \in Seq(S) /\ Len(front) = k - 1
      /\ \A j \in 1..k-1 : front[j] = s[1 + j - 1]
    BY <1>1, SubSeqProperties
<1>3. /\ back \in Seq(S) /\ Len(back) = Len(s) - k
      /\ \A j \in 1..Len(s)-k : back[j] = s[k + 1 + j - 1]
    BY <1>1, SubSeqProperties
<1>4. RemoveAt(s, k) = front \o back
    BY DEF RemoveAt
<1>. HIDE DEF front, back
<1>5. /\ front \o back \in Seq(S) /\ Len(front \o back) = Len(s) - 1
      /\ \A j \in 1..Len(s) - 1 :
           (front \o back)[j] = IF j <= k - 1 THEN front[j] ELSE back[j - (k - 1)]
  <2>1. Len(front) + Len(back) = Len(s) - 1
      BY <1>1, <1>2, <1>3
  <2>2. /\ front \o back \in Seq(S) /\ Len(front \o back) = Len(front) + Len(back)
        /\ \A j \in 1..Len(front) + Len(back) :
             (front \o back)[j] = IF j <= Len(front) THEN front[j]
                                  ELSE back[j - Len(front)]
      BY <1>2, <1>3, ConcatProperties
  <2>. QED BY <1>2, <2>1, <2>2
<1>6. ASSUME NEW j \in 1..Len(s) - 1
      PROVE  (front \o back)[j] = s[IF j < k THEN j ELSE j + 1]
  <2>1. CASE j < k
      BY <1>1, <1>2, <1>5, <2>1
  <2>2. CASE ~(j < k)
    <3>1. j - (k - 1) \in 1..Len(s)-k /\ k + 1 + (j - (k - 1)) - 1 = j + 1
        BY <1>1, <2>2
    <3>2. back[j - (k - 1)] = s[j + 1]
        BY <1>3, <3>1
    <3>. QED BY <1>1, <1>5, <2>2, <3>2
  <2>. QED BY <2>1, <2>2
<1>. QED BY <1>4, <1>5, <1>6

LEMMA TakenOffList ==
  ASSUME TypeOK, NEW t,
         timers' = IF t \in ToSet(timers)
                   THEN RemoveAt(timers, CHOOSE k \in 1..Len(timers) : timers[k] = t)
                   ELSE timers
  PROVE  /\ timers' \in Seq(Timers) /\ Len(timers') <= MAX_TIMERS
         /\ IsInjective(timers')
         /\ Listed' = Listed \ {t}
<1>1. CASE t \notin ToSet(timers)
    BY <1>1 DEF Listed, TypeOK
<1>2. CASE t \in ToSet(timers)
  <2>1. \E k \in 1..Len(timers) : timers[k] = t
      BY <1>2, ListTypes DEF Listed
  <2>2. PICK k \in 1..Len(timers) : timers[k] = t /\ timers' = RemoveAt(timers, k)
      BY <1>2, <2>1
  <2> DEFINE s == RemoveAt(timers, k)
             Old(j) == IF j < k THEN j ELSE j + 1
  <2>3. /\ s \in Seq(Timers) /\ Len(s) = Len(timers) - 1
        /\ \A j \in 1..Len(s) : s[j] = timers[Old(j)]
      BY ListTypes, RemoveAtFacts
  <2>. HIDE DEF s
  <2>4. /\ \A j \in 1..Len(s) : Old(j) \in 1..Len(timers) /\ Old(j) # k
        /\ \A i, j \in 1..Len(s) : Old(i) = Old(j) => i = j
      BY <2>3, ListTypes
  <2>5. ASSUME NEW i \in 1..Len(timers), i # k
        PROVE  \E j \in 1..Len(s) : Old(j) = i
    <3>1. CASE i < k
      <4>1. i \in 1..Len(s) /\ Old(i) = i
          BY <2>3, <3>1, ListTypes
      <4>. QED BY <4>1
    <3>2. CASE ~(i < k)
      <4>1. i - 1 \in 1..Len(s) /\ Old(i - 1) = i
          BY <2>3, <2>5, <3>2, ListTypes
      <4>. QED BY <4>1
    <3>. QED BY <3>1, <3>2
  <2>. HIDE DEF Old
  <2>6. IsInjective(s)
    <3>1. ASSUME NEW i \in 1..Len(s), NEW j \in 1..Len(s), s[i] = s[j]
          PROVE  i = j
        BY <2>3, <2>4, <3>1, ListTypes
    <3>. QED BY <2>3, <3>1, SeqFacts
  <2>7. ToSet(s) = Listed \ {t}
    <3>1. ASSUME NEW x PROVE x \in ToSet(s) <=> \E j \in 1..Len(s) : s[j] = x
        BY <2>3, SeqFacts
    <3>2. ASSUME NEW x PROVE x \in Listed <=> \E i \in 1..Len(timers) : timers[i] = x
        BY ListTypes
    <3>3. ASSUME NEW x \in ToSet(s) PROVE x \in Listed \ {t}
      <4>1. PICK j \in 1..Len(s) : s[j] = x
          BY <3>1
      <4>. QED BY <2>2, <2>3, <2>4, <4>1, ListTypes
    <3>4. ASSUME NEW x \in Listed, x # t PROVE x \in ToSet(s)
      <4>1. PICK i \in 1..Len(timers) : timers[i] = x /\ i # k
          BY <2>2, <3>2, <3>4
      <4>2. PICK j \in 1..Len(s) : Old(j) = i
          BY <2>5, <4>1
      <4>. QED BY <2>3, <3>1, <4>1, <4>2
    <3>. QED BY <3>3, <3>4
  <2>8. timers' = s
      BY <2>2 DEF s
  <2>. QED BY <2>3, <2>6, <2>7, <2>8, ListTypes DEF Listed
<1>. QED BY <1>1, <1>2

-----------------------------------------------------------------------------
(* The count *)

LEMMA CountedIsFinite ==
  ASSUME NEW t
  PROVE  /\ IsFiniteSet(Counted(t)) /\ Cardinality(Counted(t)) \in Nat
         /\ Cardinality(Counted(t)) = 0 <=> Counted(t) = {}
  BY TimersAssumption, FS_Subset, FS_CardinalityType, FS_EmptySet DEF Counted

LEMMA CountChanges ==
  ASSUME NEW t, NEW c \in Calls
  PROVE  /\ c \notin Counted(t) =>
              Cardinality(Counted(t) \cup {c}) = Cardinality(Counted(t)) + 1
         /\ c \in Counted(t) =>
              Cardinality(Counted(t) \ {c}) = Cardinality(Counted(t)) - 1
  BY CountedIsFinite, FS_AddElement, FS_RemoveElement

LEMMA NonePending ==
  ASSUME CallsCounted, NEW t \in Timers, pending[t] = 0
  PROVE  Counted(t) = {}
  BY CountedIsFinite DEF CallsCounted


-----------------------------------------------------------------------------
(* Every step keeps the invariant: steps of the thread *)

\* What TypeOK says of threads, calls and deletions.
ThreadStates ==
  [at : {"apc", "top", "idle", "waiting", "fired", "check", "dispatch", "callback", "add",
         "mark", "finish", "delete", "gone"},
   timer : Timers \cup {Null}, waits : BOOLEAN]
CallStates ==
  [at : {"none", "queued", "running", "ran", "notify", "notifylast", "last", "mark"},
   timer : Timers \cup {Null}]
Deletions ==
  [at : {"out", "queue", "wait", "read", "block", "finish", "mark"},
   timer : Timers \cup {Null}, mode : Modes]

LEMMA Parties ==
  /\ Program # Queue /\ Program \notin Calls /\ Queue \notin Calls
  /\ Program \in Deleters /\ Queue \in Deleters /\ Calls \subseteq Deleters
  /\ \A d \in Deleters : d \in Calls \/ d = Program \/ d = Queue
  BY TimersAssumption DEF Deleters

\* The thread is in no deletion but those of its callbacks and of its end.
LEMMA QueueDeletes ==
  ASSUME TimersInv, thread.at \notin {"callback", "delete"}
  PROVE  deletion[Queue].at = "out" /\ deletion[Queue].timer = Null
  BY Parties DEF TimersInv, Deleting

\* Steps of the thread that leave timers and queue alone, before the end.
LEMMA ThreadMovesKeep ==
  ASSUME TimersInv,
         Top \/ Fire \/ Reset \/ Check \/ CallbackEnds \/ ApcsEnd \/ StartTimer
  PROVE  TimersInv'
<1>1. TypeOK /\ CallsCounted /\ QueueHolds /\ ThreadHolds /\ PhasesHold
    BY DEF TimersInv
<1>2. /\ UNCHANGED <<state, pending, cbEvent, freed, handle, timers, done, apcs, call,
                     deletion, others>>
      /\ armed' \in [Timers -> BOOLEAN]
    BY <1>1
       DEF TypeOK, Top, Wait, Fire, Reset, Check, CallbackEnds, ApcsEnd, StartTimer,
           Change, timerVars, queueVars, others
<1>3. Null \notin Timers /\ Listed \subseteq Timers
    BY <1>1, ListTypes
<1>4. /\ thread.at \in {"top", "waiting", "fired", "check", "callback", "apc", "add"}
      /\ thread.at = "apc" => apcs = <<>>
      /\ thread.at = "callback" => deletion[Queue].at = "out"
      /\ thread'.at \in {"apc", "top", "idle", "waiting", "fired", "check", "dispatch",
                         "callback"}
      /\ thread'.at \in {"check", "dispatch", "callback"} =>
           thread'.timer = thread.timer /\ thread'.timer \in Listed
      /\ thread'.at = "fired" => thread'.timer \in Listed \cup {Null}
      /\ thread'.at \in {"apc", "top", "idle", "waiting"} => thread'.timer = Null
      /\ thread'.at \in {"check", "dispatch"} => ~waitEvent'
      /\ thread'.at = "dispatch" => state[thread'.timer] = "ACTIVE"
      /\ thread'.waits \in BOOLEAN /\ waitEvent' \in BOOLEAN
    <2>1. CASE Top
        BY <1>1, <2>1 DEF TypeOK, Top, Wait
    <2>2. CASE Fire
        BY ZenonT(40), <1>1, <2>2 DEF TypeOK, Fire, ThreadTo, Listed, queueVars
    <2>3. CASE Reset
        BY <1>1, <2>3 DEF TypeOK, Reset, ThreadTo, ThreadHolds
    <2>4. CASE Check
        BY <1>1, <2>4 DEF TypeOK, Check, ThreadTo, ThreadHolds, Working
    <2>5. CASE CallbackEnds
        BY <1>1, <2>5 DEF TypeOK, CallbackEnds, ThreadTo, queueVars
    <2>6. CASE ApcsEnd
        BY <1>1, <2>6 DEF TypeOK, ApcsEnd, ThreadTo, queueVars
    <2>7. CASE StartTimer
        BY <1>1, <2>7 DEF TypeOK, StartTimer, Change, ThreadTo
    <2>. QED BY <2>1, <2>2, <2>3, <2>4, <2>5, <2>6, <2>7
<1>5. TypeOK'
  <2>1. \E at \in {"apc", "top", "idle", "waiting", "fired", "check", "dispatch",
                   "callback"}, t \in Timers \cup {Null}, w \in BOOLEAN :
          thread' = [at |-> at, timer |-> t, waits |-> w]
    <3>1. thread' = [at |-> thread'.at, timer |-> thread'.timer, waits |-> thread'.waits]
        BY <1>1
           DEF TypeOK, Top, Wait, Fire, Reset, Check, CallbackEnds, ApcsEnd, StartTimer,
               Change, ThreadTo
    <3>2. thread'.timer \in Timers \cup {Null}
        BY <1>3, <1>4
    <3>. QED BY <1>4, <3>1, <3>2
  <2>. QED BY <1>1, <1>2, <1>4, <2>1 DEF TypeOK, others
<1>6. QueueHolds' /\ CallsCounted'
    BY <1>1, <1>2 DEF QueueHolds, CallsCounted, Counted, others
<1>7. ThreadHolds'
    BY <1>2, <1>4 DEF ThreadHolds, Listed, Working
<1>8. ~Ending /\ ~Ending' /\ ~Finishing /\ ~Finishing'
  <2>1. apcs = <<>> => ~Queued("Terminate", Null)
      BY DEF Queued
  <2>2. ~Ending
      BY <1>1, <1>4, <2>1 DEF PhasesHold, Ending
  <2>. QED BY <1>2, <1>4, <2>2 DEF Ending, Finishing, Queued
<1>9. PhasesHold'
    BY <1>1, <1>2, <1>4, <1>8 DEF PhasesHold, Deleted, Queued, Finishing, others
<1>10. deletion[Queue].at = "out" /\ deletion[Queue].timer = Null
    BY <1>1, <1>4, QueueDeletes, Parties DEF TimersInv, Deleting
<1>11. ASSUME NEW t \in Timers PROVE TimerInv(t)'
  <2>1. InList(t) /\ RemovedOnce(t) /\ CallsEnd(t)
      BY DEF TimersInv, TimerInv
  <2>2. InList(t)'
      BY <1>2, <1>8, <2>1 DEF InList, Listed, Queued, others
  <2>3. RemovedOnce(t)'
      BY <1>2, <1>4, <2>1 DEF RemovedOnce, Removes, Waiting, Removing, Listed, Queued
  <2>4. CallsEnd(t)'
      BY <1>2, <1>4, <1>8, <2>1 DEF CallsEnd, Counted
  <2>. QED BY <2>2, <2>3, <2>4 DEF TimerInv
<1>12. ASSUME NEW d \in Deleters PROVE Deleting(d)'
  <2>1. Deleting(d)
      BY DEF TimersInv
  <2>. QED BY <1>2, <1>10, <2>1 DEF Deleting, Counted, others
<1>. QED BY <1>5, <1>6, <1>7, <1>9, <1>11, <1>12 DEF TimersInv


\* The thread queues a callback, or fails to.
LEMMA DispatchKeeps == ASSUME TimersInv, Dispatch PROVE TimersInv'
<1>1. TypeOK /\ CallsCounted /\ QueueHolds /\ ThreadHolds /\ PhasesHold
    BY DEF TimersInv
<1>2. PICK t \in Timers : t = thread.timer
    BY <1>1, ListTypes DEF Dispatch, DispatchCounting, ThreadHolds, Working
<1>3. /\ UNCHANGED <<options, state, cbEvent, armed, freed, handle, queueVars, deletion,
                     program, changes>>
      /\ thread.at = "dispatch" /\ ~waitEvent
      /\ thread' = [thread EXCEPT !.at = "top", !.timer = Null]
      /\ thread'.at = "top" /\ thread'.timer = Null
      /\ pending' = [pending EXCEPT ![t] = @ + 1]
    BY <1>1, <1>2 DEF TypeOK, Dispatch, DispatchCounting, ThreadTo, ThreadHolds
<1>4. \/ \E c \in Calls :
           /\ call[c].at = "none" /\ c \notin Counted(t)
           /\ call' = [call EXCEPT ![c] = [at |-> "queued", timer |-> t]]
           /\ uncounted' = uncounted
      \/ t \notin uncounted /\ uncounted' = uncounted \cup {t} /\ call' = call
    BY <1>2 DEF Dispatch, DispatchCounting, Counted
<1>5. /\ TypeOK' /\ CallsCounted'
      /\ \A u \in Timers : u # t => Counted(u)' = Counted(u)
      /\ \A c \in Calls : call[c].at # "none" => call'[c] = call[c]
  <2>1. CASE \E c \in Calls :
               /\ call[c].at = "none" /\ c \notin Counted(t)
               /\ call' = [call EXCEPT ![c] = [at |-> "queued", timer |-> t]]
               /\ uncounted' = uncounted
    <3>1. PICK c \in Calls :
            /\ call[c].at = "none" /\ c \notin Counted(t)
            /\ call' = [call EXCEPT ![c] = [at |-> "queued", timer |-> t]]
            /\ uncounted' = uncounted
        BY <2>1
    <3>2. /\ call'[c] = [at |-> "queued", timer |-> t]
          /\ \A b \in Calls : b # c => call'[b] = call[b]
        BY <1>1, <3>1 DEF TypeOK
    <3>3. Counted(t)' = Counted(t) \cup {c}
        BY <3>1, <3>2 DEF Counted
    <3>4. ASSUME NEW u \in Timers, u # t PROVE Counted(u)' = Counted(u)
        BY <3>1, <3>2, <3>4 DEF Counted
    <3>5. CallsCounted'
      <4>1. \A b \in Calls : call'[b].at # "none" => call'[b].timer \in Timers
          BY <1>1, <3>2 DEF CallsCounted
      <4>2. ASSUME NEW u \in Timers
            PROVE  pending'[u] = Cardinality(Counted(u)') + IF u \in uncounted' THEN 1 ELSE 0
        <5>1. pending[u] = Cardinality(Counted(u)) + IF u \in uncounted THEN 1 ELSE 0
            BY <1>1 DEF CallsCounted
        <5>2. CASE u = t
          <6>1. Cardinality(Counted(t)') = Cardinality(Counted(t)) + 1
              BY <3>1, <3>3, CountChanges
          <6>. QED BY <1>1, <1>3, <3>1, <5>1, <5>2, <6>1, CountedIsFinite DEF TypeOK
        <5>3. CASE u # t
            BY <1>1, <1>3, <3>1, <3>4, <5>1, <5>3 DEF TypeOK
        <5>. QED BY <5>2, <5>3
      <4>. QED BY <4>1, <4>2 DEF CallsCounted
    <3>6. call' \in [Calls -> CallStates]
        BY <1>1, <3>1 DEF TypeOK, CallStates
    <3>7. thread' \in ThreadStates
        BY <1>1, <1>3 DEF TypeOK, ThreadStates
    <3>8. pending' \in [Timers -> Nat]
        BY <1>1, <1>3 DEF TypeOK
    <3>9. TypeOK'
        BY <1>1, <1>3, <3>1, <3>6, <3>7, <3>8 DEF TypeOK, ThreadStates, CallStates, queueVars
    <3>. QED BY <3>1, <3>2, <3>4, <3>5, <3>9
  <2>2. CASE t \notin uncounted /\ uncounted' = uncounted \cup {t} /\ call' = call
    <3>1. \A u : Counted(u)' = Counted(u)
        BY <2>2 DEF Counted
    <3>2. CallsCounted'
      <4>1. ASSUME NEW u \in Timers
            PROVE  pending'[u] = Cardinality(Counted(u)') + IF u \in uncounted' THEN 1 ELSE 0
        <5>1. pending[u] = Cardinality(Counted(u)) + IF u \in uncounted THEN 1 ELSE 0
            BY <1>1 DEF CallsCounted
        <5>. QED BY <1>1, <1>3, <2>2, <3>1, <5>1, CountedIsFinite DEF TypeOK
      <4>. QED BY <1>1, <2>2, <4>1 DEF CallsCounted
    <3>3. thread' \in ThreadStates
        BY <1>1, <1>3 DEF TypeOK, ThreadStates
    <3>4. pending' \in [Timers -> Nat]
        BY <1>1, <1>3 DEF TypeOK
    <3>5. TypeOK'
        BY <1>1, <1>3, <2>2, <3>3, <3>4 DEF TypeOK, ThreadStates, queueVars
    <3>. QED BY <2>2, <3>1, <3>2, <3>5
  <2>. QED BY <1>4, <2>1, <2>2
<1>6. QueueHolds' /\ ThreadHolds'
    BY <1>1, <1>3 DEF QueueHolds, ThreadHolds, Working, queueVars
<1>7. ~Ending /\ ~Ending' /\ ~Finishing /\ ~Finishing'
    BY <1>1, <1>3 DEF PhasesHold, Ending, Finishing, Queued, queueVars
<1>8. PhasesHold'
    BY <1>1, <1>3, <1>7 DEF PhasesHold, Deleted, Queued, Finishing, queueVars
<1>9. deletion[Queue].at = "out" /\ deletion[Queue].timer = Null
    BY <1>3, QueueDeletes
<1>10. ASSUME NEW u \in Timers PROVE TimerInv(u)'
  <2>1. InList(u) /\ RemovedOnce(u) /\ CallsEnd(u)
      BY DEF TimersInv, TimerInv
  <2>2. InList(u)'
      BY <1>3, <1>7, <2>1 DEF InList, Listed, Queued, queueVars
  <2>3. RemovedOnce(u)'
      BY <1>3, <2>1 DEF RemovedOnce, Removes, Waiting, Removing, Listed, Queued, queueVars
  <2>4. u = t /\ handle[u] = "block" =>
          deletion[Program].timer = u /\ deletion[Program].at \notin {"finish", "mark"}
    <3>. SUFFICES ASSUME u = t, handle[u] = "block"
                  PROVE  deletion[Program].timer = u
                         /\ deletion[Program].at \notin {"finish", "mark"}
        OBVIOUS
    <3>1. state[u] # "ACTIVE"
        BY <2>1 DEF CallsEnd, Modes
    <3>2. PICK d \in Deleters : deletion[d].at \in {"queue", "wait"} /\ deletion[d].timer = u
        BY <1>2, <1>3, <2>1, <3>1 DEF CallsEnd
    <3>3. d \notin Calls /\ d # Queue
        BY <1>1, <1>9, <3>2, ListTypes DEF TimersInv, Deleting
    <3>. QED BY <3>2, <3>3, Parties
  <2>5. CallsEnd(u)'
      BY <1>2, <1>3, <1>5, <1>7, <2>1, <2>4 DEF CallsEnd, Modes
  <2>. QED BY <2>2, <2>3, <2>5 DEF TimerInv
<1>11. ASSUME NEW d \in Deleters PROVE Deleting(d)'
  <2>1. Deleting(d)
      BY DEF TimersInv
  <2>. QED BY <1>3, <1>5, <1>9, <2>1 DEF Deleting
<1>. QED BY <1>5, <1>6, <1>8, <1>10, <1>11 DEF TimersInv


\* The thread marks a timer that it has taken off the list.
LEMMA MarkKeeps == ASSUME TimersInv, Mark PROVE TimersInv'
<1>1. TypeOK /\ CallsCounted /\ QueueHolds /\ ThreadHolds /\ PhasesHold
    BY DEF TimersInv
<1>2. /\ UNCHANGED <<pending, cbEvent, armed, freed, handle, queueVars, call, deletion, others>>
      /\ thread.at = "mark" /\ thread' = [thread EXCEPT !.at = "apc", !.timer = Null]
      /\ thread'.at = "apc" /\ thread'.timer = Null
    BY <1>1 DEF TypeOK, Mark, ThreadTo
<1>3. ASSUME NEW t \in Timers
      PROVE  \/ state'[t] = state[t]
             \/ /\ thread.timer = t /\ state[t] = "UNREGISTERED" /\ state'[t] = "REMOVED"
                /\ t \notin Listed
    BY <1>1, <1>2 DEF TypeOK, Mark, Exchange, TimersInv, TimerInv, RemovedOnce, Removing
<1>4. TypeOK'
  <2>1. state' \in [Timers -> States]
      BY <1>1 DEF TypeOK, Mark, Exchange, States
  <2>2. thread' \in ThreadStates
      BY <1>1, <1>2 DEF TypeOK, ThreadStates
  <2>. QED BY <1>1, <1>2, <2>1, <2>2 DEF TypeOK, ThreadStates, queueVars, others
<1>5. CallsCounted' /\ QueueHolds' /\ ThreadHolds'
    BY <1>1, <1>2
       DEF CallsCounted, Counted, QueueHolds, ThreadHolds, Working, queueVars, others
<1>6. (Ending' <=> Ending) /\ ~Finishing /\ ~Finishing'
    BY <1>2 DEF Ending, Finishing, Queued, queueVars
<1>7. PhasesHold'
    BY <1>1, <1>2, <1>6 DEF PhasesHold, Deleted, Queued, Finishing, Listed, queueVars, others
<1>8. deletion[Queue].at = "out" /\ deletion[Queue].timer = Null
    BY <1>2, QueueDeletes
<1>9. ASSUME NEW t \in Timers PROVE TimerInv(t)'
  <2>1. InList(t) /\ RemovedOnce(t) /\ CallsEnd(t)
      BY DEF TimersInv, TimerInv
  <2>2. InList(t)'
      BY <1>2, <1>3, <1>6, <2>1 DEF InList, Listed, Queued, queueVars, others
  <2>3. RemovedOnce(t)'
      BY <1>2, <1>3, <2>1 DEF RemovedOnce, Removes, Waiting, Removing, Listed, Queued, queueVars
  <2>4. CallsEnd(t)'
      BY <1>2, <1>3, <1>6, <2>1 DEF CallsEnd, Counted
  <2>. QED BY <2>2, <2>3, <2>4 DEF TimerInv
<1>10. ASSUME NEW d \in Deleters PROVE Deleting(d)'
  <2>1. Deleting(d)
      BY DEF TimersInv
  <2>2. deletion[d].timer = Null \/ deletion[d].timer \in Timers
      BY <1>1, Parties DEF TypeOK
  <2>3. deletion[d].timer # Null /\ state[deletion[d].timer] # "ACTIVE" =>
          state'[deletion[d].timer] # "ACTIVE"
      BY <1>3, <2>2
  <2>. QED BY <1>2, <1>8, <2>1, <2>3 DEF Deleting, Counted, others
<1>. QED BY <1>4, <1>5, <1>7, <1>9, <1>10 DEF TimersInv

-----------------------------------------------------------------------------
(* Calls *)

\* In a call or in a deletion, a timer's state only moves on.
Moves(t) ==
  \/ state'[t] = state[t] /\ (t \in freed' <=> t \in freed)
  \/ /\ state[t] = "UNREGISTERED" /\ state'[t] = "DELETESYNC"
     /\ t \in freed' <=> t \in freed
  \/ state[t] = "REMOVED" /\ state'[t] = "GAMEOVER" /\ t \in freed'

LEMMA TimerMoves ==
  ASSUME NEW t \in Timers, InList(t), RemovedOnce(t), Moves(t),
         UNCHANGED <<handle, timers, apcs, thread, program>>,
         \A d \in Deleters : Removes(d, t)' <=> Removes(d, t)
  PROVE  InList(t)' /\ RemovedOnce(t)'
<1>1. InList(t)'
    BY DEF InList, Moves, Ending, Listed, Queued
<1>2. RemovedOnce(t)'
    BY DEF InList, RemovedOnce, Moves, Waiting, Removing, Listed, Queued
<1>. QED BY <1>1, <1>2

\* A call moves on, and is counted no longer if it ended.
LEMMA CallMovesKeep ==
  ASSUME TimersInv, NEW c \in Calls, CallStep(c)
  PROVE  TimersInv'
<1>1. TypeOK /\ CallsCounted /\ QueueHolds /\ ThreadHolds /\ PhasesHold
    BY DEF TimersInv
<1>2. call[c].at # "none" /\ call[c].timer \in Timers
    BY <1>1
       DEF CallStep, Start, Return, Decrement, Notify, EndLast, MarkForRemoval, CallsCounted
<1>3. PICK t \in Timers : t = call[c].timer
    BY <1>2
<1>4. /\ UNCHANGED <<armed, handle, queueVars, thread, deletion, others>>
      /\ \A b \in Calls : b # c => call'[b] = call[b]
      /\ \A u \in Timers : u # t => pending'[u] = pending[u]
    BY <1>1, <1>3
       DEF TypeOK, CallStep, Start, Return, Decrement, Notify, EndLast, MarkForRemoval,
           CallTo, EndCall, timerVars
<1>5. \/ /\ pending' = pending
         /\ \/ /\ call[c].at \in {"queued", "running"}
               /\ call'[c].at \in {"running", "ran"} /\ call'[c].timer = t
            \/ /\ call[c].at \in {"notify", "notifylast", "last", "mark"}
               /\ \/ call'[c] = [at |-> "none", timer |-> Null]
                  \/ call'[c].at \in {"last", "mark"} /\ call'[c].timer = t
      \/ /\ pending' = [pending EXCEPT ![t] = @ - 1]
         /\ call[c].at = "ran"
         /\ call'[c].at \in {"notify", "notifylast"} /\ call'[c].timer = t
  <2>1. CASE Start(c) \/ Return(c)
      BY <1>1, <1>3, <2>1 DEF TypeOK, Start, Return, CallTo, timerVars
  <2>2. CASE Decrement(c)
      BY <1>1, <1>3, <2>2 DEF TypeOK, Decrement, CallTo
  <2>3. CASE Notify(c)
      BY <1>1, <1>3, <2>3 DEF TypeOK, Notify, CallTo, EndCall
  <2>4. CASE EndLast(c)
      BY <1>1, <1>3, <2>4 DEF TypeOK, EndLast, CallTo, EndCall
  <2>5. CASE MarkForRemoval(c)
      BY <1>1, <1>3, <2>5 DEF TypeOK, MarkForRemoval, EndCall
  <2>. QED BY <2>1, <2>2, <2>3, <2>4, <2>5 DEF CallStep
<1>6. ASSUME NEW u \in Timers PROVE Moves(u)
    BY <1>1, <1>3
       DEF TypeOK, Moves, CallStep, Start, Return, Decrement, Notify, EndLast,
           MarkForRemoval, Exchange, Destroy, timerVars
<1>7. deletion[c].timer = Null
  <2>1. call[c].at # "running" \/ deletion[c].at = "out"
      BY DEF CallStep, Start, Return, Decrement, Notify, EndLast, MarkForRemoval
  <2>. QED BY <2>1, Parties DEF TimersInv, Deleting
<1>8. /\ call[c].at = "ran" => c \in Counted(t) /\ Counted(t)' = Counted(t) \ {c}
      /\ call[c].at # "ran" => Counted(t)' = Counted(t)
      /\ \A u \in Timers : u # t => Counted(u)' = Counted(u)
  <2>1. call[c].at = "ran" => c \in Counted(t) /\ Counted(t)' = Counted(t) \ {c}
      BY <1>3, <1>4, <1>5 DEF Counted
  <2>2. call[c].at # "ran" => Counted(t)' = Counted(t)
      BY <1>3, <1>4, <1>5 DEF Counted
  <2>3. ASSUME NEW u \in Timers, u # t PROVE Counted(u)' = Counted(u)
      BY <1>3, <1>4, <1>5, <2>3 DEF Counted
  <2>. QED BY <2>1, <2>2, <2>3
<1>9. CallsCounted'
  <2>1. ASSUME NEW b \in Calls, call'[b].at # "none" PROVE call'[b].timer \in Timers
      BY <1>1, <1>4, <1>5, <2>1 DEF CallsCounted
  <2>2. ASSUME NEW u \in Timers
        PROVE  pending'[u] = Cardinality(Counted(u)') + IF u \in uncounted' THEN 1 ELSE 0
    <3>1. pending[u] = Cardinality(Counted(u)) + IF u \in uncounted THEN 1 ELSE 0
        BY <1>1 DEF CallsCounted
    <3>2. CASE u # t \/ call[c].at # "ran"
        BY <1>4, <1>5, <1>8, <3>1, <3>2 DEF others
    <3>3. CASE u = t /\ call[c].at = "ran"
      <4>1. pending'[t] = pending[t] - 1
          BY <1>1, <1>5, <3>3 DEF TypeOK
      <4>2. Cardinality(Counted(t)') = Cardinality(Counted(t)) - 1
          BY <1>8, <3>3, CountChanges
      <4>3. uncounted' = uncounted
          BY <1>4 DEF others
      <4>. QED BY <3>1, <3>3, <4>1, <4>2, <4>3, CountedIsFinite
    <3>. QED BY <3>2, <3>3
  <2>. QED BY <2>1, <2>2 DEF CallsCounted
<1>10. TypeOK'
  <2>1. /\ state' \in [Timers -> States] /\ cbEvent' \in [Timers -> BOOLEAN]
        /\ freed' \subseteq Timers
      BY <1>1, <1>3
         DEF TypeOK, CallStep, Start, Return, Decrement, Notify, EndLast, MarkForRemoval,
             Exchange, Destroy, States, timerVars
  <2>2. call' \in [Calls -> CallStates]
    <3>1. \E at \in {"none", "running", "ran", "notify", "notifylast", "last", "mark"},
             u \in {t, Null} :
            call' = [call EXCEPT ![c] = [at |-> at, timer |-> u]]
      <4>1. \/ \E at \in {"running", "ran", "notify", "notifylast", "last", "mark"} :
                 call' = [call EXCEPT ![c].at = at]
            \/ call' = [call EXCEPT ![c] = [at |-> "none", timer |-> Null]]
          BY DEF CallStep, Start, Return, Decrement, Notify, EndLast, MarkForRemoval,
                 CallTo, EndCall
      <4>2. ASSUME NEW at, call' = [call EXCEPT ![c].at = at]
            PROVE  call' = [call EXCEPT ![c] = [at |-> at, timer |-> t]]
        <5>1. [call[c] EXCEPT !.at = at] = [at |-> at, timer |-> t]
            BY <1>1, <1>3 DEF TypeOK
        <5>. QED BY <4>2, <5>1
      <4>3. CASE \E at \in {"running", "ran", "notify", "notifylast", "last", "mark"} :
                   call' = [call EXCEPT ![c].at = at]
          BY <4>2, <4>3
      <4>4. CASE call' = [call EXCEPT ![c] = [at |-> "none", timer |-> Null]]
          BY <4>4
      <4>. QED BY <4>1, <4>3, <4>4
    <3>. QED BY <1>1, <3>1 DEF TypeOK, CallStates
  <2>3. pending' \in [Timers -> Nat]
    <3>1. call[c].at = "ran" => pending[t] - 1 \in Nat
      <4>1. call[c].at = "ran" => Cardinality(Counted(t)) # 0
          BY <1>8, CountedIsFinite
      <4>. QED BY <1>1, <4>1, CountedIsFinite DEF CallsCounted
    <3>. QED BY <1>1, <1>5, <3>1 DEF TypeOK
  <2>. QED BY <1>1, <1>4, <2>1, <2>2, <2>3 DEF TypeOK, CallStates, queueVars, others
<1>11. QueueHolds' /\ ThreadHolds'
    BY <1>1, <1>4 DEF QueueHolds, ThreadHolds, Working, Listed, queueVars
<1>12. (Ending' <=> Ending) /\ (Finishing' <=> Finishing)
    BY <1>4 DEF Ending, Finishing, Queued, queueVars
<1>13. \A u \in Timers : Counted(u) = {} => Counted(u)' = {}
    BY <1>8
<1>14. PhasesHold'
  <2>1. ASSUME NEW u \in Timers, Processed(u) PROVE Processed(u)'
      BY <1>4, <1>13, <2>1 DEF Processed, Queued, queueVars
  <2>2. \A k \in 1..Len(timers) : timers[k] \in Timers
      BY <1>1, ListTypes
  <2>3. thread.at = "delete" => thread.timer \in Timers
      BY <1>1, ListTypes DEF ThreadHolds, Working
  <2>4. /\ Finishing' =>
             \A k \in 1..Len(timers) :
               thread.timer = Null \/ (\E j \in 1..k-1 : timers[j] = thread.timer) =>
                 Processed(timers[k])'
        /\ thread.at = "delete" /\ deletion[Queue].at = "out" => Processed(thread.timer)'
    <3>1. thread' = thread /\ timers' = timers
        BY <1>4 DEF queueVars
    <3>. QED BY SMTT(30), <1>1, <1>12, <2>1, <2>2, <2>3, <3>1 DEF PhasesHold
  <2>. QED BY <1>1, <1>4, <1>12, <2>4
           DEF PhasesHold, Deleted, Queued, Listed, Processed, queueVars, others
<1>15. ASSUME NEW u \in Timers PROVE TimerInv(u)'
  <2>1. InList(u) /\ RemovedOnce(u) /\ CallsEnd(u)
      BY DEF TimersInv, TimerInv
  <2>2. InList(u)' /\ RemovedOnce(u)'
      BY <1>4, <1>6, <2>1, TimerMoves DEF Removes, queueVars, others
  <2>3. CallsEnd(u)'
      BY <1>4, <1>6, <1>12, <1>13, <2>1 DEF CallsEnd, Moves
  <2>. QED BY <2>2, <2>3 DEF TimerInv
<1>16. ASSUME NEW d \in Deleters PROVE Deleting(d)'
  <2>1. Deleting(d)
      BY DEF TimersInv
  <2>2. CASE deletion[d].timer = Null
      BY <1>4, <2>1, <2>2 DEF Deleting
  <2>3. CASE deletion[d].timer # Null
    <3>1. PICK u \in Timers : u = deletion[d].timer
        BY <1>1, <2>3, Parties DEF TypeOK
    <3>2. state'[u] # "ACTIVE" /\ (Counted(u) = {} => Counted(u)' = {})
      <4>1. state[u] # "ACTIVE"
          BY <2>1, <2>3, <3>1 DEF Deleting
      <4>. QED BY <1>6, <1>13, <3>1, <4>1 DEF Moves
    <3>3. d \in Calls => call'[d] = call[d]
        BY <1>4, <1>7, <2>3
    <3>. QED BY <1>4, <2>1, <3>1, <3>2, <3>3 DEF Deleting, others
  <2>. QED BY <2>2, <2>3
<1>. QED BY <1>9, <1>10, <1>11, <1>14, <1>15, <1>16 DEF TimersInv


-----------------------------------------------------------------------------
(* Deletions *)

\* A callback that deletes its timer is counted for it.
LEMMA DeleterIsCounted ==
  ASSUME TimersInv, NEW c \in Calls, deletion[c].timer # Null
  PROVE  c \in Counted(deletion[c].timer)
  BY Parties DEF TimersInv, Deleting, Counted

\* A deletion moves on, when the APC that removes the timer has been queued.
LEMMA DeletionMovesKeep ==
  ASSUME TimersInv, NEW d \in Deleters,
         PassWaitEvent(d) \/ ReadPending(d) \/ Block(d) \/ Finish(d) \/ FinishLater(d)
  PROVE  TimersInv'
<1>1. TypeOK /\ CallsCounted /\ QueueHolds /\ ThreadHolds /\ PhasesHold
    BY DEF TimersInv
<1>2. Deleting(d) /\ deletion[d] \in Deletions /\ deletion[d].at # "out"
    BY <1>1
       DEF TimersInv, TypeOK, Deletions, PassWaitEvent, ReadPending, Block, BlockWhile, Finish,
           DestroyIf, FinishLater
<1>3. PICK t \in Timers : t = deletion[d].timer
    BY <1>2 DEF Deleting, Deletions
<1>4. /\ UNCHANGED <<pending, armed, handle, queueVars, thread, call, others>>
      /\ \A e \in Deleters : e # d => deletion'[e] = deletion[e]
    BY <1>1
       DEF TypeOK, PassWaitEvent, ReadPending, Block, BlockWhile, Finish, DestroyIf,
           FinishLater, DeletionTo, DeletionEnds, timerVars
<1>5. \/ /\ deletion' = [deletion EXCEPT ![d] = [at |-> "out", timer |-> Null, mode |-> "leave"]]
         /\ deletion'[d] = [at |-> "out", timer |-> Null, mode |-> "leave"]
         /\ \/ deletion[d].at \in {"finish", "mark"}
            \/ deletion[d].at = "read" /\ deletion[d].mode = "leave"
      \/ \E at \in {"read", "block", "finish", "mark"} :
           /\ deletion' = [deletion EXCEPT ![d].at = at]
           /\ deletion'[d] = [deletion[d] EXCEPT !.at = at] /\ deletion'[d].at = at
           /\ \/ deletion[d].at = "wait" /\ at = "read" /\ waitEvent
              \/ deletion[d].at = "read" /\ at = "block" /\ deletion[d].mode # "leave"
              \/ deletion[d].at = "read" /\ at = "finish" /\ pending[t] = 0
              \/ deletion[d].at = "block" /\ at = "block"
              \/ deletion[d].at = "block" /\ at = "finish" /\ pending[t] = 0
              \/ deletion[d].at = "finish" /\ at = "mark"
  <2>1. pending[t] \in Nat /\ ~(pending[t] > 0) => pending[t] = 0
      OBVIOUS
  <2>2. pending[t] \in Nat
      BY <1>1 DEF TypeOK
  <2>3. CASE PassWaitEvent(d)
      BY <1>1, <2>3 DEF TypeOK, PassWaitEvent, DeletionTo
  <2>4. CASE ReadPending(d)
    <3>1. CASE pending[t] > 0 /\ deletion[d].mode = "leave"
        BY <1>1, <1>3, <2>4, <3>1 DEF TypeOK, ReadPending, DeletionEnds
    <3>2. CASE pending[t] > 0 /\ deletion[d].mode # "leave"
        BY <1>1, <1>3, <2>4, <3>2 DEF TypeOK, ReadPending, DeletionTo
    <3>3. CASE ~(pending[t] > 0)
      <4>1. deletion' = [deletion EXCEPT ![d].at = "finish"] /\ deletion[d].at = "read"
          BY <1>3, <2>4, <3>3 DEF ReadPending, DeletionTo
      <4>2. deletion'[d] = [deletion[d] EXCEPT !.at = "finish"] /\ deletion'[d].at = "finish"
          BY <1>1, <4>1 DEF TypeOK
      <4>. QED BY <2>1, <2>2, <3>3, <4>1, <4>2
    <3>. QED BY <3>1, <3>2, <3>3
  <2>5. CASE Block(d)
    <3>1. PICK at \in {"block", "finish"} :
            /\ deletion' = [deletion EXCEPT ![d].at = at] /\ deletion[d].at = "block"
            /\ at = "finish" => pending[t] = 0
        BY <1>3, <2>1, <2>2, <2>5 DEF Block, BlockWhile, DeletionTo
    <3>2. deletion'[d] = [deletion[d] EXCEPT !.at = at] /\ deletion'[d].at = at
        BY <1>1, <3>1 DEF TypeOK
    <3>. QED BY <3>1, <3>2
  <2>6. CASE Finish(d)
      BY ZenonT(40), <1>1, <2>6 DEF TypeOK, Finish, DestroyIf, DeletionTo, DeletionEnds
  <2>7. CASE FinishLater(d)
      BY <1>1, <2>7 DEF TypeOK, FinishLater, DeletionEnds
  <2>. QED BY <2>3, <2>4, <2>5, <2>6, <2>7
<1>6. ASSUME NEW u \in Timers PROVE Moves(u)
    BY <1>1, <1>3
       DEF TypeOK, Moves, PassWaitEvent, ReadPending, Block, BlockWhile, Finish, DestroyIf,
           FinishLater, Exchange, Destroy, timerVars
<1>7. /\ \A u : Counted(u)' = Counted(u)
      /\ pending[t] = 0 => Counted(t) = {}
    BY <1>1, <1>4, NonePending DEF Counted
<1>8. /\ deletion[d].at # "queue" /\ deletion'[d].at # "queue"
      /\ deletion'[d].at = "out" <=> deletion'[d].timer = Null
      /\ deletion'[d].at # "out" => deletion'[d].timer = t /\ deletion'[d].mode = deletion[d].mode
      /\ deletion'[d].at \in {"finish", "mark"} =>
           pending[t] = 0 \/ deletion[d].at \in {"finish", "mark"}
    BY <1>1, <1>2, <1>3, <1>5, ListTypes DEF Deletions
<1>9. TypeOK'
  <2>1. /\ state' \in [Timers -> States] /\ cbEvent' \in [Timers -> BOOLEAN]
        /\ freed' \subseteq Timers
      BY ZenonT(40), <1>1, <1>3
         DEF TypeOK, PassWaitEvent, ReadPending, Block, BlockWhile, Finish, DestroyIf,
             FinishLater, Exchange, Destroy, States, timerVars
  <2>2. deletion' \in [Deleters -> Deletions]
    <3>1. \E x \in Deletions : deletion' = [deletion EXCEPT ![d] = x]
      <4>1. [at |-> "out", timer |-> Null, mode |-> "leave"] \in Deletions
          BY DEF Deletions, Modes
      <4>2. ASSUME NEW at \in {"read", "block", "finish", "mark"}
            PROVE  [deletion[d] EXCEPT !.at = at] \in Deletions
          BY <1>2 DEF Deletions
      <4>. QED BY <1>5, <4>1, <4>2
    <3>. QED BY <1>1, <3>1 DEF TypeOK, Deletions
  <2>. QED BY <1>1, <1>4, <2>1, <2>2 DEF TypeOK, Deletions, queueVars, others
<1>10. QueueHolds' /\ ThreadHolds' /\ CallsCounted'
    BY <1>1, <1>4, <1>7
       DEF QueueHolds, ThreadHolds, CallsCounted, Working, Listed, queueVars, others
<1>11. (Ending' <=> Ending) /\ (Finishing' <=> Finishing)
    BY <1>4 DEF Ending, Finishing, Queued, queueVars
<1>12. \A e \in Deleters, u \in Timers : Removes(e, u)' <=> Removes(e, u)
    BY <1>4, <1>8 DEF Removes
<1>13. d = Queue /\ thread.at = "delete" /\ deletion'[d].at = "out" => Processed(t)
  <2> SUFFICES ASSUME d = Queue, thread.at = "delete", deletion'[d].at = "out"
               PROVE  Processed(t)
      OBVIOUS
  <2>1. deletion[d].mode = "block" /\ thread.timer = t
      BY <1>1, <1>2, <1>3, ListTypes DEF Deleting
  <2>2. deletion[d].at \in {"finish", "mark"}
      BY <1>5, <2>1
  <2>3. Counted(t) = {}
      BY <1>2, <1>3, <2>2 DEF Deleting
  <2>4. t \in Listed /\ state[t] # "ACTIVE"
      BY <1>1, <1>2, <1>3, <2>1, ListTypes DEF ThreadHolds, Working, Deleting
  <2>5. ASSUME NEW e \in Deleters, Removes(e, t) PROVE FALSE
    <3>1. deletion[e].timer = t /\ t # Null /\ e # Queue
        BY <1>1, <2>2, <2>5, ListTypes DEF Removes
    <3>2. e # Program
      <4>1. program # "out"
          BY <1>1 DEF PhasesHold, Finishing, Deleted
      <4>. QED BY <3>1, <4>1 DEF TimersInv, Deleting
    <3>3. e \in Calls
        BY <3>1, <3>2, Parties
    <3>4. e \in Counted(deletion[e].timer)
        BY <3>1, <3>3, DeleterIsCounted
    <3>. QED BY <2>3, <3>1, <3>4
  <2>6. Queued("Remove", t)
      BY <2>4, <2>5 DEF TimersInv, TimerInv, RemovedOnce
  <2>. QED BY <2>3, <2>6 DEF Processed
<1>14. PhasesHold'
  <2>1. ASSUME NEW u PROVE Processed(u)' <=> Processed(u)
      BY <1>4, <1>7 DEF Processed, Queued, queueVars
  <2>2. thread.at = "delete" /\ deletion'[Queue].at = "out" => Processed(thread.timer)
    <3>1. CASE d = Queue
        BY <1>1, <1>2, <1>3, <1>13, <3>1, ListTypes DEF Deleting
    <3>2. CASE d # Queue
        BY <1>1, <1>4, <3>2, Parties DEF PhasesHold
    <3>. QED BY <3>1, <3>2
  <2>3. thread' = thread /\ timers' = timers
      BY <1>4 DEF queueVars
  <2>4. /\ Finishing' =>
             \A k \in 1..Len(timers) :
               thread.timer = Null \/ (\E j \in 1..k-1 : timers[j] = thread.timer) =>
                 Processed(timers[k])'
        /\ thread.at = "delete" /\ deletion'[Queue].at = "out" => Processed(thread.timer)'
    <3>1. \A k \in 1..Len(timers) : Processed(timers[k])' <=> Processed(timers[k])
        BY <1>4, <1>7, <2>3 DEF Processed, Queued, queueVars
    <3>2. Processed(thread.timer)' <=> Processed(thread.timer)
        BY <1>4, <1>7, <2>3 DEF Processed, Queued, queueVars
    <3>. QED BY <1>1, <1>11, <2>2, <3>1, <3>2 DEF PhasesHold
  <2>. QED BY <1>1, <1>4, <1>11, <2>3, <2>4
           DEF PhasesHold, Deleted, Queued, Listed, queueVars, others
<1>15. ASSUME NEW u \in Timers PROVE TimerInv(u)'
  <2>1. InList(u) /\ RemovedOnce(u) /\ CallsEnd(u)
      BY DEF TimersInv, TimerInv
  <2>2. InList(u)' /\ RemovedOnce(u)'
      BY <1>4, <1>6, <1>12, <2>1, TimerMoves DEF queueVars, others
  <2>3. (state'[u] # "ACTIVE" <=> state[u] # "ACTIVE") /\ handle' = handle /\ thread' = thread
      BY <1>4, <1>6 DEF Moves
  <2>4. thread.at = "dispatch" /\ thread.timer = u /\ state[u] # "ACTIVE" =>
          \E e \in Deleters : deletion'[e].at \in {"queue", "wait"} /\ deletion'[e].timer = u
    <3> SUFFICES ASSUME thread.at = "dispatch", thread.timer = u, state[u] # "ACTIVE"
                 PROVE  \E e \in Deleters :
                          deletion'[e].at \in {"queue", "wait"} /\ deletion'[e].timer = u
        OBVIOUS
    <3>1. PICK e \in Deleters : deletion[e].at \in {"queue", "wait"} /\ deletion[e].timer = u
        BY <2>1 DEF CallsEnd
    <3>2. ~waitEvent
        BY <1>1 DEF ThreadHolds
    <3>3. e # d
        BY <1>5, <3>1, <3>2
    <3>. QED BY <1>4, <3>1, <3>3
  <2>5. handle[u] = "block" =>
          \/ deletion'[Program].timer = u /\ deletion'[Program].at \notin {"finish", "mark"}
          \/ Counted(u) = {}
    <3> SUFFICES ASSUME handle[u] = "block", Counted(u) # {}
                 PROVE  deletion'[Program].timer = u
                        /\ deletion'[Program].at \notin {"finish", "mark"}
        OBVIOUS
    <3>1. deletion[Program].timer = u /\ deletion[Program].at \notin {"finish", "mark"}
        BY <2>1 DEF CallsEnd
    <3>2. CASE d # Program
        BY <1>4, <3>1, <3>2, Parties
    <3>3. CASE d = Program
      <4>1. u = t /\ deletion[d].mode = "block" /\ pending[t] # 0
          BY <1>1, <1>2, <1>3, <1>7, <3>1, <3>3, ListTypes DEF Deleting
      <4>2. deletion'[d].at # "out"
          BY <1>5, <3>1, <3>3, <4>1
      <4>. QED BY <1>8, <3>1, <3>3, <4>1, <4>2
    <3>. QED BY <3>2, <3>3
  <2>6. CallsEnd(u)'
      BY <1>7, <1>11, <2>1, <2>3, <2>4, <2>5 DEF CallsEnd
  <2>. QED BY <2>2, <2>6 DEF TimerInv
<1>16. ASSUME NEW e \in Deleters, e # d PROVE Deleting(e)'
  <2>1. Deleting(e) /\ deletion'[e] = deletion[e]
      BY <1>4, <1>16 DEF TimersInv
  <2>2. CASE deletion[e].timer = Null
      BY <1>4, <2>1, <2>2 DEF Deleting
  <2>3. CASE deletion[e].timer # Null
    <3>1. PICK u \in Timers : u = deletion[e].timer
        BY <1>1, <2>3 DEF TypeOK
    <3>2. state'[u] # "ACTIVE"
        BY <1>6, <2>1, <2>3, <3>1 DEF Deleting, Moves
    <3>. QED BY <1>4, <1>7, <2>1, <3>1, <3>2 DEF Deleting, others
  <2>. QED BY <2>2, <2>3
<1>17. Deleting(d)'
  <2>1. CASE deletion'[d].at = "out"
      BY <1>8, <2>1 DEF Deleting
  <2>2. CASE deletion'[d].at # "out"
    <3>1. deletion'[d].timer = t /\ deletion'[d].mode = deletion[d].mode /\ t # Null
        BY <1>1, <1>8, <2>2, ListTypes
    <3>2. state'[t] # "ACTIVE"
        BY <1>2, <1>3, <1>6, <3>1 DEF Deleting, Moves
    <3>3. d \in Calls => deletion'[d].at = "read"
      <4> SUFFICES ASSUME d \in Calls PROVE deletion'[d].at = "read"
          OBVIOUS
      <4>1. Counted(t) # {}
          BY <1>3, <3>1, DeleterIsCounted
      <4>2. deletion[d].mode = "leave" /\ deletion[d].at \in {"queue", "wait", "read"}
          BY <1>2, <1>3, <3>1 DEF Deleting
      <4>. QED BY <1>5, <1>7, <2>2, <4>1, <4>2
    <3>4. d = Queue /\ thread.at = "delete" /\ deletion'[d].at \in {"finish", "mark"} =>
            Counted(t) = {}
        BY <1>2, <1>3, <1>7, <1>8 DEF Deleting
    <3>. QED BY <1>2, <1>3, <1>4, <1>7, <2>2, <3>1, <3>2, <3>3, <3>4 DEF Deleting, others
  <2>. QED BY <2>1, <2>2
<1>. QED BY <1>9, <1>10, <1>14, <1>15, <1>16, <1>17 DEF TimersInv


\* The program, a callback or the queue's thread begins to delete a timer.
Starts(d, t, mode) ==
  /\ StartDelete(d, t, mode) /\ deletion[d].at = "out"
  /\ \/ /\ handle[t] = "held" /\ handle' = [handle EXCEPT ![t] = mode]
        /\ thread' = thread
        /\ \/ d = Program /\ program = "out"
           \/ d \in Calls /\ call[d].at = "running" /\ call[d].timer = t /\ mode = "leave"
           \/ d = Queue /\ thread.at = "callback" /\ thread.timer = t /\ mode = "leave"
     \/ /\ d = Queue /\ thread.at = "finish" /\ thread.timer = t /\ mode = "block"
        /\ ThreadTo("delete", t) /\ handle' = handle
  /\ UNCHANGED <<pending, cbEvent, armed, freed, queueVars, call, others>>

LEMMA StartKeeps ==
  ASSUME TimersInv, NEW d \in Deleters, NEW t \in Timers, NEW mode \in Modes,
         Starts(d, t, mode)
  PROVE  TimersInv'
<1>1. TypeOK /\ CallsCounted /\ QueueHolds /\ ThreadHolds /\ PhasesHold
    BY DEF TimersInv
<1>2. /\ UNCHANGED <<pending, cbEvent, armed, freed, queueVars, call, others>>
      /\ deletion[d].at = "out" /\ deletion[d].timer = Null
      /\ deletion'[d] = [at |-> IF state[t] = "ACTIVE" THEN "queue" ELSE "read",
                         timer |-> t, mode |-> mode]
      /\ \A e \in Deleters : e # d => deletion'[e] = deletion[e]
      /\ t \notin freed
      /\ state[t] = "ACTIVE" => state'[t] = "UNREGISTERED"
      /\ state[t] # "ACTIVE" => state'[t] = state[t]
      /\ \A u \in Timers : u # t => state'[u] = state[u] /\ handle'[u] = handle[u]
      /\ \/ thread' = thread /\ handle[t] = "held" /\ handle'[t] = mode
         \/ /\ d = Queue /\ thread.at = "finish" /\ thread.timer = t /\ mode = "block"
            /\ thread'.at = "delete" /\ thread'.timer = t /\ handle' = handle
      /\ t # Null /\ state'[t] # "ACTIVE"
  <2>1. /\ UNCHANGED <<pending, cbEvent, armed, freed, queueVars, call, others>>
        /\ deletion[d].at = "out" /\ t \notin freed
        /\ Exchange(t, "UNREGISTERED", "ACTIVE")
        /\ deletion' = [deletion EXCEPT ![d] =
             [at |-> IF state[t] = "ACTIVE" THEN "queue" ELSE "read", timer |-> t,
              mode |-> mode]]
      BY DEF Starts, StartDelete, Alive
  <2>2. deletion[d].timer = Null /\ t # Null
      BY <1>1, <2>1, ListTypes DEF TimersInv, Deleting
  <2>3. /\ deletion'[d] = [at |-> IF state[t] = "ACTIVE" THEN "queue" ELSE "read",
                           timer |-> t, mode |-> mode]
        /\ \A e \in Deleters : e # d => deletion'[e] = deletion[e]
      BY <1>1, <2>1 DEF TypeOK
  <2>4. /\ state[t] = "ACTIVE" => state'[t] = "UNREGISTERED"
        /\ state[t] # "ACTIVE" => state'[t] = state[t]
        /\ \A u \in Timers : u # t => state'[u] = state[u]
      BY <1>1, <2>1 DEF TypeOK, Exchange
  <2>5. /\ \A u \in Timers : u # t => handle'[u] = handle[u]
        /\ \/ thread' = thread /\ handle[t] = "held" /\ handle'[t] = mode
           \/ /\ d = Queue /\ thread.at = "finish" /\ thread.timer = t /\ mode = "block"
              /\ thread'.at = "delete" /\ thread'.timer = t /\ handle' = handle
      BY <1>1 DEF TypeOK, Starts, ThreadTo
  <2>. QED BY <2>1, <2>2, <2>3, <2>4, <2>5
<1>3. /\ ThreadHolds' /\ QueueHolds' /\ CallsCounted'
      /\ \A u : Counted(u)' = Counted(u)
    BY <1>1, <1>2
       DEF ThreadHolds, QueueHolds, CallsCounted, Counted, Working, Listed, queueVars, others
<1>4. (Ending' <=> Ending) /\ (Finishing' <=> Finishing)
    BY <1>1, <1>2 DEF PhasesHold, Ending, Finishing, Queued, queueVars
<1>5. TypeOK'
  <2>1. state' \in [Timers -> States]
      BY <1>1 DEF TypeOK, Starts, StartDelete, Exchange, States
  <2>2. handle' \in [Timers -> Handles]
      BY ZenonT(40), <1>1 DEF TypeOK, Starts, Handles, Modes
  <2>3. thread' \in ThreadStates
      BY <1>1 DEF TypeOK, Starts, ThreadTo, ThreadStates
  <2>4. deletion' \in [Deleters -> Deletions]
    <3>1. \E x \in Deletions : deletion' = [deletion EXCEPT ![d] = x]
      <4>1. [at |-> IF state[t] = "ACTIVE" THEN "queue" ELSE "read", timer |-> t, mode |-> mode]
              \in Deletions
          BY DEF Deletions
      <4>. QED BY <4>1 DEF Starts, StartDelete
    <3>. QED BY <1>1, <3>1 DEF TypeOK, Deletions
  <2>. QED BY <1>1, <1>2, <2>1, <2>2, <2>3, <2>4
           DEF TypeOK, ThreadStates, Deletions, queueVars, others
<1>6. PhasesHold'
  <2>1. thread'.at = thread.at \/ (thread.at = "finish" /\ thread'.at = "delete")
      BY <1>2
  <2>2. thread'.timer = thread.timer /\ timers' = timers
      BY <1>2 DEF queueVars
  <2>3. thread'.at = "delete" /\ deletion'[Queue].at = "out" => Processed(thread.timer)
    <3>1. CASE d = Queue
        BY <1>2, <3>1
    <3>2. CASE d # Queue
        BY <1>1, <1>2, <3>2, Parties DEF PhasesHold
    <3>. QED BY <3>1, <3>2
  <2>4. /\ Finishing' =>
             \A k \in 1..Len(timers) :
               thread.timer = Null \/ (\E j \in 1..k-1 : timers[j] = thread.timer) =>
                 Processed(timers[k])'
        /\ thread'.at = "delete" /\ deletion'[Queue].at = "out" => Processed(thread.timer)'
    <3>1. \A k \in 1..Len(timers) : Processed(timers[k])' <=> Processed(timers[k])
        BY <1>2, <1>3, <2>2 DEF Processed, Queued, queueVars
    <3>2. Processed(thread.timer)' <=> Processed(thread.timer)
        BY <1>2, <1>3, <2>2 DEF Processed, Queued, queueVars
    <3>. QED BY <1>1, <1>4, <2>2, <2>3, <3>1, <3>2 DEF PhasesHold
  <2>5. \A q, u : Queued(q, u)' <=> Queued(q, u)
      BY <1>2 DEF Queued, queueVars
  <2>. QED BY <1>1, <1>2, <1>4, <2>1, <2>2, <2>4, <2>5
           DEF PhasesHold, Deleted, Listed, queueVars, others
<1>7. state[t] = "ACTIVE" => t \in Listed
  <2>1. InList(t) /\ CallsEnd(t)
      BY DEF TimersInv, TimerInv
  <2>2. CASE thread.at = "finish" /\ thread.timer = t
      BY <1>1, <1>2, <2>2 DEF ThreadHolds
  <2>3. CASE handle[t] = "held"
    <3>1. CASE d = Program /\ program = "out"
        BY <1>1, <2>1, <2>3, <3>1 DEF InList, PhasesHold, Deleted
    <3>2. CASE d \in Calls /\ call[d].at = "running" /\ call[d].timer = t
        BY <2>1, <2>3, <3>2 DEF InList, CallsEnd, Counted
    <3>3. CASE thread.at = "callback" /\ thread.timer = t
        BY <1>1, <3>3 DEF ThreadHolds, Working
    <3>. QED BY <1>2, <2>2, <2>3, <3>1, <3>2, <3>3 DEF Starts
  <2>. QED BY <1>2, <2>2, <2>3
<1>8. ASSUME NEW u \in Timers PROVE TimerInv(u)'
  <2>1. InList(u) /\ RemovedOnce(u) /\ CallsEnd(u)
      BY DEF TimersInv, TimerInv
  <2>2. InList(t) /\ RemovedOnce(t)
      BY DEF TimersInv, TimerInv
  <2>3. /\ \A q, v : Queued(q, v)' <=> Queued(q, v)
        /\ Listed' = Listed /\ program' = program /\ freed' = freed
      BY <1>2 DEF Queued, Listed, queueVars, others
  <2>4. handle'[u] # handle[u] => u = t /\ handle[u] = "held" /\ handle'[u] \in Modes
      BY <1>2
  <2>5. InList(u)'
    <3>1. state'[u] # state[u] => u = t /\ state[u] = "ACTIVE" /\ state'[u] = "UNREGISTERED"
        BY <1>2
    <3>2. handle[u] = "held" => handle'[u] \notin {"none", "refused"}
        BY <2>4 DEF Modes
    <3>. QED BY <1>4, <1>7, <2>1, <2>3, <2>4, <3>1, <3>2 DEF InList, Modes
  <2>6. ASSUME NEW e \in Deleters
        PROVE  Removes(e, u)' <=> Removes(e, u) \/ (e = d /\ u = t /\ state[t] = "ACTIVE")
      BY <1>2 DEF Removes
  <2>7. RemovedOnce(u)'
    <3>1. Removing(u)' <=> Removing(u)
        BY <1>2 DEF Removing
    <3>2. CASE u = t /\ state[t] = "ACTIVE"
      <4>1. /\ ~Queued("Remove", t) /\ ~Removing(t)
            /\ \A e \in Deleters : ~Removes(e, t)
          BY <2>2, <3>2 DEF RemovedOnce, Waiting
      <4>. QED BY <1>2, <1>7, <2>3, <2>6, <3>1, <3>2, <4>1 DEF RemovedOnce, Waiting
    <3>3. CASE ~(u = t /\ state[t] = "ACTIVE")
      <4>1. state'[u] = state[u]
          BY <1>2, <3>3
      <4>. QED BY <2>1, <2>3, <2>6, <3>1, <3>3, <4>1 DEF RemovedOnce, Waiting
    <3>. QED BY <3>2, <3>3
  <2>8. thread'.at = "dispatch" /\ thread'.timer = u /\ state'[u] # "ACTIVE" =>
          \E e \in Deleters : deletion'[e].at \in {"queue", "wait"} /\ deletion'[e].timer = u
    <3> SUFFICES ASSUME thread'.at = "dispatch", thread'.timer = u, state'[u] # "ACTIVE"
                 PROVE  \E e \in Deleters :
                          deletion'[e].at \in {"queue", "wait"} /\ deletion'[e].timer = u
        OBVIOUS
    <3>1. CASE state[u] = "ACTIVE"
        BY <1>2, <3>1
    <3>2. CASE state[u] # "ACTIVE"
      <4>1. PICK e \in Deleters :
              deletion[e].at \in {"queue", "wait"} /\ deletion[e].timer = u
          BY <1>2, <2>1, <3>2 DEF CallsEnd
      <4>. QED BY <1>2, <4>1
    <3>. QED BY <3>1, <3>2
  <2>9. handle'[u] = "block" =>
          \/ deletion'[Program].timer = u /\ deletion'[Program].at \notin {"finish", "mark"}
          \/ Counted(u) = {}
    <3>1. CASE handle'[u] # handle[u] /\ handle'[u] = "block"
        BY <1>2, <2>4, <3>1 DEF Starts
    <3>2. CASE handle'[u] = handle[u] /\ d # Program
        BY <1>2, <2>1, <3>2, Parties DEF CallsEnd
    <3>3. CASE handle'[u] = handle[u] /\ d = Program
        BY <1>1, <1>2, <2>1, <3>3, ListTypes DEF CallsEnd
    <3>. QED BY <3>1, <3>2, <3>3
  <2>10. handle'[u] \in Modes => state'[u] # "ACTIVE"
      BY <1>2, <2>1, <2>4 DEF CallsEnd
  <2>11. handle'[u] = "held" =>
           /\ handle[u] = "held"
           /\ state'[u] # "ACTIVE" => Finishing \/ Ending
      BY <1>2, <2>1, <2>4 DEF CallsEnd, Modes, Finishing
  <2>12. CallsEnd(u)'
      BY <1>3, <1>4, <2>1, <2>8, <2>9, <2>10, <2>11 DEF CallsEnd
  <2>. QED BY <2>5, <2>7, <2>12 DEF TimerInv
<1>9. ASSUME NEW e \in Deleters, e # d PROVE Deleting(e)'
  <2>1. Deleting(e) /\ deletion'[e] = deletion[e]
      BY <1>2, <1>9 DEF TimersInv
  <2>2. CASE deletion[e].timer = Null
      BY <1>2, <2>1, <2>2 DEF Deleting
  <2>3. CASE deletion[e].timer # Null
    <3>1. PICK u \in Timers : u = deletion[e].timer
        BY <1>1, <2>3 DEF TypeOK
    <3>2. state'[u] # "ACTIVE" /\ handle'[u] \notin {"none", "refused"}
        BY <1>2, <2>1, <2>3, <3>1 DEF Deleting, Modes
    <3>3. thread' = thread \/ e # Queue
        BY <1>2, <1>9
    <3>4. \/ handle'[u] = handle[u]
          \/ handle[u] = "held" /\ e = Queue /\ thread.at = "delete"
      <4>1. handle'[u] # handle[u] => handle[u] = "held"
          BY <1>2
      <4>2. deletion[e].mode \in Modes
          BY <1>1 DEF TypeOK
      <4>. QED BY <2>1, <2>3, <3>1, <4>1, <4>2, Parties DEF Deleting, Modes
    <3>. QED BY <1>2, <1>3, <2>1, <2>3, <3>1, <3>2, <3>3, <3>4, Parties
             DEF Deleting, others
  <2>. QED BY <2>2, <2>3
<1>10. Deleting(d)'
  <2>1. handle'[t] \notin {"none", "refused"}
    <3>1. thread.at = "finish" /\ thread.timer = t => t \in Listed
        BY <1>1, <1>2 DEF ThreadHolds
    <3>. QED BY <1>2, <3>1 DEF TimersInv, TimerInv, InList, Modes
  <2>2. d \in Calls => call[d].at = "running" /\ call[d].timer = t /\ mode = "leave"
                       /\ handle'[t] = "leave"
      BY <1>2, Parties DEF Starts
  <2>3. d = Program => program = "out" /\ handle'[t] = mode
      BY <1>2, Parties DEF Starts
  <2>4. d = Queue =>
          /\ thread'.timer = t
          /\ \/ thread'.at = "callback" /\ mode = "leave" /\ handle'[t] = "leave"
             \/ thread'.at = "delete" /\ mode = "block"
      BY <1>2, Parties DEF Starts
  <2>. QED BY <1>2, <2>1, <2>2, <2>3, <2>4 DEF Deleting, others
<1>. QED BY <1>3, <1>5, <1>6, <1>8, <1>9, <1>10 DEF TimersInv

LEMMA StartsKeep ==
  ASSUME TimersInv,
         \/ FinishOne \/ CallbackDeletes
         \/ \E t \in Timers, mode \in Modes : Delete(t, mode)
  PROVE  TimersInv'
<1>1. TypeOK /\ ThreadHolds /\ CallsCounted
    BY DEF TimersInv
<1>2. CASE FinishOne
  <2>1. PICK t \in Timers : t = thread.timer
      BY <1>1, <1>2, ListTypes DEF FinishOne, ThreadHolds
  <2>2. deletion[Queue].at = "out"
      BY <1>2, QueueDeletes DEF FinishOne
  <2>3. Starts(Queue, t, "block")
      BY <1>2, <2>1, <2>2 DEF FinishOne, Starts
  <2>. QED BY <2>3, StartKeeps, Parties DEF Modes
<1>3. CASE CallbackDeletes
  <2>1. CASE \E c \in Calls : call[c].at = "running" /\ DeleteOwn(c, call[c].timer)
    <3>1. PICK c \in Calls : call[c].at = "running" /\ DeleteOwn(c, call[c].timer)
        BY <2>1
    <3>2. PICK t \in Timers : t = call[c].timer
        BY <1>1, <3>1 DEF CallsCounted
    <3>3. Starts(c, t, "leave")
        BY <3>1, <3>2 DEF DeleteOwn, GiveUp, Starts
    <3>. QED BY <3>3, StartKeeps, Parties DEF Modes
  <2>2. CASE thread.at = "callback" /\ DeleteOwn(Queue, thread.timer)
    <3>1. PICK t \in Timers : t = thread.timer
        BY <1>1, <2>2, ListTypes DEF ThreadHolds, Working
    <3>2. Starts(Queue, t, "leave")
        BY <2>2, <3>1 DEF DeleteOwn, GiveUp, Starts
    <3>. QED BY <3>2, StartKeeps, Parties DEF Modes
  <2>. QED BY <1>3, <2>1, <2>2 DEF CallbackDeletes
<1>4. CASE \E t \in Timers, mode \in Modes : Delete(t, mode)
  <2>1. PICK t \in Timers, mode \in Modes : Delete(t, mode)
      BY <1>4
  <2>2. Starts(Program, t, mode)
      BY <2>1 DEF Delete, Idle, GiveUp, Starts
  <2>. QED BY <2>2, StartKeeps, Parties
<1>. QED BY <1>2, <1>3, <1>4


LEMMA ApcTypes == TypeOK => apcs \in Seq(Apcs)
  BY DEF TypeOK, Apcs

\* The APC is queued that removes the timer; the queue does not end before.
LEMMA QueueRemoveKeeps ==
  ASSUME TimersInv, NEW d \in Deleters, QueueRemove(d)
  PROVE  TimersInv'
<1>1. TypeOK /\ CallsCounted /\ QueueHolds /\ ThreadHolds /\ PhasesHold /\ Deleting(d)
    BY DEF TimersInv
<1>2. PICK t \in Timers : t = deletion[d].timer
    BY <1>1 DEF TypeOK, Deleting, QueueRemove
<1>3. /\ UNCHANGED <<timerVars, timers, waitEvent, done, thread, call, others>>
      /\ deletion[d].at = "queue" /\ thread.at # "gone"
      /\ deletion' = [deletion EXCEPT ![d].at = "wait"]
      /\ deletion'[d] = [deletion[d] EXCEPT !.at = "wait"]
      /\ deletion'[d].at = "wait" /\ deletion'[d].timer = t
      /\ deletion'[d].mode = deletion[d].mode
      /\ \A e \in Deleters : e # d => deletion'[e] = deletion[e]
    BY <1>1, <1>2 DEF TypeOK, QueueRemove, DeletionTo
<1>4. Removes(d, t)
    BY <1>2, <1>3 DEF Removes
<1>5. /\ t \in Listed /\ ~Queued("Remove", t) /\ Waiting(t)
      /\ \A e \in Deleters : Removes(e, t) => e = d
    BY <1>4 DEF TimersInv, TimerInv, RemovedOnce
<1>6. ~Ending
    BY <1>1, <1>5 DEF PhasesHold
<1>7. /\ apcs' \in Seq(Apcs) /\ QueueHolds'
      /\ \A q, u : Queued(q, u)' <=> Queued(q, u) \/ (q = "Remove" /\ u = t)
  <2>1. QueueUserAPC("Remove", t) /\ t # Null /\ ~Queued("Terminate", Null)
      BY <1>1, <1>2, <1>6, ListTypes DEF QueueRemove, Ending
  <2>2. [proc |-> "Remove", timer |-> t] \in Apcs
      BY DEF Apcs
  <2>. QED BY <1>1, <1>5, <2>1, <2>2, Enqueue, ApcTypes
<1>8. TypeOK'
  <2>1. deletion' \in [Deleters -> Deletions]
      BY <1>1, <1>3 DEF TypeOK, Deletions
  <2>. QED BY <1>1, <1>3, <1>7, <2>1 DEF TypeOK, Deletions, Apcs, timerVars, others
<1>9. /\ CallsCounted' /\ ThreadHolds'
      /\ \A u : Counted(u)' = Counted(u)
    BY <1>1, <1>3 DEF CallsCounted, Counted, ThreadHolds, Working, Listed, timerVars, others
<1>10. ~Ending' /\ (Finishing' <=> Finishing)
    BY <1>3, <1>6, <1>7 DEF Ending, Finishing
<1>11. PhasesHold'
  <2>1. thread' = thread /\ timers' = timers
      BY <1>3
  <2>2. \A u : Processed(u) => Processed(u)'
      BY <1>7, <1>9 DEF Processed
  <2>3. thread.at = "delete" /\ deletion'[Queue].at = "out" => Processed(thread.timer)
      BY <1>1, <1>3, Parties DEF PhasesHold
  <2>4. /\ Finishing' =>
             \A k \in 1..Len(timers) :
               thread.timer = Null \/ (\E j \in 1..k-1 : timers[j] = thread.timer) =>
                 Processed(timers[k])'
        /\ thread.at = "delete" /\ deletion'[Queue].at = "out" => Processed(thread.timer)'
    <3>1. \A k \in 1..Len(timers) : Processed(timers[k]) => Processed(timers[k])'
        BY <1>7, <1>9, <2>1 DEF Processed
    <3>2. Processed(thread.timer) => Processed(thread.timer)'
        BY <1>7, <1>9, <2>1 DEF Processed
    <3>. QED BY <1>1, <1>10, <2>3, <3>1, <3>2 DEF PhasesHold
  <2>. QED BY <1>1, <1>3, <1>6, <1>7, <1>10, <2>1, <2>4 DEF PhasesHold, Deleted, others
<1>12. ASSUME NEW u \in Timers PROVE TimerInv(u)'
  <2>1. InList(u) /\ RemovedOnce(u) /\ CallsEnd(u)
      BY DEF TimersInv, TimerInv
  <2>2. InList(u)'
      BY <1>3, <1>6, <1>7, <1>10, <2>1 DEF InList, Listed, timerVars, others
  <2>3. ASSUME NEW e \in Deleters PROVE Removes(e, u)' <=> Removes(e, u) /\ e # d
      BY <1>3 DEF Removes
  <2>4. RemovedOnce(u)'
    <3>1. Listed' = Listed /\ (Waiting(u)' <=> Waiting(u)) /\ (Removing(u)' <=> Removing(u))
          /\ state' = state
        BY <1>3 DEF Listed, Waiting, Removing, timerVars
    <3>2. \A e \in Deleters : Removes(e, u) /\ u # t => e # d
        BY <1>2 DEF Removes
    <3>. QED BY <1>5, <1>7, <2>1, <2>3, <3>1, <3>2 DEF RemovedOnce
  <2>5. thread.at = "dispatch" /\ thread.timer = u /\ state[u] # "ACTIVE" =>
          \E e \in Deleters : deletion'[e].at \in {"queue", "wait"} /\ deletion'[e].timer = u
    <3> SUFFICES ASSUME thread.at = "dispatch", thread.timer = u, state[u] # "ACTIVE"
                 PROVE  \E e \in Deleters :
                          deletion'[e].at \in {"queue", "wait"} /\ deletion'[e].timer = u
        OBVIOUS
    <3>1. PICK e \in Deleters : deletion[e].at \in {"queue", "wait"} /\ deletion[e].timer = u
        BY <2>1 DEF CallsEnd
    <3>. QED BY <1>2, <1>3, <3>1
  <2>6. CallsEnd(u)'
    <3>1. deletion'[Program].timer = deletion[Program].timer
          /\ (deletion[Program].at \notin {"finish", "mark"} =>
                deletion'[Program].at \notin {"finish", "mark"})
        BY <1>2, <1>3, Parties
    <3>. QED BY <1>3, <1>6, <1>9, <1>10, <2>1, <2>5, <3>1 DEF CallsEnd, timerVars
  <2>. QED BY <2>2, <2>4, <2>6 DEF TimerInv
<1>13. ASSUME NEW e \in Deleters PROVE Deleting(e)'
  <2>1. Deleting(e)
      BY DEF TimersInv
  <2>2. CASE e # d
      BY <1>3, <1>9, <2>1, <2>2 DEF Deleting, timerVars, others
  <2>3. CASE e = d
    <3>1. t # Null
        BY <1>1, ListTypes
    <3>. QED BY <1>2, <1>3, <1>9, <2>1, <2>3, <3>1 DEF Deleting, timerVars, others
  <2>. QED BY <2>2, <2>3
<1>. QED BY <1>7, <1>8, <1>9, <1>11, <1>12, <1>13 DEF TimersInv

-----------------------------------------------------------------------------
(* The end of the queue *)

\* The thread goes on to the timer before the one it has deleted.
LEMMA FinishNextKeeps == ASSUME TimersInv, FinishNext PROVE TimersInv'
<1>1. TypeOK /\ CallsCounted /\ QueueHolds /\ ThreadHolds /\ PhasesHold
    BY DEF TimersInv
<1>2. PICK k \in 1..Len(timers) :
        /\ timers[k] = thread.timer
        /\ thread' = [thread EXCEPT !.at = "finish",
                                    !.timer = IF k <= 1 THEN Null ELSE timers[k - 1]]
    BY DEF FinishNext, FinishDownTo, ThreadTo
<1>3. /\ UNCHANGED <<timerVars, queueVars, call, deletion, others>>
      /\ thread.at = "delete" /\ deletion[Queue].at = "out"
      /\ thread'.at = "finish" /\ thread'.timer = IF k <= 1 THEN Null ELSE timers[k - 1]
      /\ thread'.waits = thread.waits
    BY <1>1, <1>2 DEF TypeOK, FinishNext, FinishDownTo
<1>4. k \in Nat /\ k >= 1 /\ (k > 1 => k - 1 \in 1..Len(timers))
    BY <1>1, ListTypes
<1>5. thread'.timer = Null \/ thread'.timer \in Listed
    BY <1>1, <1>3, <1>4, ListTypes
<1>6. TypeOK'
  <2>1. thread' \in ThreadStates
      BY <1>1, <1>2, <1>3, <1>5, ListTypes DEF TypeOK, ThreadStates
  <2>. QED BY <1>1, <1>3, <2>1 DEF TypeOK, ThreadStates, timerVars, queueVars, others
<1>7. /\ CallsCounted' /\ QueueHolds' /\ ThreadHolds'
      /\ \A u : Counted(u)' = Counted(u)
    BY <1>1, <1>3, <1>5
       DEF CallsCounted, Counted, QueueHolds, ThreadHolds, Working, Listed, timerVars,
           queueVars, others
<1>8. Finishing /\ Finishing' /\ ~Ending /\ ~Ending'
    BY <1>1, <1>3 DEF PhasesHold, Ending, Finishing, Queued, queueVars
<1>9. ASSUME NEW m \in 1..Len(timers),
             thread'.timer = Null \/ \E j \in 1..m-1 : timers[j] = thread'.timer
      PROVE  Processed(timers[m])
  <2>1. Processed(thread.timer)
      BY <1>1, <1>3 DEF PhasesHold
  <2>2. m >= k
    <3>1. CASE k <= 1
        BY <1>4, <3>1
    <3>2. CASE ~(k <= 1)
      <4>1. thread'.timer = timers[k - 1] /\ k - 1 \in 1..Len(timers)
          BY <1>3, <1>4, <3>2
      <4>2. PICK j \in 1..m-1 : timers[j] = timers[k - 1]
          BY <1>1, <1>9, <4>1, ListTypes
      <4>3. j \in 1..Len(timers)
          BY <1>1, ListTypes
      <4>4. j = k - 1
          BY <1>1, <4>1, <4>2, <4>3, ListTypes
      <4>. QED BY <1>4, <4>4
    <3>. QED BY <3>1, <3>2
  <2>3. CASE m = k
      BY <1>2, <2>1, <2>3
  <2>4. CASE m # k
    <3>1. k \in 1..m-1 /\ timers[k] = thread.timer
        BY <1>1, <1>2, <1>4, <2>2, <2>4, ListTypes
    <3>. QED BY <1>1, <1>8, <3>1 DEF PhasesHold
  <2>. QED BY <2>3, <2>4
<1>10. PhasesHold'
  <2>1. \A m \in 1..Len(timers) : Processed(timers[m])' <=> Processed(timers[m])
      BY <1>3, <1>7 DEF Processed, Queued, queueVars
  <2>2. /\ timers' = timers /\ program' = program
        /\ \A q, u : Queued(q, u)' <=> Queued(q, u)
      BY <1>3 DEF Queued, queueVars, others
  <2>. QED BY <1>1, <1>3, <1>8, <1>9, <2>1, <2>2 DEF PhasesHold, Deleted, queueVars
<1>11. deletion[Queue].timer = Null
    BY <1>3, Parties DEF TimersInv, Deleting
<1>12. ASSUME NEW u \in Timers PROVE TimerInv(u)'
  <2>1. InList(u) /\ RemovedOnce(u) /\ CallsEnd(u)
      BY DEF TimersInv, TimerInv
  <2>2. InList(u)'
      BY <1>3, <1>8, <2>1 DEF InList, Listed, Queued, timerVars, queueVars, others
  <2>3. RemovedOnce(u)'
      BY <1>3, <2>1 DEF RemovedOnce, Removes, Waiting, Removing, Listed, Queued, timerVars,
                        queueVars
  <2>4. CallsEnd(u)'
      BY <1>3, <1>7, <1>8, <2>1 DEF CallsEnd, timerVars
  <2>. QED BY <2>2, <2>3, <2>4 DEF TimerInv
<1>13. ASSUME NEW d \in Deleters PROVE Deleting(d)'
  <2>1. Deleting(d)
      BY DEF TimersInv
  <2>. QED BY <1>3, <1>7, <1>11, <2>1 DEF Deleting, timerVars, others
<1>. QED BY <1>6, <1>7, <1>10, <1>12, <1>13 DEF TimersInv

\* When all are deleted, the thread's own end is queued behind their removals.
LEMMA FinishedKeeps == ASSUME TimersInv, Finished PROVE TimersInv'
<1>1. TypeOK /\ CallsCounted /\ QueueHolds /\ ThreadHolds /\ PhasesHold
    BY DEF TimersInv
<1>2. /\ UNCHANGED <<timerVars, timers, waitEvent, call, deletion, others>>
      /\ thread.at = "finish" /\ thread.timer = Null
      /\ thread' = [thread EXCEPT !.at = "apc", !.timer = Null]
      /\ thread'.at = "apc" /\ thread'.timer = Null
      /\ done' \in {done, "set"}
    BY <1>1 DEF TypeOK, Finished, ThreadTo
<1>3. Finishing /\ ~Ending /\ ~Finishing'
    BY <1>1, <1>2 DEF Finishing, PhasesHold
<1>4. \A t \in Listed : Processed(t)
  <2>1. \A k \in 1..Len(timers) : Processed(timers[k])
      BY <1>1, <1>2, <1>3 DEF PhasesHold
  <2>. QED BY <1>1, <2>1, ListTypes
<1>5. /\ apcs' \in Seq(Apcs) /\ QueueHolds'
      /\ \A q, u : Queued(q, u)' <=> Queued(q, u) \/ (q = "Terminate" /\ u = Null)
  <2>1. QueueUserAPC("Terminate", Null) /\ ~Queued("Terminate", Null)
      BY <1>3 DEF Finished, Ending
  <2>2. [proc |-> "Terminate", timer |-> Null] \in Apcs
      BY DEF Apcs
  <2>. QED BY <1>1, <2>1, <2>2, Enqueue, ApcTypes
<1>6. Ending'
    BY <1>5 DEF Ending
<1>7. TypeOK'
  <2>1. thread' \in ThreadStates
      BY <1>1, <1>2 DEF TypeOK, ThreadStates
  <2>. QED BY <1>1, <1>2, <1>5, <2>1 DEF TypeOK, ThreadStates, Apcs, timerVars, others
<1>8. /\ CallsCounted' /\ ThreadHolds'
      /\ \A u : Counted(u)' = Counted(u)
    BY <1>1, <1>2
       DEF CallsCounted, Counted, ThreadHolds, Working, Listed, timerVars, others
<1>9. PhasesHold'
  <2>1. Deleted' /\ ~Queued("Finish", Null)'
      BY <1>1, <1>2, <1>3, <1>5 DEF PhasesHold, Deleted, others
  <2>2. \A t \in Listed' : Queued("Remove", t)'
      BY <1>2, <1>4, <1>5 DEF Processed, Listed
  <2>. QED BY <1>2, <1>3, <1>6, <2>1, <2>2 DEF PhasesHold
<1>10. deletion[Queue].at = "out" /\ deletion[Queue].timer = Null
    BY <1>2, QueueDeletes
<1>11. ASSUME NEW u \in Timers PROVE TimerInv(u)'
  <2>1. InList(u) /\ RemovedOnce(u) /\ CallsEnd(u)
      BY DEF TimersInv, TimerInv
  <2>2. InList(u)'
      BY <1>2, <1>5, <1>6, <2>1 DEF InList, Listed, timerVars, others
  <2>3. RemovedOnce(u)'
      BY <1>2, <1>5, <2>1 DEF RemovedOnce, Removes, Waiting, Removing, Listed, timerVars
  <2>4. handle[u] = "held" => Counted(u) = {}
      BY <1>3, <1>4, <2>1 DEF InList, Processed
  <2>5. CallsEnd(u)'
      BY <1>2, <1>6, <1>8, <2>1, <2>4 DEF CallsEnd, timerVars
  <2>. QED BY <2>2, <2>3, <2>5 DEF TimerInv
<1>12. ASSUME NEW d \in Deleters PROVE Deleting(d)'
  <2>1. Deleting(d)
      BY DEF TimersInv
  <2>. QED BY <1>2, <1>8, <1>10, <2>1 DEF Deleting, timerVars, others
<1>. QED BY <1>5, <1>7, <1>8, <1>9, <1>11, <1>12 DEF TimersInv


-----------------------------------------------------------------------------
(* The program *)

\* The program looks at the queue's event, or changes nothing but when a timer is due.
LEMMA ProgramMovesKeep ==
  ASSUME TimersInv, (\E t \in Timers : CancelTimer(t)) \/ ReadEvent \/ WaitEnds
  PROVE  TimersInv'
<1>1. TypeOK /\ CallsCounted /\ QueueHolds /\ ThreadHolds /\ PhasesHold
    BY DEF TimersInv
<1>2. /\ UNCHANGED <<options, state, pending, cbEvent, freed, handle, queueVars, thread, call,
                     deletion, uncounted>>
      /\ armed' \in [Timers -> BOOLEAN] /\ changes' \in 0..MaxChanges
      /\ \/ program' = program
         \/ /\ program \in {"read", "wait", "close"}
            /\ program' \in {"wait", "close", "over", "lost"}
  <2>1. CASE \E t \in Timers : CancelTimer(t)
      BY <1>1, <2>1, TimersAssumption DEF TypeOK, CancelTimer
  <2>2. CASE ReadEvent
      BY <1>1, <2>2 DEF TypeOK, ReadEvent, timerVars
  <2>3. CASE WaitEnds
      BY <1>1, <2>3 DEF TypeOK, WaitEnds, timerVars
  <2>. QED BY <2>1, <2>2, <2>3
<1>3. TypeOK'
    BY <1>1, <1>2 DEF TypeOK, queueVars
<1>4. CallsCounted' /\ QueueHolds' /\ ThreadHolds'
    BY <1>1, <1>2
       DEF CallsCounted, Counted, QueueHolds, ThreadHolds, Working, Listed, queueVars
<1>5. (Ending' <=> Ending) /\ (Finishing' <=> Finishing) /\ (Deleted => Deleted')
    BY <1>2 DEF Ending, Finishing, Deleted, Queued, queueVars
<1>6. PhasesHold'
    BY <1>1, <1>2, <1>5 DEF PhasesHold, Processed, Counted, Queued, Listed, queueVars
<1>7. ASSUME NEW t \in Timers PROVE TimerInv(t)'
  <2>1. InList(t) /\ RemovedOnce(t) /\ CallsEnd(t)
      BY DEF TimersInv, TimerInv
  <2>2. InList(t)'
      BY <1>2, <1>5, <2>1 DEF InList, Listed, Queued, queueVars
  <2>3. RemovedOnce(t)'
      BY <1>2, <2>1 DEF RemovedOnce, Removes, Waiting, Removing, Listed, Queued, queueVars
  <2>4. CallsEnd(t)'
      BY <1>2, <1>5, <2>1 DEF CallsEnd, Counted
  <2>. QED BY <2>2, <2>3, <2>4 DEF TimerInv
<1>8. ASSUME NEW d \in Deleters PROVE Deleting(d)'
  <2>1. Deleting(d)
      BY DEF TimersInv
  <2>. QED BY <1>2, <2>1 DEF Deleting, Counted
<1>. QED BY <1>3, <1>4, <1>6, <1>7, <1>8 DEF TimersInv

\* The program queues an APC, which it does only before it has deleted the queue.
LEMMA ProgramQueuesKeep ==
  ASSUME TimersInv,
         (\E t \in Timers : Create(t) \/ ChangeTimer(t)) \/ DeleteQueueAnyway
  PROVE  TimersInv'
<1>1. TypeOK /\ CallsCounted /\ QueueHolds /\ ThreadHolds /\ PhasesHold /\ Deleting(Program)
    BY Parties DEF TimersInv
<1>2. PICK proc \in {"Add", "Change", "Finish"}, t \in Timers \cup {Null} :
        /\ QueueUserAPC(proc, t)
        /\ UNCHANGED <<options, timerVars, timers, waitEvent, thread, call, deletion,
                       uncounted>>
        /\ Idle /\ changes' \in 0..MaxChanges
        /\ done' = done \/ (done = "none" /\ done' \in {"none", "reset"})
        /\ \/ /\ proc = "Add" /\ t \in Timers /\ handle[t] = "none"
              /\ program' = "adding"
           \/ /\ proc = "Change" /\ t \in Timers /\ handle[t] = "held" /\ state[t] = "ACTIVE"
              /\ program' = program
           \/ proc = "Finish" /\ t = Null /\ program' \in {"read", "over"}
  <2>1. CASE \E t \in Timers : Create(t)
      BY <1>1, <2>1 DEF TypeOK, Create
  <2>2. CASE \E t \in Timers : ChangeTimer(t)
      BY <1>1, <2>2, TimersAssumption DEF TypeOK, ChangeTimer
  <2>3. CASE DeleteQueueAnyway
      BY <1>1, <2>3 DEF TypeOK, DeleteQueueAnyway, DeleteQueue
  <2>. QED BY <2>1, <2>2, <2>3
<1>3. /\ program = "out" /\ deletion[Program].timer = Null
      /\ ~Deleted /\ ~Ending /\ ~Finishing /\ ~Queued("Finish", Null) /\ done # "set"
    BY <1>1, <1>2 DEF Idle, Deleted, PhasesHold, Deleting
<1>4. \A u \in Timers : ~Queued("Add", u)
    BY <1>3 DEF TimersInv, TimerInv, InList
<1>5. /\ apcs' \in Seq(Apcs) /\ QueueHolds'
      /\ \A q, u : Queued(q, u)' <=> Queued(q, u) \/ (q = proc /\ u = t)
  <2>1. t = Null <=> proc \in {"Finish", "Terminate"}
      BY <1>1, <1>2, ListTypes
  <2>2. ~Queued("Terminate", Null)
      BY <1>3 DEF Ending
  <2>3. /\ proc # "Change" => ~Queued(proc, t)
        /\ proc = "Change" => ~Queued("Remove", t)
      BY <1>2, <1>3, <1>4 DEF TimersInv, TimerInv, RemovedOnce, Waiting
  <2>4. [proc |-> proc, timer |-> t] \in Apcs
      BY DEF Apcs
  <2>. QED BY <1>1, <1>2, <1>4, <2>1, <2>2, <2>3, <2>4, Enqueue, ApcTypes
<1>6. TypeOK'
    BY <1>1, <1>2, <1>5 DEF TypeOK, Apcs, timerVars
<1>7. /\ CallsCounted' /\ ThreadHolds'
      /\ \A u : Counted(u)' = Counted(u)
    BY <1>1, <1>2 DEF CallsCounted, Counted, ThreadHolds, Working, Listed, timerVars
<1>8. ~Ending' /\ ~Finishing'
    BY <1>2, <1>3, <1>5 DEF Ending, Finishing
<1>9. PhasesHold'
    BY <1>1, <1>2, <1>3, <1>5, <1>8 DEF PhasesHold, Deleted, Ending, Finishing
<1>10. ASSUME NEW u \in Timers PROVE TimerInv(u)'
  <2>1. InList(u) /\ RemovedOnce(u) /\ CallsEnd(u)
      BY DEF TimersInv, TimerInv
  <2>2. InList(u)'
      BY <1>2, <1>3, <1>4, <1>5, <1>8, <2>1 DEF InList, Listed, timerVars
  <2>3. RemovedOnce(u)'
      BY <1>2, <1>5, <2>1 DEF RemovedOnce, Removes, Waiting, Removing, Listed, timerVars
  <2>4. CallsEnd(u)'
      BY <1>2, <1>3, <1>7, <1>8, <2>1 DEF CallsEnd, timerVars
  <2>. QED BY <2>2, <2>3, <2>4 DEF TimerInv
<1>11. ASSUME NEW d \in Deleters PROVE Deleting(d)'
  <2>1. Deleting(d)
      BY DEF TimersInv
  <2>. QED BY <1>2, <1>3, <1>7, <2>1 DEF Deleting, timerVars
<1>. QED BY <1>5, <1>6, <1>7, <1>9, <1>10, <1>11 DEF TimersInv

-----------------------------------------------------------------------------
(* APCs *)

LEMMA ApcFacts ==
  ASSUME TimersInv, Apc, NEW a, a = Head(apcs)
  PROVE  /\ thread.at \in {"idle", "waiting", "apc"} /\ thread.timer = Null
         /\ ~Finishing
         /\ deletion[Queue].at = "out" /\ deletion[Queue].timer = Null
         /\ UNCHANGED <<options, pending, cbEvent, waitEvent, done, call, deletion, uncounted,
                        changes>>
         /\ CallsCounted' /\ \A u : Counted(u)' = Counted(u)
         /\ apcs' \in Seq(Apcs) /\ QueueHolds' /\ a \in Apcs /\ Queued(a.proc, a.timer)
         /\ a.timer = Null <=> a.proc \in {"Finish", "Terminate"}
         /\ a.timer # Null => a.timer \in Timers
         /\ \A q, u : /\ Queued(q, u)' => Queued(q, u)
                      /\ Queued(q, u) => Queued(q, u)' \/ (q = a.proc /\ u = a.timer)
         /\ a.proc # "Change" => ~Queued(a.proc, a.timer)'
         /\ a.proc = "Remove" => ~Queued("Change", a.timer)
         /\ a.proc = "Add" => \A u : ~Queued("Add", u)'
         /\ a.proc = "Terminate" => apcs' = <<>>
         /\ \/ a.proc = "Add" /\ Add(a.timer)
            \/ a.proc = "Change" /\ Change(a.timer)
            \/ a.proc = "Remove" /\ RemoveTimer(a.timer)
            \/ a.proc = "Finish" /\ BeginFinish
            \/ a.proc = "Terminate" /\ Terminate
<1>1. TypeOK /\ CallsCounted /\ QueueHolds /\ ThreadHolds /\ PhasesHold
    BY DEF TimersInv
<1>2. /\ thread.at \in {"idle", "waiting", "apc"} /\ apcs # <<>> /\ apcs' = Tail(apcs)
      /\ UNCHANGED <<pending, cbEvent, waitEvent, done, call, uncounted, changes>>
      /\ \/ a.proc = "Add" /\ Add(a.timer)
         \/ a.proc = "Change" /\ Change(a.timer)
         \/ a.proc = "Remove" /\ RemoveTimer(a.timer)
         \/ a.proc = "Finish" /\ BeginFinish
         \/ a.proc = "Terminate" /\ Terminate
    BY DEF Apc
<1>3. UNCHANGED <<options, deletion>>
    BY <1>2 DEF Add, Change, RemoveTimer, BeginFinish, Terminate
<1>4. thread.timer = Null /\ ~Finishing
    BY <1>1, <1>2 DEF ThreadHolds, Working, Finishing
<1>5. CallsCounted' /\ \A u : Counted(u)' = Counted(u)
    BY <1>1, <1>2 DEF CallsCounted, Counted
<1>6. a \in Apcs => (a.timer # Null => a.timer \in Timers)
    BY DEF Apcs
<1>7. /\ apcs' \in Seq(Apcs) /\ QueueHolds' /\ a \in Apcs /\ Queued(a.proc, a.timer)
      /\ a.timer = Null <=> a.proc \in {"Finish", "Terminate"}
      /\ \A q, u : /\ Queued(q, u)' => Queued(q, u)
                   /\ Queued(q, u) => Queued(q, u)' \/ (q = a.proc /\ u = a.timer)
      /\ a.proc # "Change" => ~Queued(a.proc, a.timer)'
      /\ a.proc = "Remove" => ~Queued("Change", a.timer)
      /\ a.proc = "Add" => \A u : ~Queued("Add", u)'
      /\ a.proc = "Terminate" => apcs' = <<>>
    BY <1>1, <1>2, Dequeue, ApcTypes
<1>. QED BY <1>2, <1>3, <1>4, <1>5, <1>6, <1>7, QueueDeletes

\* A timer is added, or refused.
LEMMA AddKeeps ==
  ASSUME TimersInv, Apc, Head(apcs).proc = "Add"
  PROVE  TimersInv'
<1>1. TypeOK /\ CallsCounted /\ QueueHolds /\ ThreadHolds /\ PhasesHold /\ Deleting(Program)
    BY Parties DEF TimersInv
<1>2. PICK a : a = Head(apcs)
    OBVIOUS
<1>3. PICK t \in Timers : t = a.timer
    BY <1>2, ApcFacts
<1>4. /\ Queued("Add", t) /\ apcs' \in Seq(Apcs) /\ QueueHolds'
      /\ \A q, u : /\ Queued(q, u)' => Queued(q, u)
                   /\ Queued(q, u) => Queued(q, u)' \/ q = "Add"
      /\ \A u : ~Queued("Add", u)'
      /\ Add(t)
    BY <1>2, <1>3, ApcFacts
<1>5. /\ UNCHANGED <<options, pending, cbEvent, waitEvent, done, call, deletion, uncounted,
                     changes, state, freed, armed>>
      /\ program' = "out"
    BY <1>2, <1>4, ApcFacts DEF Add
<1>6. handle[t] = "none" /\ program = "adding" /\ state[t] = "ACTIVE" /\ t \notin Listed
    BY <1>4 DEF TimersInv, TimerInv, InList
<1>7. \/ /\ handle' = [handle EXCEPT ![t] = "refused"] /\ timers' = timers
         /\ thread' = [thread EXCEPT !.at = "apc", !.timer = Null]
         /\ handle'[t] = "refused" /\ thread'.at = "apc" /\ thread'.timer = Null
         /\ Listed' = Listed
      \/ /\ handle' = [handle EXCEPT ![t] = "held"]
         /\ thread' = [thread EXCEPT !.at = "add", !.timer = t]
         /\ handle'[t] = "held" /\ thread'.at = "add" /\ thread'.timer = t
         /\ Listed' = Listed \cup {t}
  <2>1. Len(timers) # MAX_TIMERS /\ timers' = Append(timers, t) => Listed' = Listed \cup {t}
      BY <1>1, <1>6, PutOnList
  <2>2. timers' = timers => Listed' = Listed
      BY DEF Listed
  <2>. QED BY <1>1, <1>4, <2>1, <2>2 DEF TypeOK, Add, ThreadTo
<1>8. TypeOK'
  <2>1. timers' \in Seq(Timers) /\ Len(timers') <= MAX_TIMERS /\ IsInjective(timers')
    <3>1. CASE Len(timers) # MAX_TIMERS
        BY <1>1, <1>4, <1>6, <3>1, PutOnList DEF Add
    <3>2. CASE Len(timers) = MAX_TIMERS
        BY <1>1, <1>4, <3>2 DEF TypeOK, Add
    <3>. QED BY <3>1, <3>2
  <2>2. handle' \in [Timers -> Handles]
      BY <1>1, <1>7 DEF TypeOK, Handles
  <2>3. thread' \in ThreadStates
      BY <1>1, <1>7 DEF TypeOK, ThreadStates
  <2>. QED BY <1>1, <1>4, <1>5, <2>1, <2>2, <2>3 DEF TypeOK, ThreadStates, Apcs
<1>9. CallsCounted' /\ ThreadHolds' /\ \A u : Counted(u)' = Counted(u)
    BY <1>2, <1>7, ApcFacts DEF ThreadHolds, Working
<1>10. ~Ending /\ ~Ending' /\ ~Finishing /\ ~Finishing' /\ ~Queued("Finish", Null)
  <2>1. ~Deleted
      BY <1>6 DEF Deleted
  <2>. QED BY <1>1, <1>4, <1>7, <2>1 DEF PhasesHold, Ending, Finishing
<1>11. PhasesHold'
    BY <1>1, <1>4, <1>5, <1>7, <1>10 DEF PhasesHold, Ending, Finishing
<1>12. deletion[Program].timer = Null /\ deletion[Queue].timer = Null
    BY <1>1, <1>2, <1>6, ApcFacts DEF Deleting
<1>13. ASSUME NEW u \in Timers, u # t PROVE handle'[u] = handle[u]
    BY <1>1, <1>7, <1>13 DEF TypeOK
<1>14. ASSUME NEW u \in Timers PROVE TimerInv(u)'
  <2>1. InList(u) /\ RemovedOnce(u) /\ CallsEnd(u)
      BY DEF TimersInv, TimerInv
  <2>2. /\ Queued("Remove", u)' <=> Queued("Remove", u)
        /\ Queued("Change", u)' <=> Queued("Change", u)
      BY <1>4
  <2>3. InList(u)'
      BY <1>4, <1>5, <1>6, <1>7, <1>10, <1>13, <2>1, <2>2 DEF InList
  <2>4. RemovedOnce(u)'
    <3>1. thread'.at # "mark"
        BY <1>7
    <3>2. (Waiting(u)' <=> Waiting(u)) /\ \A d : Removes(d, u)' <=> Removes(d, u)
        BY <1>5 DEF Waiting, Removes
    <3>3. u \in Listed' => u \in Listed \/ (u = t /\ state[u] = "ACTIVE")
        BY <1>6, <1>7
    <3>4. u \in Listed => u \in Listed'
        BY <1>7
    <3>. QED BY <1>5, <2>1, <2>2, <3>1, <3>2, <3>3, <3>4 DEF RemovedOnce, Removing
  <2>5. CallsEnd(u)'
      BY <1>5, <1>6, <1>7, <1>9, <1>10, <1>13, <2>1 DEF CallsEnd, Modes
  <2>. QED BY <2>3, <2>4, <2>5 DEF TimerInv
<1>15. ASSUME NEW d \in Deleters PROVE Deleting(d)'
  <2>1. Deleting(d)
      BY DEF TimersInv
  <2>2. deletion[d].timer = Null
        \/ (deletion[d].timer \in Timers /\ handle'[deletion[d].timer] = handle[deletion[d].timer])
    <3>1. PICK u \in Timers \cup {Null} : u = deletion[d].timer
        BY <1>1 DEF TypeOK
    <3>2. u # Null => u # t
        BY <1>6, <2>1, <3>1 DEF Deleting
    <3>. QED BY <1>13, <3>1, <3>2
  <2>. QED BY <1>5, <1>9, <1>12, <2>1, <2>2 DEF Deleting
<1>. QED BY <1>4, <1>8, <1>9, <1>11, <1>14, <1>15 DEF TimersInv

\* A timer is changed.
LEMMA ChangeKeeps ==
  ASSUME TimersInv, Apc, Head(apcs).proc = "Change"
  PROVE  TimersInv'
<1>1. TypeOK /\ CallsCounted /\ QueueHolds /\ ThreadHolds /\ PhasesHold
    BY DEF TimersInv
<1>2. PICK a : a = Head(apcs)
    OBVIOUS
<1>3. PICK t \in Timers : t = a.timer
    BY <1>2, ApcFacts
<1>4. /\ apcs' \in Seq(Apcs) /\ QueueHolds'
      /\ \A q, u : /\ Queued(q, u)' => Queued(q, u)
                   /\ Queued(q, u) => Queued(q, u)' \/ q = "Change"
      /\ Change(t)
    BY <1>2, <1>3, ApcFacts
<1>5. /\ UNCHANGED <<options, pending, cbEvent, waitEvent, done, call, deletion, uncounted,
                     changes, state, freed, handle, timers, program>>
      /\ armed' = [armed EXCEPT ![t] = TRUE]
      /\ thread' = [thread EXCEPT !.at = "apc", !.timer = Null]
      /\ thread'.at = "apc" /\ thread'.timer = Null
      /\ thread.at \in {"idle", "waiting", "apc"} /\ thread.timer = Null
      /\ ~Finishing
    BY <1>1, <1>2, <1>4, ApcFacts DEF TypeOK, Change, ThreadTo
<1>6. TypeOK'
  <2>1. thread' \in ThreadStates /\ armed' \in [Timers -> BOOLEAN]
      BY <1>1, <1>5 DEF TypeOK, ThreadStates
  <2>. QED BY <1>1, <1>4, <1>5, <2>1 DEF TypeOK, ThreadStates, Apcs
<1>7. CallsCounted' /\ ThreadHolds' /\ \A u : Counted(u)' = Counted(u)
    BY <1>2, <1>5, ApcFacts DEF ThreadHolds, Working
<1>8. (Ending' <=> Ending) /\ ~Finishing'
    BY <1>4, <1>5 DEF Ending, Finishing
<1>9. /\ Listed' = Listed /\ deletion[Queue].timer = Null
      /\ \A q, u : q # "Change" => (Queued(q, u)' <=> Queued(q, u))
    BY <1>2, <1>4, <1>5, ApcFacts DEF Listed
<1>10. PhasesHold'
    BY <1>1, <1>5, <1>8, <1>9 DEF PhasesHold, Deleted
<1>11. ASSUME NEW u \in Timers PROVE TimerInv(u)'
  <2>1. InList(u) /\ RemovedOnce(u) /\ CallsEnd(u)
      BY DEF TimersInv, TimerInv
  <2>2. InList(u)'
      BY <1>4, <1>5, <1>8, <1>9, <2>1 DEF InList
  <2>3. RemovedOnce(u)'
      BY <1>5, <1>9, <2>1 DEF RemovedOnce, Removes, Waiting, Removing
  <2>4. CallsEnd(u)'
      BY <1>5, <1>7, <1>8, <2>1 DEF CallsEnd
  <2>. QED BY <2>2, <2>3, <2>4 DEF TimerInv
<1>12. ASSUME NEW d \in Deleters PROVE Deleting(d)'
  <2>1. Deleting(d)
      BY DEF TimersInv
  <2>. QED BY <1>5, <1>7, <1>9, <2>1 DEF Deleting
<1>. QED BY <1>4, <1>6, <1>7, <1>10, <1>11, <1>12 DEF TimersInv

\* A timer is taken off the list, and destroyed if it was left to its removal.
LEMMA RemoveKeeps ==
  ASSUME TimersInv, Apc, Head(apcs).proc = "Remove"
  PROVE  TimersInv'
<1>1. TypeOK /\ CallsCounted /\ QueueHolds /\ ThreadHolds /\ PhasesHold
    BY DEF TimersInv
<1>2. PICK a : a = Head(apcs)
    OBVIOUS
<1>3. PICK t \in Timers : t = a.timer
    BY <1>2, ApcFacts
<1>4. /\ apcs' \in Seq(Apcs) /\ QueueHolds' /\ Queued("Remove", t)
      /\ ~Queued("Remove", t)' /\ ~Queued("Change", t)
      /\ \A q, u : /\ Queued(q, u)' => Queued(q, u)
                   /\ Queued(q, u) => Queued(q, u)' \/ (q = "Remove" /\ u = t)
      /\ RemoveTimer(t)
    BY <1>2, <1>3, ApcFacts
<1>5. /\ UNCHANGED <<options, pending, cbEvent, waitEvent, done, call, deletion, uncounted,
                     changes, armed, handle, program>>
      /\ thread.at \in {"idle", "waiting", "apc"} /\ thread.timer = Null
      /\ ~Finishing
    BY <1>2, <1>4, ApcFacts DEF RemoveTimer
<1>6. /\ t \in Listed /\ Waiting(t) /\ \A d \in Deleters : ~Removes(d, t)
      /\ handle[t] \notin {"none", "refused"}
    BY <1>4 DEF TimersInv, TimerInv, InList, RemovedOnce, Waiting
<1>7. /\ timers' \in Seq(Timers) /\ Len(timers') <= MAX_TIMERS /\ IsInjective(timers')
      /\ Listed' = Listed \ {t}
    BY <1>1, <1>4, TakenOffList DEF RemoveTimer
<1>8. \/ /\ state' = [state EXCEPT ![t] = "GAMEOVER"] /\ freed' = freed \cup {t}
         /\ thread' = [thread EXCEPT !.at = "apc", !.timer = Null]
         /\ state'[t] = "GAMEOVER" /\ thread'.at = "apc" /\ thread'.timer = Null
      \/ /\ state[t] = "UNREGISTERED" /\ UNCHANGED <<state, freed>>
         /\ thread' = [thread EXCEPT !.at = "mark", !.timer = t]
         /\ thread'.at = "mark" /\ thread'.timer = t
    BY <1>1, <1>4, <1>6 DEF TypeOK, RemoveTimer, Destroy, ThreadTo, Waiting
<1>9. \A u \in Timers : u # t => state'[u] = state[u] /\ (u \in freed' <=> u \in freed)
    BY <1>1, <1>8 DEF TypeOK
<1>10. TypeOK'
  <2>1. thread' \in ThreadStates
      BY <1>1, <1>8 DEF TypeOK, ThreadStates
  <2>2. state' \in [Timers -> States] /\ freed' \subseteq Timers
      BY <1>1, <1>8 DEF TypeOK, States
  <2>. QED BY <1>1, <1>4, <1>5, <1>7, <2>1, <2>2 DEF TypeOK, ThreadStates, Apcs
<1>11. CallsCounted' /\ ThreadHolds' /\ \A u : Counted(u)' = Counted(u)
    BY <1>2, <1>8, ApcFacts DEF ThreadHolds, Working
<1>12. (Ending' <=> Ending) /\ ~Finishing'
    BY <1>4, <1>5, <1>8 DEF Ending, Finishing
<1>13. PhasesHold'
  <2>1. Ending => \A u \in Listed' : Queued("Remove", u)'
      BY <1>1, <1>4, <1>7 DEF PhasesHold
  <2>2. Queued("Finish", Null)' <=> Queued("Finish", Null)
      BY <1>4
  <2>3. thread'.at \in {"apc", "mark"}
      BY <1>8
  <2>. QED BY <1>1, <1>5, <1>12, <2>1, <2>2, <2>3 DEF PhasesHold, Deleted
<1>14. deletion[Queue].timer = Null
    BY <1>2, ApcFacts
<1>15. state'[t] # "ACTIVE"
    BY <1>6, <1>8 DEF Waiting
<1>16. ASSUME NEW u \in Timers PROVE TimerInv(u)'
  <2>1. InList(u) /\ RemovedOnce(u) /\ CallsEnd(u)
      BY DEF TimersInv, TimerInv
  <2>2. handle[t] = "held" => Ending
      BY <1>5, <1>6 DEF TimersInv, TimerInv, CallsEnd, Waiting
  <2>3. \A d : Removes(d, u)' <=> Removes(d, u)
      BY <1>5 DEF Removes
  <2>4. CASE u = t
    <3>1. InList(u)'
      <4>1. ~Queued("Add", t) /\ ~Queued("Add", t)' /\ ~Queued("Change", t)'
          BY <1>4, <1>6, <2>1, <2>4 DEF InList
      <4>2. t \in freed' <=> state'[t] = "GAMEOVER"
          BY <1>6, <1>8, <2>1, <2>4 DEF InList, Waiting
      <4>3. t \notin Listed' /\ handle'[t] = handle[t]
          BY <1>5, <1>7
      <4>. QED BY <1>6, <1>12, <2>2, <2>4, <4>1, <4>2, <4>3 DEF InList
    <3>2. RemovedOnce(u)'
      <4>1. t \notin Listed' /\ (Removing(t)' => Waiting(t)')
          BY <1>7, <1>8 DEF Removing, Waiting
      <4>. QED BY <1>4, <1>6, <2>3, <2>4, <4>1 DEF RemovedOnce
    <3>3. CallsEnd(u)'
      <4>1. thread'.at # "dispatch"
          BY <1>8
      <4>. QED BY <1>5, <1>11, <1>12, <1>15, <2>1, <2>2, <2>4, <4>1 DEF CallsEnd
    <3>. QED BY <3>1, <3>2, <3>3 DEF TimerInv
  <2>5. CASE u # t
    <3>1. /\ state'[u] = state[u] /\ (u \in freed' <=> u \in freed)
          /\ u \in Listed' <=> u \in Listed
          /\ \A q : Queued(q, u)' <=> Queued(q, u)
          /\ ~Removing(u)'
        BY <1>1, <1>4, <1>7, <1>8, <1>9, <2>5, ListTypes DEF Removing
    <3>2. InList(u)'
        BY <1>5, <1>12, <2>1, <3>1 DEF InList
    <3>3. RemovedOnce(u)'
        BY <2>1, <2>3, <3>1 DEF RemovedOnce, Waiting
    <3>4. CallsEnd(u)'
      <4>1. thread'.at # "dispatch"
          BY <1>8
      <4>. QED BY <1>5, <1>11, <1>12, <2>1, <3>1, <4>1 DEF CallsEnd
    <3>. QED BY <3>2, <3>3, <3>4 DEF TimerInv
  <2>. QED BY <2>4, <2>5
<1>17. ASSUME NEW d \in Deleters PROVE Deleting(d)'
  <2>1. Deleting(d)
      BY DEF TimersInv
  <2>2. deletion[d].timer # Null => state'[deletion[d].timer] # "ACTIVE"
    <3>1. PICK u \in Timers \cup {Null} : u = deletion[d].timer
        BY <1>1 DEF TypeOK
    <3>2. u # Null => state[u] # "ACTIVE" /\ u \in Timers
        BY <2>1, <3>1 DEF Deleting
    <3>. QED BY <1>9, <1>15, <3>1, <3>2
  <2>. QED BY <1>5, <1>11, <1>14, <2>1, <2>2 DEF Deleting
<1>. QED BY <1>4, <1>10, <1>11, <1>13, <1>16, <1>17 DEF TimersInv

\* The thread begins to delete the timers, from the last one in the list.
LEMMA BeginFinishKeeps ==
  ASSUME TimersInv, Apc, Head(apcs).proc = "Finish"
  PROVE  TimersInv'
<1>1. TypeOK /\ CallsCounted /\ QueueHolds /\ ThreadHolds /\ PhasesHold
    BY DEF TimersInv
<1>2. PICK a : a = Head(apcs)
    OBVIOUS
<1>3. /\ apcs' \in Seq(Apcs) /\ QueueHolds' /\ Queued("Finish", Null)
      /\ ~Queued("Finish", Null)'
      /\ \A q, u : /\ Queued(q, u)' => Queued(q, u)
                   /\ Queued(q, u) => Queued(q, u)' \/ q = "Finish"
      /\ BeginFinish
      /\ UNCHANGED <<options, pending, cbEvent, waitEvent, done, call, deletion, uncounted,
                     changes>>
      /\ deletion[Queue].timer = Null
    BY <1>2, ApcFacts
<1>4. /\ UNCHANGED <<state, freed, armed, handle, timers, program>>
      /\ thread' = [thread EXCEPT !.at = "finish",
                                  !.timer = IF timers = <<>> THEN Null ELSE Last(timers)]
      /\ thread'.at = "finish"
      /\ thread'.timer = IF timers = <<>> THEN Null ELSE Last(timers)
    BY <1>1, <1>3 DEF TypeOK, BeginFinish, ThreadTo
<1>5. Deleted /\ ~Ending /\ done # "set" /\ thread.at # "gone"
    BY <1>1, <1>3 DEF PhasesHold, Ending
<1>6. /\ timers = <<>> => Len(timers) = 0
      /\ timers # <<>> => Len(timers) \in 1..Len(timers) /\ Last(timers) = timers[Len(timers)]
    BY <1>1, ListTypes DEF Last
<1>7. thread'.timer \in Listed \cup {Null} /\ Listed' = Listed
    BY <1>1, <1>4, <1>6, ListTypes DEF Listed
<1>8. TypeOK'
  <2>1. thread' \in ThreadStates
      BY <1>1, <1>4, <1>7, ListTypes DEF TypeOK, ThreadStates
  <2>. QED BY <1>1, <1>3, <1>4, <2>1 DEF TypeOK, ThreadStates, Apcs
<1>9. CallsCounted' /\ ThreadHolds' /\ \A u : Counted(u)' = Counted(u)
    BY <1>2, <1>4, <1>7, ApcFacts DEF ThreadHolds, Working
<1>10. Finishing' /\ ~Ending'
    BY <1>3, <1>4, <1>5 DEF Ending, Finishing
<1>11. ASSUME NEW k \in 1..Len(timers)
       PROVE  ~(thread'.timer = Null \/ \E j \in 1..k-1 : timers[j] = thread'.timer)
  <2>1. timers # <<>> /\ thread'.timer = timers[Len(timers)]
      BY <1>1, <1>4, <1>6, ListTypes
  <2>2. thread'.timer # Null
      BY <1>1, <1>6, <2>1, ListTypes
  <2>3. ASSUME NEW j \in 1..k-1, timers[j] = thread'.timer PROVE FALSE
    <3>1. j \in 1..Len(timers) /\ j # Len(timers)
        BY <1>1, ListTypes
    <3>. QED BY <1>1, <1>6, <2>1, <2>3, <3>1, ListTypes
  <2>. QED BY <2>2, <2>3
<1>12. PhasesHold'
    BY <1>1, <1>3, <1>4, <1>5, <1>10, <1>11 DEF PhasesHold, Deleted
<1>13. ASSUME NEW u \in Timers PROVE TimerInv(u)'
  <2>1. InList(u) /\ RemovedOnce(u) /\ CallsEnd(u)
      BY DEF TimersInv, TimerInv
  <2>2. InList(u)'
      BY <1>3, <1>4, <1>5, <1>7, <2>1 DEF InList
  <2>3. RemovedOnce(u)'
      BY <1>3, <1>4, <1>7, <2>1 DEF RemovedOnce, Removes, Waiting, Removing
  <2>4. CallsEnd(u)'
      BY <1>3, <1>4, <1>9, <1>10, <2>1 DEF CallsEnd
  <2>. QED BY <2>2, <2>3, <2>4 DEF TimerInv
<1>14. ASSUME NEW d \in Deleters PROVE Deleting(d)'
  <2>1. Deleting(d)
      BY DEF TimersInv
  <2>. QED BY <1>3, <1>4, <1>9, <2>1 DEF Deleting
<1>. QED BY <1>3, <1>8, <1>9, <1>12, <1>13, <1>14 DEF TimersInv

\* The thread ends: all removals were queued before.
LEMMA TerminateKeeps ==
  ASSUME TimersInv, Apc, Head(apcs).proc = "Terminate"
  PROVE  TimersInv'
<1>1. TypeOK /\ CallsCounted /\ QueueHolds /\ ThreadHolds /\ PhasesHold
    BY DEF TimersInv
<1>2. PICK a : a = Head(apcs)
    OBVIOUS
<1>3. /\ apcs' = <<>> /\ apcs' \in Seq(Apcs) /\ QueueHolds' /\ Queued("Terminate", Null)
      /\ \A q, u : Queued(q, u) => Queued(q, u)' \/ q = "Terminate"
      /\ Terminate
      /\ UNCHANGED <<options, pending, cbEvent, waitEvent, done, call, deletion, uncounted,
                     changes>>
      /\ deletion[Queue].timer = Null
    BY <1>2, ApcFacts
<1>4. /\ UNCHANGED <<state, freed, armed, handle, timers, program>>
      /\ thread' = [thread EXCEPT !.at = "gone", !.timer = Null]
      /\ thread'.at = "gone" /\ thread'.timer = Null
    BY <1>1, <1>3 DEF TypeOK, Terminate, ThreadTo
<1>5. Ending /\ Ending' /\ Deleted /\ ~Finishing'
    BY <1>1, <1>3, <1>4 DEF Ending, Finishing, PhasesHold
<1>6. \A q, u : ~Queued(q, u)'
    BY <1>3 DEF Queued
<1>7. Listed = {} /\ Listed' = {} /\ timers = <<>>
  <2>1. ASSUME NEW t \in Listed PROVE FALSE
      BY <1>1, <1>3, <1>5, <1>6, <2>1 DEF PhasesHold
  <2>2. Len(timers) = 0
      BY <1>1, <2>1, ListTypes
  <2>3. timers = <<>>
      BY <1>1, <2>2, ListTypes
  <2>. QED BY <1>4, <2>1, <2>3 DEF Listed
<1>8. TypeOK'
  <2>1. thread' \in ThreadStates
      BY <1>1, <1>4 DEF TypeOK, ThreadStates
  <2>. QED BY <1>1, <1>3, <1>4, <2>1 DEF TypeOK, ThreadStates, Apcs
<1>9. CallsCounted' /\ ThreadHolds' /\ \A u : Counted(u)' = Counted(u)
    BY <1>2, <1>4, ApcFacts DEF ThreadHolds, Working
<1>10. PhasesHold'
    BY <1>3, <1>4, <1>5, <1>6, <1>7 DEF PhasesHold, Deleted
<1>11. ASSUME NEW u \in Timers PROVE TimerInv(u)'
  <2>1. InList(u) /\ RemovedOnce(u) /\ CallsEnd(u)
      BY DEF TimersInv, TimerInv
  <2>2. InList(u)'
      BY <1>4, <1>5, <1>6, <1>7, <2>1 DEF InList
  <2>3. RemovedOnce(u)'
      BY <1>3, <1>4, <1>6, <1>7, <2>1 DEF RemovedOnce, Removes, Removing
  <2>4. CallsEnd(u)'
      BY <1>3, <1>4, <1>5, <1>9, <2>1 DEF CallsEnd
  <2>. QED BY <2>2, <2>3, <2>4 DEF TimerInv
<1>12. ASSUME NEW d \in Deleters PROVE Deleting(d)'
  <2>1. Deleting(d)
      BY DEF TimersInv
  <2>. QED BY <1>3, <1>4, <1>9, <2>1 DEF Deleting
<1>. QED BY <1>3, <1>8, <1>9, <1>10, <1>11, <1>12 DEF TimersInv

LEMMA ApcKeeps == ASSUME TimersInv, Apc PROVE TimersInv'
<1>1. PICK a : a = Head(apcs)
    OBVIOUS
<1>2. a.proc \in {"Add", "Change", "Remove", "Finish", "Terminate"}
    BY <1>1, ApcFacts DEF Apcs
<1>. QED BY <1>1, <1>2, AddKeeps, ChangeKeeps, RemoveKeeps, BeginFinishKeeps, TerminateKeeps

-----------------------------------------------------------------------------
(* The specification keeps the invariant *)

LEMMA InitInv == Init => TimersInv
<1> SUFFICES ASSUME Init PROVE TimersInv
    OBVIOUS
<1>1. /\ Null \notin Timers /\ Len(timers) = 0 /\ Len(apcs) = 0 /\ MAX_TIMERS \in Nat
      /\ MaxChanges \in Nat
    BY TimersAssumption DEF Init
<1>2. timers \in Seq(Timers) /\ apcs \in Seq(Apcs) /\ timers = <<>>
    BY DEF Init
<1>3. /\ Listed = {} /\ IsInjective(timers)
      /\ \A q, u : ~Queued(q, u)
  <2>1. /\ \A x : x \in Listed <=> \E k \in 1..Len(timers) : timers[k] = x
        /\ IsInjective(timers) <=> \A j, k \in 1..Len(timers) : timers[j] = timers[k] => j = k
    <3>1. PICK s \in Seq(Timers) : s = timers
        BY <1>2
    <3>. QED BY <3>1, SeqFacts DEF Listed
  <2>2. \A q, u : ~Queued(q, u)
      BY <1>1 DEF Queued
  <2>. QED BY <1>1, <2>1, <2>2
<1>4. /\ \A t \in Timers : /\ state[t] = "ACTIVE" /\ pending[t] = 0 /\ handle[t] = "none"
                           /\ t \notin freed
      /\ \A c \in Calls : call[c].at = "none"
      /\ \A d \in Deleters : deletion[d].at = "out" /\ deletion[d].timer = Null
      /\ thread.at = "top" /\ thread.timer = Null /\ program = "out" /\ done = "none"
    BY DEF Init
<1>5. \A t : Counted(t) = {}
    BY <1>4 DEF Counted
<1>6. TypeOK
  <2>1. call \in [Calls -> CallStates] /\ deletion \in [Deleters -> Deletions]
      BY DEF Init, CallStates, Deletions, Modes
  <2>2. thread \in ThreadStates
      BY DEF Init, ThreadStates
  <2>. QED BY SMTT(30), <1>1, <1>2, <1>3, <2>1, <2>2
           DEF Init, TypeOK, States, Handles, ThreadStates, CallStates, Deletions, Apcs
<1>7. CallsCounted
    BY <1>4, <1>5, FS_EmptySet DEF CallsCounted, Init
<1>8. QueueHolds /\ ThreadHolds
    BY <1>1, <1>4 DEF QueueHolds, ThreadHolds, Working
<1>9. PhasesHold
    BY <1>3, <1>4 DEF PhasesHold, Finishing, Ending
<1>10. ASSUME NEW t \in Timers PROVE TimerInv(t)
  <2>1. \A d \in Deleters : ~Removes(d, t)
      BY <1>4 DEF Removes
  <2>. QED BY <1>3, <1>4, <2>1
           DEF TimerInv, InList, RemovedOnce, CallsEnd, Removing, Modes
<1>11. ASSUME NEW d \in Deleters PROVE Deleting(d)
    BY <1>4, <1>5 DEF Deleting
<1>. QED BY <1>6, <1>7, <1>8, <1>9, <1>10, <1>11 DEF TimersInv

LEMMA StutterKeeps == ASSUME TimersInv, UNCHANGED vars PROVE TimersInv'
<1>1. UNCHANGED <<options, state, pending, cbEvent, armed, freed, handle, timers, waitEvent,
                  done, apcs, thread, call, deletion, program, uncounted, changes>>
    BY DEF vars, timerVars, queueVars, others
<1>2. /\ TypeOK' /\ CallsCounted' /\ QueueHolds' /\ ThreadHolds'
      /\ \A u : Counted(u)' = Counted(u)
    BY <1>1
       DEF TimersInv, TypeOK, CallsCounted, Counted, QueueHolds, ThreadHolds, Working, Listed
<1>3. /\ \A q, u : Queued(q, u)' <=> Queued(q, u)
      /\ (Ending' <=> Ending) /\ (Finishing' <=> Finishing) /\ (Deleted' <=> Deleted)
      /\ Listed' = Listed
    BY <1>1 DEF Queued, Ending, Finishing, Deleted, Listed
<1>4. \A u : Processed(u) => Counted(u)' = {} /\ Queued("Remove", u)'
    BY <1>2, <1>3 DEF Processed
<1>5. PhasesHold'
  <2>1. PhasesHold
      BY DEF TimersInv
  <2>2. \A k \in 1..Len(timers) : Processed(timers[k]) => Processed(timers[k])'
      BY <1>1, <1>2, <1>3 DEF Processed
  <2>3. Processed(thread.timer) => Processed(thread.timer)'
      BY <1>1, <1>2, <1>3 DEF Processed
  <2>. QED BY <1>1, <1>3, <2>1, <2>2, <2>3 DEF PhasesHold
<1>6. ASSUME NEW t \in Timers PROVE TimerInv(t)'
  <2>1. InList(t) /\ RemovedOnce(t) /\ CallsEnd(t)
      BY DEF TimersInv, TimerInv
  <2>2. InList(t)'
      BY <1>1, <1>3, <2>1 DEF InList
  <2>3. RemovedOnce(t)'
      BY <1>1, <1>3, <2>1 DEF RemovedOnce, Removes, Waiting, Removing
  <2>4. CallsEnd(t)'
      BY <1>1, <1>2, <1>3, <2>1 DEF CallsEnd
  <2>. QED BY <2>2, <2>3, <2>4 DEF TimerInv
<1>7. ASSUME NEW d \in Deleters PROVE Deleting(d)'
  <2>1. Deleting(d)
      BY DEF TimersInv
  <2>. QED BY <1>1, <1>2, <2>1 DEF Deleting
<1>. QED BY <1>2, <1>5, <1>6, <1>7 DEF TimersInv

LEMMA NextInv == TimersInv /\ [Next]_vars => TimersInv'
<1> SUFFICES ASSUME TimersInv, [Next]_vars PROVE TimersInv'
    OBVIOUS
<1>1. CASE ThreadStep \/ Fire
    BY <1>1, ThreadMovesKeep, DispatchKeeps, ApcKeeps, MarkKeeps, StartsKeep, FinishNextKeeps,
       FinishedKeeps DEF ThreadStep
<1>2. CASE \E c \in Calls : CallStep(c)
    BY <1>2, CallMovesKeep
<1>3. CASE \E d \in Deleters : DeletionStep(d) \/ PassWaitEvent(d)
    BY <1>3, QueueRemoveKeeps, DeletionMovesKeep DEF DeletionStep
<1>4. CASE ProgramStep \/ ReadEvent \/ WaitEnds
  <2>1. CASE \E t \in Timers : Create(t) \/ ChangeTimer(t) \/ CancelTimer(t)
      BY <2>1, ProgramQueuesKeep, ProgramMovesKeep
  <2>2. CASE \/ \E t \in Timers, mode \in Modes : Delete(t, mode)
             \/ CallbackDeletes
      BY <2>2, StartsKeep
  <2>3. CASE DeleteQueueAnyway
      BY <2>3, ProgramQueuesKeep
  <2>4. CASE ReadEvent \/ WaitEnds
      BY <2>4, ProgramMovesKeep
  <2>. QED BY <1>4, <2>1, <2>2, <2>3, <2>4 DEF ProgramStep
<1>5. CASE UNCHANGED vars
    BY <1>5, StutterKeeps
<1>. QED BY <1>1, <1>2, <1>3, <1>4, <1>5 DEF Next

LEMMA InvariantHolds == Spec => []TimersInv
  BY InitInv, NextInv, PTL DEF Spec

-----------------------------------------------------------------------------
(* What the invariant says *)

\* Timers, the queue, its thread, the calls and the deletions keep their types; the
\* count of a timer's calls is never negative, and the array of MAX_TIMERS places
\* neither overflows nor holds a timer twice.
THEOREM TimersTypeCorrect == Spec => []TypeOK
<1>1. TimersInv => TypeOK
    BY DEF TimersInv
<1>. QED BY <1>1, InvariantHolds, PTL

\* When DeleteTimerQueueTimer has returned that waits for the timer's callbacks, none
\* of them runs, nor does one of a timer that was left to the queue when the event
\* of the queue's deletion is set.
THEOREM TimerCallbacksEnd == Spec => []CallbacksEndFirst
<1>1. ASSUME TimersInv PROVE CallbacksEndFirst
  <2> SUFFICES ASSUME NEW t \in Timers,
                      \/ handle[t] = "block" /\ deletion[Program].timer # t
                      \/ handle[t] = "held" /\ done = "set"
               PROVE  ~Running(t)
      BY DEF CallbacksEndFirst
  <2>1. CallsEnd(t) /\ PhasesHold
      BY <1>1 DEF TimersInv, TimerInv
  <2>2. Counted(t) = {}
      BY <2>1 DEF CallsEnd, PhasesHold
  <2>. QED BY <2>2 DEF Running, Counted
<1>. QED BY <1>1, InvariantHolds, PTL

\* The queue's thread waits for, works with and has APCs for timers that are not
\* destroyed, whoever deletes them meanwhile.
THEOREM ThreadTimersLive == Spec => []ThreadUsesLiveTimers
<1>1. ASSUME TimersInv PROVE ThreadUsesLiveTimers
  <2>1. TypeOK /\ QueueHolds /\ ThreadHolds /\ Null \notin freed
      BY <1>1, ListTypes DEF TimersInv, TypeOK
  <2>2. ASSUME NEW t \in Timers
        PROVE  /\ InList(t) /\ RemovedOnce(t)
               /\ t \in Listed \/ state[t] = "ACTIVE" \/ Waiting(t) => t \notin freed
    <3>1. InList(t) /\ RemovedOnce(t)
        BY <1>1 DEF TimersInv, TimerInv
    <3>. QED BY <3>1 DEF InList, Waiting
  <2>3. ToSet(timers) \cap freed = {}
      BY <2>1, <2>2 DEF Listed, TypeOK
  <2>4. thread.timer \notin freed
    <3>1. PICK t \in Timers \cup {Null} : t = thread.timer
        BY <2>1 DEF TypeOK
    <3>2. t = Null \/ t \in Listed \/ Removing(t)
        BY <2>1, <3>1 DEF ThreadHolds, Removing, Working
    <3>. QED BY <2>1, <2>2, <3>1, <3>2 DEF RemovedOnce
  <2>5. ASSUME NEW k \in 1..Len(apcs) PROVE apcs[k].timer \notin freed
    <3>1. apcs[k] \in Apcs
        BY <2>1, ApcTypes
    <3>2. PICK proc \in {"Add", "Change", "Remove", "Finish", "Terminate"},
               t \in Timers \cup {Null} : apcs[k] = [proc |-> proc, timer |-> t]
        BY <3>1 DEF Apcs
    <3>3. Queued(proc, t) /\ (t = Null <=> proc \in {"Finish", "Terminate"})
        BY <2>1, <3>2 DEF Queued, QueueHolds
    <3>. QED BY <2>1, <2>2, <3>2, <3>3 DEF InList, RemovedOnce
  <2>. QED BY <2>3, <2>4, <2>5 DEF ThreadUsesLiveTimers
<1>. QED BY <1>1, InvariantHolds, PTL

\* The queue's thread ends when every timer was taken off its list, no APC is queued
\* and nobody is about to queue one.
THEOREM TimersEnd == Spec => []TimersEndWithQueue
<1>1. ASSUME TimersInv PROVE TimersEndWithQueue
  <2> SUFFICES ASSUME thread.at = "gone"
               PROVE  /\ timers = <<>> /\ apcs = <<>>
                      /\ \A d \in Deleters : deletion[d].at # "queue"
      BY DEF TimersEndWithQueue
  <2>1. timers = <<>> /\ apcs = <<>> /\ Listed = {}
    <3>1. timers = <<>> /\ apcs = <<>> /\ TypeOK
        BY <1>1 DEF TimersInv, PhasesHold
    <3>2. Len(timers) = 0
        BY <3>1
    <3>. QED BY <3>1, <3>2, ListTypes
  <2>2. ASSUME NEW d \in Deleters, deletion[d].at = "queue" PROVE FALSE
    <3>1. PICK t \in Timers : t = deletion[d].timer
        BY <1>1, <2>2 DEF TimersInv, TypeOK, Deleting
    <3>2. Removes(d, t)
        BY <2>2, <3>1 DEF Removes
    <3>. QED BY <1>1, <2>1, <3>2 DEF TimersInv, TimerInv, RemovedOnce
  <2>. QED BY <2>1, <2>2
<1>. QED BY <1>1, InvariantHolds, PTL

=============================================================================

------------------------ MODULE CompletionPortProofs ------------------------
(***************************************************************************)
(* Completion ports for any number of packets, getters and slots: wakeups  *)
(* are never lost, and a port with one getter is a queue.                  *)
(***************************************************************************)
EXTENDS CompletionPort, SequenceTheorems, TLAPS

\* Facts about sequences that the steps below rest on.
LEMMA AppendFacts ==
  ASSUME NEW S, NEW q \in Seq(S), NEW p \in S
  PROVE  /\ Append(q, p) \in Seq(S) /\ Append(q, p) # <<>>
         /\ Len(Append(q, p)) = Len(q) + 1
  BY AppendProperties

LEMMA TailFacts ==
  ASSUME NEW S, NEW q \in Seq(S), q # <<>>
  PROVE  /\ Head(q) \in S /\ Tail(q) \in Seq(S)
         /\ Len(Tail(q)) = Len(q) - 1
         /\ Len(q) \in Nat \ {0}
  OBVIOUS

LEMMA LenFacts ==
  ASSUME NEW S, NEW q \in Seq(S)
  PROVE  Len(q) \in Nat /\ (q # <<>> <=> Len(q) >= 1)
  OBVIOUS

-----------------------------------------------------------------------------
LEMMA InitTypeOK == Init => TypeOK
<1>1. <<>> \in Seq(Packets) /\ Len(<<>>) = 0
  OBVIOUS
<1>2. Len(<<>>) <= MAX_QUEUES
  BY <1>1, PortAssumption
<1>3. SUFFICES ASSUME Init PROVE TypeOK
  OBVIOUS
<1>4. packets \in Seq(Packets) /\ Len(packets) <= MAX_QUEUES
  BY <1>1, <1>2, <1>3 DEF Init
<1>. QED BY <1>3, <1>4 DEF Init, TypeOK

LEMMA NextTypeOK == TypeOK /\ [Next]_vars => TypeOK'
<1>. SUFFICES ASSUME TypeOK, [Next]_vars PROVE TypeOK'
  OBVIOUS
<1>1. ASSUME NEW p \in Packets, Post(p) PROVE TypeOK'
  <2>1. packets' \in Seq(Packets) /\ Len(packets') <= MAX_QUEUES
    BY <1>1, AppendFacts, LenFacts, PortAssumption DEF TypeOK, Post
  <2>. QED BY <1>1, <2>1 DEF TypeOK, Post
<1>2. ASSUME NEW g \in Getters, Call(g) \/ Wake(g) \/ TimeOut(g) PROVE TypeOK'
  BY <1>2 DEF TypeOK, Call, Wake, TimeOut
<1>3. ASSUME NEW g \in Getters, Take(g) PROVE TypeOK'
  <2>1. packets' \in Seq(Packets) /\ Len(packets') <= MAX_QUEUES
    BY <1>3, TailFacts, PortAssumption DEF TypeOK, Take
  <2>2. got' \in [Getters -> Packets \cup {NoPacket}]
    BY <1>3, TailFacts DEF TypeOK, Take
  <2>. QED BY <1>3, <2>1, <2>2 DEF TypeOK, Take
<1>4. ASSUME NEW g \in Getters, TakeNothing(g) PROVE TypeOK'
  BY <1>4 DEF TypeOK, TakeNothing
<1>5. CASE UNCHANGED vars
  BY <1>5 DEF TypeOK, vars
<1>. QED BY <1>1, <1>2, <1>3, <1>4, <1>5 DEF Next, GetterStep

(* The variables of a port range over their types.                         *)
THEOREM PortTypeCorrect == Spec => []TypeOK
  BY InitTypeOK, NextTypeOK, PTL DEF Spec

-----------------------------------------------------------------------------
(* No wakeup is lost *)

LEMMA NextNoLostWakeup == TypeOK /\ NoLostWakeup /\ [Next]_vars => NoLostWakeup'
<1>. SUFFICES ASSUME TypeOK, NoLostWakeup, [Next]_vars PROVE NoLostWakeup'
  OBVIOUS
<1>1. ASSUME NEW p \in Packets, Post(p) PROVE NoLostWakeup'
  BY <1>1 DEF NoLostWakeup, Post
<1>2. ASSUME NEW g \in Getters, Call(g) \/ TimeOut(g) PROVE NoLostWakeup'
  BY <1>2 DEF NoLostWakeup, TypeOK, Call, TimeOut
<1>3. ASSUME NEW g \in Getters, Wake(g) PROVE NoLostWakeup'
  BY <1>3 DEF NoLostWakeup, TypeOK, Wake
<1>4. ASSUME NEW g \in Getters, Take(g) PROVE NoLostWakeup'
  BY <1>4 DEF NoLostWakeup, Take
<1>5. ASSUME NEW g \in Getters, TakeNothing(g) PROVE NoLostWakeup'
  BY <1>5 DEF NoLostWakeup, TakeNothing
<1>6. CASE UNCHANGED vars
  BY <1>6 DEF NoLostWakeup, vars
<1>. QED BY <1>1, <1>2, <1>3, <1>4, <1>5, <1>6 DEF Next, GetterStep

(* However many threads get and post, packets in the port mean that the    *)
(* event is set or that a thread that was woken is still to take one: a    *)
(* port is never left with packets and everyone waiting.                   *)
THEOREM WakeupsAreNotLost == Spec => []NoLostWakeup
<1>1. Init => NoLostWakeup
  BY DEF Init, NoLostWakeup
<1>. QED BY <1>1, InitTypeOK, NextTypeOK, NextNoLostWakeup, PTL DEF Spec

-----------------------------------------------------------------------------
(* A port with one getter *)

SoleGetter == \A g, h \in Getters : g = h

\* The event and the woken getter stand for a packet each.
EventIsBacked ==
  /\ event => packets # <<>>
  /\ \A g \in Getters : at[g] = "woken" =>
       packets # <<>> /\ (event => Len(packets) >= 2)

SoleInv == TypeOK /\ EventIsBacked /\ ~overrun

LEMMA InitSole == Init => SoleInv
  BY InitTypeOK DEF Init, SoleInv, EventIsBacked

LEMMA NextSole == SoleGetter /\ SoleInv /\ [Next]_vars => SoleInv'
<1>. SUFFICES ASSUME SoleGetter, SoleInv, [Next]_vars PROVE SoleInv'
  OBVIOUS
<1>. TypeOK /\ TypeOK'
  BY NextTypeOK DEF SoleInv
<1>1. ASSUME NEW p \in Packets, Post(p) PROVE EventIsBacked' /\ ~overrun'
  <2>1. packets' # <<>> /\ Len(packets') = Len(packets) + 1
        /\ Len(packets) \in Nat
        /\ (packets # <<>> => Len(packets) >= 1)
    BY <1>1, AppendFacts, LenFacts DEF Post, TypeOK
  <2>. QED BY <1>1, <2>1 DEF Post, SoleInv, EventIsBacked
<1>2. ASSUME NEW g \in Getters, Call(g) \/ TimeOut(g)
      PROVE  EventIsBacked' /\ ~overrun'
  BY <1>2 DEF Call, TimeOut, SoleInv, EventIsBacked, TypeOK
<1>3. ASSUME NEW g \in Getters, Wake(g) PROVE EventIsBacked' /\ ~overrun'
  BY <1>3 DEF Wake, SoleInv, EventIsBacked, TypeOK, SoleGetter
<1>4. ASSUME NEW g \in Getters, Take(g) PROVE EventIsBacked' /\ ~overrun'
  <2>1. \A h \in Getters : at'[h] = "out"
    BY <1>4 DEF Take, TypeOK, SoleGetter
  <2>2. packets' \in Seq(Packets) /\ Len(packets') = Len(packets) - 1
        /\ Len(packets) \in Nat
        /\ (packets' # <<>> <=> Len(packets') >= 1)
    BY <1>4, TailFacts, LenFacts DEF Take, TypeOK
  <2>3. event => Len(packets) >= 2
    BY <1>4 DEF Take, SoleInv, EventIsBacked
  <2>4. event => packets' # <<>>
    BY <2>2, <2>3
  <2>5. event' => packets' # <<>>
    BY <1>4, <2>4 DEF Take
  <2>. QED BY <1>4, <2>1, <2>5 DEF Take, SoleInv, EventIsBacked
<1>5. ASSUME NEW g \in Getters, TakeNothing(g) PROVE FALSE
  BY <1>5 DEF TakeNothing, SoleInv, EventIsBacked
<1>6. CASE UNCHANGED vars
  BY <1>6 DEF vars, SoleInv, EventIsBacked
<1>. QED BY <1>1, <1>2, <1>3, <1>4, <1>5, <1>6 DEF Next, GetterStep, SoleInv

LEMMA NextUnlessOverrun ==
  [Next]_vars => [Queue!QueueNext \/ overrun']_(Queue!queueVars)
<1>. SUFFICES ASSUME [Next]_vars
              PROVE  Queue!QueueNext \/ overrun' \/ UNCHANGED Queue!queueVars
  OBVIOUS
<1>. USE DEF Queue!queueVars
<1>1. ASSUME NEW p \in Packets, Post(p) PROVE Queue!PostPacket(p)
  BY <1>1 DEF Post, Queue!PostPacket
<1>2. ASSUME NEW g \in Getters, Call(g) \/ Wake(g)
      PROVE  UNCHANGED <<packets, got>>
  BY <1>2 DEF Call, Wake
<1>3. ASSUME NEW g \in Getters, TimeOut(g) PROVE Queue!GetNothing(g)
  BY <1>3 DEF TimeOut, Queue!GetNothing
<1>4. ASSUME NEW g \in Getters, Take(g) PROVE Queue!GetPacket(g)
  BY <1>4 DEF Take, Queue!GetPacket
<1>5. ASSUME NEW g \in Getters, TakeNothing(g) PROVE overrun'
  BY <1>5 DEF TakeNothing
<1>6. CASE UNCHANGED vars
  BY <1>6 DEF vars
<1>. QED BY <1>1, <1>2, <1>3, <1>4, <1>5, <1>6
         DEF Next, GetterStep, Queue!QueueNext

(* With any number of getters, a port is a bounded queue until one of them  *)
(* finds it empty.                                                          *)
THEOREM QueueUnlessOverrun == Spec => QueueUntilOverrun
<1>1. Init => Queue!QueueInit
  BY DEF Init, Queue!QueueInit
<1>. QED BY <1>1, NextUnlessOverrun, PTL DEF Spec, QueueUntilOverrun

(* A port with one getter is a bounded queue: every packet got was posted, *)
(* once and in the order of posting, and count never goes below zero.      *)
THEOREM SoleGetterSeesAQueue ==
  ASSUME SoleGetter
  PROVE  Spec => ImplementsPacketQueue
<1>1. Init => Queue!QueueInit
  BY DEF Init, Queue!QueueInit
<1>2. SoleInv /\ [Next]_vars => SoleInv'
  BY NextSole
<1>3. SoleInv' /\ [Next]_vars => [Queue!QueueNext]_(Queue!queueVars)
  BY NextUnlessOverrun DEF SoleInv
<1>. QED BY <1>1, <1>2, <1>3, InitSole, PTL
         DEF Spec, ImplementsPacketQueue, Queue!QueueSpec

=============================================================================

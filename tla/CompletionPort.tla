--------------------------- MODULE CompletionPort ---------------------------
(***************************************************************************)
(* I/O completion ports, for packets that programs post themselves:        *)
(* src/apilibs/kexbases/Kernel32/port.c.                                   *)
(*                                                                         *)
(* A port is a bounded array of packets with a count, a critical section   *)
(* and an auto-reset event.  A getter waits for the event and enters the   *)
(* critical section afterwards: between the two, others post and get.      *)
(***************************************************************************)
EXTENDS Naturals, Sequences

CONSTANTS
  Packets,    \* what is posted: bytes, key and overlapped pointer
  Getters,    \* threads that call GetQueuedCompletionStatus
  MAX_QUEUES, \* 200 in the code
  NoPacket    \* *lpOverlapped before the first call, and after a timeout

ASSUME PortAssumption == MAX_QUEUES \in Nat \ {0} /\ NoPacket \notin Packets

VARIABLES
  packets, \* port->packets[0..count-1]
  event,   \* port->hEvent is signalled
  at,      \* where each getter is: "out", "wait"ing, or "woken"
  got,     \* what each getter's last call returned
  overrun  \* a getter took count below zero: its memmove of nearly 4 GB faults
           \* and leaves the critical section locked

vars == <<packets, event, at, got, overrun>>

TypeOK ==
  /\ packets \in Seq(Packets) /\ Len(packets) <= MAX_QUEUES
  /\ event \in BOOLEAN
  /\ at \in [Getters -> {"out", "wait", "woken"}]
  /\ got \in [Getters -> Packets \cup {NoPacket}]
  /\ overrun \in BOOLEAN

-----------------------------------------------------------------------------
(* PostQueuedCompletionStatus *)

\* A post to a full port fails and changes nothing.
Post(p) ==
  /\ ~overrun /\ Len(packets) < MAX_QUEUES
  /\ packets' = Append(packets, p)
  /\ event' = TRUE
  /\ UNCHANGED <<at, got, overrun>>

-----------------------------------------------------------------------------
(* GetQueuedCompletionStatus *)

Call(g) ==
  /\ at[g] = "out"
  /\ at' = [at EXCEPT ![g] = "wait"]
  /\ UNCHANGED <<packets, event, got, overrun>>

\* The wait resets the event.
Wake(g) ==
  /\ at[g] = "wait" /\ event
  /\ event' = FALSE
  /\ at' = [at EXCEPT ![g] = "woken"]
  /\ UNCHANGED <<packets, got, overrun>>

\* dwMilliseconds went by without the event.
TimeOut(g) ==
  /\ at[g] = "wait" /\ ~event
  /\ at' = [at EXCEPT ![g] = "out"]
  /\ got' = [got EXCEPT ![g] = NoPacket]
  /\ UNCHANGED <<packets, event, overrun>>

\* Mutation: the event is not set again for the packets that are left.
TakeQuietly(g) ==
  /\ at[g] = "woken" /\ ~overrun
  /\ packets # <<>>
  /\ got' = [got EXCEPT ![g] = Head(packets)]
  /\ packets' = Tail(packets)
  /\ at' = [at EXCEPT ![g] = "out"]
  /\ UNCHANGED <<event, overrun>>

\* Mutation: the newest packet is taken.
TakeLast(g) ==
  /\ at[g] = "woken" /\ ~overrun
  /\ packets # <<>>
  /\ got' = [got EXCEPT ![g] = packets[Len(packets)]]
  /\ packets' = SubSeq(packets, 1, Len(packets) - 1)
  /\ event' = (event \/ packets' # <<>>)
  /\ at' = [at EXCEPT ![g] = "out"]
  /\ UNCHANGED overrun

\* In the critical section: the first packet is taken, and the event set for
\* those that are left.
Take(g) ==
  /\ at[g] = "woken" /\ ~overrun
  /\ packets # <<>>
  /\ got' = [got EXCEPT ![g] = Head(packets)]
  /\ packets' = Tail(packets)
  /\ event' = (event \/ packets' # <<>>)
  /\ at' = [at EXCEPT ![g] = "out"]
  /\ UNCHANGED overrun

\* There is no packet: what packets[0] last held is returned, or would be.
TakeNothing(g) ==
  /\ at[g] = "woken" /\ ~overrun
  /\ packets = <<>>
  /\ overrun' = TRUE
  /\ \E p \in Packets : got' = [got EXCEPT ![g] = p]
  /\ UNCHANGED <<packets, event, at>>

-----------------------------------------------------------------------------
\* CreateIoCompletionPort.
Init ==
  /\ packets = <<>>
  /\ event = FALSE
  /\ at = [g \in Getters |-> "out"]
  /\ got = [g \in Getters |-> NoPacket]
  /\ overrun = FALSE

GetterStep(g) ==
  Call(g) \/ Wake(g) \/ TimeOut(g) \/ Take(g) \/ TakeNothing(g)

Next == (\E p \in Packets : Post(p)) \/ (\E g \in Getters : GetterStep(g))

Spec == Init /\ [][Next]_vars

\* Getters are worker threads: they call again, and run when they can.
Fairness == \A g \in Getters : WF_vars(Call(g)) /\ WF_vars(Wake(g))
                               /\ WF_vars(Take(g))

FairSpec == Spec /\ Fairness

-----------------------------------------------------------------------------
(* Properties *)

(* While there are packets the event is set, or a getter that has reset it  *)
(* is still to come for one, however many getters there are: no packet is   *)
(* left with everyone waiting.                                              *)
NoLostWakeup ==
  packets # <<>> => event \/ \E g \in Getters : at[g] = "woken"

(* Packets never stay for good while worker threads call.                   *)
PacketsGetOut ==
  <>[](packets # <<>>) => []<><<\E g \in Getters : Take(g)>>_vars

Queue == INSTANCE PacketQueue WITH Capacity <- MAX_QUEUES, queue <- packets

(* "get-post functionality is rougly simulated" (port.c): what is got was   *)
(* posted, once and in order.                                               *)
ImplementsPacketQueue == Queue!QueueSpec

(* However many getters there are, the port is that queue up to the moment  *)
(* when one of them finds it empty.                                         *)
QueueUntilOverrun ==
  Queue!QueueInit /\ [][Queue!QueueNext \/ overrun']_(Queue!queueVars)

=============================================================================

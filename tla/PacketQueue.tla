---------------------------- MODULE PacketQueue ----------------------------
(***************************************************************************)
(* What a completion port promises: packets come out once, in the order in *)
(* which they were posted, and nothing else comes out.                     *)
(***************************************************************************)
EXTENDS Naturals, Sequences

CONSTANTS Packets, Getters, Capacity, NoPacket

VARIABLES
  queue, \* the packets posted and not yet got
  got    \* what the last call of each getter returned

queueVars == <<queue, got>>

QueueInit == queue = <<>> /\ got = [g \in Getters |-> NoPacket]

PostPacket(p) ==
  /\ Len(queue) < Capacity
  /\ queue' = Append(queue, p)
  /\ UNCHANGED got

GetPacket(g) ==
  /\ queue # <<>>
  /\ got' = [got EXCEPT ![g] = Head(queue)]
  /\ queue' = Tail(queue)

GetNothing(g) ==
  /\ got' = [got EXCEPT ![g] = NoPacket]
  /\ UNCHANGED queue

QueueNext ==
  \/ \E p \in Packets : PostPacket(p)
  \/ \E g \in Getters : GetPacket(g) \/ GetNothing(g)

QueueSpec == QueueInit /\ [][QueueNext]_queueVars

=============================================================================

---------------------------- MODULE PacketQueue -----------------------------
(***************************************************************************)
(* What a router client promises the dispatcher: a bounded FIFO queue of   *)
(* packets whose head is offered to the router, one packet at a time, each *)
(* packet at most once.  Closing the queue loses what it still holds.      *)
(***************************************************************************)
EXTENDS Naturals, Sequences

CONSTANTS
  Clients,    \* the queues, one per router client
  Packets,    \* what they carry
  None,       \* no packet is on offer
  Capacity,   \* how many packets may wait in a queue
  Skipping    \* the client keeps no packet, not even the one it has just taken

VARIABLES
  open,       \* the queue accepts packets
  queue,      \* the packets waiting, oldest first
  offered     \* the packet sent to the router and not answered yet

vars == <<open, queue, offered>>

Open(c) ==
  /\ ~open[c]
  /\ queue[c] = <<>>
  /\ open' = [open EXCEPT ![c] = TRUE]
  /\ UNCHANGED <<queue, offered>>

Put(c, p) ==
  /\ open[c]
  /\ Len(queue[c]) < Capacity
  /\ queue' = [queue EXCEPT ![c] = Append(@, p)]
  /\ UNCHANGED <<open, offered>>

Offer(c) ==
  /\ open[c]
  /\ queue[c] # <<>>
  /\ offered[c] = None
  /\ offered' = [offered EXCEPT ![c] = IF Skipping THEN None ELSE Head(queue[c])]
  /\ queue' = [queue EXCEPT ![c] = Tail(@)]
  /\ UNCHANGED open

Settle(c) ==
  /\ offered[c] # None
  /\ offered' = [offered EXCEPT ![c] = None]
  /\ UNCHANGED <<open, queue>>

Close(c) ==
  /\ open[c]
  /\ offered[c] = None
  /\ open' = [open EXCEPT ![c] = FALSE]
  /\ queue' = [queue EXCEPT ![c] = <<>>]
  /\ UNCHANGED offered

Init ==
  /\ open = [c \in Clients |-> FALSE]
  /\ queue = [c \in Clients |-> <<>>]
  /\ offered = [c \in Clients |-> None]

Next ==
  \E c \in Clients :
    \/ Open(c)
    \/ \E p \in Packets : Put(c, p)
    \/ Offer(c)
    \/ Settle(c)
    \/ Close(c)

Spec == Init /\ [][Next]_vars
=============================================================================

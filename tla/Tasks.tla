------------------------------- MODULE Tasks --------------------------------
(***************************************************************************)
(* What server::run's try_join! can expect of the beaconer, the gateway    *)
(* and the dispatcher: a task returns only after the trigger has fired,    *)
(* and it may be held up by a send to the channel of another.  A task is   *)
(* running, has returned, or waits for the receiver of a channel; client   *)
(* stands for the router clients, which wait for the gateway in turn, and  *)
(* entropy for the curl that fetches it, which is given no time limit.     *)
(* Radio and Dispatcher implement this specification, Process builds on it.*)
(***************************************************************************)
VARIABLES
  status,    \* running, returned or the receiver waited for, of each task
  shutdown   \* the shutdown trigger has fired

Peers == [beaconer |-> {"gateway", "entropy"},
          gateway |-> {"dispatcher", "beaconer"},
          dispatcher |-> {"gateway", "client"}]

TaskNames == DOMAIN Peers

Waiting(t) == status[t] \in Peers[t]

Wait(t) ==
  /\ status[t] = "running"
  /\ \E peer \in Peers[t] : status' = [status EXCEPT ![t] = peer]
  /\ UNCHANGED shutdown

\* The send is done; the handler has another to do, or the task is back at the
\* top of its loop.
Resume(t) ==
  /\ Waiting(t)
  /\ \E next \in Peers[t] \cup {"running"} \cup (IF shutdown THEN {"returned"} ELSE {}) :
       status' = [status EXCEPT ![t] = next]
  /\ UNCHANGED shutdown

Return(t) ==
  /\ status[t] = "running"
  /\ shutdown
  /\ status' = [status EXCEPT ![t] = "returned"]
  /\ UNCHANGED shutdown

TaskStep(t) == Wait(t) \/ Resume(t) \/ Return(t)

Trigger ==
  /\ ~shutdown
  /\ shutdown' = TRUE
  /\ UNCHANGED status

Init ==
  /\ status = [t \in TaskNames |-> "running"]
  /\ shutdown = FALSE

Next == (\E t \in TaskNames : TaskStep(t)) \/ Trigger

Spec == Init /\ [][Next]_<<status, shutdown>>

\* What t waits for is taking messages.
Served(t) ==
  LET receiver == IF status[t] = "client" THEN "gateway" ELSE status[t]
  IN Waiting(t) /\ receiver \in TaskNames /\ status[receiver] = "running"
=============================================================================

------------------------------ MODULE Process -------------------------------
(***************************************************************************)
(* A process (src/main.rs): it runs the server or an update command and    *)
(* exits with a code.  The server (src/server.rs) is five futures in one   *)
(* try_join!: beaconer, gateway and dispatcher, of which Tasks says what   *)
(* the others can expect, the updater, and the local API                   *)
(* (src/api/server.rs) with its callers.  try_join! is done when all have  *)
(* returned, or at once when one fails: the others are then dropped at     *)
(* their awaits, in the same poll, and the process exits.                  *)
(***************************************************************************)
EXTENDS Updater

CONSTANTS Callers   \* callers of the local API

VARIABLES
  status,   \* of beaconer, gateway and dispatcher, as in Tasks
  api,      \* starting, serving, draining, returned, failed
  calls,    \* what each caller is doing: idle or waiting for an answer
  exit      \* the exit code, None while the process runs

T == INSTANCE Tasks

process_vars == <<status, api, calls>>
all_vars == <<vars, process_vars, exit>>

\* Defect: the first future that returns ends the server.
Outcome_select ==
  LET joined == IF command # "server" THEN pc = "returned"
                ELSE \/ pc = "returned"
                     \/ api = "returned"
                     \/ \E t \in T!TaskNames : status[t] = "returned"
  IN IF "failed" \in {pc, api} THEN 1 ELSE IF joined THEN 0 ELSE None

\* How try_join!, or the command, has ended; the match at the end of main.
Outcome ==
  LET joined == IF command # "server" THEN pc = "returned"
                ELSE /\ pc = "returned"
                     /\ api = "returned"
                     /\ \A t \in T!TaskNames : status[t] = "returned"
  IN IF "failed" \in {pc, api} THEN 1 ELSE IF joined THEN 0 ELSE None

\* A step of the running process, and what try_join! makes of it.
Do(A) == exit = None /\ A /\ exit' = Outcome'

Serving == command = "server"

UpdaterStep == Step /\ UNCHANGED process_vars

JoinedTask(t) ==
  /\ Serving
  /\ T!TaskStep(t)
  /\ UNCHANGED <<updater_vars, api, calls>>

(***************************************************************************)
(* The local API: serve_with_shutdown binds its port, and after the        *)
(* trigger accepts nothing more but waits for the calls it has.            *)
(***************************************************************************)
ApiTo(next) ==
  /\ api' = next
  /\ UNCHANGED <<vars, status, calls>>

Bind == Serving /\ api = "starting" /\ \E next \in {"serving", "failed"} : ApiTo(next)

\* Defect: the trigger is noticed only while a call is open.
Close_in_call ==
  /\ api = "serving" /\ shutdown
  /\ \E c \in Callers : calls[c] = "waiting"
  /\ ApiTo("draining")

Close == api = "serving" /\ shutdown /\ ApiTo("draining")

Drained ==
  /\ api = "draining"
  /\ \A c \in Callers : calls[c] # "waiting"
  /\ ApiTo("returned")

\* A call that needs the dispatcher: in its channel, or waiting for a slot.
Call(c) ==
  /\ api = "serving"
  /\ calls[c] = "idle"
  /\ calls' = [calls EXCEPT ![c] = "waiting"]
  /\ UNCHANGED <<vars, status, api>>

\* Defect: the answer is the gateway's to give.
Answer_by_gateway(c) ==
  /\ status["dispatcher"] = "running" /\ status["gateway"] = "running"
  /\ calls[c] = "waiting"
  /\ calls' = [calls EXCEPT ![c] = "idle"]
  /\ UNCHANGED <<vars, status, api>>

\* The dispatcher takes the request from its select! and answers it, if only to
\* say that it has no gateway or that the gateway did not answer.
Answer(c) ==
  /\ status["dispatcher"] = "running"
  /\ calls[c] = "waiting"
  /\ calls' = [calls EXCEPT ![c] = "idle"]
  /\ UNCHANGED <<vars, status, api>>

\* The caller closes its connection.  LocalClient sets no timeout.
Leave(c) ==
  /\ calls[c] = "waiting"
  /\ calls' = [calls EXCEPT ![c] = "idle"]
  /\ UNCHANGED <<vars, status, api>>

\* Ctrl-C, or the end of stdin.  A command has no use for the trigger, but the
\* handler is installed for it too.
Trigger ==
  /\ T!Trigger
  /\ UNCHANGED <<updater_vars, api, calls>>

PublishStep == (\E r \in Releases : Publish(r)) /\ UNCHANGED process_vars

\* Settings::new or Gateway::new may fail, which is the end.
Init ==
  /\ UpdaterInit
  /\ T!Init
  /\ api = "starting"
  /\ calls = [c \in Callers |-> "idle"]
  /\ exit \in {None, 1}

Next ==
  \/ Do(UpdaterStep)
  \/ \E t \in T!TaskNames : Do(JoinedTask(t))
  \/ Do(Bind) \/ Do(Close) \/ Do(Drained)
  \/ \E c \in Callers : Do(Call(c)) \/ Do(Answer(c)) \/ Do(Leave(c))
  \/ Do(Trigger)
  \/ Do(PublishStep)

Spec == Init /\ [][Next]_all_vars

(***************************************************************************)
(* Fairness.  A wait for a task that keeps taking messages ends, and its   *)
(* handler with it; the arms of a select! are taken when they are ready    *)
(* again and again.  The children (curl, the install command) may run for  *)
(* ever, and a caller may wait for ever.                                   *)
(***************************************************************************)
Fairness ==
  /\ \A t \in T!TaskNames :
       /\ SF_all_vars(Do(T!Served(t) /\ JoinedTask(t) /\ status'[t] = "running"))
       /\ SF_all_vars(Do(T!Return(t) /\ JoinedTask(t)))
  /\ SF_all_vars(Do(Shutdown /\ UpdaterStep))
  /\ WF_all_vars(Do(Bind)) /\ WF_all_vars(Do(Close)) /\ WF_all_vars(Do(Drained))
  /\ \A c \in Callers : SF_all_vars(Do(Answer(c)))

FairSpec == Spec /\ Fairness
-----------------------------------------------------------------------------
(***************************************************************************)
(* Properties                                                              *)
(***************************************************************************)
\* The server exits with success only when it was told to stop, and then no
\* caller of the local API is left without an answer: an installed update or a
\* disabled updater, whose future has returned, does not end the others.
CleanExit ==
  exit = 0 /\ Serving => shutdown /\ \A c \in Callers : calls[c] # "waiting"

\* What can hold up the exit: a task waiting for one that takes no messages, or
\* for the curl that fetches entropy; a call that waits for the dispatcher after
\* it returned; a child process of the updater.
HeldByTask == \E t \in T!TaskNames : T!Waiting(t) /\ ~T!Served(t)
HeldByCall == status["dispatcher"] = "returned" /\ \E c \in Callers : calls[c] = "waiting"
HeldByChild == pc \in {"fetching", "downloading", "installing"}

\* A server that is told to stop exits, unless one of those three holds it up
\* for ever; nothing else in server::run can.
TriggerExits ==
  <>shutdown => <>(exit # None) \/ <>[]HeldByTask \/ <>[]HeldByCall \/ <>[]HeldByChild

\* A caller of the local API gets an answer or sees the process exit, unless
\* the dispatcher has returned or is held up for ever.
CallSettles ==
  \A c \in Callers :
    \/ calls[c] = "waiting" ~> (calls[c] # "waiting" \/ exit # None)
    \/ <>[](\/ status["dispatcher"] = "returned"
            \/ T!Waiting("dispatcher") /\ ~T!Served("dispatcher"))
=============================================================================

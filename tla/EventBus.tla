------------------------------- MODULE EventBus -------------------------------
(***************************************************************************)
(* How a message gets from a platform adapter to the pipeline and its      *)
(* answer back, and how Lifecycle.stop takes that path down: the adapters  *)
(* with a future per request (core/platform/webchat.py, daw_agent.py), the *)
(* HTTP handlers that wait on it (dashboard/routes/chat.py, daw_agent.py), *)
(* the event queue and its dispatch loop (core/event_bus.py), the stages   *)
(* (core/pipeline/scheduler.py) and steps 3 to 7 of core/lifecycle.py.     *)
(* All are coroutines of one loop: what happens between two awaits is one  *)
(* action.                                                                 *)
(***************************************************************************)
EXTENDS Naturals, Sequences, SequencesExt, Functions

CONSTANTS Requests, NoEvent

ASSUME BusAssumption == NoEvent \notin Requests

VARIABLES
    waiter,     \* each request's future, as its HTTP handler sees it
    pending,    \* _pending: the futures an answer can reach
    withdrawn,  \* events marked _request_cancelled
    events,     \* event_queue
    dispatcher, \* "waiting", "got" an event, "handing" it on, "stopped"
    carried,    \* the event it has taken, or None
    turn,       \* the pipeline task of each event
    lost,       \* history: events taken or discarded without a task
    shutdown,   \* _shutdown is set
    stop,       \* Lifecycle.stop: "no", "grace" (bus), "tasks", "over"
    serving     \* the dashboard accepts requests

http == <<waiter, pending, withdrawn, serving>>
loop == <<dispatcher, carried>>
busVars == <<http, events, loop, turn, lost, shutdown, stop>>

\* _running_tasks: the done callback takes a task out.
RunningTasks == {r \in Requests : turn[r] \in {"running", "canceling"}}
Waiting == {r \in Requests : waiter[r] = "waiting"}
Settle(S, how) == waiter' = [r \in Requests |-> IF r \in S \cap Waiting THEN how ELSE waiter[r]]

BusInit ==
    /\ waiter = [r \in Requests |-> "none"] /\ pending = {} /\ withdrawn = {}
    /\ events = <<>> /\ dispatcher = "waiting" /\ carried = NoEvent
    /\ turn = [r \in Requests |-> "none"] /\ lost = {}
    /\ shutdown = FALSE /\ stop = "no" /\ serving = TRUE

----------------------------------------------------------------------------
\* The chat handler: create_event registers the future and commits the event.
\* The server takes requests until it has noticed its own stop.
Request(r) ==
    /\ serving /\ stop # "over" /\ waiter[r] = "none"
    /\ waiter' = [waiter EXCEPT ![r] = "waiting"]
    /\ pending' = pending \cup {r}
    /\ events' = Append(events, r)
    /\ UNCHANGED <<withdrawn, serving, loop, turn, lost, shutdown, stop>>

\* wait_for gives up: cancel_request takes the future back and marks the event,
\* cancel_operation cancels the turn of exactly this request, if it has one.
Timeout(r) ==
    /\ waiter[r] = "waiting"
    /\ Settle({r}, "timed out")
    /\ pending' = pending \ {r}
    /\ withdrawn' = withdrawn \cup {r}
    /\ UNCHANGED <<serving, events, loop, turn, lost, shutdown, stop>>

\* The client goes away: the handler and the future are cancelled; the webchat
\* handler catches no CancelledError and leaves the future in _pending.
ClientLeaves(r) ==
    /\ waiter[r] = "waiting"
    /\ Settle({r}, "canceled")
    /\ UNCHANGED <<pending, withdrawn, serving, events, loop, turn, lost, shutdown, stop>>

----------------------------------------------------------------------------
\* get_task has the event; the loop that awaits it runs a tick later.
Get ==
    /\ dispatcher = "waiting" /\ events # <<>>
    /\ carried' = Head(events) /\ events' = Tail(events)
    /\ dispatcher' = "got"
    /\ UNCHANGED <<http, turn, lost, shutdown, stop>>

\* The loop wakes.  With the shutdown set it leaves and drops what it has taken;
\* else it awaits the cancelled shutdown_wait, and anybody may run meanwhile.
WakeLoop ==
    /\ dispatcher = "got" \/ (dispatcher = "waiting" /\ shutdown)
    /\ IF shutdown
       THEN /\ dispatcher' = "stopped" /\ carried' = NoEvent
            /\ lost' = IF carried = NoEvent THEN lost ELSE lost \cup {carried}
       ELSE dispatcher' = "handing" /\ UNCHANGED <<carried, lost>>
    /\ UNCHANGED <<http, events, turn, shutdown, stop>>

(* Fault: the loop does not look at the shutdown again. *)
DispatchBlindly ==
    /\ dispatcher = "handing"
    /\ turn' = [turn EXCEPT ![carried] = "running"]
    /\ dispatcher' = "waiting" /\ carried' = NoEvent
    /\ UNCHANGED <<http, events, lost, shutdown, stop>>

\* The task is made without another look at the flag; the while condition is.
Dispatch ==
    /\ dispatcher = "handing"
    /\ turn' = [turn EXCEPT ![carried] = "running"]
    /\ dispatcher' = IF shutdown THEN "stopped" ELSE "waiting"
    /\ carried' = NoEvent
    /\ UNCHANGED <<http, events, lost, shutdown, stop>>

\* RespondStage: the answer goes to the future, if it is still there; a future
\* that is done is only taken out.
AnswerRequest(r) ==
    /\ turn[r] = "running"
    /\ turn' = [turn EXCEPT ![r] = "ended"]
    /\ Settle(pending \cap {r}, "answered")
    /\ pending' = pending \ {r}
    /\ UNCHANGED <<withdrawn, serving, events, loop, lost, shutdown, stop>>

\* A stage does not pass the event on, an error is caught by the scheduler, a
\* withdrawn event is not processed, or the task has been cancelled.
EndSilently(r) ==
    /\ r \in RunningTasks
    /\ turn' = [turn EXCEPT ![r] = "ended"]
    /\ UNCHANGED <<http, events, loop, lost, shutdown, stop>>

----------------------------------------------------------------------------
\* EventBus.shutdown up to its wait: the queue is emptied, the tasks cancelled.
ShutdownBus ==
    /\ shutdown' = TRUE
    /\ lost' = lost \cup Range(events) /\ events' = <<>>
    /\ turn' = [r \in Requests |-> IF turn[r] = "running" THEN "canceling" ELSE turn[r]]
    /\ stop' = IF RunningTasks = {} THEN "tasks" ELSE "grace"

(* Fault: the adapters forget the futures without cancelling them. *)
StopForgetting ==
    /\ stop = "no"
    /\ pending' = {}
    /\ ShutdownBus
    /\ UNCHANGED <<waiter, withdrawn, serving, loop>>

\* Lifecycle.stop from the adapters' terminate to the first real wait, in the
\* bus: futures cancelled, the dashboard told, the bus shut down.
Stop ==
    /\ stop = "no"
    /\ Settle(pending, "canceled") /\ pending' = {}
    /\ ShutdownBus
    /\ UNCHANGED <<withdrawn, serving, loop>>

\* The grace period of the bus ends, or its tasks do.
GraceEnds ==
    /\ stop = "grace" /\ stop' = "tasks"
    /\ UNCHANGED <<http, events, loop, turn, lost, shutdown>>

\* The server notices that it has been asked to stop.
ServerStops ==
    /\ serving /\ shutdown
    /\ serving' = FALSE
    /\ UNCHANGED <<waiter, pending, withdrawn, events, loop, turn, lost, shutdown, stop>>

\* Steps 6 and 7: the services that are left, and the handlers they serve, are
\* cancelled.
CancelTasks ==
    /\ stop = "tasks" /\ stop' = "over"
    /\ serving' = FALSE
    /\ dispatcher' = IF dispatcher = "handing" THEN dispatcher ELSE "stopped"
    /\ carried' = IF dispatcher = "handing" THEN carried ELSE NoEvent
    /\ lost' = IF dispatcher = "got" THEN lost \cup {carried} ELSE lost
    /\ Settle(Requests, "canceled")
    /\ UNCHANGED <<pending, withdrawn, events, turn, shutdown>>

BusNext ==
    \/ \E r \in Requests :
         Request(r) \/ Timeout(r) \/ ClientLeaves(r) \/ AnswerRequest(r) \/ EndSilently(r)
    \/ Get \/ WakeLoop \/ Dispatch
    \/ Stop \/ GraceEnds \/ ServerStops \/ CancelTasks

BusSpec == BusInit /\ [][BusNext]_busVars

----------------------------------------------------------------------------
BusTypeOK ==
    /\ waiter \in [Requests -> {"none", "waiting", "answered", "timed out", "canceled"}]
    /\ pending \subseteq Requests /\ withdrawn \subseteq Requests
    /\ events \in Seq(Requests)
    /\ dispatcher \in {"waiting", "got", "handing", "stopped"}
    /\ carried \in Requests \cup {NoEvent}
    /\ turn \in [Requests -> {"none", "running", "canceling", "ended"}]
    /\ lost \subseteq Requests /\ shutdown \in BOOLEAN
    /\ stop \in {"no", "grace", "tasks", "over"} /\ serving \in BOOLEAN

\* A handler that waits can be answered: its future is where send_message looks,
\* and before the shutdown its event is queued, taken or served.  So what the bus
\* drops when it stops (event_bus.py:65) has nobody waiting for it, unless the
\* request slipped in after terminate (lifecycle.py:309).
WaitersAreServed ==
    \A r \in Waiting :
        /\ r \in pending
        /\ \/ shutdown \/ turn[r] # "none"
           \/ r \in Range(events) \cup {carried}

\* Once the bus has been told to stop, at most the event it was handing on still
\* starts a turn, and the loop ends with it.
AtMostOneStartsLate ==
    [][\A r \in Requests : shutdown /\ turn[r] = "none" /\ turn'[r] = "running"
            => r = carried /\ dispatcher' = "stopped"]_busVars

\* Both: who waits can be answered, and a shutdown lets at most one turn start.
ShutdownIsOrderly == []WaitersAreServed /\ AtMostOneStartsLate
=============================================================================

------------------------------- MODULE ChatTurn -------------------------------
(***************************************************************************)
(* The chat pipeline (core/pipeline/stages/process.py): how the requests   *)
(* of many chat sessions share the agents, the session locks, the register *)
(* of active requests and the histories on disk (core/agent/session.py).   *)
(*                                                                         *)
(* A request is served by a coroutine and, while the model answers, by a   *)
(* thread of the executor.  What a coroutine does between two awaits is    *)
(* one action.  Lock and agent objects are named by the request that made  *)
(* them; a name outlives its place in the dictionaries.                    *)
(***************************************************************************)
EXTENDS Naturals, Sequences, SequencesExt

CONSTANTS Sessions,   \* chats: event.unified_msg_origin
          Requests,   \* messages that arrive
          SessionOf,  \* the session of each request
          Research,   \* requests with a deadline (deepresearch)
          ToolUsers,  \* bound: requests whose chat calls tools
          Tails,      \* bound: how many entries a compression leaves
          None,
          MaxInterventions \* bound on what users, the dashboard and the clock do

ASSUME ChatAssumption ==
    /\ SessionOf \in [Requests -> Sessions]
    /\ Research \subseteq Requests /\ ToolUsers \subseteq Requests
    /\ None \notin Requests
    /\ MaxInterventions \in Nat

VARIABLES
    agents,         \* _agents: the agent of each session
    messages,       \* Agent.messages of each agent object
    cancel_event,   \* agents whose _cancel_event is set
    helper,         \* the sub-agent of each request in _background_tasks
    stale,          \* sessions whose _agents_last_active is older than the TTL
    session_locks,  \* _session_locks
    queue,          \* each lock object: its holder, then its waiters
    saved,          \* the history in the session's file
    active,         \* _active_session_ids
    active_request, \* _active_request_ids
    cancelled,      \* events marked _request_cancelled
    lock, agent,    \* the lock and the agent object each request has got
    at,             \* where its coroutine is
    thread,         \* where its chat thread is, or how the chat ended
    disturbed,      \* history: sessions whose lock was lost, or chat left
                    \* running, while a turn was under way
    interventions   \* how many more there may be

cached == <<agents, messages, stale, session_locks, queue>>
register == <<active, active_request>>
served == <<lock, agent, at, thread>>
signals == <<cancel_event, helper>>
outside == <<cancelled, interventions>>
vars == <<cached, signals, saved, register, outside, served, disturbed>>

Working == {"submitted", "running"}
Returned == {"text", "partial", "notice", "rounds"}
Outcomes == Returned \cup {"error"}

Goto(r, s) == at' = [at EXCEPT ![r] = s]
InTurn(r) == at[r] \in {"preparing", "chatting"}
Busy(r) == InTurn(r) \/ at[r] = "responding" \/ thread[r] \in Working
InUse(l, q) == l # None /\ q[l] # <<>>

Init ==
    /\ agents = [s \in Sessions |-> None]
    /\ messages = [r \in Requests |-> <<>>]
    /\ cancel_event = {} /\ stale = {} /\ cancelled = {} /\ disturbed = {}
    /\ helper = [r \in Requests |-> "none"]
    /\ session_locks = [s \in Sessions |-> None]
    /\ queue = [r \in Requests |-> <<>>]
    /\ saved = [s \in Sessions |-> <<>>]
    /\ active = {} /\ active_request = [s \in Sessions |-> None]
    /\ lock = [r \in Requests |-> None] /\ agent = [r \in Requests |-> None]
    /\ at = [r \in Requests |-> "new"]
    /\ thread = [r \in Requests |-> "none"]
    /\ interventions = MaxInterventions

----------------------------------------------------------------------------
(***************************************************************************)
(* Histories.  An entry is a question, the rounds of tool calls of a chat  *)
(* or an answer; it is kept, or left to the summary the list begins with,  *)
(* and it has the words of its own chat or of one that replaced them.      *)
(***************************************************************************)
Entry(r, who) == [of |-> r, by |-> who, kept |-> TRUE, words |-> r]

\* At least two messages stay; the rounds of one chat are several.
LeavesTwo(h, n) == n + 2 <= Len(h) \/ \E i \in n .. Len(h) : h[i].by = "calls"

Summarized(h, n) ==
    [i \in DOMAIN h |-> IF i <= n THEN [h[i] EXCEPT !.kept = FALSE] ELSE h[i]]

\* maybe_compress: what the first entries say is put into a summary, or nothing is.
Compressed(h) ==
    {h} \cup {Summarized(h, n) : n \in {m \in 1 .. Len(h) : LeavesTwo(h, m) /\ Len(h) - m \in Tails}}

\* The latest message of the model that is there gets the words of the response to r.
Speaking(h) == {i \in DOMAIN h : h[i].kept /\ h[i].by # "user"}
Replaced(h, r) ==
    [i \in DOMAIN h |-> IF i \in Speaking(h) /\ \A j \in Speaking(h) : j <= i
                        THEN [h[i] EXCEPT !.words = r] ELSE h[i]]

\* The calls of r are the last entry.
Called(r) ==
    LET h == messages[agent[r]] IN h # <<>> /\ Last(h).of = r /\ Last(h).by = "calls"

----------------------------------------------------------------------------
(***************************************************************************)
(* A request gets the lock of its session and an agent.                    *)
(***************************************************************************)
(* Fault: a new agent does not load the history. *)
GetAgentUnloaded(r) ==
    LET s == SessionOf[r]
        fresh == agents[s] = None \/ s \in stale
    IN  /\ agents' = [t \in Sessions |-> IF t = s THEN (IF fresh THEN r ELSE agents[s])
                                         ELSE IF t \in stale THEN None ELSE agents[t]]
        /\ agent' = [agent EXCEPT ![r] = agents'[s]]
        /\ stale' = {}
        /\ UNCHANGED messages

\* _get_or_create_agent: every session that is stale, r's own included, loses
\* its agent; a new agent starts from the history on disk.
GetAgent(r) ==
    LET s == SessionOf[r]
        fresh == agents[s] = None \/ s \in stale
    IN  /\ agents' = [t \in Sessions |-> IF t = s THEN (IF fresh THEN r ELSE agents[s])
                                         ELSE IF t \in stale THEN None ELSE agents[t]]
        /\ agent' = [agent EXCEPT ![r] = agents'[s]]
        /\ messages' = IF fresh THEN [messages EXCEPT ![r] = saved[s]] ELSE messages
        /\ stale' = {}

\* The request was cancelled while it waited: the lock is given back.
Skip(r, l, locks, q) ==
    /\ session_locks' = locks
    /\ queue' = [q EXCEPT ![l] = Tail(@)]
    /\ Goto(r, "over")
    /\ UNCHANGED <<agents, messages, stale, register, agent, disturbed>>

\* r has lock l: it gets an agent, which also throws away the locks of stale
\* sessions, and registers as the active request.
Start(r, l, locks, q) ==
    IF r \in cancelled THEN Skip(r, l, locks, q)
    ELSE /\ GetAgent(r)
         /\ session_locks' = [t \in Sessions |-> IF t \in stale THEN None ELSE locks[t]]
         /\ queue' = q
         /\ disturbed' = disturbed \cup {t \in stale : InUse(locks[t], q)}
         /\ active' = active \cup {SessionOf[r]}
         /\ active_request' = [active_request EXCEPT ![SessionOf[r]] = r]
         /\ Goto(r, "preparing")

(* Fault: every request makes a lock of its own. *)
LockForNew(r) == r

\* _get_session_lock
LockFor(r) ==
    IF session_locks[SessionOf[r]] = None THEN r ELSE session_locks[SessionOf[r]]

Arrive(r) ==
    /\ at[r] = "new"
    /\ r \notin cancelled
    /\ LET l == LockFor(r)
           locks == [session_locks EXCEPT ![SessionOf[r]] = l]
           q == [queue EXCEPT ![l] = Append(@, r)]
       IN  /\ lock' = [lock EXCEPT ![r] = l]
           /\ IF queue[l] = <<>> THEN Start(r, l, locks, q)
              ELSE /\ session_locks' = locks /\ queue' = q
                   /\ Goto(r, "waiting")
                   /\ UNCHANGED <<agents, messages, stale, register, agent, disturbed>>
    /\ UNCHANGED <<signals, saved, outside, thread>>

\* An event that was cancelled before it was dispatched.
Drop(r) ==
    /\ at[r] = "new" /\ r \in cancelled
    /\ Goto(r, "over")
    /\ UNCHANGED <<cached, signals, saved, register, outside, lock, agent, thread,
                   disturbed>>

\* The lock was given to the next waiter.
Resume(r) ==
    /\ at[r] = "waiting"
    /\ Head(queue[lock[r]]) = r
    /\ Start(r, lock[r], session_locks, queue)
    /\ UNCHANGED <<signals, saved, outside, lock, thread>>

----------------------------------------------------------------------------
(***************************************************************************)
(* The turn.                                                               *)
(***************************************************************************)
\* Images are transcribed and knowledge is looked up, then the chat is handed
\* to the executor.
Prepared(r) ==
    /\ at[r] = "preparing"
    /\ Goto(r, "chatting")
    /\ thread' = [thread EXCEPT ![r] = "submitted"]
    /\ UNCHANGED <<cached, signals, saved, register, outside, lock, agent, disturbed>>

\* The chat adds to its history, which may be compressed then.
Says(r, who) ==
    \E h \in Compressed(Append(messages[agent[r]], Entry(r, who))) :
        messages' = [messages EXCEPT ![agent[r]] = h]

\* The chat thread: the cancel event is cleared and the message appended.
ChatBegins(r) ==
    /\ thread[r] = "submitted"
    /\ thread' = [thread EXCEPT ![r] = "running"]
    /\ cancel_event' = cancel_event \ {agent[r]}
    /\ Says(r, "user")
    /\ UNCHANGED <<agents, stale, session_locks, queue, helper, saved, register, outside, lock,
                   agent, at, disturbed>>

\* The model calls tools, in one round or several.  One of them may leave a sub-agent in the
\* background.
ChatCalls(r) ==
    /\ r \in ToolUsers /\ thread[r] = "running" /\ ~Called(r)
    /\ agent[r] \notin cancel_event
    /\ Says(r, "calls")
    /\ \/ UNCHANGED helper
       \/ r \notin Research /\ helper' = [helper EXCEPT ![r] = "queued"]
    /\ UNCHANGED <<agents, stale, session_locks, queue, cancel_event, saved, register, outside,
                   served, disturbed>>

\* A thread of _background_pool takes the sub-agent.  Only now can it be stopped.
HelperStarts(r) ==
    /\ helper[r] = "queued"
    /\ helper' = [helper EXCEPT ![r] = "running"]
    /\ UNCHANGED <<cached, cancel_event, saved, register, outside, served, disturbed>>

HelperEnds(r) ==
    /\ helper[r] \in {"running", "stopped"}
    /\ helper' = [helper EXCEPT ![r] = "none"]
    /\ UNCHANGED <<cached, cancel_event, saved, register, outside, served, disturbed>>

\* Which ends there are: an answer; its beginning, when it is stopped in mid-stream; the notice
\* that it was stopped; or that of max_rounds; or an error.
CanEnd(r, outcome) ==
    /\ outcome \in {"partial", "notice"} => agent[r] \in cancel_event
    /\ outcome = "text" => agent[r] \notin cancel_event
    /\ outcome = "rounds" => Called(r)

(* Fault: the answer is appended before the question. *)
ChatEndsReversed(r, outcome) ==
    /\ thread[r] = "running" /\ CanEnd(r, outcome)
    /\ thread' = [thread EXCEPT ![r] = IF at[r] = "chatting" THEN outcome ELSE "none"]
    /\ messages' = IF outcome = "text" /\ messages[agent[r]] # <<>>
                   THEN [messages EXCEPT ![agent[r]] =
                           Append(Append(Front(@), Entry(r, "assistant")), Last(@))]
                   ELSE messages
    /\ UNCHANGED <<agents, stale, session_locks, queue, signals, saved, register,
                   outside, lock, agent, at, disturbed>>

\* Only an answer is appended; nobody hears of the end if the deadline has passed.
ChatEnds(r, outcome) ==
    /\ thread[r] = "running" /\ CanEnd(r, outcome)
    /\ thread' = [thread EXCEPT ![r] = IF at[r] = "chatting" THEN outcome ELSE "none"]
    /\ messages' = IF outcome = "text"
                   THEN [messages EXCEPT ![agent[r]] = Append(@, Entry(r, "assistant"))]
                   ELSE messages
    /\ UNCHANGED <<agents, stale, session_locks, queue, signals, saved, register,
                   outside, lock, agent, at, disturbed>>

(* Fault: the request id of a turn that ended stays registered. *)
LeaveRegistered(r) ==
    /\ active' = active \ {SessionOf[r]}
    /\ UNCHANGED active_request
    /\ thread' = [thread EXCEPT ![r] = IF @ = "running" THEN @ ELSE "none"]
    /\ Goto(r, "responding")

\* The finally clause of the turn.  A chat that runs keeps its thread; of any
\* other nothing is left.
Leave(r) ==
    /\ active' = active \ {SessionOf[r]}
    /\ active_request' = IF active_request[SessionOf[r]] = r
                         THEN [active_request EXCEPT ![SessionOf[r]] = None]
                         ELSE active_request
    /\ thread' = [thread EXCEPT ![r] = IF @ = "running" THEN @ ELSE "none"]
    /\ Goto(r, "responding")

\* The response to a research, its beginning and the notice of max_rounds too, becomes the
\* content of the latest message of the model, whichever that is.
Finalized(r) ==
    IF r \in Research /\ thread[r] \in Returned \ {"notice"}
    THEN [messages EXCEPT ![agent[r]] = Replaced(@, r)] ELSE messages

Finish(r) ==
    /\ at[r] = "chatting" /\ thread[r] \in Returned
    /\ messages' = Finalized(r)
    /\ saved' = [saved EXCEPT ![SessionOf[r]] = messages'[agent[r]]]
    /\ Leave(r)
    /\ UNCHANGED <<agents, stale, session_locks, queue, signals, outside, lock, agent, disturbed>>

\* Preparing, the chat or the closing of the turn raised: nothing is saved.
Fail(r) ==
    /\ InTurn(r) /\ thread[r] \notin Working
    /\ messages' \in {messages, Finalized(r)}
    /\ Leave(r)
    /\ UNCHANGED <<agents, stale, session_locks, queue, signals, saved, outside, lock, agent,
                   disturbed>>

\* AgentTool.cancel: every sub-agent that runs in the background is stopped, whoever left it.
StopHelpers ==
    helper' = [r \in Requests |-> IF helper[r] = "running" THEN "stopped" ELSE helper[r]]

\* Agent.cancel
CancelAgent(a) ==
    IF a = None THEN UNCHANGED signals
    ELSE cancel_event' = cancel_event \cup {a} /\ StopHelpers

\* The deadline of a research turn: the agent is told to stop, but a chat that
\* runs cannot be taken off its thread.
DeadlinePasses(r) ==
    /\ r \in Research
    /\ at[r] = "chatting" /\ thread[r] \in Working
    /\ CancelAgent(agent[r])
    /\ disturbed' = IF thread[r] = "running"
                    THEN disturbed \cup {SessionOf[r]} ELSE disturbed
    /\ Leave(r)
    /\ UNCHANGED <<cached, saved, outside, lock, agent>>

(* Fault: the stage of a cancelled request is left without being closed, and
   keeps the lock. *)
RespondUnlessCancelled(r) ==
    /\ at[r] = "responding"
    /\ queue' = IF r \in cancelled THEN queue ELSE [queue EXCEPT ![lock[r]] = Tail(@)]
    /\ Goto(r, "over")
    /\ UNCHANGED <<agents, messages, stale, session_locks, signals, saved, register,
                   outside, lock, agent, thread, disturbed>>

\* The answer was sent, or not; the lock goes to the next waiter.
Respond(r) ==
    /\ at[r] = "responding"
    /\ queue' = [queue EXCEPT ![lock[r]] = Tail(@)]
    /\ Goto(r, "over")
    /\ UNCHANGED <<agents, messages, stale, session_locks, signals, saved, register,
                   outside, lock, agent, thread, disturbed>>

----------------------------------------------------------------------------
(***************************************************************************)
(* The dashboard and time.                                                 *)
(***************************************************************************)
(* Fault: the request is not compared with the active one. *)
CancelWhateverRuns(r) == CancelAgent(agents[SessionOf[r]])

\* cancel_request
CancelRequest(r) ==
    IF active_request[SessionOf[r]] = r THEN CancelAgent(agents[SessionOf[r]])
    ELSE UNCHANGED signals

Intervene == interventions > 0 /\ interventions' = interventions - 1

\* The HTTP handler waits for r no longer.
GiveUp(r) ==
    /\ Intervene
    /\ at[r] # "over" /\ r \notin cancelled
    /\ cancelled' = cancelled \cup {r}
    /\ CancelRequest(r)
    /\ UNCHANGED <<cached, saved, register, served, disturbed>>

\* The stop button: cancel_session
Stop(s) ==
    /\ Intervene
    /\ agents[s] # None
    /\ CancelAgent(agents[s])
    /\ UNCHANGED <<cached, saved, register, cancelled, served, disturbed>>

\* reset_session, whatever the session is doing.
Reset(s) ==
    /\ Intervene
    /\ saved' = [saved EXCEPT ![s] = <<>>]
    /\ agents' = [agents EXCEPT ![s] = None]
    /\ messages' = IF agents[s] = None THEN messages
                   ELSE [messages EXCEPT ![agents[s]] = <<>>]
    /\ stale' = stale \ {s}
    /\ session_locks' = [session_locks EXCEPT ![s] = None]
    /\ disturbed' = IF InUse(session_locks[s], queue) THEN disturbed \cup {s} ELSE disturbed
    /\ UNCHANGED <<queue, signals, register, cancelled, served>>

\* AGENT_TTL_SECONDS have passed since a turn of s was started last.
Age(s) ==
    /\ Intervene
    /\ agents[s] # None /\ s \notin stale
    /\ stale' = stale \cup {s}
    /\ UNCHANGED <<agents, messages, session_locks, queue, signals, saved, register,
                   cancelled, served, disturbed>>

Step(r) ==
    \/ Drop(r) \/ Resume(r) \/ Prepared(r)
    \/ ChatBegins(r) \/ ChatCalls(r) \/ \E o \in Outcomes : ChatEnds(r, o)
    \/ Finish(r) \/ Fail(r) \/ DeadlinePasses(r) \/ Respond(r)

Next ==
    \/ \E r \in Requests :
        Arrive(r) \/ Step(r) \/ GiveUp(r) \/ HelperStarts(r) \/ HelperEnds(r)
    \/ \E s \in Sessions : Stop(s) \/ Reset(s) \/ Age(s)

Spec == Init /\ [][Next]_vars

\* The event loop and the executor run what can go on; a chat ends by its
\* max_rounds and the time limits of the model calls.
Fairness == \A r \in Requests : WF_vars(Step(r))
FairSpec == Spec /\ Fairness

----------------------------------------------------------------------------
(***************************************************************************)
(* Properties.                                                             *)
(***************************************************************************)
Entries == [of : Requests, by : {"user", "calls", "assistant"}, kept : BOOLEAN, words : Requests]

\* The types of the variables; a turn has an agent.
LockTypes ==
    /\ session_locks \in [Sessions -> Requests \cup {None}]
    /\ queue \in [Requests -> Seq(Requests)]
    /\ lock \in [Requests -> Requests \cup {None}]
    /\ at \in [Requests -> {"new", "waiting", "preparing", "chatting", "responding", "over"}]
    /\ thread \in [Requests -> {"none"} \cup Working \cup Outcomes]
    /\ active_request \in [Sessions -> Requests \cup {None}]
    /\ active \in SUBSET Sessions /\ disturbed \in SUBSET Sessions /\ stale \in SUBSET Sessions

AgentTypes ==
    /\ agents \in [Sessions -> Requests \cup {None}]
    /\ agent \in [Requests -> Requests \cup {None}]
    /\ messages \in [Requests -> Seq(Entries)] /\ saved \in [Sessions -> Seq(Entries)]
    /\ cancel_event \in SUBSET Requests /\ cancelled \in SUBSET Requests
    /\ helper \in [Requests -> {"none", "queued", "running", "stopped"}]
    /\ interventions \in Nat
    /\ \A r \in Requests : InTurn(r) => agent[r] # None

TypeOK == LockTypes /\ AgentTypes

\* The turns of a session never overlap, from the look-up of the agent to the
\* answer and the end of the chat thread: not unless the session's lock was
\* thrown away in use (an eviction, a reset) or a research chat outlived its
\* deadline.  What happens to another session does not matter.
TurnsAreSerial ==
    \A r, q \in Requests :
        Busy(r) /\ Busy(q) /\ r # q /\ SessionOf[r] = SessionOf[q]
            => SessionOf[r] \in disturbed

\* Every answer directly follows its own question, or the calls that do.
Paired(h) ==
    \A i \in DOMAIN h : h[i].by # "user" =>
        i > 1 /\ h[i - 1].of = h[i].of
        /\ h[i - 1].by \in IF h[i].by = "calls" THEN {"user"} ELSE {"user", "calls"}

\* A summary stands for a beginning of the history.
SummaryFirst(h) == \A i, j \in DOMAIN h : i < j /\ h[i].kept => h[j].kept

\* An answer loses its words only to a research that asked after it and was stopped before it
\* had an answer or a round of its own, and nobody had one in between.
OwnWords(h) ==
    \A i \in DOMAIN h : h[i].by = "assistant" /\ h[i].words # h[i].of =>
        \E j \in i + 1 .. Len(h) :
            /\ h[j].of = h[i].words /\ h[j].of \in Research
            /\ \A k \in i + 1 .. j : h[k].by = "user"
            /\ j < Len(h) => h[j + 1].by = "user"

Orderly(h) == Paired(h) /\ SummaryFirst(h) /\ OwnWords(h)

\* The history of a session is such, through failed, cancelled and skipped requests,
\* evictions and compressions.
AnswersFollowQuestions == \A s \in Sessions \ disturbed : Orderly(saved[s])

\* The history g goes on where h ended; what h had left to its summary stays there.
Continues(g, h) ==
    /\ Len(h) <= Len(g)
    /\ \A i \in DOMAIN h :
        g[i].of = h[i].of /\ g[i].by = h[i].by /\ (g[i].kept => h[i].kept)

\* No save loses what was saved before: an agent made anew after an eviction
\* goes on from where the last one was saved.
HistoryGrows ==
    [][\A s \in Sessions \ disturbed' :
         saved'[s] = <<>> \/ Continues(saved'[s], saved[s])]_vars

\* Both: what is saved of a session is a history of its turns that only grows, or is summed up,
\* and whose answers stay what they were but where a stopped research takes the last one's place.
HistoryHolds == []AnswersFollowQuestions /\ HistoryGrows

\* The register knows no turn that is over, so that no later cancellation can hit
\* by an old entry, and as long as turns are serial it knows every turn.
RegisterMatchesTurns ==
    \A s \in Sessions :
        LET turns == {r \in Requests : SessionOf[r] = s /\ InTurn(r)}
        IN  /\ active_request[s] \in turns \cup {None}
            /\ s \in active => turns # {}
            /\ s \notin disturbed =>
                (turns = {} /\ s \notin active) \/ (turns = {active_request[s]} /\ s \in active)

\* The inductive invariant.  A lock serves one session and is held by the first in its
\* queue; it is the session's lock as long as nobody disturbs the session.
Holding(r) == at[r] \in {"preparing", "chatting", "responding"}
Queued(r) == Holding(r) \/ at[r] = "waiting"

LocksHold ==
    /\ \A s \in Sessions : session_locks[s] # None => SessionOf[session_locks[s]] = s
    /\ \A r \in Requests : Queued(r) =>
        /\ lock[r] # None /\ SessionOf[lock[r]] = SessionOf[r]
        /\ \E i \in DOMAIN queue[lock[r]] : queue[lock[r]][i] = r
    /\ \A r \in Requests : Holding(r) => Head(queue[lock[r]]) = r
    /\ \A r \in Requests : SessionOf[r] \notin disturbed =>
        /\ Queued(r) => lock[r] = session_locks[SessionOf[r]]
        /\ thread[r] \in Working => at[r] = "chatting"

\* The register names a turn; in a session that is not disturbed it names every turn.
RegisterHolds ==
    /\ \A s \in Sessions : active_request[s] # None =>
        SessionOf[active_request[s]] = s /\ InTurn(active_request[s])
    /\ \A s \in active : \E r \in Requests : SessionOf[r] = s /\ InTurn(r)
    /\ \A r \in Requests : InTurn(r) /\ SessionOf[r] \notin disturbed =>
        SessionOf[r] \in active /\ active_request[SessionOf[r]] = r

\* An agent serves one session.  The session of the active request has no other agent than
\* the one that serves the request, and none is lost while nobody disturbs the session.
AgentsHold ==
    /\ \A s \in Sessions : agents[s] # None => SessionOf[agents[s]] = s
    /\ \A r \in Requests : agent[r] # None => SessionOf[agent[r]] = SessionOf[r]
    /\ \A r \in Requests : thread[r] \in Working => agent[r] # None
    /\ \A s \in Sessions : active_request[s] # None =>
        agents[s] \in {None, agent[active_request[s]]}
    /\ \A r \in Requests : InTurn(r) /\ SessionOf[r] \notin disturbed =>
        agents[SessionOf[r]] = agent[r]

\* Words of another come from a turn that is closed, by its place.
Heard(h, place) ==
    \A i \in DOMAIN h : h[i].words # h[i].of => place[h[i].words] \in {"responding", "over"}

\* The agent of a session that is not disturbed goes on from what is saved; the question of a
\* chat is the last thing that was said, or its calls or its answer.
LastOf(r) == IF thread[r] = "text" THEN {"assistant"} ELSE {"user", "calls"}

HistoriesHold ==
    /\ \A s \in Sessions \ disturbed :
        /\ Orderly(saved[s]) /\ Heard(saved[s], at)
        /\ agents[s] # None =>
            LET h == messages[agents[s]]
            IN  Orderly(h) /\ Heard(h, at) /\ Continues(h, saved[s])
    /\ \A r \in Requests : thread[r] \in {"running"} \cup Returned /\ SessionOf[r] \notin disturbed =>
        LET h == messages[agent[r]]
        IN  at[r] = "chatting" /\ h # <<>> /\ Last(h).of = r /\ Last(h).by \in LastOf(r)

IInv == TypeOK /\ LocksHold /\ RegisterHolds /\ AgentsHold /\ HistoriesHold

\* Who gives up on a request stops the agent that serves it and no other agent of a chat,
\* even where evictions and resets let a session have two.  The sub-agents in the background,
\* which the code stops of every session, are stopped only if a turn serves the request.
CancelIsOwn ==
    [][\A r \in cancelled' \ cancelled :
        /\ cancel_event' \subseteq cancel_event \cup {agent[r]}
        /\ helper' # helper => InTurn(r)
        /\ InTurn(r) /\ SessionOf[r] \notin disturbed => agent[r] \in cancel_event']_vars

\* Every request that has come is over in the end, whatever became of the
\* requests its session served before: again and again none is left.  (A request
\* comes once and stays over.)
RequestsEnd == []<>(\A r \in Requests : at[r] \in {"new", "over"})

\* "Idle agents are evicted after AGENT_TTL_SECONDS" (_get_or_create_agent): the
\* start of a turn takes no agent away from a turn that is under way.
EvictedIsIdle ==
    [][\A r, q \in Requests :
         /\ r # q /\ ~InTurn(r) /\ InTurn(r)'
         /\ InTurn(q) /\ agents[SessionOf[q]] = agent[q]
         => agents'[SessionOf[q]] = agent[q]]_vars
=============================================================================

----------------------------- MODULE ResearchTurn -----------------------------
(***************************************************************************)
(* One DeepResearch turn: the budget (core/research/budget.py), the        *)
(* session (core/research/session.py), the chat thread of the parent agent *)
(* (core/agent/agent.py), the sub-agents it dispatches                     *)
(* (core/tools/agent_tool.py) and the pipeline coroutine that waits for    *)
(* the answer (core/pipeline/stages/process.py).                           *)
(*                                                                         *)
(* The chat thread and every sub-agent run on threads of their own; what   *)
(* the code does under one lock is one action.  Time is the three answers  *)
(* the budget's clock can give, not a number of seconds.                   *)
(***************************************************************************)
EXTENDS Integers, FiniteSets

CONSTANTS Runs,          \* the sub-agent runs (and branch ids) of the turn
          Main,          \* the chat thread of the parent agent
          Urls,          \* canonical URLs
          MaxParallel,   \* policy.max_parallel_subagents
          MaxToolCalls,  \* policy.max_research_tool_calls
          MaxFetches,    \* policy.max_web_fetches
          MaxGapRounds   \* policy.max_gap_rounds

ASSUME ResearchAssumption ==
    /\ IsFiniteSet(Runs) /\ IsFiniteSet(Urls)
    /\ Main \notin Runs
    /\ MaxParallel \in Nat /\ MaxParallel >= 1
    /\ MaxToolCalls \in Nat /\ MaxToolCalls >= 1
    /\ MaxFetches \in Nat /\ MaxFetches >= 1
    /\ MaxGapRounds \in Nat /\ MaxGapRounds >= 1

Threads == Runs \cup {Main}

VARIABLES
    clock,          \* where monotonic time stands against the two deadlines
    gap_rounds, research_tool_calls, web_fetches, active_subagents, total_subagents,
    cancelled,      \* budget.cancelled
    web_fetch_urls, \* budget._web_fetch_urls
    current_phase,  \* session.current_phase
    cancelled_emitted, \* session._cancelled_event_emitted
    branches,       \* session.branches: status by branch id
    status,         \* SubAgentRun.status
    run_cancelled,  \* runs whose _cancelled is set
    agents,         \* runs whose agent is assigned
    bound,          \* threads whose agent is bound to the session (bind_turn)
    cancel_event,   \* threads whose agent's _cancel_event is set
    at,             \* where each thread is
    dispatched,     \* runs of the dispatch the chat thread is in
    late,           \* runs the dispatch has still to stop
    victim,         \* the run it is stopping; Main: none
    response,       \* what chat() returned to the pipeline
    turn            \* where _process_locked is

budget == <<gap_rounds, research_tool_calls, web_fetches, active_subagents,
            total_subagents, web_fetch_urls>>
children == <<branches, status, run_cancelled, agents>>
control == <<dispatched, late, victim>>
vars == <<clock, budget, cancelled, current_phase, cancelled_emitted, children, bound,
          cancel_event, at, control, response, turn>>

Clock == {"researching", "synthesizing", "deadline_exceeded"}
Phases == {"created", "planning", "gathering", "verifying", "synthesizing", "completed"}
Transitions ==
    [created      |-> {"planning", "synthesizing"},
     planning     |-> {"gathering", "synthesizing"},
     gathering    |-> {"verifying", "synthesizing"},
     verifying    |-> {"gathering", "synthesizing"},
     synthesizing |-> {"completed"},
     completed    |-> {}]
TerminalBranch == {"completed", "failed", "cancelled"}
TerminalRun == {"done", "error"}

\* Stations of a sub-agent's thread; "none": not dispatched yet, "queued": its
\* future is pending, and the last three: its future is done.
Working == {"creating", "ready", "entering", "bound", "chatting", "refused",
            "finished", "failed"}
(* Fault: a future withdrawn from the queue is not counted as done. *)
FutureDoneUncancelled == {"over", "raised"}

FutureDone == {"over", "raised", "withdrawn"}
RunStation == {"none", "queued"} \cup Working \cup FutureDone
Dispatching == {"waiting", "stopping", "branch", "agent", "future", "draining"}
MainStation == {"entering", "bound", "chatting", "refused", "returned"} \cup Dispatching

----------------------------------------------------------------------------
(***************************************************************************)
(* The budget's and the session's methods.                                 *)
(***************************************************************************)
Blocked == cancelled \/ clock # "researching"

Monus(a, b) == IF a >= b THEN a - b ELSE 0

BeginSynthesis(p) == IF p \in {"synthesizing", "completed"} THEN p ELSE "synthesizing"

\* ResearchSession.cancel: the budget refuses from now on, one event is emitted.
CancelSession == cancelled' = TRUE /\ cancelled_emitted' = TRUE

(* Fault: the first terminal status wins, even over a cancellation. *)
BranchAfterFirstWins(old, new) == IF old \in TerminalBranch THEN old ELSE new

BranchAfter(old, new) ==
    IF old = "cancelled" \/ (old \in TerminalBranch /\ new # "cancelled")
    THEN old ELSE new
FinishBranch(r, new) == branches' = [branches EXCEPT ![r] = BranchAfter(@, new)]

(* Fault: a terminal status is not kept. *)
StatusOverwritten(old, new) == new

\* SubAgentRun.set_status, finish and fail: a terminal status is kept.
StatusAfter(old, new) == IF old \in TerminalRun THEN old ELSE new
Goto(t, s) == at' = [at EXCEPT ![t] = s]

Chatting(t) == at[t] = "chatting"
AllDone(S) == \A r \in S : at[r] \in FutureDone
Withdraw(S) == [t \in Threads |-> IF t \in S /\ at[t] = "queued" THEN "withdrawn" ELSE at[t]]

Init ==
    /\ clock = "researching"
    /\ gap_rounds = 0 /\ research_tool_calls = 0 /\ web_fetches = 0
    /\ active_subagents = 0 /\ total_subagents = 0 /\ web_fetch_urls = {}
    /\ cancelled = FALSE /\ cancelled_emitted = FALSE
    /\ current_phase = "created"
    /\ branches = [r \in Runs |-> "none"]
    /\ status = [r \in Runs |-> "queued"]
    /\ run_cancelled = {} /\ agents = {} /\ bound = {} /\ cancel_event = {}
    /\ at = [t \in Threads |-> IF t = Main THEN "entering" ELSE "none"]
    /\ dispatched = {} /\ late = {} /\ victim = Main
    /\ response = "none" /\ turn = "running"

----------------------------------------------------------------------------
(***************************************************************************)
(* Every thread: chat() binds the agent to the turn, clears the cancel     *)
(* event, then alternates model calls and tool calls.                      *)
(***************************************************************************)
BindTurn(t) ==
    /\ at[t] = "entering"
    /\ bound' = bound \cup {t}
    /\ Goto(t, "bound")
    /\ UNCHANGED <<clock, budget, cancelled, current_phase, cancelled_emitted, children,
                   cancel_event, control, response, turn>>

ClearCancelEvent(t) ==
    /\ at[t] = "bound"
    /\ cancel_event' = cancel_event \ {t}
    /\ Goto(t, "chatting")
    /\ UNCHANGED <<clock, budget, cancelled, current_phase, cancelled_emitted, children,
                   bound, control, response, turn>>

\* rag_search, graphrag_search and web_search.
ReserveToolCall(t) ==
    /\ Chatting(t) /\ ~Blocked
    /\ research_tool_calls < MaxToolCalls
    /\ research_tool_calls' = research_tool_calls + 1
    /\ UNCHANGED <<clock, gap_rounds, web_fetches, active_subagents, total_subagents,
                   web_fetch_urls, cancelled, current_phase, cancelled_emitted, children,
                   bound, cancel_event, at, control, response, turn>>

(* Fault: a repeated URL takes another page slot. *)
ReserveWebFetchAgain(t, u) ==
    /\ Chatting(t) /\ ~Blocked
    /\ research_tool_calls < MaxToolCalls
    /\ web_fetches < MaxFetches \/ u \in web_fetch_urls
    /\ research_tool_calls' = research_tool_calls + 1
    /\ web_fetch_urls' = web_fetch_urls \cup {u}
    /\ web_fetches' = web_fetches + 1
    /\ UNCHANGED <<clock, gap_rounds, active_subagents, total_subagents, cancelled,
                   current_phase, cancelled_emitted, children, bound, cancel_event, at,
                   control, response, turn>>

\* A fetch is a tool call; only a URL not fetched before takes a page slot.
ReserveWebFetch(t, u) ==
    /\ Chatting(t) /\ ~Blocked
    /\ research_tool_calls < MaxToolCalls
    /\ u \in web_fetch_urls \/ web_fetches < MaxFetches
    /\ research_tool_calls' = research_tool_calls + 1
    /\ web_fetch_urls' = web_fetch_urls \cup {u}
    /\ web_fetches' = IF u \in web_fetch_urls THEN web_fetches ELSE web_fetches + 1
    /\ UNCHANGED <<clock, gap_rounds, active_subagents, total_subagents, cancelled,
                   current_phase, cancelled_emitted, children, bound, cancel_event, at,
                   control, response, turn>>

\* The budget refuses for lack of time or calls; the session is told in a step
\* of its own, after the budget's lock is released.
Refuse(t) ==
    /\ Chatting(t) /\ ~cancelled
    /\ \/ clock # "researching"
       \/ research_tool_calls >= MaxToolCalls
       \/ web_fetches >= MaxFetches /\ Urls \ web_fetch_urls # {}
    /\ Goto(t, "refused")
    /\ UNCHANGED <<clock, budget, cancelled, current_phase, cancelled_emitted, children,
                   bound, cancel_event, control, response, turn>>

AfterRefusal(t) ==
    /\ at[t] = "refused"
    /\ current_phase' = BeginSynthesis(current_phase)
    /\ Goto(t, "chatting")
    /\ UNCHANGED <<clock, budget, cancelled, cancelled_emitted, children, bound,
                   cancel_event, control, response, turn>>

----------------------------------------------------------------------------
(***************************************************************************)
(* The chat thread.  research_checkpoint and agent are tools it calls.     *)
(***************************************************************************)
Checkpoint(target) ==
    /\ Chatting(Main)
    /\ target = current_phase \/ target \in Transitions[current_phase]
    /\ target \notin {"created", "completed"}
    /\ ~(current_phase = "verifying" /\ target = "gathering")
    /\ current_phase' = target
    /\ UNCHANGED <<clock, budget, cancelled, cancelled_emitted, children, bound,
                   cancel_event, at, control, response, turn>>

\* Verifying that goes back to gathering is a gap round; without one left the
\* session synthesizes instead.
GapRound ==
    /\ Chatting(Main) /\ current_phase = "verifying"
    /\ IF ~Blocked /\ gap_rounds < MaxGapRounds
       THEN gap_rounds' = gap_rounds + 1 /\ current_phase' = "gathering"
       ELSE UNCHANGED gap_rounds /\ current_phase' = "synthesizing"
    /\ UNCHANGED <<clock, research_tool_calls, web_fetches, active_subagents,
                   total_subagents, web_fetch_urls, cancelled, cancelled_emitted, children,
                   bound, cancel_event, at, control, response, turn>>

\* AgentTool.execute: slots reserved, branches registered, every run submitted
\* to a pool of one thread for each.
Dispatch(S) ==
    /\ Chatting(Main) /\ ~Blocked
    /\ S # {} /\ \A r \in S : at[r] = "none"
    /\ Cardinality(S) <= MaxParallel
    /\ active_subagents + Cardinality(S) <= MaxParallel
    /\ active_subagents' = active_subagents + Cardinality(S)
    /\ total_subagents' = total_subagents + Cardinality(S)
    /\ branches' = [r \in Runs |-> IF r \in S THEN "running" ELSE branches[r]]
    /\ at' = [t \in Threads |->
                IF t = Main THEN "waiting" ELSE IF t \in S THEN "queued" ELSE at[t]]
    /\ dispatched' = S
    /\ UNCHANGED <<clock, gap_rounds, research_tool_calls, web_fetches, web_fetch_urls,
                   cancelled, current_phase, cancelled_emitted, status, run_cancelled,
                   agents, bound, cancel_event, late, victim, response, turn>>

\* wait() returned: all futures are done, or time is up and the others are
\* pending.  An exception a run let through ends the loop before they are stopped.
WaitReturns ==
    /\ at[Main] = "waiting"
    /\ AllDone(dispatched) \/ clock # "researching"
    /\ LET pending == {r \in dispatched : at[r] \notin FutureDone}
           escapes == \E r \in dispatched : at[r] = "raised"
       IN  IF pending = {} \/ escapes
           THEN /\ at' = [Withdraw(dispatched) EXCEPT ![Main] = "draining"]
                /\ UNCHANGED late
           ELSE Goto(Main, "stopping") /\ late' = pending
    /\ UNCHANGED <<clock, budget, cancelled, current_phase, cancelled_emitted, children,
                   bound, cancel_event, dispatched, victim, response, turn>>

\* The four calls that stop a late run; its thread goes on between them.
StopRun(r) ==
    /\ at[Main] = "stopping" /\ r \in late
    /\ run_cancelled' = run_cancelled \cup {r}
    /\ status' = [status EXCEPT ![r] = IF r \in run_cancelled THEN @ ELSE "error"]
    /\ victim' = r
    /\ Goto(Main, "branch")
    /\ UNCHANGED <<clock, budget, cancelled, current_phase, cancelled_emitted, branches,
                   agents, bound, cancel_event, dispatched, late, response, turn>>

StopBranch ==
    /\ at[Main] = "branch"
    /\ FinishBranch(victim, "cancelled")
    /\ Goto(Main, "agent")
    /\ UNCHANGED <<clock, budget, cancelled, current_phase, cancelled_emitted, status,
                   run_cancelled, agents, bound, cancel_event, control, response, turn>>

\* agent.cancel() of the sub-agent, which is bound to this same session.
StopAgent ==
    /\ at[Main] = "agent"
    /\ cancel_event' = cancel_event \cup ({victim} \cap agents)
    /\ IF victim \in agents \cap bound
       THEN CancelSession ELSE UNCHANGED <<cancelled, cancelled_emitted>>
    /\ Goto(Main, "future")
    /\ UNCHANGED <<clock, budget, current_phase, children, bound, control, response, turn>>

StopFuture ==
    /\ at[Main] = "future"
    /\ late' = late \ {victim}
    /\ victim' = Main
    /\ at' = [Withdraw({victim}) EXCEPT ![Main] = "stopping"]
    /\ UNCHANGED <<clock, budget, cancelled, current_phase, cancelled_emitted, children,
                   bound, cancel_event, dispatched, response, turn>>

ShutDownPool ==
    /\ at[Main] = "stopping" /\ late = {}
    /\ at' = [Withdraw(dispatched) EXCEPT ![Main] = "draining"]
    /\ UNCHANGED <<clock, budget, cancelled, current_phase, cancelled_emitted, children,
                   bound, cancel_event, control, response, turn>>

(* Fault: the pool is not waited for. *)
ReleaseWithoutJoin ==
    /\ at[Main] = "draining"
    /\ active_subagents' = Monus(active_subagents, Cardinality(dispatched))
    /\ dispatched' = {}
    /\ Goto(Main, "chatting")
    /\ UNCHANGED <<clock, gap_rounds, research_tool_calls, web_fetches, total_subagents,
                   web_fetch_urls, cancelled, current_phase, cancelled_emitted, children,
                   bound, cancel_event, late, victim, response, turn>>

\* shutdown(wait=True) has joined the threads; the slots are given back.
ReleaseSubagents ==
    /\ at[Main] = "draining"
    /\ AllDone(dispatched)
    /\ active_subagents' = Monus(active_subagents, Cardinality(dispatched))
    /\ dispatched' = {}
    /\ Goto(Main, "chatting")
    /\ UNCHANGED <<clock, gap_rounds, research_tool_calls, web_fetches, total_subagents,
                   web_fetch_urls, cancelled, current_phase, cancelled_emitted, children,
                   bound, cancel_event, late, victim, response, turn>>

\* chat() returns or raises.  A cancelled chat returns the notice, or what the
\* model had streamed when it was cut off.
ChatReturns(r) ==
    /\ Chatting(Main)
    /\ r \in IF Main \in cancel_event
             THEN {"text", "interrupted", "error"} ELSE {"text", "error"}
    /\ response' = r
    /\ bound' = bound \ {Main}
    /\ Goto(Main, "returned")
    /\ UNCHANGED <<clock, budget, cancelled, current_phase, cancelled_emitted, children,
                   cancel_event, control, turn>>

----------------------------------------------------------------------------
(***************************************************************************)
(* A sub-agent's thread: AgentTool._run_subagent_task.                     *)
(***************************************************************************)
StartRun(r) ==
    /\ at[r] = "queued"
    /\ Goto(r, "creating")
    /\ UNCHANGED <<clock, budget, cancelled, current_phase, cancelled_emitted, children,
                   bound, cancel_event, control, response, turn>>

AssignAgent(r) ==
    /\ at[r] = "creating"
    /\ agents' = agents \cup {r}
    /\ Goto(r, "ready")
    /\ UNCHANGED <<clock, budget, cancelled, current_phase, cancelled_emitted, branches,
                   status, run_cancelled, bound, cancel_event, control, response, turn>>

\* The run fails; its branch is not finished.
SetupFails(r) ==
    /\ at[r] = "creating"
    /\ status' = [status EXCEPT ![r] = StatusAfter(@, "error")]
    /\ Goto(r, "over")
    /\ UNCHANGED <<clock, budget, cancelled, current_phase, cancelled_emitted, branches,
                   run_cancelled, agents, bound, cancel_event, control, response, turn>>

SetRunning(r) ==
    /\ at[r] = "ready"
    /\ status' = [status EXCEPT ![r] = StatusAfter(@, "running")]
    /\ Goto(r, IF status[r] \in TerminalRun THEN "over" ELSE "entering")
    /\ UNCHANGED <<clock, budget, cancelled, current_phase, cancelled_emitted, branches,
                   run_cancelled, agents, bound, cancel_event, control, response, turn>>

\* chat() of the sub-agent ended with an answer or with an error it catches;
\* a run that was cancelled meanwhile leaves its branch alone.
EndRun(r, new, station) ==
    /\ Chatting(r)
    /\ status' = [status EXCEPT ![r] = StatusAfter(@, new)]
    /\ bound' = bound \ {r}
    /\ Goto(r, IF status[r] \in TerminalRun THEN "over" ELSE station)
    /\ UNCHANGED <<clock, budget, cancelled, current_phase, cancelled_emitted, branches,
                   run_cancelled, agents, cancel_event, control, response, turn>>
FinishRun(r) == EndRun(r, "done", "finished")
FailRun(r) == EndRun(r, "error", "failed")

\* An exception of a class the run does not catch reaches its future.
RaiseInRun(r) ==
    /\ at[r] \in {"creating", "chatting"}
    /\ bound' = bound \ {r}
    /\ Goto(r, "raised")
    /\ UNCHANGED <<clock, budget, cancelled, current_phase, cancelled_emitted, children,
                   cancel_event, control, response, turn>>

EndBranch(r) ==
    /\ at[r] \in {"finished", "failed"}
    /\ FinishBranch(r, IF at[r] = "finished" THEN "completed" ELSE "failed")
    /\ Goto(r, "over")
    /\ UNCHANGED <<clock, budget, cancelled, current_phase, cancelled_emitted, status,
                   run_cancelled, agents, bound, cancel_event, control, response, turn>>

----------------------------------------------------------------------------
(***************************************************************************)
(* The pipeline coroutine and the user.                                    *)
(***************************************************************************)
(* Fault: the reply is sent without begin_synthesis. *)
RespondWithoutSynthesis ==
    /\ turn = "running" /\ response # "none"
    /\ turn' = IF response = "text" THEN "replying" ELSE "over"
    /\ UNCHANGED <<clock, budget, cancelled, current_phase, cancelled_emitted, children,
                   bound, cancel_event, at, control, response>>

Respond ==
    /\ turn = "running" /\ response # "none"
    /\ IF response = "text"
       THEN /\ current_phase' = BeginSynthesis(current_phase)
            /\ turn' = "replying"
            /\ UNCHANGED <<cancelled, cancelled_emitted>>
       ELSE CancelSession /\ turn' = "over" /\ UNCHANGED current_phase
    /\ UNCHANGED <<clock, budget, children, bound, cancel_event, at, control, response>>

Complete ==
    /\ turn = "replying"
    /\ current_phase' = "completed"
    /\ turn' = "saving"
    /\ UNCHANGED <<clock, budget, cancelled, cancelled_emitted, children, bound,
                   cancel_event, at, control, response>>

Saved ==
    /\ turn = "saving"
    /\ turn' = "over"
    /\ UNCHANGED <<clock, budget, cancelled, current_phase, cancelled_emitted, children,
                   bound, cancel_event, at, control, response>>

\* Validating, sending or saving the reply raised.
ReplyFails ==
    /\ turn \in {"replying", "saving"}
    /\ CancelSession
    /\ turn' = "over"
    /\ UNCHANGED <<clock, budget, current_phase, children, bound, cancel_event, at, control,
                   response>>

\* Agent.cancel of the parent: its event, its session, and through
\* AgentTool.cancel the agents of the active runs.
CancelParent ==
    LET active == {r \in agents : at[r] \in Working}
    IN  /\ cancel_event' = cancel_event \cup {Main} \cup active
        /\ IF Main \in bound \/ active \cap bound # {}
           THEN CancelSession ELSE UNCHANGED <<cancelled, cancelled_emitted>>

UserCancels ==
    /\ turn # "over"
    /\ CancelParent
    /\ UNCHANGED <<clock, budget, current_phase, children, bound, at, control, response, turn>>

\* wait_for gave up at the deadline; the chat thread cannot be stopped and
\* goes on without the pipeline.
DeadlinePasses ==
    /\ turn = "running" /\ clock = "deadline_exceeded"
    /\ CancelSession
    /\ cancel_event' = cancel_event \cup {Main} \cup {r \in agents : at[r] \in Working}
    /\ turn' = "over"
    /\ UNCHANGED <<clock, budget, current_phase, children, bound, at, control, response>>

Tick ==
    /\ \/ clock = "researching" /\ clock' = "synthesizing"
       \/ clock = "synthesizing" /\ clock' = "deadline_exceeded"
    /\ UNCHANGED <<budget, cancelled, current_phase, cancelled_emitted, children, bound,
                   cancel_event, at, control, response, turn>>

ToolUse(t) ==
    \/ ReserveToolCall(t)
    \/ \E u \in Urls : ReserveWebFetch(t, u)
    \/ Refuse(t)
Enter(t) == BindTurn(t) \/ ClearCancelEvent(t) \/ AfterRefusal(t)
StopLate == (\E r \in Runs : StopRun(r)) \/ StopBranch \/ StopAgent \/ StopFuture
Return == \E r \in {"text", "interrupted", "error"} : ChatReturns(r)
MainStep ==
    \/ Enter(Main) \/ WaitReturns \/ StopLate \/ ShutDownPool \/ ReleaseSubagents
    \/ Return
RunStep(r) ==
    \/ Enter(r) \/ StartRun(r) \/ AssignAgent(r) \/ SetupFails(r) \/ SetRunning(r)
    \/ FinishRun(r) \/ FailRun(r) \/ RaiseInRun(r) \/ EndBranch(r)
PipelineStep == Respond \/ Complete \/ Saved \/ ReplyFails \/ DeadlinePasses

Next ==
    \/ \E t \in Threads : ToolUse(t)
    \/ \E p \in Phases : Checkpoint(p)
    \/ GapRound
    \/ \E S \in SUBSET Runs : Dispatch(S)
    \/ MainStep
    \/ \E r \in Runs : RunStep(r)
    \/ PipelineStep
    \/ UserCancels
    \/ Tick

Spec == Init /\ [][Next]_vars

\* Threads are scheduled and time passes.  A chat has at most max_rounds rounds
\* and each model call a timeout, so it cannot go on for ever: strong fairness
\* on its end, which a refused tool call disables for a moment.
ChatEnds(r) == FinishRun(r) \/ FailRun(r) \/ RaiseInRun(r)
Fairness ==
    /\ WF_vars(MainStep) /\ SF_vars(Return)
    /\ \A r \in Runs : WF_vars(RunStep(r)) /\ SF_vars(ChatEnds(r))
    /\ WF_vars(PipelineStep) /\ WF_vars(Tick)
FairSpec == Spec /\ Fairness

----------------------------------------------------------------------------
(***************************************************************************)
(* Properties.                                                             *)
(***************************************************************************)
\* The types of the variables.
TypeOK ==
    /\ clock \in Clock
    /\ gap_rounds \in Nat /\ research_tool_calls \in Nat /\ web_fetches \in Nat
    /\ active_subagents \in Nat /\ total_subagents \in Nat
    /\ web_fetch_urls \in SUBSET Urls
    /\ cancelled \in BOOLEAN /\ cancelled_emitted \in BOOLEAN
    /\ current_phase \in Phases
    /\ branches \in [Runs -> {"none", "running"} \cup TerminalBranch]
    /\ status \in [Runs -> {"queued", "running"} \cup TerminalRun]
    /\ run_cancelled \in SUBSET Runs /\ agents \in SUBSET Runs
    /\ bound \in SUBSET Threads /\ cancel_event \in SUBSET Threads
    /\ at \in [Threads -> RunStation \cup MainStation]
    /\ dispatched \in SUBSET Runs /\ late \in SUBSET Runs
    /\ victim \in Threads
    /\ response \in {"none", "text", "interrupted", "error"}
    /\ turn \in {"running", "replying", "saving", "over"}

\* The shared limits of one turn hold whatever threads draw on them at once:
\* a page slot stands for one URL and every fetch was paid for as a tool call.
WithinLimits ==
    /\ gap_rounds <= MaxGapRounds
    /\ research_tool_calls <= MaxToolCalls
    /\ web_fetches = Cardinality(web_fetch_urls)
    /\ web_fetches <= MaxFetches
    /\ web_fetches <= research_tool_calls

\* A slot of max_parallel_subagents is held for every sub-agent whose thread can
\* still work: none outlives the release of its slot, not even one that was
\* stopped at the synthesis deadline or whose turn timed out.
SlotsCoverThreads ==
    /\ active_subagents = Cardinality(dispatched)
    /\ active_subagents <= MaxParallel
    /\ \A r \in Runs : at[r] \in Working \cup {"queued"} => r \in dispatched

\* The session and the report to the parent tell the same story of a sub-agent
\* whose thread is through: its branch is completed just when its run is done,
\* whichever way the deadline raced its answer.
BranchesAgree ==
    \A r \in Runs : at[r] \in FutureDone /\ r # victim =>
        (branches[r] = "completed" <=> status[r] = "done")

\* VALID_TRANSITIONS holds for the whole session, though begin_synthesis and
\* complete do not look it up: in particular a turn completes only after it
\* synthesized, and a synthesis is never reopened by a late checkpoint.
PhasesFollowTransitions ==
    [][current_phase' = current_phase \/ current_phase' \in Transitions[current_phase]]_vars

\* What was stopped stays stopped: the answer that arrives late changes neither
\* the branch nor the run.
StoppedStays ==
    [][\A r \in Runs : /\ branches[r] = "cancelled" => branches'[r] = "cancelled"
                       /\ r \in run_cancelled => status'[r] = "error"]_vars

(***************************************************************************)
(* The inductive invariant behind the safety properties.                   *)
(***************************************************************************)
\* Runs are dispatched just while the chat thread is inside AgentTool.execute.
DispatchHeld ==
    /\ at[Main] \notin Dispatching => dispatched = {}
    /\ at[Main] \in MainStation
    /\ \A r \in Runs : at[r] \in RunStation

\* The dispatch is between run.cancel and finish_branch for r.
HalfStopped(r) == victim = r /\ at[Main] = "branch"

\* Why the stories agree: a run is done no sooner than its chat ended, and a
\* stopped run has an error and, but for HalfStopped, a cancelled branch.
BranchHistory ==
    /\ victim \in Runs <=> at[Main] \in {"branch", "agent", "future"}
    /\ victim \in run_cancelled \cup {Main}
    /\ \A t \in dispatched \cup late \cup {victim} : at[t] # "none"
    /\ \A r \in Runs :
        /\ branches[r] = "completed" => at[r] = "over"
        /\ status[r] = "done" => at[r] \in {"finished", "over"}
        /\ r \in run_cancelled => status[r] = "error"
        /\ r \in run_cancelled => branches[r] = "cancelled" \/ HalfStopped(r)
        /\ branches[r] = "cancelled" => r \in run_cancelled
        /\ at[r] = "finished" /\ r \notin run_cancelled => status[r] = "done"
        /\ at[r] = "finished" /\ status[r] = "done" => branches[r] = "running"
        /\ at[r] = "over" /\ status[r] = "done" => branches[r] = "completed"
        /\ branches[r] = "completed" => status[r] = "done" \/ HalfStopped(r)
        /\ branches[r] = "failed" => at[r] = "over"
        /\ branches[r] = "none" <=> at[r] = "none"

\* The pipeline replies to a chat that returned, from a synthesizing session,
\* and only its reply completes the session.
ReplyFollowsChat ==
    /\ response # "none" <=> at[Main] = "returned"
    /\ turn \in {"replying", "saving"} => response # "none"
    /\ turn = "replying" => current_phase = "synthesizing"
    /\ turn = "running" => current_phase # "completed"

IInv ==
    /\ TypeOK /\ WithinLimits /\ SlotsCoverThreads /\ DispatchHeld
    /\ BranchHistory /\ ReplyFollowsChat

(***************************************************************************)
(* Liveness, and what the documentation says that the code does not do.    *)
(***************************************************************************)
\* The pipeline answers every turn, and a dispatch gives the chat thread back.
TurnEnds == <>(turn = "over")
DispatchReturns == at[Main] \in Dispatching ~> at[Main] = "chatting"
EverythingEnds == TurnEnds /\ DispatchReturns

\* "Signal the agent to stop at the next safe point" (Agent.cancel): a signal
\* that was given is still there when the chat looks for it.
CancelSignalStays == [][cancel_event \subseteq cancel_event']_vars
=============================================================================

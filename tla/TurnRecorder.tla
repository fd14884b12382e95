----------------------------- MODULE TurnRecorder -----------------------------
(***************************************************************************)
(* The rows that the runtime timeline keeps of a chat turn                 *)
(* (core/runtime/timeline.py), as _RuntimeTurnRecorder in                  *)
(* core/pipeline/stages/process.py writes them: from the chat thread and   *)
(* its tool threads while the model works, from the coroutine of the       *)
(* pipeline when the chat has ended or its deadline has passed.            *)
(***************************************************************************)
EXTENDS Naturals

CONSTANTS Tools \* tool calls of the turn, all of which may run at once

VARIABLES
    turnRow,    \* turns.status
    thinking,   \* items.status of the current reasoning item
    response,   \* items.status of the answer
    tools,      \* items.status of each tool call
    broken,     \* runtime_persist_failed: nothing is written any more
    pipeline,   \* the coroutine: "idle", "waiting" for the chat, "announcing",
               \* "saving" or "over"
    chatThread, \* the chat thread: "none", "running" or "over"
    toolCalls   \* tool calls under way

rows == <<turnRow, thinking, response, tools>>
recorderVars == <<rows, broken, pipeline, chatThread, toolCalls>>

InProgress == "in_progress"
\* One write of the recorder: the store refuses it, or has refused an earlier one.
Written(new, old) ==
    \/ ~broken /\ new /\ UNCHANGED broken
    \/ broken' = TRUE /\ old

RecorderInit ==
    /\ turnRow = "none" /\ thinking = "none" /\ response = "none"
    /\ tools = [k \in Tools |-> "none"]
    /\ broken = FALSE /\ pipeline = "idle" /\ chatThread = "none" /\ toolCalls = {}

\* _start_turn: without a row the recorder starts broken.
StartTurn ==
    /\ pipeline = "idle"
    /\ Written(turnRow' = InProgress, UNCHANGED turnRow)
    /\ pipeline' = "waiting" /\ chatThread' = "running"
    /\ UNCHANGED <<thinking, response, tools, toolCalls>>

----------------------------------------------------------------------------
\* mark_thinking_done finishes the reasoning item, if there is one.
ThinkingDone == thinking' = IF thinking = InProgress THEN "completed" ELSE thinking

\* The same when a later write of the callback fails.
ThinkingMaybeDone == UNCHANGED thinking \/ (~broken /\ ThinkingDone)

\* on_thinking makes an item when there is none under way.
Think ==
    /\ chatThread = "running" /\ toolCalls = {} /\ thinking # InProgress
    /\ Written(thinking' = InProgress, UNCHANGED thinking)
    /\ UNCHANGED <<turnRow, response, tools, pipeline, chatThread, toolCalls>>

\* The first on_token of the turn: later ones only record events.
Token ==
    /\ chatThread = "running" /\ toolCalls = {} /\ response = "none"
    /\ Written(response' = InProgress /\ ThinkingDone, UNCHANGED response /\ ThinkingMaybeDone)
    /\ UNCHANGED <<turnRow, tools, pipeline, chatThread, toolCalls>>

\* on_tool_start, for every call of an answer before or while others run.
ToolStart(k) ==
    /\ chatThread = "running" /\ tools[k] = "none" /\ k \notin toolCalls
    /\ Written(tools' = [tools EXCEPT ![k] = InProgress] /\ ThinkingDone,
               UNCHANGED tools /\ ThinkingMaybeDone)
    /\ toolCalls' = toolCalls \cup {k}
    /\ UNCHANGED <<turnRow, response, pipeline, chatThread>>

\* on_tool_end: failed when the result says error, blocked or confirm.
ToolEnd(k) ==
    /\ k \in toolCalls
    /\ toolCalls' = toolCalls \ {k}
    /\ \E status \in {"completed", "failed"} :
         Written(tools' = [tools EXCEPT ![k] = IF @ = InProgress THEN status ELSE @], UNCHANGED tools)
    /\ UNCHANGED <<turnRow, thinking, response, pipeline, chatThread>>

\* The chat raises, with items under way; the pipeline finishes the turn as failed
\* (finish_error) if it still waits.
ChatFails ==
    /\ chatThread = "running" /\ chatThread' = "over" /\ toolCalls' = {}
    /\ IF pipeline = "waiting"
       THEN pipeline' = "over" /\ Written(turnRow' = "failed", UNCHANGED turnRow)
       ELSE UNCHANGED <<turnRow, broken, pipeline>>
    /\ UNCHANGED <<thinking, response, tools>>

----------------------------------------------------------------------------
\* _ResearchDeadlineError: finish_error while the chat thread runs on.
Deadline ==
    /\ pipeline = "waiting" /\ chatThread = "running"
    /\ Written(turnRow' = "failed", UNCHANGED turnRow)
    /\ pipeline' = "over"
    /\ UNCHANGED <<thinking, response, tools, chatThread, toolCalls>>

\* The chat returns to nobody.
ChatReturnsLate ==
    /\ chatThread = "running" /\ toolCalls = {} /\ pipeline = "over"
    /\ chatThread' = "over"
    /\ UNCHANGED <<rows, broken, pipeline, toolCalls>>

\* The chat returns; mark_thinking_done, and the first half of finish_success up
\* to the awaited broadcast: the item of the answer is finished, or made
\* finished when nothing was streamed, or left out when the answer is empty.
ChatReturns ==
    /\ chatThread = "running" /\ toolCalls = {} /\ pipeline = "waiting"
    /\ chatThread' = "over" /\ pipeline' = "announcing"
    /\ Written(ThinkingDone /\ (response' = "completed" \/ (response = "none" /\ response' = "none")),
               UNCHANGED response /\ ThinkingMaybeDone)
    /\ UNCHANGED <<turnRow, tools, toolCalls>>

(* Fault: an earlier failure of the store does not keep the turn from its end. *)
FinishThoughBroken ==
    /\ pipeline = "announcing"
    /\ \E status \in {"completed", "canceled"} : turnRow' = status
    /\ pipeline' = "saving"
    /\ UNCHANGED <<thinking, response, tools, broken, chatThread, toolCalls>>

\* The second half of finish_success.
FinishTurn ==
    /\ pipeline = "announcing"
    /\ \E status \in {"completed", "canceled"} : Written(turnRow' = status, UNCHANGED turnRow)
    /\ pipeline' = "saving"
    /\ UNCHANGED <<thinking, response, tools, chatThread, toolCalls>>

\* What is left to do, the history above all, is saved.
Save ==
    /\ pipeline = "saving" /\ pipeline' = "over"
    /\ UNCHANGED <<rows, broken, chatThread, toolCalls>>

(* Fault: the error handler takes the turn for one that was interrupted. *)
SaveFailsCanceled ==
    /\ pipeline = "saving" /\ pipeline' = "over"
    /\ Written(turnRow' = "canceled", UNCHANGED turnRow)
    /\ UNCHANGED <<thinking, response, tools, chatThread, toolCalls>>

\* Or it is not: the error handler finishes the turn a second time, as failed.
SaveFails ==
    /\ pipeline = "saving" /\ pipeline' = "over"
    /\ Written(turnRow' = "failed", UNCHANGED turnRow)
    /\ UNCHANGED <<thinking, response, tools, chatThread, toolCalls>>

\* The process dies; nothing in the timeline is marked at the next start.
Crash ==
    /\ pipeline \notin {"idle", "over"} \/ chatThread = "running"
    /\ pipeline' = "over" /\ chatThread' = "over" /\ toolCalls' = {}
    /\ UNCHANGED <<rows, broken>>

RecorderNext ==
    \/ StartTurn \/ Think \/ Token
    \/ \E k \in Tools : ToolStart(k) \/ ToolEnd(k)
    \/ ChatFails \/ Deadline \/ ChatReturnsLate \/ ChatReturns
    \/ FinishTurn \/ Save \/ SaveFails \/ Crash

RecorderSpec == RecorderInit /\ [][RecorderNext]_recorderVars

----------------------------------------------------------------------------
RecorderTypeOK ==
    /\ turnRow \in {"none", InProgress, "completed", "canceled", "failed"}
    /\ thinking \in {"none", InProgress, "completed"} /\ response \in {"none", InProgress, "completed"}
    /\ tools \in [Tools -> {"none", InProgress, "completed", "failed"}]
    /\ broken \in BOOLEAN
    /\ pipeline \in {"idle", "waiting", "announcing", "saving", "over"}
    /\ chatThread \in {"none", "running", "over"} /\ toolCalls \subseteq Tools

\* A turn that the timeline calls completed or cancelled has no item under way:
\* every callback closes what it opened before, and after one lost write the
\* recorder writes nothing more, the end of the turn included.
NoItemIsOpen ==
    turnRow \in {"completed", "canceled"} =>
        thinking # InProgress /\ response # InProgress /\ \A k \in Tools : tools[k] # InProgress

\* finish_turn refuses nothing, and a chat thread may outlive its turn: the only
\* outcome that is ever replaced is one whose history could not be saved after
\* it was announced.
OutcomeOnlyFails ==
    [][(turnRow \in {"completed", "canceled", "failed"} /\ turnRow' # turnRow)
          => turnRow # "failed" /\ turnRow' = "failed" /\ pipeline = "saving"]_recorderVars

\* Both, of every turn that the pipeline finishes.
EndedTurnsAreClosed == []NoItemIsOpen /\ OutcomeOnlyFails
=============================================================================

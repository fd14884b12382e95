------------------------------ MODULE GraphQueue ------------------------------
(***************************************************************************)
(* The background work that outlives a chat turn, and the task store that  *)
(* keeps its outcome: the graph extraction queue with its one worker       *)
(* (core/knowledge/graph_worker.py), the sub-agents dispatched to a pool   *)
(* of threads (core/tools/agent_tool.py), the rows both write             *)
(* (core/runtime/tasks.py), and the order in which Lifecycle.stop takes    *)
(* them down.  The worker, the enqueuers and the shutdown are coroutines   *)
(* of one loop: what happens between two awaits is one action.  Sub-agents *)
(* and the writing of facts are threads.                                   *)
(***************************************************************************)
EXTENDS Naturals, Sequences, SequencesExt, Functions

CONSTANTS Jobs,          \* graph extraction tasks
          Threads,       \* background sub-agent tasks
          NoJob,
          MaxQueue,      \* queue_max_size
          MaxSegments,   \* bound: segments the text of a job is cut into
          MaxExtractions \* _EXTRACTION_MAX_ATTEMPTS

ASSUME QueueAssumption ==
    /\ Jobs \cap Threads = {} /\ NoJob \notin Jobs
    /\ {MaxQueue, MaxSegments, MaxExtractions} \subseteq Nat /\ MaxExtractions >= 1

VARIABLES
    row,     \* tasks.status of each task, on disk; "none" before its row
    facts,   \* jobs whose facts are in the graph, on disk
    app,     \* "down", "up", then the awaits of Lifecycle.stop
    enabled, \* graph_config["enabled"]
    closing, \* _closing
    queue,   \* the jobs waiting
    worker,  \* _worker_task: "off", "idle", "extracting" or "writing"
    hand,    \* the job it has taken
    left,    \* segments of that job not extracted yet
    attempt, \* the attempt at the current one
    orphans, \* jobs whose writing thread outlived the worker
    thread,  \* each sub-agent: "none", "pool" or "running"
    selected \* rows mark_incomplete_as_interrupted has read, not yet written

disk == <<row, facts>>
config == <<enabled, closing>>
work == <<worker, hand, left, attempt, orphans>>
graphVars == <<disk, app, config, queue, work, thread, selected>>

Tasks == Jobs \cup Threads
Terminal == {"completed", "failed", "canceled", "interrupted"}
Open == {"queued", "running"}
Incomplete(S) == {t \in S : row[t] \in Open}

\* update_task: the new status is written whatever the old one was.
Write(t, status) == row' = [row EXCEPT ![t] = status]
\* mark_incomplete_as_interrupted when nobody else writes these rows meanwhile.
MarkIncomplete(S) ==
    row' = [t \in Tasks |-> IF t \in Incomplete(S) THEN "interrupted" ELSE row[t]]
LetGo == hand' = NoJob /\ left' = 0 /\ attempt' = 0

GraphInit ==
    /\ row = [t \in Tasks |-> "none"] /\ facts = {}
    /\ app = "down" /\ enabled = FALSE /\ closing = FALSE
    /\ queue = <<>> /\ worker = "off" /\ hand = NoJob /\ left = 0 /\ attempt = 0
    /\ orphans = {} /\ thread = [t \in Threads |-> "none"] /\ selected = {}

----------------------------------------------------------------------------
(* Fault: the rows of the process before are left as they are. *)
StartWithoutMarking ==
    /\ app = "down" /\ app' = "up"
    /\ \E on \in BOOLEAN : enabled' = on /\ worker' = IF on THEN "idle" ELSE "off"
    /\ closing' = FALSE
    /\ UNCHANGED <<disk, queue, hand, left, attempt, orphans, thread, selected>>

\* Lifecycle.initialize: the worker is made, then ProcessStage.initialize marks
\* every open row of the processes before; nothing is awaited in between.
StartApp ==
    /\ app = "down" /\ app' = "up"
    /\ MarkIncomplete(Tasks)
    /\ \E on \in BOOLEAN : enabled' = on /\ worker' = IF on THEN "idle" ELSE "off"
    /\ closing' = FALSE
    /\ UNCHANGED <<facts, queue, hand, left, attempt, orphans, thread, selected>>

\* The process dies, or Lifecycle.stop has returned: what is not on disk is gone.
Vanish ==
    /\ app' = "down"
    /\ enabled' = FALSE /\ closing' = FALSE
    /\ queue' = <<>> /\ worker' = "off" /\ LetGo
    /\ orphans' = {} /\ thread' = [t \in Threads |-> "none"] /\ selected' = {}

AppCrashes == app # "down" /\ Vanish /\ UNCHANGED disk

\* update_config: enabling starts the worker; disabling leaves it running.
Configure ==
    /\ app = "up"
    /\ enabled' = ~enabled
    /\ closing' = IF enabled' THEN FALSE ELSE closing
    /\ worker' = IF enabled' /\ worker = "off" THEN "idle" ELSE worker
    /\ UNCHANGED <<disk, app, queue, hand, left, attempt, orphans, thread, selected>>

----------------------------------------------------------------------------
CanEnqueue == ~closing /\ enabled /\ worker # "off" /\ Len(queue) < MaxQueue

\* create_task inserts the row.
Create(t) == row[t] = "none" /\ Write(t, "queued")

\* enqueue_document, enqueue_chat_turn, enqueue_manual_ingest: refused without a
\* row when it is off, closing or full; else the row and the queue entry.
EnqueueJob(j) ==
    /\ app = "up" /\ CanEnqueue
    /\ Create(j)
    /\ queue' = Append(queue, j)
    /\ UNCHANGED <<facts, app, config, work, thread, selected>>

\* A text is cut into one segment or more, a document chunk by chunk.
Segments == 1..MaxSegments

\* _worker_loop takes a job and starts its task.
TakeJob ==
    /\ worker = "idle" /\ queue # <<>>
    /\ queue' = Tail(queue)
    /\ hand' = Head(queue)
    /\ \E n \in Segments : left' = n
    /\ attempt' = 1 /\ worker' = "extracting"
    /\ Write(Head(queue), "running")
    /\ UNCHANGED <<facts, app, config, orphans, thread, selected>>

(* Fault: the last segment is noticed one too late. *)
NextSegmentLate ==
    /\ left' = left - 1
    /\ attempt' = IF left = 0 THEN 0 ELSE 1
    /\ worker' = IF left = 0 THEN "writing" ELSE worker

\* The segment is done with; after the last one the facts are written.
NextSegment ==
    /\ left' = left - 1
    /\ attempt' = IF left = 1 THEN 0 ELSE 1
    /\ worker' = IF left = 1 THEN "writing" ELSE worker

ExtractSucceeds ==
    /\ worker = "extracting"
    /\ NextSegment
    /\ UNCHANGED <<disk, app, config, queue, hand, orphans, thread, selected>>

(* Fault: a segment whose attempts are used up starts anew. *)
ExtractFailsAnew ==
    /\ worker = "extracting"
    /\ attempt' = IF attempt < MaxExtractions THEN attempt + 1 ELSE 1
    /\ UNCHANGED <<left, worker>>
    /\ UNCHANGED <<disk, app, config, queue, hand, orphans, thread, selected>>

\* The model fails or exceeds its timeout: the attempt is repeated, the segment
\* skipped after the last one.
ExtractFails ==
    /\ worker = "extracting"
    /\ IF attempt < MaxExtractions
       THEN attempt' = attempt + 1 /\ UNCHANGED <<left, worker>>
       ELSE NextSegment
    /\ UNCHANGED <<disk, app, config, queue, hand, orphans, thread, selected>>

\* upsert_facts, in its thread, is done; the task is finished and let go.
FactsWritten ==
    /\ worker = "writing"
    /\ facts' = facts \cup {hand}
    /\ Write(hand, "completed")
    /\ worker' = "idle" /\ LetGo
    /\ UNCHANGED <<app, config, queue, orphans, thread, selected>>

WriteFails ==
    /\ worker = "writing"
    /\ Write(hand, "failed")
    /\ worker' = "idle" /\ LetGo
    /\ UNCHANGED <<facts, app, config, queue, orphans, thread, selected>>

OrphanWrites(j) ==
    /\ j \in orphans
    /\ orphans' = orphans \ {j}
    /\ facts' = facts \cup {j}
    /\ UNCHANGED <<row, app, config, queue, worker, hand, left, attempt, thread, selected>>

----------------------------------------------------------------------------
\* AgentTool._run_background: row and pool entry, from a chat thread, which a
\* shutdown does not stop at once.
DispatchAgent(t) ==
    /\ app # "down"
    /\ Create(t)
    /\ thread' = [thread EXCEPT ![t] = "pool"]
    /\ UNCHANGED <<facts, app, config, queue, work, selected>>

ThreadStarts(t) ==
    /\ thread[t] = "pool"
    /\ thread' = [thread EXCEPT ![t] = "running"]
    /\ Write(t, "running")
    /\ UNCHANGED <<facts, app, config, queue, work, selected>>

\* SubAgentRun.finish, fail or cancel; a failed setup ends it from the pool.
ThreadEnds(t) ==
    /\ thread[t] # "none"
    /\ \E status \in IF thread[t] = "running" THEN {"completed", "failed"} ELSE {"failed"} :
         Write(t, status)
    /\ thread' = [thread EXCEPT ![t] = "none"]
    /\ UNCHANGED <<facts, app, config, queue, work, selected>>

----------------------------------------------------------------------------
\* GraphKnowledgeManager.close: it waits for the queue only if a job is in it; the
\* one the worker holds does not count.
CloseBegins ==
    /\ app = "up"
    /\ closing' = TRUE
    /\ app' = IF queue # <<>> /\ worker # "off" THEN "draining" ELSE "canceling"
    /\ UNCHANGED <<disk, enabled, queue, work, thread, selected>>

\* queue.join() returns, or drain_seconds have passed.
DrainEnds ==
    /\ app = "draining" /\ app' = "canceling"
    /\ UNCHANGED <<disk, config, queue, work, thread, selected>>

(* Fault: the rows are marked while the worker still runs. *)
CancelWorkerLate ==
    /\ app = "canceling" /\ app' = "closed"
    /\ MarkIncomplete(Jobs)
    /\ UNCHANGED <<facts, config, queue, work, thread, selected>>

\* The worker is cancelled and awaited, then the open graph tasks are marked.  A
\* thread that writes facts runs on.
CancelWorker ==
    /\ app = "canceling" /\ app' = "closed"
    /\ orphans' = IF worker = "writing" THEN orphans \cup {hand} ELSE orphans
    /\ worker' = "off" /\ LetGo
    /\ MarkIncomplete(Jobs)
    /\ UNCHANGED <<facts, config, queue, thread, selected>>

\* ProcessStage.shutdown: the open rows are read, then marked one by one,
\* each in a transaction of its own; then the store is closed.
SelectIncomplete ==
    /\ app = "closed" /\ app' = "marking"
    /\ selected' = Incomplete(Tasks)
    /\ UNCHANGED <<disk, config, queue, work, thread>>

MarkInterrupted(t) ==
    /\ t \in selected
    /\ selected' = selected \ {t}
    /\ Write(t, "interrupted")
    /\ UNCHANGED <<facts, app, config, queue, work, thread>>

Stopped == app = "marking" /\ selected = {} /\ Vanish /\ UNCHANGED disk

GraphNext ==
    \/ StartApp \/ AppCrashes \/ Configure
    \/ \E j \in Jobs : EnqueueJob(j) \/ OrphanWrites(j)
    \/ TakeJob \/ ExtractSucceeds \/ ExtractFails \/ FactsWritten \/ WriteFails
    \/ \E t \in Threads : DispatchAgent(t) \/ ThreadStarts(t) \/ ThreadEnds(t)
    \/ CloseBegins \/ DrainEnds \/ CancelWorker \/ SelectIncomplete
    \/ \E t \in Tasks : MarkInterrupted(t)
    \/ Stopped

GraphSpec == GraphInit /\ [][GraphNext]_graphVars

\* The loop runs the worker, every wait of the worker has a timeout, threads end,
\* and the application is started again some time.
GraphFairness ==
    /\ WF_graphVars(StartApp)
    /\ WF_graphVars(TakeJob) /\ WF_graphVars(ExtractSucceeds \/ ExtractFails)
    /\ WF_graphVars(FactsWritten \/ WriteFails)
    /\ \A t \in Threads : WF_graphVars(ThreadStarts(t) \/ ThreadEnds(t))
    /\ WF_graphVars(DrainEnds) /\ WF_graphVars(CancelWorker) /\ WF_graphVars(SelectIncomplete)
    /\ WF_graphVars(\E t \in Tasks : MarkInterrupted(t)) /\ WF_graphVars(Stopped)

GraphFairSpec == GraphSpec /\ GraphFairness

----------------------------------------------------------------------------
GraphTypeOK ==
    /\ row \in [Tasks -> {"none"} \cup Open \cup Terminal] /\ facts \subseteq Jobs
    /\ app \in {"down", "up", "draining", "canceling", "closed", "marking"}
    /\ enabled \in BOOLEAN /\ closing \in BOOLEAN
    /\ queue \in Seq(Jobs)
    /\ worker \in {"off", "idle", "extracting", "writing"} /\ hand \in Jobs \cup {NoJob}
    /\ left \in 0..MaxSegments /\ attempt \in 0..MaxExtractions
    /\ orphans \subseteq Jobs
    /\ thread \in [Threads -> {"none", "pool", "running"}] /\ selected \subseteq Tasks

\* While the application is up, a task that the store calls queued or running is
\* in the queue, in the worker's hand or in the pool: no row waits for nobody
\* (_put_job, _worker_loop's finally, and the marking at start).
OpenTasksAreHeld ==
    app = "up" =>
        /\ \A j \in Jobs : row[j] \in Open => j \in Range(queue) \cup {hand}
        /\ \A t \in Threads : row[t] \in Open => thread[t] # "none"

\* update_task refuses no transition, so only the order of the shutdown protects
\* an outcome: that of a graph task is never overwritten, that of a sub-agent
\* only by the race between its thread and the last marking.
OutcomeStands ==
    [][\A t \in Tasks : row[t] \in Terminal /\ row'[t] # row[t]
            => t \in Threads /\ app \in {"closed", "marking"}]_graphVars

\* Every task ends: by its worker or thread, by the shutdown, or by the marking
\* at the next start.  A task is created once, so there are ever again times
\* when all have ended.
TasksEnd == []<>(Incomplete(Tasks) = {})

\* Both: an open task has somebody to end it, and the end it got it keeps.
TasksAreAnswered == []OpenTasksAreHeld /\ OutcomeStands
=============================================================================

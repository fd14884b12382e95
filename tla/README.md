# A TLA+ model of ATRI

ATRI is an AI assistant with a chat pipeline, a Deep Research mode, knowledge bases with document
indexes, vectors and a graph, tools, skills, and a Music Studio that drives an audio engine in a
separate Rust process. This directory holds TLA+ models of the parts where concurrency, crashes,
timeouts or long sequences of edits make the code hard to test, the TLC configurations that check
them, and proofs checked by TLAPS.

    tlc -workers 2 -config ChatTurns.cfg MCChatTurn.tla     # one of the runs below
    tlapm ProjectStoreProofs.tla                            # one of the proof modules

Contents: [inventory](#1-inventory) · [modules](#2-modules) · [runs](#3-runs-and-bounds) ·
[fairness](#4-fairness) · [proofs](#5-proofs) · [disagreements](#6-where-code-and-documentation-disagree) ·
[limits](#7-what-is-not-modelled-or-not-proved) · [plan](#8-plan)

## 1. Inventory

The process is one asyncio event loop with thread pools beside it. Platform adapters put events on
a queue; the event bus starts a pipeline task for each; the pipeline runs an agent chat in an
executor thread; agents call tools, some of which are agents again; the dashboard's HTTP handlers
run on the same loop and reach into all of these. The knowledge base has workers of its own on the
loop, SQLite below it, and a graph in Neo4j that several processes may share. The Music Studio
keeps projects in files that several processes share, and talks to the audio host over pipes.

| Component (source) | State it keeps | Operations | Talks to | What is hard | Modules |
|---|---|---|---|---|---|
| **Document index lifecycle** (`core/knowledge/{indexing,store,manager}.py`) | SQLite rows: documents, payloads, chunks, one index row per type with status, version, observed version | import, rebuild, settings edit, delete; reconcile, claim, build, complete, fail, stale reset; mode switch | embedding client, graph manager, HTTP handlers | awaits inside a build, several executors on one row, crashes between commits | DocumentIndex |
| **Knowledge retrieval** (`core/knowledge/{retrieval,vector_backend,graph,graph_cache,extraction}.py`, `process.py`) | matrix and HNSW index with its files, caches in memory and in the graph, facts with sources and evidence | search, upsert, backfill, anchor, retry | SQLite, Neo4j, embedding and reranking clients | caches under a revision that moves, backfills half done, timeouts that leave threads | VectorIndex, GraphCache, FactLedger, KnowledgeContext |
| **Deep Research turn** (`core/research`, `core/tools/agent_tool.py`, `core/agent/agent.py`, `process.py`) | budget counters, session phase, branches, sub-agent runs, cancel events, evidence ledger | reserve, checkpoint, dispatch, search, finish, cite, cancel, two deadlines | LLM, tools, pipeline | threads racing deadlines and cancellations from four sides | ResearchTurn, EvidenceLedger |
| **Chat pipeline** (`core/pipeline`, `core/agent/session.py`) | agents, session locks, last activity, active register, histories on disk | process, cancel request or session, reset, evict | agents, platform adapters, dashboard | locks dropped while held, chats that outlive their turn | ChatTurn |
| **Agent loop** (`core/agent`) | messages, cancel flag, binding, spilled results, streams | rounds of model call and tools, compression, streaming | LLM, tools | pairing of calls and results under cancellation, streams cut anywhere | AgentLoop, ModelStream, MessageBlocks |
| **Graph extraction queue, task store** (`core/knowledge/graph_worker.py`, `core/runtime/tasks.py`) | bounded queue, worker task, SQLite task rows | enqueue, extract, drain, close, finish, mark interrupted | Neo4j, sub-agents | a close that does not wait for the job under way, a late finish | GraphQueue |
| **Event bus, platform adapters** (`core/event_bus.py`, `core/platform`) | event queue, running tasks, futures of requests | receive, dispatch, answer, shut down | pipeline, HTTP handlers | an event taken at the moment of shutdown | EventBus |
| **Timeline** (`core/runtime/timeline.py`, `process.py`, `websocket.py`) | rows of turns, items, events; connections | start, finish, append, broadcast, replay | dashboard | three writers, lost connections | TurnRecorder, EventReplay |
| **Tools** (`core/tools`) | processes, pending requests, sockets, what awaits approval | call, time out, refresh, abort, hold, approve | operating system, servers | reader threads, aborts, answers from several pages | McpClient, WebRequest, Approvals |
| **Skills** (`core/skills`, `dashboard/routes/skills.py`) | directories, cache, switches, prompt | install, delete, switch, load | agents | scans that overlap changes | SkillInstall |
| **Configuration** (`core/lifecycle.py`, `core/config_schema.py`, `dashboard/routes/models.py`) | file, `lc.config`, what runs with it | save, start, push to the stage | dashboard | three copies | ModelConfig, Settings |
| **Audio host IPC** (`core/host.py`, `dashboard/music.py`, `atri-host-bin/src/ipc.rs`) | process handle, command lock, reply queue, sync cache | start, stop, send, read, time out, sync | host process | replies without identity, a host that dies or hangs | HostIpc |
| **Studio sync** (`dashboard/music.py`, `host_projection.py`, `session.rs`) | routing cache, track ids, routes on the host | sync, cancel, restart | HostIpc | syncs without a lock on one cache | StudioSync |
| **Studio exports, imports, plugins** (`dashboard/music.py`, `dashboard/studio`) | files, clips, plugin states | render, encode, note, import, roll back, capture, restore | host, bridge | everything awaited | StudioExport, AudioImport, PluginState |
| **Studio pages** (`dashboard/music.py`, `studioProjectPatch.js`) | snapshot, revision, pages | patch, reload, save | browser | broadcasts that overlap | ProjectBroadcast |
| **Project repository** (`core/music/project_repository.py`, `dashboard/music.py`) | project files, index file, lock file | load, save, checked save, host merge, save as, open | several processes | death between two file writes | ProjectLibrary, ProjectStore |
| **Music project model** (`core/music/*_operations.py`) | none (pure) | edit tracks, routes, notes, events, clips | repository | boundaries of clips, references by number | Arrangement, MidiTimeline |
| Music theory, plugins of the application, todos | none or loaded at start | evaluate, load | agent | - | - |
| Rust audio engine, VST3 host and bridge | realtime graph, shared-memory ring | render, exchange | host IPC | lock-free buffers | - |
| Web frontend (but for pages and settings above) | view state | - | dashboard | - | - |

What makes the modelled components correct:

* *Document index*: an index that says active has chunks cut with the settings of its last request;
  a request is neither forgotten nor answered by an older build; versions only advance.
* *Retrieval*: a search finds what is stored when it looks; what is cached under a revision reflects
  it; a slot has one current fact, and no source or evidence is lost; a context holds what the
  searches found, within its limits, and a turn that is cancelled leaves no task.
* *Research turn*: shared limits hold; threads never exceed their slots; a branch and its run agree
  and stay as they ended; phases follow the declared transitions; evidence only grows, and what a
  report cites is there.
* *Chat pipeline*: the turns of a session are serial; its history is a sequence of questions with
  their answers that only grows or is summed up; a cancellation reaches the right chat only; nobody waits for ever.
* *Agent loop*: what a model is sent is valid, what it streams is told once, in order and unmixed.
* *Background work*: an open task has an owner; an outcome is not overwritten; at shutdown every
  handler that waits can be answered.
* *Host IPC and studio*: whose reply a caller gets; caches say what the host has; no process is
  orphaned; a sync that runs alone leaves the host as its project wants it; files that an answer
  names are there; a plugin is given its own state back.
* *Repository and project model*: calls look atomic, through crashes; no saved project is forgotten;
  an edit reaches what it names and nothing else; routes end at buses and make no circle.
* *Configuration*: a restart goes on with what was at work; the page, the file, the stage and the
  managers agree.

`PROJECT.json` lists the hazards, each at its line, with the properties that would notice it.

## 2. Modules

Throughout, what a coroutine does between two awaits, or a thread does under one lock, is one
action, unless a crash can fall between two durable writes of it. Definitions named after a
wrong variant of the code and marked *Fault* are not used by the specifications; each
replaces the definition after it to see that a property notices. History variables (`disturbed`,
`overtaken`, `torn`, `doubled`, ...) say in which behaviours the code gives up a promise: the property
is stated for the others, and [section 6](#6-where-code-and-documentation-disagree) names each case.

Modules that share no state are checked side by side in one run: its MC module has a variable `part`
that is chosen in the initial state, instantiates each module, and lets only the chosen one move.

### DocumentIndex — `core/knowledge/{store,indexing,manager}.py`

`rows` is the table `document_indexes` (status, version, observed version, whether
`last_reconciled_at` is old), `docs` the document and payload rows, `chunks` the generation of
settings the stored chunks were cut with, `settings` the current generation, `exec` the position
and claims of every executor (a `LocalIndexWorker`, or an HTTP call in synchronous mode), `loop` the
executor that is inside a section without an await, `asked` a history variable: the settings in
force when an index was last requested.

| Code | Actions |
|---|---|
| `_queue_document_import`, `import_document` | `ImportAsync`, `ImportSyncStart/Finish/Fail` |
| `rebuild_document_indexes` | `RebuildAsync`, `RebuildSync` |
| `update_knowledge_base`, `delete_document` | `EditSettings`, `DeleteDocument` |
| `DocumentIndexReconciler.reconcile_once` (stale reset, list, sort, claim) | `Reconcile` |
| `DocumentIndexExecutor.execute` | `StartVector`, `EmbeddingArrived/Failed`, `FillChunks`, `CompleteVector`, `BuildGraph`, `MissingDocument`, `CancelCaller` |
| `LocalIndexWorker._run`, mode changes, process restart | `EndBatch`, `SwitchToSync/Async`, `Crash`, `CrashInImport`, `CrashInSyncImport` |

The chunks are replaced and the row completed in two commits of one section: that is why `FillChunks`
and `CompleteVector` are two actions with a possible `Crash` between them. A batch is assumed large
enough for all candidate rows; a graph manager is present.

### ResearchTurn — `core/research`, `core/tools/agent_tool.py`, `core/agent/agent.py`, `process.py`

One Deep Research turn: the chat thread `Main`, the sub-agents `Runs`, the pipeline coroutine
(`turn`, `response`), the user. `clock` has the three values the budget's clock can give
(researching, synthesis required, deadline exceeded). Budget reservations (`ReserveToolCall`,
`ReserveWebFetch`, `GapRound`) with their refusals in two steps (`Refuse`, `AfterRefusal`: the decision is
taken under the budget's lock, its consequence for the session after it), `Checkpoint`, a dispatch from
`Dispatch` through the stop of late runs (`StopRun`, `StopBranch`, `StopAgent`, `StopFuture`, one action
for each lock taken) to `ShutDownPool` and `ReleaseSubagents`, a run from `StartRun` to `EndBranch`, the reply from
`Respond` to `Saved` or `ReplyFails`, and `CancelParent`, `UserCancels`, `DeadlinePasses`, `Tick` from outside.

A sub-agent is bound to its parent's session, so `StopAgent` cancels the whole session; that is what
the code does and the model has it.

### ChatTurn — `core/pipeline/stages/process.py`, `core/agent/session.py`, `webchat.py`

All sessions at once, many requests each. `agents`, `session_locks`, `active`, `active_request` and `stale`
(sessions whose last activity is older than `AGENT_TTL_SECONDS`) are the dictionaries of
`ProcessStage`; `saved` is the session files. A lock or an agent is an object that lives on after its
entry is popped, so both are named by the request that created them: `lock[r]` and `agent[r]` are the
coroutine's local variables, `queue[l]` the holder and the waiters of lock `l`, `messages[a]` the
history of agent `a`. `thread[r]` is the executor thread of the chat, which may outlive the turn;
`helper[r]` the sub-agent it left in the background, in the register `_background_tasks` that all sessions share.

An entry of a history is a question, the rounds of tool calls of a chat, or an answer. It is `kept`, or the summary
stands for it: `Compressed` is `maybe_compress` after every message that is added (`Says`). It has the `words` of its own chat or
of another: the end of a research puts what was answered into the latest message of the model, whichever
that is (`Finalized`, `Replaced`).

| Code | Actions |
|---|---|
| `process` | `Arrive`, `Drop`, `Resume`, and inside them `Skip` |
| `_process_locked` | `Start` (with `GetAgent`), `Prepared`, `Finish`, `Fail`, `DeadlinePasses`, each of the last three through `Leave`, the finally clause |
| `Agent._chat_impl` in the executor, with `maybe_compress` | `ChatBegins`, `ChatCalls`, `ChatEnds` |
| sub-agents in the background, `Agent.cancel` with `AgentTool.cancel` | `HelperStarts`, `HelperEnds`; `CancelAgent` with `StopHelpers` |
| `RespondStage`, inside the session lock | `Respond` |
| `WebChatAdapter.cancel_request` with `ProcessStage.cancel_request`, `cancel_session`, `reset_session`, time | `GiveUp` (with `CancelRequest`), `Stop`, `Reset`, `Age` |

`GetAgent` evicts every stale session, the caller's own included, as the code does: a session that
starts a turn after a long pause gets a new agent from disk and loses the very lock its turn holds.
`disturbed` is a history variable: the sessions whose lock was thrown away in use, or whose research
chat ran on after its deadline. The properties about one session are stated for sessions that were
never disturbed, and for all sessions where they hold regardless.

### HostIpc — `core/host.py`, the sync in `dashboard/music.py`, `run_ipc_loop` in `ipc.rs`

Callers send commands under the FIFO command lock (`line`), the host handles `input` and writes
`output`, the reader task moves it to `responses`. Commands and replies have numbers so that
properties can say whose reply a caller got; the code has none. `host` may be up, leaving or dead;
`lifecycle` is the position of whoever holds the lifecycle lock (start, stop). The host may die at any step or never answer.

A command is written by the event loop itself, so a host that does not read stops all of it once the pipe is full
(`SendBlocks`, `StopBlocks`, `blocked`; the pipe takes `PipeRoom` commands). Every other action of the process is `OnLoop`. A wait ends with a reply,
by its timeout, or because the page is gone and the request is cancelled (`Cancelled`, `LifecycleCancelled`); `givenUp` counts those
without a reply. `cache` is one entry of the sync fingerprints and `session` the process it belongs to. A sync that finds the host not running drops the
dictionary, and older syncs go on with the one they hold: `syncing` are those that hold the present one. `RawCommand` is the route that sends a
command past the cache. `tracked` says that the host's value was sent by a sync that writes the cache.

### ProjectLibrary and ProjectStore — `core/music/project_repository.py`, saves in `dashboard/music.py`

`ProjectLibrary` is the abstract specification: a library of documents one of which is active, where
every call takes effect at one moment or not at all. `ProjectStore` has the files: one archive for each
project, the index file, the lock file; a file is replaced atomically but a process may die between
two files. Refinement: `projects <- archives`, `active <- IF the index names an existing file THEN index ELSE
NoId`. A revision in the code is a hash of the document, so the model compares documents.

### KnowledgeContext, VectorIndex, GraphCache, FactLedger — `core/knowledge`, `process.py`

`KnowledgeContext` is one message's way through `_build_knowledge_context`: a task that embeds, searches and
reranks (an answer may name an index twice, leave some out or fail), a task for the graph that waits for anchors and may be asked again (`VectorAwaited`, `GraphAwaited`,
`RetryAwaited`, `Answer`), threads of the executor that a time limit leaves behind (`StrayEnds`), chunks deleted
meanwhile, and cancellation at every await (`Cancel`, `TaskEnds`, `Cleaned`).

`VectorIndex` has the chunks and embeddings of a base, the matrix the store caches, the HNSW index in memory
and in its two files, and what lies between two awaits of an import, a change of the model, a search; a crash
falls between commits (`CrashInImport`, `CrashInDelete`, `CrashInBuild`). `behind` says that a commit was not followed
by its refresh.

`GraphCache` has the revision in the graph, each client's notion of it, and the caches kept under them: whole
answers under the revision at the start of a search, expansions under the one at the moment of keeping. An
upsert is `Write`, `ClearMemory`, `Count` (or `CountAlone` where the graph refuses), `TakeOver`, `Prune`.

`FactLedger` has, for each fact, its edge, its nodes of sources and its evidence. `Writes` is an upsert with the
superseding of a slot; `LooksAtProjection` ... `NotesLedger` are the two backfills of a client that connects, each
statement a transaction, each answer possibly lost and its statement run again.

### EvidenceLedger — `core/research/{evidence,services,report}.py`

Branches search in threads of their own; a call crosses to the event loop (`Search`, `Serve`, `Return`, `TimeOut`), its
hits are added under the lock (`Add`) and told after it (`Tell`); `Cancel` takes a snapshot of the pending calls and
`CancelCall` ends them one by one. The report goes through `Write`, `Strict`, `ListJson`, `Clean`, `Catalog`, `Finish`
while searches may still add. The part *bridge* has a tool outside the turn on the same services.

### AgentLoop, ModelStream, MessageBlocks — `core/agent/{agent,context,llm}.py`

`AgentLoop` is one history under rounds of model call and tools, with its compression in two steps (the tail is set
aside, the summary comes later) and the binding of a turn; an abandoned research turn's chat goes on
beside the next turn's. Messages are calls, results, summaries; texts are left out.

`ModelStream` is a streamed answer: the splitter of `<think>` tags over chunks cut anywhere, and the blocks of
Anthropic with a connection that breaks and is opened again. `MessageBlocks` is the conversion of a history to
Anthropic's turns of blocks, over the histories an agent can have.

### GraphQueue, EventBus — `graph_worker.py`, `tasks.py`, `agent_tool.py`, `event_bus.py`, `lifecycle.py`

`GraphQueue` has the queue with its bound, the worker with segments and attempts, the thread that writes facts,
background sub-agents, and the rows of tasks; `CloseBegins`, `DrainEnds`, `CancelWorker`, `SelectIncomplete`,
`MarkInterrupted` are the shutdown in the order of `Lifecycle.stop`. `EventBus` has the adapters' futures, the queue and the
dispatch loop (`Get`, `WakeLoop`, `Dispatch`: the flag is read before the event is handed on), and steps 3 to 7 of the
shutdown.

### TurnRecorder, EventReplay — `timeline.py`, `process.py`, `websocket.py`, `useWebSocket.js`

`TurnRecorder` has the rows of one turn as the chat thread, tool threads and the pipeline write them; after one
lost write (`broken`) the recorder writes nothing more. `EventReplay` has the threads that record under the store's lock and
hand on outside of it, in any order; the broadcast; a connection that is lost at any moment; and the replay a page asks for, cut at its
limit. `missed` is a history variable: the events dropped, or left out by the limit, that the page will not ask for.

### McpClient, WebRequest, Approvals — `core/tools`

`McpClient` has the registry with its lock, a client with its reader thread for each process of a server, the table of
requests with queues of one place; `RefreshBegins` and `ShutdownBegins` replace and close clients under their callers. A request is written under the
client's write lock (`Send`, `Taken`, `Written`), without a timeout where the server does not read (`ServerTurnsDeaf`); a start writes its
request, the notification after it and one request for each page of the listing (`Ask`, `Hear`) while it holds the registry's lock.
`WebRequest` has calls in threads, the resolver's pool and bounded queue, the socket that TLS replaces, retries,
the timer of the deadline, and the user's abort. `Approvals` has what the shell tool (one command) and the
studio tools (many) hold, decisions of several users carried out in threads (`Check`, `Take`, `Clear`; `Pop`), and the
process that runs (`Start`, `Note`, `Exit`, `Finish`).

### SkillInstall — `core/skills/skill_manager.py`, `dashboard/routes/skills.py`

Directories under the install root and one outside, the cache of a discovery that has no lock, switches, the
published prompt, and threads that load a skill. An upload goes directory by directory (`Clear`, `Move`, `Enable`);
a removal or a move may fail (`RemovalFails`).

### ModelConfig, Settings — `dashboard/routes/models.py`, `lifecycle.py`, `config_schema.py`, `SettingsPage.vue`

`ModelConfig` has providers, pools of models and the selected ones in `lc.config`, in the file and in the stage; a
request of many settings asks the audio host in its middle. `Settings` has one setting for each way settings are
handled (free text, checked, `int()` unchecked, masked secret, clamped, a list of bases), a page that loads, asks
again and saves, requests of other clients, and a start that takes the file or refuses it.

### StudioSync, ProjectBroadcast — `dashboard/music.py`, `host_projection.py`, `session.rs`, `studioProjectPatch.js`

`StudioSync` is `_sync_project_to_host`, one command at a time: status, removal, additions, kinds, outputs and
mix as the cache has them, commit of the track ids; each command may fail, with or without effect, and the
handler be cancelled at it. The host's side is `session.rs`: a change of kind clears an output, a circle is refused.
`ProjectBroadcast` is what pages make of it: each broadcast has its base, suspends at every send and remembers the
snapshot last; a page patches, reloads or saves on its revision.

### StudioExport, AudioImport, PluginState — `dashboard/music.py`, `dashboard/studio`

`StudioExport`: sync, one or many renders, encoding, packing, the two files that note the latest export, and instances of
the bridge that ask for theirs. `AudioImport`: save, add track and clip, tell the host clip by clip, take all
back when it cannot read one. `PluginState`: plugins in slots, captured before an exchange, a stop and after a
parameter, merged into the saved project, and given back at a start.

### Arrangement, MidiTimeline — `core/music`

Pure edits as actions on one project, in any order. `Arrangement`: tracks with number, type, output, sends and what
automation aims at, through create, delete, move, convert, normalise and the handlers of several steps.
`MidiTimeline`: notes and controller events in clips, edited by beats of the project; each edit is compared
with a reference that knows beats and no clips. A curve is drawn in steps, or by its points alone; a batch then passes over a clip
in which none of them lies.

`MC<Module>` instantiates modules for TLC (sets of model values, bounds); `<Module>Proofs` has the theorems.

## 3. Runs and bounds

State counts are TLC's distinct states.

| Run (module, cfg) | States | Checks |
|---|---|---|
| `services` (MCServices, Services.cfg) | 1.06 million, fair | `ActiveIsFresh`, `ServedIsFresh`, `NothingIsTakenBack`, `RequestsEnd` |
| `knowledge` (MCKnowledge, Knowledge.cfg) | 3.54 million | `StatusMatchesVersions`, `BuildsAdvance`, `SearchesAreCurrent` |
| `stores` (MCStores, Stores.cfg) | 0.72 million | `DecisionHolds`, `NeverForgotten`, `Implements`, `RestartIsNeutral`, `ArrangementHolds`, `EditsLand`, `StudioFilesHold`, `PluginsHold` |
| `research_turn` (ResearchTurnSafety.cfg) | 6.3 million | `WithinLimits`, `SlotsCoverThreads`, `BranchesAgree`, `PhasesFollowTransitions`, `StoppedStays` |
| `research_ends` (ResearchTurnLive.cfg) | smaller, fair | `EverythingEnds` |
| `chat_turns` (ChatTurns.cfg) | 1.71 million, fair | `TurnsAreSerial`, `HistoryHolds`, `RegisterMatchesTurns`, `CancelIsOwn`, `RequestsEnd` |
| `host_commands` (HostIpc.cfg) | 1.07 million, fair | `LagWithinGivenUp`, `CacheTruthful`, `NoOrphan`, `CallersComeBack` |
| `runtime` (MCRuntime, Runtime.cfg) | 0.73 million, fair | `TypesHold`, `CallsAndResultsPair`, `BindingIsOwn`, `EndedTurnsAreClosed`, `OnlyMissedAreSkipped`, `AbortMissesNobody`, `StudioIsCurrent`, `TasksAreAnswered`, `ShutdownIsOrderly`, `WorkEnds` |
| `research_signal`, `chat_evict`, `host_reply`, `host_stop` | up to the counterexample | one documented promise each, which the code does not keep ([section 6](#6-where-code-and-documentation-disagree)) |

`stores` is the only run with deadlock checking on: in the others the bounds, or the end of the one turn that is
modelled, stop the system. A run keeps a part small; where *(once: ...)* is given, a larger instance of the part
was also checked once, alone, and holds.

**services.** What requests and messages are served with.

| Part | What moves | Its property |
|---|---|---|
| index | one worker, one document with both index types, three versions and generations of settings, two crashes: enough for a request and an edit during a build, a crash in the retry of that build, and a further request | `ActiveIsFresh`, `FailureIsOwn`, `Settles` |
| context | three chunks of two bases, one deletion, one thread left behind | the context holds what was found, in order, within TopK, TopM and MaxFacts, and an anchored search saw its anchors; every turn ends (`Context!TurnEnds`) |
| evidence, bridge | two branches with one search of each kind, a report that cites two; and a branch beside another tool, two calls, one cancellation *(once: three branches 7.8 million states; two calls each 1.5 million; two cancellations 0.9 million)* | every hit is in the ledger once, with its citation, a report lists what it cites, no call is left without an end; evidence never weakens (`EvidenceGrows`) |
| skills | two install directories and one outside, two names, three changes, a loading thread *(once: two loads, 0.39 million)* | the prompt, the switches and what a tool loads agree with the directories unless a scan was `late` |
| stream | every text of five words, chunks of up to four, answers of two blocks, three tries | what readers are told is the answer with the tags split off; what an answer keeps is what was told |
| blocks | every history of four messages plus results *(once: five, 0.36 million)* | a request alternates, begins with the user, and each result stands with its call |
| settings | one page, seven requests of other clients *(once: more requests and typed secrets, 1.3 million)* | file, stage, managers and page agree after every save that succeeded; a page takes no base from another (`BasesStay`) |
| approvals | two operations, two users, one cancellation *(once: three operations, 0.27 million)* | what runs was approved, once, and what was rejected never runs; unless a decision `crossed` another |
| slot, sources | two facts of one slot; one fact of two sources; two clients, two writes, one failure *(once: two failures, 0.48 million)* | one current fact, every fact found under its sources, no evidence lost but where `lost` says so |

**knowledge.** What the knowledge bases keep. *indexes*: two workers (the old one executing while the new one
starts), a synchronous caller, two mode switches: here an old build may overwrite the chunks of a newer one after
that was published, and `BuildsAdvance` says what holds regardless: versions only advance, and a build that is
published is fresh at that moment. *local, lossy and remote cache*: two processes, one search beside one or two
upserts, one lost connection. *vectors, imports*: three chunks, one or two imports, two models, one crash *(once: four writes, 1.1
million)*.

**stores.** *projects*: two clients, three ids (active, saved-as, and one that a crash left), two contents,
unbounded calls and crashes. *chat pool, other pool, pages*: two providers with two keys, two models, two tabs. *mixer,
arranger*: three tracks with one send each, or with inserts and automation *(once: two sends, 9158 states)*. *melody,
controls*: two tracks, two clips, three beats: clips that overlap, adjoin and are apart *(once: 12 761)*. *renders, bridge*: one
export of two tracks, with an edit and a sync in between; two exports for two instances *(once: 2.0 and 2.8 million)*. *audio*:
two imports, a deletion, a restart *(once: 2.5 million)*. *session, slot*: two slots under one handler with a stop;
one slot under two.

**research_turn.** Three sub-agents over two slots (one waits for a slot), two tool calls, one page of two
URLs, one gap round: every limit is reached by threads that compete for it, and a duplicate URL can
meet a refusal. **research_ends** has two sub-agents in two dispatches, one after the other.

**chat_turns.** Two requests of one session, the first a research with a deadline, and one of another session: three
are what it takes for a lock with a waiter to be lost to another session's start. Interventions (a cancelled request, a
stop, a reset, a session going stale) come at any moment. Three instances: *tools*, the second request calls tools and may leave
a sub-agent in the background, one intervention; *deep*, the research calls tools, one intervention; *plain*, nobody calls
tools, two interventions. A compression keeps no entry or two (`Tails`): two is the question with what follows it, and a history
here has up to six entries.

**host_commands.** Two coroutines that sync one setting with two values or send it raw, a bounce, two processes, four commands and
the stopper, and a pipe with room for two: the shortest stale reply takes two commands, its consequence for the cache a third, the restart
a second process. Every wait may be cancelled.

**runtime.** *graph*: two jobs over a queue of one place, two segments, two attempts, one background sub-agent, shutdown and
crash at any moment. *bus*: three requests and a shutdown. *wide and long loop*: two turns, one of them research, with two calls in one
round or one call in two. *recorder*: two tools beside the answer. *replay*: two writers that record four events, a replay of at most two, lost connections. *mcp*: one call, a
refresh with its listing, and a shutdown, of a server that may answer late, stop reading or list without end. *web*: one call with two attempts over a pool of one *(once: two calls, 1.2 million)*. *sync, overlap*: a bus and a
track, one sync with restarts, two syncs at once *(once: 6.3, 1.5 and 9.0 million)*. *pages*: one page, one editor, three projects *(once: two
pages 10.5 million, two editors 0.1 million)*.

## 4. Fairness

Safety is checked without fairness. In runs of several parts fairness is the antecedent of the property
(`GraphFairness => TasksEnd`), as the parts have different ones. They assume only this:

* the event loop runs every coroutine that can go on and every timer fires (weak fairness per
  executor, caller and request);
* a thread of a pool is scheduled (weak fairness per thread);
* a chat ends: it has `max_rounds` rounds and every model call a timeout. In `ResearchTurn` this is strong
  fairness on the end of a chat, because a refused tool call disables it for a moment;
* embedding and reranking clients answer or time out; a process whose pipe is closed ends its reader;
* time passes (`Age`, `Tick`, `TimeOut`).

Nothing is assumed of users, of crashes, of mode switches, of tool servers, of names and networks, or of the audio
host: `CallersComeBack` holds although the host may never answer, because callers have timeouts and `stop()`
kills. It has two exceptions, the waits without a timeout: a bounce, and a write to a full pipe, which stops the event
loop. `WorkEnds` holds though a server babbles or says nothing and a resolver never answers. With a tool server three waits may last
for ever, and the property names them: a `close()` that meets a late answer (`Jammed`), a write to a server that does not
read (`Clogged`), and a listing whose server always has a next page (`Paging`).

## 5. Proofs

TLAPS (SMT, Zenon, LS4) checks these for every value of the constants. Where a module has an `ASSUME` it demands
little: natural bounds, disjoint or finite sets of actors, distinct model values. Where the assumption is an operator
(`LoopAssumption`, `RequestAssumption`, `ReplayAssumption`, `CacheAssumption`, `ApprovalAssumption`,
`VectorIndexAssumption`, `AudioAssumption`, `PluginAssumption`, `ExportAssumption`) it is a hypothesis of the theorem, and
the MC module that instantiates the component assumes it of each instance.

* `KnowledgeProofs`, of DocumentIndex: **RowsAreCoherent** (`StatusMatchesVersions`), **InvariantHolds**, **BuildsOnlyAdvance**
  (`BuildsAdvance`). `StatusMatchesVersions` with `TypeOK` is inductive because every writer of a row goes through
  `Requested`, `Claimed`, `Finished`, `Failed` or `ResetIfStale`, each of which has a lemma; it needs nothing about who runs
  when. `BuildsAdvance` needs more: `ClaimsBehind` (a claim aims at no version later than its row's), `BuildFresh` and `FillDone`
  (what an executor has built is no older than the request it claimed, and between the fill and the completion
  it is what is stored), `SectionHeld` (nobody else moves between the two), `AskedKnown`, `RowsHaveDocs` and `ImportsDisjoint`.
* `KnowledgeProofs`, on freshness: **ActiveStaysFresh** (`ActiveIsFresh`), **FailuresAreOwn** (`FailureIsOwn`),
  **SteadyProcessStaysFresh** (both). Two executors at once can overwrite the chunks of each other, so the first two assume
  `[]OneExecutes`: at most one executor has claims under way. The third proves that of the code where the process keeps
  its mode and, in synchronous mode, one caller rebuilds (`Steady`, an assumption on constants only); what it leaves out is
  a switch of mode during a build and two synchronous rebuilds at once. `FreshInv` adds to `IInv` that what the one
  executor has claimed is still as it claimed it (`ClaimsOpen`), that only a vector build lasts longer than a section
  (`NextIsVector`), and that who is not executing has no claims (`ClaimsExecuted`).
* `KnowledgeProofs`, of GraphCache: **CacheInvariantHolds**, **SearchesStayCurrent** (the part of `SearchesAreCurrent` on the graph's
  caches). What the caches hold must be current also for revisions nobody has counted yet, so it is not
  inductive: `ValuesAreExact` says that a value which claims anything is of a counted revision, in the caches and in every
  thread's hands; `RevisionsAreCounted` says which clients, searches and upserts work under such a one; `RevisionsGrow` that
  a later revision stands for no fewer upserts, which rests on a count of the writers that have written and not
  yet counted (`Uncounted`); `KeysAreCurrent` that a key is no older than what its search asked for. Clients, searches and
  their constants are declared in the middle of the module, which reaches GraphCache by `G == INSTANCE GraphCache`.
* `KnowledgeProofs`, of VectorIndex: **VectorInvariantHolds**, **SearchesFindWhatIsStored** (the other part of `SearchesAreCurrent`), for
  any models, imports, sizes and crashes. An answer is complete because of what lies still: `MatrixHolds` says that a kept matrix is
  that of the rows, `IndexesHold` that an index in memory or in the files which has the base's present stamp has the base's rows,
  and that a stamp of the base is never met again; `BaseHolds` that the counts are right unless `behind`; `ModelsHold` that
  rows and the imports under way are of the base's model unless `raced`. A file without its metadata, as a crash leaves it, is
  never read, so `IndexesHold` says nothing of it.
* `ResearchTurnProofs`: **InvariantHolds**, **TypesAreKept**, **BudgetIsKept**, **SlotsAreKept**, **StoriesAgree**, **PhasesAreOrdered**,
  **StopsAreFinal**. None of the properties is inductive alone. `SlotsCoverThreads` needs `DispatchHeld`: a thread
  works only for the dispatch the chat thread is inside, and the slots are released after the pool
  has been joined. `BranchesAgree` needs `BranchHistory`, the order in which run, branch and future get their
  final word, with `HalfStopped` for the one run whose branch is not yet stopped. `PhasesFollowTransitions` needs
  `ReplyFollowsChat`: the pipeline replies only to a chat that returned. `IInv` is their conjunction; there is a
  lemma for each group of actions and each conjunct, and the theorems follow by PTL.
* `ProjectStoreProofs`: **InvariantHolds**, **TypesAreKept**, **DecisionsHold**, **ProjectIsNeverForgotten**,
  **RepositoryImplementsLibrary**. `IInv` is `TypeOK`, `DecisionHolds` and `StationHolds`: whoever is inside a call holds the
  lock and the files are as far as its position says. The refinement theorem maps every step to a step
  of `ProjectLibrary` or a stutter: the write of the index makes a new project visible, the write of
  the archive a save to an existing one, and a crash forgets what the client knew.
* `ProjectStoreProofs`, of AudioImport: **AudioInvariantHolds**, **ImportsStayWhole** (`ImportsHold`, the part of `StudioFilesHold` on
  imports), for any imports, numbers of tracks and ends of the host. `TracksSound` and `LeftSound` say that every clip of
  the project, and of each copy a sync still works through, has its file or is of an import taken back. So the host
  refuses a clip only if a file is bad, or was taken back because one was (`FilesHold`). `OwnTracks` says that until the user
  deletes a track nobody but the import itself has its number, so what is taken back by number is its own.
* `ProjectStoreProofs`, of PluginState: **PluginInvariantHolds**, **PluginsStayTogether** (`PluginsHold` of the module, which the
  run `stores` checks of two instances), for any requests, slots, plugins, stops and failures. `Queued` says that the queue
  has exactly the commands of those who wait, so what the host answers belongs to the request that gets it. Where several
  requests work while the host runs on, it need not have a slot's plugin yet: `LoadsHold` says that the last load
  which waits for the slot is of the chosen one.
  With one request at a time `AloneHolds` follows it through its work: which slots the host has already (`Steady`, `Changing`,
  `Starting`), that the value set is in the host before it is asked for (`Sounding`), and that no state of the copy is of another
  plugin than its slot's or older than what was answered (`CopyFits`), so that merging the copy loses nothing.
* `ProjectStoreProofs`, of StudioExport: **ExportInvariantHolds**, **ExportsStayWhole** (`ExportsHold`, which `stores` checks of two
  instances as part of `StudioFilesHold`), for any tracks, exports, instances of the bridge, edits, syncs and crashes.
  `PartsFit` says that the parts there are belong to the tracks no longer left, one to each, and are of the state that was
  loaded until another request gives the host something (`overtaken`). `AtWork` and `Over` add which files there are: the
  archive alone, with the wav of the part being encoded, or at the end the product and nothing of the way there.
  `NotesHold` says that one export at a time is being noted and that everything noted is over, so a file that tells of an
  export is believed. Every step changes the files of one export only (`OneGoesOn`).
* `ChatTurnProofs`: **InvariantHolds**, **TypesAreKept**, **TurnsOfASessionAreSerial** (`TurnsAreSerial`), **RegisterIsTrue**
  (`RegisterMatchesTurns`), **SavedHistoryHolds** (`HistoryHolds`), **CancellationIsOwn** (`CancelIsOwn`). `LocksHold` ties lock objects
  to the coroutines: a lock serves one session, whoever is in a turn stands first in its queue, and in a session
  nobody disturbs every request that waits or works has the session's own lock. One operator, `Fits`, says this of
  any arrangement of locks and places, so that what lies between two statements of a coroutine (joining a
  queue, being granted, throwing locks away, leaving) has a lemma each. `RegisterHolds` follows from it: two
  turns in one undisturbed session would head one queue. `AgentsHold` says that an agent serves one session and which
  one the active request has; from it `CancelIsOwn` follows for each step, and with `HistoriesHold` (the agent goes on
  from what is saved, `Continues`, and what a running chat said is the last entry) that no save forgets or misplaces an answer.
  Compression shortens what a model is sent, and a research may replace the words of an earlier answer: `OwnWords` says
  of which, and is inductive with `Heard` (words of another come from a turn that is closed). What `CancelIsOwn` promises
  is about the agents of chats; sub-agents in the background are stopped of every session.
* `HostIpcProofs`: **InvariantHolds**, **TypesAreKept**, **NoProcessIsOrphaned** (`NoOrphan`), **LagIsBounded** (`LagWithinGivenUp`),
  **CacheIsTrue** (`CacheTruthful`). `RepliesToCome` counts: the replies still to come, in the host, the pipe and the queue, are
  at most the one somebody waits for and those whose waits were given up, and the i-th of them answers at best
  the i-th unanswered command; so a caller's reply lags by no more than the waits that
  a timeout or a cancellation ended. `ReadersHold` and `Waits` say
  who reads and who holds the command lock. The cache is true because of what holds while no reply but the awaited
  one is to come (`InStep`): the host was sent what the waiting coroutine wants (`CommandPending`), and the cache says what
  the host has unless the reply that will change it is on its way (`CacheFollows`). It speaks of values that a sync sent while it held the
  dictionary (`tracked`): of others the cache knows nothing.
* `AgentProofs`: **InvariantHolds**, **TypesAreKept** (`TypeOK`), **TurnKeepsBinding** (`BindingIsOwn`), **ResultsFollowCalls**
  (`CallsAndResultsPair`). Hypothesis: the numbers of messages that compression keeps (4, 8) and works above (10 in `context.py`) stay in that order. The
  invariant follows a history between two requests, where calls may lack results: only the last answer may
  (`CallIsLast`), a summary always has a tail (`SummaryHasTail`), and compression cuts no call from its results (`TailIsKept`).
* `AgentProofs`, of Approvals: **ApprovalInvariantHolds**, **DecisionsAreKept** (`ApprovalsHold`, the part of `ServedIsFresh` on approvals).
  `HeldIsFree` and `HandsHold` follow one operation from the table to the thread that is about to run it: nobody has begun with
  what is held, and one thread at most with what is not. The studio tools get this from taking an operation out of the
  table in one step; the shell tool reads and clears in two, so for it `LookersHold` says that the thread between the two is
  the only one and what it read is still held, until `crossed` says otherwise. `OneProcess` does the same for the noted process.
* `WorkerProofs`, of WebRequest: **WebInvariantHolds**, **NobodyIsMissed** (`AbortMissesNobody`), for any calls, resolver threads, places
  and attempts. `SocketsAreKnown` and `WaitersAreKnown` say that the controller knows the socket or the wait a thread is in, or
  the thread will see the reason before it waits; `CancelReaches` that a cancelled call has been told; `ClosedIsEmpty` that a
  closed one has left nothing.
* `WorkerProofs`, of GraphQueue: **GraphInvariantHolds**, **TasksStayAnswered** (`TasksAreAnswered`). `QueueHolds` says that what waits is
  queued in the store and waits once, `WorkerHolds` that the job in the worker's hand is running and an idle worker has
  none, `ThreadsHold` the same of sub-agents, `DownIsEmpty` that a stopped process holds nothing. No outcome of a job is
  overwritten because of `JobsAreClosed`: once the worker has been cancelled and awaited no job is open, so the last marking
  selects sub-agents only.
* `DeliveryProofs`, of EventReplay: **ReplayInvariantHolds**, **OnlyMissedEventsAreSkipped** (`OnlyMissedAreSkipped`), for any
  number of recording threads, events and lost connections and any limit of a replay. `NoGap` says that every event from the page's first
  on is accounted for: come, under way, still to be broadcast, or missed; without a connection those up to its last, and
  before its first event those behind any that may become it.
* `DeliveryProofs`, of EventBus: **BusInvariantHolds**, **ShutdownStaysOrderly** (`ShutdownIsOrderly`). `WaitersAreServed` is inductive
  with `HandIsFull`: an event is in the dispatcher's hand exactly between `queue.get` and the creation of its task.
* `DeliveryProofs`, of TurnRecorder: **RecorderInvariantHolds**, **EndedTurnsStayClosed** (`EndedTurnsAreClosed`). `NoItemIsOpen` needs to
  know where open items come from: none before the turn (`NothingBefore`), none once the answer is announced unless the
  chat still runs (`ItemsAreUnderWay`), and an outcome only after that (`ChatIsOver`, `OutcomeIsLast`).

Every inductive invariant was checked with TLC, in the run of its component or alone, before it was proved. MCRuntime extends
AgentLoop, EventBus, EventReplay, GraphQueue, TurnRecorder and WebRequest, whose names carry a prefix where they would
meet, so the run checks the very properties that are proved.

Model-checked only: every liveness property (the prover has no rules for fairness and `ENABLED`); and what the runs
`stores`, `services` and `runtime` say of the other modules (arrangements, evidence, skills, settings,
tool servers, the studio sync). Modules that use RECURSIVE operators (ModelStream, ProjectBroadcast)
cannot be proved about.

## 6. Where code and documentation disagree

Each of these is a run that violates one property which states the documentation's sentence.

* `chat_evict`: *"Idle agents are evicted after AGENT_TTL_SECONDS"* (process.py:518). Idle means here: the
  last turn began long ago. A turn that is still running after the TTL loses its agent and lock.
* `host_reply`: *"Send a JSON command to the host and wait for the response"* (host.py:245). After a timeout
  the late reply goes to the next command, as it does after a cancelled request. `LagWithinGivenUp` says how far this can slip.
* `host_stop`: *"Stop the Rust host process gracefully, with terminate/kill fallback"* (host.py:168). `stop()`
  waits for the command lock, which a bounce without a timeout can hold for ever. (A write to a full pipe keeps it likewise.)
* `research_signal`: *"Signal the agent to stop at the next safe point"* (agent.py). A cancellation that comes
  before the chat thread has begun is cleared by it.

The following came up while modelling and bound what the properties can say: each is an exception that a history
variable or a weaker statement makes room for.

*Agents and streams.* A chat interrupted while its answer streams returns the partial text as if it were the answer.
After its deadline the chat of a research turn goes on with the history and the binding of the next turn, which may
have another mode, though a turn is to run "with a frozen mode" (agent.py); the compression's lock is not one the
agent takes when it appends, so what it appends between cut and summary is lost (context.py's comment says otherwise).
A nested `<think>` cut by a chunk's end is not counted. A stream of Anthropic that broke is told again from the
beginning (the compatible provider's retries only the opening); an opening text of a block with parts is in the
blocks and not in the content; texts that come only at a block's start are told last; a stream that ends early leaves
a call with no arguments; a new configuration closes a client in use.

*Chats and sessions.* A research that is stopped in mid-stream, before it has said anything that is kept, overwrites the saved answer
of an earlier turn (process.py:813), whose docstring has *"the persisted assistant turn identical to the finalized response"* (2318). Cancelling one message stops the
sub-agents that run in the background of every session, though webchat.py:114 says *"Cancel only the waiter and queued work associated with
event"*; one that is still queued is not stopped.

*Host.* A cancelled request leaves its reply to the next command, and the cache at the value before it. After a raw command, or a sync
that wrote a dropped dictionary, the cache does not say what the host has. A host that stops reading with a full
pipe stops the event loop, and with it every timeout and `stop()`. A `stop()` cancelled in its wait leaves a process of which
`is_running` is false.

*Timeline.* Events are handed on in any order, so a page that was away can ask from a later one and never see an earlier one; a replay is cut at its
limit and the page does not ask for the rest; a connection lost before its replay came counts from its latest event.

*Research.* Changes of evidence are told after the lock: an update may come before its creation. The owner of a call
is the turn: cancelling one branch's tool cancels the pending search of every branch, and a call registered after the
snapshot of `cancel_pending` is not cancelled. A weaker hit with a longer excerpt replaces the excerpt of a full
item. A strict export whose citations all stand after its heading of sources is rejected at the end.

*Knowledge.* `update_knowledge_base` counts chunks before it awaits the probe of the new model; a crash between a
commit and `refresh_counts` leaves the counts behind. The fused scores of a context stay below 0.04, so the
threshold of 0.75 for strong anchors is met only by a reranker. A search of the graph that times out keeps its thread. A
reranker that names an index twice has that chunk twice in the context, in another's place: nothing looks for it. An upsert that meets
a fact of an earlier version after a skipped backfill loses its old evidence (`lost`), and a later exact write of
another source makes the old source exact. Ledger backfill replaces a relation's sources by the strong ones.

*Tools and skills.* Two approvals of one shell command may run it twice, and a command held in between may be run
unapproved or be lost (`crossed`); a second process takes the place of the first, and the first one's end clears it, so that a
cancellation misses (`doubled`). A scan begun before an installation or a deletion is cached after the invalidation (`late`):
the prompt misses the new skill or keeps the old. An upload of a skill at the root of its archive is installed under
the temporary file's name, not the archive's as the docstring says; a move that fails after the old
directory was removed loses the old skill; a deletion uncovers a skill of the same name elsewhere, switched on;
a directory that cannot be removed is answered with an error, and switches, cache and prompt stay as they were though part of it may be gone.
A tool server that does not read its input keeps the write lock and whoever waits for it, without a timeout; a start on such a server, or one that
always names a next page, keeps the registry's lock, and with it every refresh and the shutdown.

*Settings.* Saving the page with a key set sends `***`, which the configuration ignores and the running web search takes
(process.py:1458). Limits below one, texts of a wrong type and waits that round to nothing are saved, and the next
start refuses the file. A refused request leaves the settings before it in `lc.config`, saved by the next success
and never told to the stage. The graph manager's copy does not follow the routes of providers and models. A page
whose first load failed saves blanks; the page's other fields overwrite changes of others.

*Studio.* `host_track_id` outlives the host's session: two tracks of a project may have one of the host. A sync
that is cancelled between kinds and outputs leaves a cache that says routed. The stems of one export may show
different revisions; a mixdown after the host restarted renders silence and succeeds; a failed export
leaves files. An import is taken back because the host refuses some other clip, and by number, which may be another
import's by then; the last track cannot be taken back. A plugin state captured before an exchange can be merged
into the slot after it; a failed load leaves the old processor under the new plugin's name; a start of the host
may undo there an exchange made meanwhile. Broadcasts that
overlap can put a page back to an older project until the next change (`overtaken`).

*Project model.* The README says MIDI tools take beats of the project (README.md:139); `midi_write` puts them
unconverted into the first clip. A batch curve over several clips is cut at each clip's end; drawn by
its points alone it leaves the old events of a clip in which none of them lies. A curve or a line of velocities drawn on one track works in one clip only. A track can be
found by its id of the host; numbers of deleted tracks are given again, and automation that aimed at the old one aims
at the new. An output that would close a circle clears the outputs of every track that runs into it.

## 7. What is not modelled or not proved

* *Inside the modelled components.* DocumentIndex: deletion of a single chunk or a whole knowledge base during a build,
  the graceful close, a `deleting` status no code path sets. ResearchTurn: background sub-agents, which are tasks
  of GraphQueue only. ChatTurn: images, mode switches, broadcasts, `cancel_current` at shutdown, messages without a
  request id, attachments of generated images, and what distinguishes the rounds of calls of one chat (they are one entry). MidiTimeline: a batch that selects
  notes without a range. AgentLoop: plan mode, goals, token
  counts. HostIpc: audio frames, stderr, forced resends, clean-up at interpreter exit. ProjectStore: files at
  other paths, listing. Retrieval: ranking, Cypher, text normalisation of the backfill, open transactions
  of a failed import. Streams of providers that send no ids of calls. StudioSync: slots of a recreated track.
* *Components left out.* Those marked not_modelled in `PROJECT.json`, each with its reason: musical heuristics
  over a library, real-time audio and foreign-function plumbing, presentation.
* *Compositions.* Parts that share no state are checked side by side, not multiplied. Where one component's
  answer is another's input (HostIpc's stale replies for StudioSync, the settings for KnowledgeContext), the second is
  checked under the promise that the first one's properties give.
* *Out of the prover's reach.* Liveness under fairness, `ENABLED`, induction over data, modules with RECURSIVE
  operators (ModelStream and ProjectBroadcast).

## 8. Plan

In order of what matters most to users of the system:

1. Proofs for the small modules whose properties are local: `Arrangement`, the studio sync.
   Each can join a proof module of its neighbourhood by INSTANCE, as GraphCache has joined `KnowledgeProofs`.
2. The graceful close of the knowledge base; studio snapshots that read two locks.
3. Todos and the pruning of the timeline; the ring of the VST3 bridge.

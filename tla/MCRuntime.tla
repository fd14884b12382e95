------------------------------ MODULE MCRuntime ------------------------------
(* Instances for TLC of the parts of the runtime that share no state: some    *)
(* with what the configuration gives, the others as they are instantiated.    *)
(* Every behaviour is one of the part it has chosen, and the others stand     *)
(* still.                                                                     *)
EXTENDS AgentLoop, EventBus, EventReplay, GraphQueue, TurnRecorder, WebRequest, Integers

CONSTANTS Handshake, Lead, Bus1

VARIABLES
    part, \* the part that runs
    registry, current, server, open, reader, lock, pendingOf, writer, deaf, box, output,
    unanswered, on, place, todo,
    project, ids, running, session, routes, next, cache, cacheSession, generation, sync,
    edits, faults, doubts,
    store, snapshot, clients, task, line, page, reload, saves, overtaken, unseen

\* Beside one round of several calls, several rounds of one.
Long == INSTANCE AgentLoop WITH MaxRounds <- 2, MaxCalls <- 1

Mcp == INSTANCE McpClient WITH pending <- pendingOf, wire <- output, asked <- unanswered,
           at <- place

ASSUME LoopAssumption /\ Long!LoopAssumption /\ RequestAssumption /\ ReplayAssumption

\* A track that is routed to a bus becomes a bus itself, loses its bus, loses its route.
\* One handler with failures and restarts, or two that overlap.
Strip(kind, out, mix) == [kind |-> kind, out |-> out, mix |-> mix]
Song(lead, bus) == [t \in {Lead, Bus1} |-> IF t = Lead THEN lead ELSE bus]
Routed == Song(Strip("track", Bus1, "a"), Strip("bus", None, "a"))
Songs == {Routed, Song(Strip("bus", Bus1, "a"), Strip("bus", None, "a")),
          Song(Strip("track", None, "b"), Strip("track", None, "a")),
          Song(Strip("track", None, "a"), None)}
Alone == INSTANCE StudioSync WITH Syncers <- Calls, Order <- <<Lead, Bus1>>,
             Docs <- Songs, Empty <- Routed, MaxEdits <- 1, MaxFaults <- 1,
             MaxRestarts <- 1, MaxHostIds <- 3
Overlap == INSTANCE StudioSync WITH Syncers <- Turns, Order <- <<Lead, Bus1>>,
             Docs <- Songs, Empty <- Routed, MaxEdits <- 1, MaxFaults <- 0,
             MaxRestarts <- 0, MaxHostIds <- 3

\* A page and a tool change the project; a page alone is enough for saves it is refused.
Part(id, value) == [id |-> id, value |-> value]
Pages == INSTANCE ProjectBroadcast WITH Pages <- Calls, Editors <- Threads, MaxSaves <- 3,
             Projects <- {<<Part(1, "a"), Part(2, "a")>>, <<Part(2, "b"), Part(1, "a")>>,
                          <<Part(3, "a"), Part(1, "b")>>}

mcpVars == <<registry, current, server, open, reader, lock, pendingOf, writer, deaf, box,
             output, unanswered, on, place, todo>>
syncVars == <<project, ids, running, session, routes, next, cache, cacheSession, generation,
              sync, edits, faults, doubts>>
pageVars == <<store, snapshot, clients, task, line, page, reload, saves, overtaken, unseen>>

RuntimeInit ==
    /\ part \in {"graph", "bus", "wide loop", "long loop", "recorder", "replay", "mcp",
                "web", "sync", "overlap", "pages"}
    /\ GraphInit /\ BusInit /\ Init /\ RecorderInit /\ ReplayInit
    /\ Mcp!Init /\ WebInit
    /\ IF part = "overlap" THEN Overlap!Init ELSE Alone!Init
    /\ IF part = "pages" THEN Pages!Init
       ELSE /\ store = None /\ snapshot = None /\ clients = None /\ task = None
            /\ line = None /\ page = None /\ reload = None /\ saves = None
            /\ overtaken = None /\ unseen = None

RuntimeNext ==
    /\ UNCHANGED part
    /\ \/ /\ part = "graph" /\ GraphNext
          /\ UNCHANGED <<busVars, vars, recorderVars, replayVars, mcpVars, webVars, syncVars, pageVars>>
       \/ /\ part = "bus" /\ BusNext
          /\ UNCHANGED <<graphVars, vars, recorderVars, replayVars, mcpVars, webVars, syncVars, pageVars>>
       \/ /\ part = "wide loop" /\ Next
          /\ UNCHANGED <<graphVars, busVars, recorderVars, replayVars, mcpVars, webVars, syncVars, pageVars>>
       \/ /\ part = "long loop" /\ Long!Next
          /\ UNCHANGED <<graphVars, busVars, recorderVars, replayVars, mcpVars, webVars, syncVars, pageVars>>
       \/ /\ part = "recorder" /\ RecorderNext
          /\ UNCHANGED <<graphVars, busVars, vars, replayVars, mcpVars, webVars, syncVars, pageVars>>
       \/ /\ part = "replay" /\ ReplayNext
          /\ UNCHANGED <<graphVars, busVars, vars, recorderVars, mcpVars, webVars, syncVars, pageVars>>
       \/ /\ part = "mcp" /\ Mcp!Next
          /\ UNCHANGED <<graphVars, busVars, vars, recorderVars, replayVars, webVars, syncVars, pageVars>>
       \/ /\ part = "web" /\ WebNext
          /\ UNCHANGED <<graphVars, busVars, vars, recorderVars, replayVars, mcpVars,
                         syncVars, pageVars>>
       \/ /\ part = "sync" /\ Alone!Next
          /\ UNCHANGED <<graphVars, busVars, vars, recorderVars, replayVars, mcpVars,
                         webVars, pageVars>>
       \/ /\ part = "overlap" /\ Overlap!Next
          /\ UNCHANGED <<graphVars, busVars, vars, recorderVars, replayVars, mcpVars,
                         webVars, pageVars>>
       \/ /\ part = "pages" /\ Pages!Next
          /\ UNCHANGED <<graphVars, busVars, vars, recorderVars, replayVars, mcpVars,
                         webVars, syncVars>>

RuntimeSpec ==
    RuntimeInit
    /\ [][RuntimeNext]_<<part, graphVars, busVars, vars, recorderVars, replayVars, mcpVars,
                         webVars, syncVars, pageVars>>

----------------------------------------------------------------------------
\* Every part keeps the types of its own variables (each module's TypeOK).
TypesHold ==
    /\ part = "graph" => GraphTypeOK
    /\ part = "bus" => BusTypeOK
    /\ part = "recorder" => RecorderTypeOK
    /\ part = "replay" => ReplayTypeOK
    /\ part = "mcp" => Mcp!TypeOK
    /\ part = "web" => WebTypeOK
    /\ part = "sync" => Alone!TypeOK
    /\ part = "overlap" => Overlap!TypeOK
    /\ part = "pages" => Pages!TypeOK
    /\ part = "wide loop" => TypeOK
    /\ part = "long loop" => Long!TypeOK

\* In fair runs graph tasks end, calls of tool servers, refreshes and their shutdown
\* (mcp.py), and the calls of the web tools that are interrupted (web_search.py).
WorkEnds ==
    /\ GraphFairness => TasksEnd
    /\ Mcp!Fairness => Mcp!NobodyHangs
    /\ WebFairness => InterruptedCallsEnd

\* A sync that runs alone leaves the host as its project wants it, a change that runs
\* alone the pages with the project there is (music.py).
StudioIsCurrent ==
    /\ part = "sync" => Alone!SyncedHostIsCurrent
    /\ part = "overlap" => Overlap!SyncedHostIsCurrent
    /\ part = "pages" => Pages!BroadcastHolds
=============================================================================

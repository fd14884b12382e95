-------------------------- MODULE KnowledgeContext --------------------------
(* What the knowledge bases add to one message (process.py): a task searches   *)
(* the vectors, another the graph, anchored on the chunks of the first when    *)
(* these come soon enough; otherwise the graph may be asked again.  The turn   *)
(* can be cancelled at every await, and a search of the graph that times out   *)
(* leaves its thread behind.                                                   *)
EXTENDS Integers, Sequences, SequencesExt, FiniteSetsExt

CONSTANTS
    None,
    Chunks,     \* the chunks there are
    BaseOf,     \* the knowledge base of each
    Dense,      \* the orders in which the vectors may rank chunks (at most three)
    Sparse,     \* the orders in which the words may
    TopK,       \* how many chunks a search returns
    TopM,       \* how many of one knowledge base (top_m_final)
    MaxRepeats, \* bound: hits a reranker names beyond as many as there are
    MaxFacts,   \* max_facts of a search of the graph
    MaxDeletes, \* bound: chunks deleted meanwhile
    MaxThreads  \* the threads of the executor

ContextAssumption ==
    /\ BaseOf \in [Chunks -> STRING] /\ TopK \in Nat \ {0} /\ TopM \in Nat \ {0}
    /\ MaxRepeats \in Nat /\ MaxFacts \in Nat \ {0}
    /\ MaxDeletes \in Nat /\ MaxThreads \in Nat \ {0}
    /\ \A ranking \in Dense \cup Sparse : Len(ranking) <= 3 /\ IsInjective(ranking)

VARIABLES
    turn,    \* where _knowledge_context_for_event waits
    wants,   \* whether vectors, graph and a reranker are enabled for the message
    stored,  \* the chunks in the database
    vector,  \* the task of the vectors: [at, hits, strong]
    graph,   \* the search of the graph that runs or ran last: [at, anchors, facts, weak]
    first,   \* the facts of the search before the second one
    threads, \* searches of the graph whose threads run
    told,    \* what the message is given: [hits, facts]
    asked    \* auxiliary: the anchors the graph was searched with

contextVars == <<turn, wants, stored, vector, graph, first, threads, told, asked>>

NoVector == [at |-> "none", hits |-> None, strong |-> FALSE]
NoGraph == [at |-> "none", anchors |-> {}, facts |-> 0, weak |-> FALSE]
Ended == {"none", "done", "cancelled"}

Init ==
    /\ turn = "begin" /\ first = 0 /\ threads = 0 /\ told = None /\ asked = {}
    /\ wants \in [vector : BOOLEAN, graph : BOOLEAN, rerank : BOOLEAN]
    /\ stored = Chunks
    /\ vector = NoVector /\ graph = NoGraph

----------------------------------------------------------------------------
(* The search of the vectors *)

\* 1 / (60 + rank) for the ranks there are, times what makes them integers.
Weight(rank) == (61 * 62 * 63) \div (60 + rank)

Rank(ranking, chunk) == CHOOSE i \in DOMAIN ranking : ranking[i] = chunk

Score(dense, sparse, chunk) ==
    (IF chunk \in ToSet(dense) THEN Weight(Rank(dense, chunk)) ELSE 0)
    + (IF chunk \in ToSet(sparse) THEN Weight(Rank(sparse, chunk)) ELSE 0)

\* Chunks of the same score stay in the order in which they were met.
Fuse(dense, sparse) ==
    LET met == dense \o SelectSeq(sparse, LAMBDA c : c \notin ToSet(dense))
        before(c, d) == LET x == Score(dense, sparse, c) y == Score(dense, sparse, d)
                        IN x > y \/ (x = y /\ Rank(met, c) < Rank(met, d))
    IN  SortSeq(met, before)

OfBase(hits, base) == SelectSeq(hits, LAMBDA c : BaseOf[c] = base)

\* Fault: the limit of one base is the limit of all.
LimitedTogether(hits) ==
    SubSeq(hits, 1, Min({Len(hits), TopM, TopK}))

\* At most so many of each base, and so many in all.
Limited(hits) ==
    FoldLeft(LAMBDA kept, c :
                IF Len(OfBase(kept, BaseOf[c])) >= TopM \/ Len(kept) >= TopK THEN kept
                ELSE Append(kept, c),
             <<>>, hits)

\* The query is embedded, then both indexes are asked and their answers fused at once;
\* chunks of the vectors that are not stored any more drop out.
Embedded ==
    /\ vector.at = "embedding"
    /\ \E d \in Dense, s \in Sparse :
          LET there(ranking) == SelectSeq(ranking, LAMBDA c : c \in stored)
              hits == Fuse(there(d), there(s))
          IN  vector' = IF wants.rerank /\ hits # <<>>
                        THEN [vector EXCEPT !.at = "reranking", !.hits = hits]
                        ELSE [vector EXCEPT !.at = "done", !.hits = Limited(hits)]
    /\ UNCHANGED <<turn, wants, stored, graph, first, threads, told, asked>>

\* What a reranker may answer: some of the hits, in its order, any of them more than
\* once; no index is looked at twice (_parse_rerank_response).
Orders(hits) == SeqOf(ToSet(hits), Len(hits) + MaxRepeats) \ {<<>>}

\* The hits are kept as the reranker names them, or as they were when it fails.
Reranked ==
    /\ vector.at = "reranking"
    /\ \/ \E order \in Orders(vector.hits), strong \in BOOLEAN :
             vector' = [at |-> "done", hits |-> Limited(order), strong |-> strong]
       \/ vector' = [vector EXCEPT !.at = "done", !.hits = Limited(vector.hits)]
    /\ UNCHANGED <<turn, wants, stored, graph, first, threads, told, asked>>

\* The embedding fails or the manager is gone: the search is skipped.
VectorFails ==
    /\ vector.at = "embedding"
    /\ vector' = [vector EXCEPT !.at = "done", !.hits = None]
    /\ UNCHANGED <<turn, wants, stored, graph, first, threads, told, asked>>

DeleteChunk ==
    /\ turn \notin {"done", "cancelled"}
    /\ Cardinality(Chunks \ stored) < MaxDeletes
    /\ \E c \in stored : stored' = stored \ {c}
    /\ UNCHANGED <<turn, wants, vector, graph, first, threads, told, asked>>

----------------------------------------------------------------------------
(* The search of the graph *)

\* A search waits for a thread of the executor, and is given up after its timeout,
\* whether or not its thread runs.
Search(anchors) == [at |-> "waiting", anchors |-> anchors, facts |-> 0, weak |-> FALSE]

ThreadStarts ==
    /\ graph.at = "waiting" /\ threads < MaxThreads
    /\ threads' = threads + 1
    /\ graph' = [graph EXCEPT !.at = "searching"]
    /\ UNCHANGED <<turn, wants, stored, vector, first, told, asked>>

\* It may return fewer facts than asked for, some of them of a scan (weak), or fail.
GraphAnswers ==
    /\ graph.at = "searching"
    /\ threads' = threads - 1
    /\ \E facts \in 0 .. MaxFacts, weak \in BOOLEAN :
          graph' = [graph EXCEPT !.at = "done", !.facts = facts, !.weak = weak]
    /\ UNCHANGED <<turn, wants, stored, vector, first, told, asked>>

GraphTimesOut ==
    /\ graph.at \in {"waiting", "searching"}
    /\ graph' = [graph EXCEPT !.at = "done", !.facts = 0]
    /\ UNCHANGED <<turn, wants, stored, vector, first, threads, told, asked>>

\* A thread nobody waits for ends.
StrayEnds ==
    /\ threads > (IF graph.at = "searching" THEN 1 ELSE 0)
    /\ threads' = threads - 1
    /\ UNCHANGED <<turn, wants, stored, vector, graph, first, told, asked>>

----------------------------------------------------------------------------
(* The turn *)

Begin ==
    /\ turn = "begin"
    /\ IF ~wants.vector /\ ~wants.graph
       THEN /\ told' = [hits |-> <<>>, facts |-> 0] /\ turn' = "done"
            /\ UNCHANGED <<vector, graph, asked>>
       ELSE /\ vector' = IF wants.vector THEN [vector EXCEPT !.at = "embedding"] ELSE vector
            /\ IF wants.graph /\ ~wants.vector
               THEN graph' = Search({}) /\ asked' = {{}}
               ELSE UNCHANGED <<graph, asked>>
            /\ turn' = IF ~wants.vector THEN "graph"
                       ELSE IF wants.graph THEN "anchoring" ELSE "vector"
            /\ UNCHANGED told
    /\ UNCHANGED <<wants, stored, first, threads>>

Hits == IF vector.hits = None THEN <<>> ELSE vector.hits

\* The vectors answer within the wait for anchors, or the graph is asked without.
StartGraph ==
    /\ turn = "anchoring"
    /\ LET anchors == IF vector.at = "done" THEN ToSet(Hits) ELSE {}
       IN  graph' = Search(anchors) /\ asked' = {anchors}
    /\ turn' = "vector"
    /\ UNCHANGED <<wants, stored, vector, first, threads, told>>

VectorAwaited ==
    /\ turn = "vector" /\ vector.at = "done"
    /\ turn' = IF wants.graph THEN "graph" ELSE "answer"
    /\ UNCHANGED <<wants, stored, vector, graph, first, threads, told, asked>>

\* Fault: only a search that found nothing strong enough is repeated.
RetryWhenStrong ==
    /\ Hits # <<>> /\ graph.anchors = {}
    /\ vector.strong /\ (graph.facts < MaxFacts \/ graph.weak)

\* _should_retry_graph_with_late_vector_anchor: the ids came too late, and the graph
\* has nothing, or the vectors are sure and the graph has little.
Retry ==
    /\ Hits # <<>> /\ graph.anchors = {}
    /\ graph.facts = 0 \/ (vector.strong /\ (graph.facts < MaxFacts \/ graph.weak))

GraphAwaited ==
    /\ turn = "graph" /\ graph.at = "done"
    /\ IF wants.vector /\ Retry
       THEN /\ graph' = Search(ToSet(Hits)) /\ first' = graph.facts
            /\ asked' = asked \cup {ToSet(Hits)}
            /\ turn' = "retrying"
       ELSE turn' = "answer" /\ UNCHANGED <<graph, first, asked>>
    /\ UNCHANGED <<wants, stored, vector, threads, told>>

RetryAwaited ==
    /\ turn = "retrying" /\ graph.at = "done"
    /\ turn' = "answer"
    /\ UNCHANGED <<wants, stored, vector, graph, first, threads, told, asked>>

\* Fault: what the second search returns is taken, even nothing.
LastFacts == graph.facts

\* The facts of the second search, if it found any.
Facts == IF graph.facts > 0 THEN graph.facts ELSE first

Answer ==
    /\ turn = "answer"
    /\ told' = [hits |-> Hits, facts |-> Facts]
    /\ turn' = "done"
    /\ UNCHANGED <<wants, stored, vector, graph, first, threads, asked>>

\* The turn is cancelled while it waits: its tasks are cancelled and awaited.
Cancel ==
    /\ turn \in {"anchoring", "vector", "graph", "retrying"}
    /\ vector' = IF vector.at \in Ended THEN vector ELSE [vector EXCEPT !.at = "cancelling"]
    /\ graph' = IF graph.at \in Ended THEN graph ELSE [graph EXCEPT !.at = "cancelling"]
    /\ turn' = "cleaning"
    /\ UNCHANGED <<wants, stored, first, threads, told, asked>>

TaskEnds ==
    /\ \/ vector.at = "cancelling" /\ vector' = [vector EXCEPT !.at = "cancelled"]
          /\ UNCHANGED graph
       \/ graph.at = "cancelling" /\ graph' = [graph EXCEPT !.at = "cancelled"]
          /\ UNCHANGED vector
    /\ UNCHANGED <<turn, wants, stored, first, threads, told, asked>>

\* Fault: the task of the graph is not waited for.
CleanedHalf ==
    /\ turn = "cleaning" /\ vector.at \in Ended
    /\ turn' = "cancelled"
    /\ UNCHANGED <<wants, stored, vector, graph, first, threads, told, asked>>

Cleaned ==
    /\ turn = "cleaning" /\ vector.at \in Ended /\ graph.at \in Ended
    /\ turn' = "cancelled"
    /\ UNCHANGED <<wants, stored, vector, graph, first, threads, told, asked>>

Next ==
    \/ Embedded \/ Reranked \/ VectorFails \/ DeleteChunk
    \/ ThreadStarts \/ GraphAnswers \/ GraphTimesOut \/ StrayEnds
    \/ Begin \/ StartGraph \/ VectorAwaited \/ GraphAwaited \/ RetryAwaited \/ Answer
    \/ Cancel \/ TaskEnds \/ Cleaned

Spec == Init /\ [][Next]_contextVars

\* Embedding and reranking have timeouts of their own, the loop runs what is ready.
Fairness ==
    /\ WF_contextVars(Embedded \/ VectorFails) /\ WF_contextVars(Reranked)
    /\ WF_contextVars(GraphTimesOut) /\ WF_contextVars(TaskEnds)
    /\ WF_contextVars(Begin \/ StartGraph \/ VectorAwaited \/ GraphAwaited \/ RetryAwaited
                      \/ Answer \/ Cleaned)

----------------------------------------------------------------------------
(* The properties *)

TypeOK ==
    /\ turn \in {"begin", "anchoring", "vector", "graph", "retrying", "answer",
                 "cleaning", "done", "cancelled"}
    /\ stored \subseteq Chunks /\ threads \in 0 .. MaxThreads
    /\ graph.facts \in 0 .. MaxFacts /\ first \in 0 .. MaxFacts

\* A search keeps to both limits, a chunk that comes twice counted twice.  Only a
\* reranker brings one twice, at the cost of another; without one, no chunk of both
\* rankings is left out while there is room for it (_apply_final_limits).
HitsKeepLimits ==
    vector.at = "done" /\ vector.hits # None =>
        /\ Len(vector.hits) <= TopK
        /\ \A c \in Chunks : Len(OfBase(vector.hits, BaseOf[c])) <= TopM
        /\ IsInjective(vector.hits) \/ wants.rerank
        /\ ~wants.rerank /\ Len(vector.hits) < TopK =>
              \A c \in stored : (\A d \in Dense : c \in ToSet(d)) =>
                 \/ c \in ToSet(vector.hits)
                 \/ Len(OfBase(vector.hits, BaseOf[c])) = TopM

\* What was found in time is told, and a message with chunks and no fact has had the
\* graph searched from these chunks (_knowledge_context_for_event).
FoundIsTold ==
    turn = "done" =>
        /\ vector.at = "done" /\ vector.hits # None => told.hits = vector.hits
        /\ graph.facts + first > 0 => told.facts > 0
        /\ wants.graph /\ told.hits # <<>> /\ told.facts = 0 => ToSet(told.hits) \in asked

\* No task of a message outlives the turn, cancelled or not (finally).
TasksEndWithTheTurn ==
    turn \in {"done", "cancelled"} => vector.at \in Ended /\ graph.at \in Ended

\* Every message gets its context, or its turn is cancelled, though threads of the graph
\* never end (wait_for in retrieve_context and _graph_context_for_event).
TurnEnds == <>(turn \in {"done", "cancelled"})

\* What a message is told is complete, and nothing of its search is left (process.py).
ContextHolds == HitsKeepLimits /\ FoundIsTold /\ TasksEndWithTheTurn
=============================================================================

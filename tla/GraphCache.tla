------------------------------ MODULE GraphCache ------------------------------
(***************************************************************************)
(* The caches of the knowledge graph (core/knowledge/graph.py,             *)
(* graph_cache.py).  Every upsert of facts counts a revision in the graph  *)
(* itself, and what a client keeps it keeps under its own notion of that   *)
(* revision: whole answers, under the revision at the start of the search; *)
(* multi-hop expansions of the seeds, in memory and in the graph, under    *)
(* the revision at the moment of keeping them.  Searches and upserts run   *)
(* in threads (asyncio.to_thread), and several processes may use a graph.  *)
(***************************************************************************)
EXTENDS Integers, FiniteSets

CONSTANTS Clients,   \* processes, each with one Neo4jGraphClient
          Searchers, \* threads that search
          Writers,   \* threads that write facts: the graph worker of a process
          ClientOf,  \* the client of each thread
          Prewarmed, \* clients with a prewarm_seed_limit
          MaxWrites, \* bound: upserts
          MaxLosses, \* bound: failed counts, lost connections, dead processes
          None

CacheAssumption ==
    /\ \A t \in Searchers \cup Writers : ClientOf[t] \in Clients
    /\ Searchers \cap Writers = {}
    /\ IsFiniteSet(Writers) /\ MaxWrites \in Nat /\ MaxLosses \in Nat /\ None \notin Int

Threads == Searchers \cup Writers
Revisions == 0..MaxWrites

VARIABLES
    graph,    \* upserts whose facts are in the graph
    meta,     \* GraphMetadata: the revision counted in the graph
    stored,   \* GraphExpansionCache: the expansion stored under each revision
    revision, \* _graph_revision of each client
    paths,    \* _retrieval_cache["multi_hop_expansion"] of each client
    answers,  \* _retrieval_cache["final_context"] of each client
    at,       \* where each thread is
    key,      \* the revision in the key of a search's answer
    got,      \* the value a thread has loaded or found, or None
    under,    \* the revision under which it did
    losses,   \* how many of these there were
    covered,  \* history: upserts that were in the graph when it got a revision
    counted,  \* history: clients whose revision is one of the graph
    sure,     \* history: searches whose key is
    asof      \* history: what was covered when a search asked for the revision

base == <<graph, meta, stored>>
cache == <<revision, paths, answers>>
threads == <<at, key, got, under>>
history == <<covered, counted, sure, asof>>
vars == <<base, cache, threads, history, losses>>

\* A value is how many upserts it reflects.  One that is kept under another
\* revision than the one it was read under may lack any.
Loose == -1
Sees(n, own) == IF own THEN n ELSE Loose
Empty == [r \in Revisions |-> None]
Clear(c) == paths' = [paths EXCEPT ![c] = Empty] /\ answers' = [answers EXCEPT ![c] = Empty]
Lose == losses < MaxLosses /\ losses' = losses + 1
Goto(t, where) == at' = [at EXCEPT ![t] = where]
\* A thread keeps its value under the revision its client has now.
Kept(t) ==
    LET c == ClientOf[t]
    IN  Sees(got[t], under[t] = revision[c] /\ c \in counted)
\* What comes after the expansion: the main query of a search, or nothing.
Onward(t, value, r) ==
    IF t \in Searchers
    THEN /\ Goto(t, "asking")
         /\ got' = [got EXCEPT ![t] = value] /\ under' = [under EXCEPT ![t] = r]
    ELSE /\ Goto(t, "idle")
         /\ got' = [got EXCEPT ![t] = None] /\ under' = [under EXCEPT ![t] = 0]

Init ==
    /\ graph = 0 /\ meta = 0 /\ stored = Empty
    /\ revision = [c \in Clients |-> 0]
    /\ paths = [c \in Clients |-> Empty] /\ answers = [c \in Clients |-> Empty]
    /\ at = [t \in Threads |-> "idle"] /\ key = [t \in Threads |-> 0]
    /\ got = [t \in Threads |-> None] /\ under = [t \in Threads |-> 0]
    /\ covered = [r \in Revisions |-> 0] /\ counted = Clients /\ sure = {}
    /\ asof = [t \in Searchers |-> 0] /\ losses = 0

----------------------------------------------------------------------------
\* search_facts begins: the revision is asked for; a failure is passed over.
ReadRevision(s) ==
    /\ at[s] = "idle"
    /\ \/ under' = [under EXCEPT ![s] = meta] /\ asof' = [asof EXCEPT ![s] = covered[meta]]
       \/ under' = [under EXCEPT ![s] = 0] /\ asof' = [asof EXCEPT ![s] = 0]
    /\ got' = [got EXCEPT ![s] = None]
    /\ Goto(s, "looking")
    /\ UNCHANGED <<base, cache, key, covered, counted, sure, losses>>

\* _refresh_graph_revision_from_store takes a newer revision over; then the key
\* of the answer is made and looked up.  An entry may have expired.
Look(s) ==
    LET c == ClientOf[s]
        newer == under[s] > revision[c]
        r == IF newer THEN under[s] ELSE revision[c]
    IN  /\ at[s] = "looking"
        /\ revision' = [revision EXCEPT ![c] = r]
        /\ IF newer THEN Clear(c) ELSE UNCHANGED <<paths, answers>>
        /\ counted' = IF newer THEN counted \cup {c} ELSE counted
        /\ sure' = IF c \in counted' THEN sure \cup {s} ELSE sure \ {s}
        /\ key' = [key EXCEPT ![s] = r]
        /\ \/ /\ answers'[c][r] # None
              /\ got' = [got EXCEPT ![s] = answers'[c][r]]
              /\ Goto(s, "answered")
           \/ UNCHANGED got /\ Goto(s, "expanding")
        /\ under' = [under EXCEPT ![s] = 0]
        /\ UNCHANGED <<base, covered, asof, losses>>

----------------------------------------------------------------------------
\* _cached_multi_hop_expansion_paths, first in memory ...
Expand(t) ==
    LET c == ClientOf[t]
        found == paths[c][revision[c]]
    IN  /\ at[t] \in {"expanding", "warming", "warming memory"}
        /\ \/ found # None /\ Onward(t, found, revision[c])
           \/ /\ Goto(t, IF at[t] = "warming memory" THEN "loading memory" ELSE "fetching")
              /\ UNCHANGED <<got, under>>
        /\ UNCHANGED <<base, cache, key, history, losses>>

\* ... then in the graph, if there is an entry and it can be read ...
Fetch(t) ==
    LET r == revision[ClientOf[t]]
    IN  /\ at[t] = "fetching"
        /\ \/ /\ stored[r] # None
              /\ got' = [got EXCEPT ![t] = stored[r]] /\ under' = [under EXCEPT ![t] = r]
              /\ Goto(t, "adopting")
           \/ UNCHANGED <<got, under>> /\ Goto(t, "loading")
        /\ UNCHANGED <<base, cache, key, history, losses>>

Adopt(t) ==
    LET c == ClientOf[t]
    IN  /\ at[t] = "adopting"
        /\ paths' = [paths EXCEPT ![c][revision[c]] = Kept(t)]
        /\ Onward(t, Kept(t), under[t])
        /\ UNCHANGED <<base, revision, answers, key, history, losses>>

\* ... else it is loaded, kept in memory and stored.
Load(t) ==
    /\ at[t] \in {"loading", "loading memory"}
    /\ got' = [got EXCEPT ![t] = Sees(graph, ClientOf[t] \in counted)]
    /\ under' = [under EXCEPT ![t] = revision[ClientOf[t]]]
    /\ Goto(t, IF at[t] = "loading" THEN "keeping" ELSE "keeping memory")
    /\ UNCHANGED <<base, cache, key, history, losses>>

Keep(t) ==
    LET c == ClientOf[t]
    IN  /\ at[t] \in {"keeping", "keeping memory"}
        /\ paths' = [paths EXCEPT ![c][revision[c]] = Kept(t)]
        /\ IF at[t] = "keeping" THEN Goto(t, "storing") /\ UNCHANGED <<got, under>>
           ELSE Onward(t, got[t], under[t])
        /\ UNCHANGED <<base, revision, answers, key, history, losses>>

Store(t) ==
    /\ at[t] = "storing"
    /\ \/ stored' = [stored EXCEPT ![revision[ClientOf[t]]] = Kept(t)]
       \/ UNCHANGED stored
    /\ Onward(t, got[t], under[t])
    /\ UNCHANGED <<graph, meta, cache, key, history, losses>>

(* Fault: the answer is kept under the revision of now. *)
AskUnderNow(s) ==
    LET c == ClientOf[s]
        answer == Sees(got[s], s \in sure /\ under[s] >= key[s])
    IN  /\ at[s] = "asking"
        /\ answers' = [answers EXCEPT ![c][revision[c]] = answer]
        /\ got' = [got EXCEPT ![s] = answer]
        /\ Goto(s, "answered")
        /\ under' = [under EXCEPT ![s] = 0]
        /\ UNCHANGED <<base, revision, paths, key, history, losses>>

\* The main query works with the expansion it was given; its answer is kept under
\* the key made at the start.
Ask(s) ==
    LET c == ClientOf[s]
        answer == Sees(got[s], s \in sure /\ under[s] >= key[s])
    IN  /\ at[s] = "asking"
        /\ answers' = [answers EXCEPT ![c][key[s]] = answer]
        /\ got' = [got EXCEPT ![s] = answer]
        /\ Goto(s, "answered")
        /\ under' = [under EXCEPT ![s] = 0]
        /\ UNCHANGED <<base, revision, paths, key, history, losses>>

Return(s) ==
    /\ at[s] = "answered" /\ Goto(s, "idle")
    /\ got' = [got EXCEPT ![s] = None] /\ key' = [key EXCEPT ![s] = 0]
    /\ under' = [under EXCEPT ![s] = 0] /\ asof' = [asof EXCEPT ![s] = 0]
    /\ sure' = sure \ {s}
    /\ UNCHANGED <<base, cache, covered, counted, losses>>

----------------------------------------------------------------------------
\* upsert_facts: the facts are written in one transaction.
Write(w) ==
    /\ at[w] = "idle" /\ graph < MaxWrites
    /\ graph' = graph + 1
    /\ Goto(w, "clearing")
    /\ UNCHANGED <<meta, stored, cache, key, got, under, history, losses>>

\* _bump_graph_revision: memory is cleared, then the revision counted ...
ClearMemory(w) ==
    /\ at[w] = "clearing"
    /\ Clear(ClientOf[w])
    /\ Goto(w, "counting")
    /\ UNCHANGED <<base, revision, key, got, under, history, losses>>

Count(w) ==
    /\ at[w] = "counting"
    /\ meta' = meta + 1
    /\ covered' = [covered EXCEPT ![meta + 1] = graph]
    /\ under' = [under EXCEPT ![w] = meta + 1]
    /\ Goto(w, "taking over")
    /\ UNCHANGED <<graph, stored, cache, key, got, counted, sure, asof, losses>>

TakeOver(w) ==
    /\ at[w] = "taking over"
    /\ revision' = [revision EXCEPT ![ClientOf[w]] = under[w]]
    /\ counted' = counted \cup {ClientOf[w]}
    /\ Goto(w, "pruning")
    /\ UNCHANGED <<base, paths, answers, key, got, under, covered, sure, asof, losses>>

\* ... and what is stored under an older one deleted, if the graph lets it.
Prune(w) ==
    /\ at[w] = "pruning"
    /\ \/ stored' = [r \in Revisions |-> IF r < under[w] THEN None ELSE stored[r]]
       \/ UNCHANGED stored
    /\ Goto(w, IF ClientOf[w] \in Prewarmed THEN "warming" ELSE "idle")
    /\ under' = [under EXCEPT ![w] = 0]
    /\ UNCHANGED <<graph, meta, cache, key, got, history, losses>>

\* When it cannot be counted the client counts for itself ...
CountAlone(w) ==
    /\ at[w] = "counting"
    /\ Lose /\ revision[ClientOf[w]] < MaxWrites
    /\ revision' = [revision EXCEPT ![ClientOf[w]] = @ + 1]
    /\ counted' = counted \ {ClientOf[w]}
    /\ Goto(w, "dropping")
    /\ UNCHANGED <<base, paths, answers, key, got, under, covered, sure, asof>>

\* ... deletes everything that is stored, and warms up its memory only.
Drop(w) ==
    /\ at[w] = "dropping"
    /\ stored' = Empty \/ UNCHANGED stored
    /\ Goto(w, IF ClientOf[w] \in Prewarmed THEN "warming memory" ELSE "idle")
    /\ UNCHANGED <<graph, meta, cache, key, got, under, history, losses>>

----------------------------------------------------------------------------
\* _run_with_reconnect, in the middle of any query: close and initialize, which
\* take the revision of the graph, newer or not.
Reconnect(c) ==
    /\ Lose
    /\ Clear(c)
    /\ \/ revision' = [revision EXCEPT ![c] = meta] /\ counted' = counted \cup {c}
       \/ UNCHANGED <<revision, counted>>
    /\ UNCHANGED <<base, threads, covered, sure, asof>>

\* The process dies and a new one takes its place.
Restart(c) ==
    LET Own == {t \in Threads : ClientOf[t] = c}
        Reset(f, v) == [t \in DOMAIN f |-> IF t \in Own THEN v ELSE f[t]]
    IN  /\ Lose /\ Clear(c)
        /\ revision' = [revision EXCEPT ![c] = meta] /\ counted' = counted \cup {c}
        /\ at' = Reset(at, "idle") /\ key' = Reset(key, 0)
        /\ got' = Reset(got, None) /\ under' = Reset(under, 0)
        /\ asof' = Reset(asof, 0) /\ sure' = sure \ Own
        /\ UNCHANGED <<base, covered>>

Step(t) == Expand(t) \/ Fetch(t) \/ Adopt(t) \/ Load(t) \/ Keep(t) \/ Store(t)

Next ==
    \/ \E t \in Threads : Step(t)
    \/ \E s \in Searchers : ReadRevision(s) \/ Look(s) \/ Ask(s) \/ Return(s)
    \/ \E w \in Writers :
         \/ Write(w) \/ ClearMemory(w) \/ Count(w) \/ TakeOver(w) \/ Prune(w)
         \/ CountAlone(w) \/ Drop(w)
    \/ \E c \in Clients : Reconnect(c) \/ Restart(c)

Spec == Init /\ [][Next]_vars

----------------------------------------------------------------------------
Values == {None, Loose} \cup 0..MaxWrites

TypeOK ==
    /\ graph \in 0..MaxWrites /\ meta \in Revisions /\ stored \in [Revisions -> Values]
    /\ revision \in [Clients -> Revisions]
    /\ paths \in [Clients -> [Revisions -> Values]]
    /\ answers \in [Clients -> [Revisions -> Values]]
    /\ at \in [Threads -> {"idle", "looking", "expanding", "fetching", "adopting", "loading",
                           "keeping", "storing", "asking", "answered", "clearing", "counting",
                           "taking over", "pruning", "warming", "dropping", "warming memory",
                           "loading memory", "keeping memory"}]
    /\ key \in [Threads -> Revisions] /\ got \in [Threads -> Values]
    /\ under \in [Threads -> Revisions]
    /\ covered \in [Revisions -> 0..MaxWrites] /\ counted \subseteq Clients /\ sure \subseteq Searchers
    /\ asof \in [Searchers -> 0..MaxWrites] /\ losses \in 0..MaxLosses

Reflects(v, r) == v \notin {None, Loose} => v >= covered[r]

\* What is kept under a revision reflects the upserts that revision stands for,
\* in every process.  The exceptions are values whose revision changed between
\* the load and the keeping, and revisions a client has counted for itself.
KeptIsCurrent ==
    \A r \in Revisions :
        /\ Reflects(stored[r], r)
        /\ \A c \in Clients : Reflects(paths[c][r], r) /\ Reflects(answers[c][r], r)

\* A search that has asked the graph for its revision sees every upsert counted
\* by then, by whichever process, unless it meets such a value.
SearchSeesCounted ==
    \A s \in Searchers :
        at[s] = "answered" /\ got[s] # Loose => got[s] >= asof[s]

\* Both: what a search returns is never older than what it could know of.
SearchesAreCurrent == KeptIsCurrent /\ SearchSeesCounted

----------------------------------------------------------------------------
(***************************************************************************)
(* The parts of the inductive invariant behind SearchesAreCurrent.         *)
(***************************************************************************)
\* The upserts whose facts are in the graph and that nobody has counted yet.
Uncounted == {w \in Writers : at[w] \in {"clearing", "counting"}}

\* Each revision stands for the upserts that were there when it was counted.
RevisionsGrow ==
    /\ meta + Cardinality(Uncounted) <= graph
    /\ \A r \in Revisions : covered[r] <= graph /\ (r > meta => covered[r] = 0)
    /\ \A r, q \in 0..meta : r <= q => covered[r] <= covered[q]

\* A thread that works under a revision has one that was counted.
RevisionsAreCounted ==
    /\ \A c \in counted : revision[c] <= meta
    /\ \A s \in sure : key[s] <= meta
    /\ \A t \in Threads : at[t] \in {"looking", "taking over", "pruning"} => under[t] <= meta

\* A value that is exact is of a revision that was counted, and reflects it.
Exact(v, r) == v \notin {None, Loose} => r <= meta /\ v >= covered[r]
ValuesAreExact ==
    /\ \A r \in Revisions :
          /\ Exact(stored[r], r)
          /\ \A c \in Clients : Exact(paths[c][r], r) /\ Exact(answers[c][r], r)
    /\ \A t \in Threads :
          at[t] \in {"adopting", "keeping", "keeping memory", "storing", "asking"} =>
              got[t] # None /\ Exact(got[t], under[t])

\* A search asks under a key that is no older than what it has asked for.
KeysAreCurrent ==
    \A s \in Searchers :
        /\ asof[s] <= graph
        /\ at[s] = "looking" => asof[s] <= covered[under[s]]
        /\ at[s] \notin {"idle", "looking"} /\ key[s] <= meta => asof[s] <= covered[key[s]]

\* Searches and writes go their own ways.
WaysApart ==
    /\ \A s \in Searchers : at[s] \in {"idle", "looking", "expanding", "fetching", "adopting",
                                       "loading", "keeping", "storing", "asking", "answered"}
    /\ \A w \in Writers : at[w] \notin {"looking", "expanding", "asking", "answered"}

IInv ==
    /\ TypeOK /\ RevisionsGrow /\ RevisionsAreCounted /\ ValuesAreExact
    /\ KeysAreCurrent /\ WaysApart /\ SearchSeesCounted
=============================================================================

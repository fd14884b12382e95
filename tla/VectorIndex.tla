------------------------------- MODULE VectorIndex -------------------------------
(***************************************************************************)
(* Dense search over one knowledge base (retrieval.py, vector_backend.py,  *)
(* store.py): the chunks and their embeddings in SQLite, the matrix of     *)
(* embeddings the store caches, the HNSW index that is kept in memory and  *)
(* in two files beside the database, and the requests that await an        *)
(* embedding in between.  What lies between two awaits is one step on the  *)
(* event loop, but a crash may fall between two of its commits.  A         *)
(* document has one chunk; every limit exceeds what is stored.             *)
(***************************************************************************)
EXTENDS Integers, FiniteSetsExt

CONSTANTS Models, DimsOf,                \* embedding models, and how long their vectors are
          Importers, Searcher,           \* requests
          CacheMax,                      \* knowledge.embedding_cache_max_size
          MaxChunks, MaxWrites, MaxCrashes, \* bounds
          None

\* Requests are told apart, and None is nothing that is stored or kept.
VectorIndexAssumption ==
    /\ DimsOf \in [Models -> Nat \ {0}] /\ MaxChunks \in Nat
    /\ Searcher \notin Importers /\ "updater" \notin Importers \cup {Searcher}
    /\ None \notin [model : Models, dims : Nat, count : Nat, stamp : Nat]
    /\ \A rows \in SUBSET [id : 1 .. MaxChunks, model : Models] :
         rows # None /\ None \notin [of : [count : Nat, dims : Nat, stamp : Nat], rows : {rows}]

VARIABLES
    kb,       \* its row of knowledge_bases: model, dims, chunk_count, updated_at
    chunks,   \* rows of chunks: id, in the order of rowid, and the model of its vector
    next,     \* ids given
    matrix,   \* _vector_matrix_cache
    index,    \* _index_cache of the HNSW backend
    file, meta, \* <kb>.hnsw, <kb>.json
    backend,  \* what knowledge.vector_backend selects
    request,  \* what each import, the update of the base, and the search is doing
    crashes,
    behind,   \* history: a crash has left chunk_count and updated_at behind the chunks
    raced     \* history: the model was changed while an import was embedding, or behind

stored == <<kb, chunks, next>>
sidecar == <<file, meta>>
cached == <<matrix, index>>
vars == <<stored, cached, sidecar, backend, request, crashes, behind, raced>>

Updater == "updater"
Idle == [at |-> "idle"]
ChunkIds(set) == {c.id : c \in set}

----------------------------------------------------------------------------
(* The store. *)

\* refresh_counts; utc_timestamp does not repeat.
Refreshed(set) == [kb EXCEPT !.count = Cardinality(set), !.stamp = @ + 1]
Room == kb # None /\ kb.stamp < MaxWrites

\* A write of the chunks empties the matrix cache, and counts in a commit of its own.
Write(set) ==
    /\ chunks' = set /\ kb' = Refreshed(set)
    /\ matrix' = None /\ behind' = FALSE
    /\ UNCHANGED <<index, sidecar>>

\* _vector_matrix_for_kb: the rows as long as the first one.
Matrix ==
    IF chunks = {} THEN [dims |-> 0, rows |-> {}]
    ELSE LET first == CHOOSE c \in chunks : \A d \in chunks : c.id <= d.id
             dims == DimsOf[first.model]
         IN  [dims |-> dims, rows |-> {c \in chunks : DimsOf[c.model] = dims}]
Kept(m) == IF Cardinality(m.rows) <= CacheMax THEN m ELSE None

----------------------------------------------------------------------------
(* The HNSW index. *)

Snapshot == IF kb = None THEN [count |-> 0, dims |-> 0, stamp |-> 0]
            ELSE [count |-> kb.count, dims |-> kb.dims, stamp |-> kb.stamp]
(* Fault: an index is told by its size. *)
MatchesByCount(m) == m # None /\ m.of.count = Snapshot.count /\ m.of.dims = Snapshot.dims
\* _metadata_matches_snapshot
Matches(m) == m # None /\ m.of = Snapshot

Built == [of |-> Snapshot, rows |-> {c \in chunks : DimsOf[c.model] = kb.dims}]

\* _load_or_build_index: what is in memory, in the files, or built from the rows.
Loaded ==
    CASE Matches(index) -> index
      [] ~Matches(index) /\ Matches(meta) /\ file # None -> [meta EXCEPT !.rows = file]
      [] OTHER -> IF kb = None \/ Built.rows = {} THEN None ELSE Built
Builds == ~Matches(index) /\ ~(Matches(meta) /\ file # None) /\ Loaded # None

\* The candidates are scored by the rows of the database, and read from there.
InStore(set) == ChunkIds(set) \cap ChunkIds(chunks)

----------------------------------------------------------------------------
Init ==
    /\ \E m \in Models : kb = [model |-> m, dims |-> DimsOf[m], count |-> 0, stamp |-> 0]
    /\ chunks = {} /\ next = 1
    /\ matrix = None /\ index = None /\ file = None /\ meta = None
    /\ backend \in {"hnsw", "exact"}
    /\ request = [r \in Importers \cup {Updater, Searcher} |-> Idle]
    /\ crashes = 0 /\ behind = FALSE /\ raced = FALSE

Turns(r, y) == request' = [request EXCEPT ![r] = y]

\* An import, or an index job that embeds the chunk of a document again.
ImportBegins(i, old) ==
    /\ request[i].at = "idle" /\ kb # None
    /\ old = None \/ old \in ChunkIds(chunks)
    /\ Turns(i, [at |-> "embedding", model |-> kb.model, old |-> old])
    /\ UNCHANGED <<stored, cached, sidecar, backend, crashes, behind, raced>>

\* The vectors are compared with the row that was read before, not with that of now.
ImportEnds(i) ==
    LET y == request[i]
        gone == kb = None \/ (y.old # None /\ y.old \notin ChunkIds(chunks))
        set == {c \in chunks : c.id # y.old} \cup {[id |-> next, model |-> y.model]}
    IN  /\ y.at = "embedding"
        /\ request' = [request EXCEPT ![i] = Idle,
                          ![Updater] = IF @.at = "probing" THEN [@ EXCEPT !.raced = TRUE] ELSE @]
        /\ IF gone
           THEN UNCHANGED <<stored, cached, sidecar, behind>>
           ELSE /\ Room /\ next <= MaxChunks
                /\ next' = next + 1
                /\ Write(set)
        /\ UNCHANGED <<backend, crashes, raced>>

\* update_knowledge_base: refused once there are chunks; it then probes the model.
UpdateBegins(m) ==
    /\ request[Updater].at = "idle" /\ kb # None
    /\ kb.count = 0
    /\ Turns(Updater, [at |-> "probing", model |-> m, raced |-> behind])
    /\ UNCHANGED <<stored, cached, sidecar, backend, crashes, behind, raced>>

UpdateEnds ==
    LET y == request[Updater]
    IN  /\ y.at = "probing"
        /\ Turns(Updater, Idle)
        /\ IF kb = None THEN UNCHANGED kb
           ELSE /\ Room
                /\ kb' = [kb EXCEPT !.model = y.model, !.dims = DimsOf[y.model], !.stamp = @ + 1]
        /\ raced' = (raced \/ y.raced \/ \E i \in Importers : request[i].at = "embedding")
        /\ UNCHANGED <<chunks, next, cached, sidecar, backend, crashes, behind>>

\* delete_chunk, delete_document, or an index job that removes what it made.
DeleteChunk(c) ==
    /\ c \in chunks /\ Room
    /\ Write(chunks \ {c})
    /\ UNCHANGED <<next, backend, request, crashes, raced>>

\* delete_kb, and the sidecar files with it.
DeleteBase ==
    /\ kb # None
    /\ kb' = None /\ chunks' = {} /\ matrix' = None /\ index' = None
    /\ file' = None /\ meta' = None
    /\ UNCHANGED <<next, backend, request, crashes, behind, raced>>

\* retrieve: the base is read before the query is embedded.
SearchBegins ==
    /\ request[Searcher].at \in {"idle", "found"} /\ kb # None
    /\ Turns(Searcher, [at |-> "embedding", model |-> kb.model])
    /\ UNCHANGED <<stored, cached, sidecar, backend, crashes, behind, raced>>

Finds(set) ==
    Turns(Searcher, [at |-> "found", found |-> InStore(set), stored |-> ChunkIds(chunks),
                     sure |-> /\ ~behind /\ ~raced
                              /\ kb # None => kb.model = request[Searcher].model])

\* Without hnswlib, or when it fails, the exact search answers in its place.
SearchExactly ==
    LET used == IF matrix # None THEN matrix ELSE Matrix
        alike == used.dims = DimsOf[request[Searcher].model]
    IN  /\ request[Searcher].at = "embedding"
        /\ matrix' = Kept(used)
        /\ Finds(IF alike THEN used.rows ELSE {})
        /\ UNCHANGED <<stored, index, sidecar, backend, crashes, behind, raced>>

\* A built index is saved, and its metadata after it.
SearchIndex ==
    LET used == Loaded
        alike == used # None /\ used.of.dims = DimsOf[request[Searcher].model]
    IN  /\ request[Searcher].at = "embedding" /\ backend = "hnsw"
        /\ index' = IF used # None THEN used ELSE index
        /\ file' = IF Builds THEN used.rows ELSE file
        /\ meta' = IF Builds THEN used ELSE meta
        /\ Finds(IF alike THEN used.rows ELSE {})
        /\ UNCHANGED <<stored, matrix, backend, crashes, behind, raced>>

\* update_config: another retriever, with an index cache of its own.
Configure(b) ==
    /\ b # backend
    /\ backend' = b /\ index' = None
    /\ UNCHANGED <<stored, matrix, sidecar, request, crashes, behind, raced>>

----------------------------------------------------------------------------
(* Crashes: the process dies, with its caches and requests. *)

Dies ==
    /\ crashes < MaxCrashes
    /\ crashes' = crashes + 1
    /\ matrix' = None /\ index' = None
    /\ request' = [r \in DOMAIN request |-> Idle]
    /\ UNCHANGED <<backend, raced>>

\* Between the commit of the chunks and that of their counts, or, when a chunk takes the
\* place of another, before it is there.
CrashInWrite(set) ==
    /\ kb # None /\ Dies
    /\ chunks' = set /\ behind' = TRUE
    /\ UNCHANGED <<kb, sidecar>>
CrashInImport(i) ==
    LET y == request[i]
        rest == {c \in chunks : c.id # y.old}
    IN  /\ y.at = "embedding" /\ kb # None
        /\ y.old # None => y.old \in ChunkIds(chunks)
        /\ next <= MaxChunks /\ next' = next + 1
        /\ \/ y.old # None /\ CrashInWrite(rest)
           \/ CrashInWrite(rest \cup {[id |-> next, model |-> y.model]})
CrashInDelete(c) == c \in chunks /\ CrashInWrite(chunks \ {c}) /\ UNCHANGED next

\* Between the file of the index and its metadata, and at any other time.
CrashInBuild ==
    /\ request[Searcher].at = "embedding" /\ backend = "hnsw" /\ Builds /\ Dies
    /\ file' = Loaded.rows
    /\ UNCHANGED <<stored, meta, behind>>
Crash == Dies /\ UNCHANGED <<stored, sidecar, behind>>

----------------------------------------------------------------------------
Next ==
    \/ \E i \in Importers : \E old \in ChunkIds(chunks) \cup {None} : ImportBegins(i, old)
    \/ \E i \in Importers : ImportEnds(i) \/ CrashInImport(i)
    \/ \E m \in Models : UpdateBegins(m)
    \/ UpdateEnds
    \/ \E c \in chunks : DeleteChunk(c) \/ CrashInDelete(c)
    \/ DeleteBase
    \/ SearchBegins \/ SearchExactly \/ SearchIndex
    \/ \E b \in {"hnsw", "exact"} : Configure(b)
    \/ CrashInBuild \/ Crash

Spec == Init /\ [][Next]_vars

----------------------------------------------------------------------------
TypeOK ==
    LET Chunk == [id : 1..MaxChunks, model : Models]
        Snap == [count : 0..MaxChunks, dims : Nat, stamp : 0..(MaxWrites + 1)]
        Index == [of : Snap, rows : SUBSET Chunk]
    IN  /\ kb = None \/ kb \in [model : Models, dims : Nat, count : 0..MaxChunks,
                                stamp : 0..(MaxWrites + 1)]
        /\ chunks \subseteq Chunk /\ next \in 1..(MaxChunks + 1)
        /\ matrix = None \/ matrix \in [dims : Nat, rows : SUBSET Chunk]
        /\ index = None \/ index \in Index
        /\ meta = None \/ meta \in Index
        /\ file = None \/ file \subseteq Chunk
        /\ crashes \in 0..MaxCrashes /\ behind \in BOOLEAN /\ raced \in BOOLEAN

\* A search finds what is stored: never a chunk that is gone, and - unless a crash has
\* left the counts behind, or the model was changed under an import or the search itself
\* - every chunk that is there, whichever index answers, wherever it comes from
\* (vector_backend.py).
SearchFinds ==
    LET y == request[Searcher]
    IN  y.at = "found" => /\ y.found \subseteq y.stored
                          /\ y.sure => y.found = y.stored

\* The vectors of a base are all of its model, unless the change of the model has raced
\* with an import: refused are changes of a base that has chunks (manager.py).
EmbeddedAlike == (kb # None /\ ~raced /\ ~behind) => \A c \in chunks : c.model = kb.model
=============================================================================

------------------------------ MODULE MCKnowledge ------------------------------
(* Instances for TLC of what the knowledge bases keep: the indexes of their    *)
(* documents, the vectors, and the caches of what the graph answers.  Every    *)
(* behaviour is one of the part it has chosen, the others stand still.         *)
EXTENDS DocumentIndex

CONSTANTS Search, Worker, OtherWorker, Here, There, None,
          Import, OtherImport, Query, Small, Large

VARIABLES
    part, \* the part that runs
    graph, meta, stored, revision, paths, answers, position, key, got, under, losses,
    covered, counted, sure, asof,
    base, pieces, given, matrix, loaded, sidecar, about, backend, asking, deaths,
    behind, raced

\* The search thread and the worker of a process whose connection is lost once, the
\* same beside another process that writes, and one that searches for two that write.
ProcessOf == [t \in {Search, Worker, OtherWorker} |-> IF t = OtherWorker THEN There ELSE Here]
Local == INSTANCE GraphCache WITH at <- position, Clients <- {Here, There},
             Searchers <- {Search}, Writers <- {Worker}, ClientOf <- ProcessOf,
             Prewarmed <- {Here}, MaxWrites <- 1, MaxLosses <- 1
Lossy == INSTANCE GraphCache WITH at <- position, Clients <- {Here, There},
             Searchers <- {Search}, Writers <- {OtherWorker}, ClientOf <- ProcessOf,
             Prewarmed <- {}, MaxWrites <- 2, MaxLosses <- 1
Remote == INSTANCE GraphCache WITH at <- position, Clients <- {Here, There},
             Searchers <- {Search}, Writers <- {Worker, OtherWorker},
             ClientOf <- ProcessOf, Prewarmed <- {}, MaxWrites <- 2, MaxLosses <- 0

\* An import and a search beside the update of the base, with a crash; and two imports.
Lengths == [m \in {Small, Large} |-> IF m = Small THEN 1 ELSE 2]
Vectors == INSTANCE VectorIndex WITH chunks <- pieces, kb <- base, next <- given,
             index <- loaded, file <- sidecar, meta <- about, request <- asking,
             crashes <- deaths, Models <- {Small, Large}, DimsOf <- Lengths,
             Importers <- {Import}, Searcher <- Query, CacheMax <- 1,
             MaxChunks <- 3, MaxWrites <- 3, MaxCrashes <- 1
Imports == INSTANCE VectorIndex WITH chunks <- pieces, kb <- base, next <- given,
             index <- loaded, file <- sidecar, meta <- about, request <- asking,
             crashes <- deaths, Models <- {Small, Large}, DimsOf <- Lengths,
             Importers <- {Import, OtherImport}, Searcher <- Query, CacheMax <- 1,
             MaxChunks <- 2, MaxWrites <- 3, MaxCrashes <- 0
ASSUME /\ Vectors!VectorIndexAssumption /\ Imports!VectorIndexAssumption
       /\ Local!CacheAssumption /\ Lossy!CacheAssumption /\ Remote!CacheAssumption

cacheVars == <<graph, meta, stored, revision, paths, answers, position, key, got, under,
               losses, covered, counted, sure, asof>>
vectorVars == <<base, pieces, given, matrix, loaded, sidecar, about, backend, asking,
                deaths, behind, raced>>
\* What the chosen part does not have is absent.
KnowledgeInit ==
    /\ part \in {"indexes", "local cache", "lossy cache", "remote cache",
                "vectors", "imports"}
    /\ Init
    /\ CASE part = "local cache" -> Local!Init
         [] part = "lossy cache" -> Lossy!Init
         [] part = "remote cache" -> Remote!Init
         [] OTHER -> /\ graph = None /\ meta = None /\ stored = None /\ revision = None
                     /\ paths = None /\ answers = None /\ position = None /\ key = None
                     /\ got = None /\ under = None /\ losses = None /\ covered = None
                     /\ counted = None /\ sure = None /\ asof = None
    /\ CASE part = "vectors" -> Vectors!Init
         [] part = "imports" -> Imports!Init
         [] OTHER -> /\ base = None /\ pieces = None /\ given = None /\ matrix = None
                     /\ loaded = None /\ sidecar = None /\ about = None /\ backend = None
                     /\ asking = None /\ deaths = None /\ behind = None /\ raced = None

KnowledgeNext ==
    /\ UNCHANGED part
    /\ \/ part = "indexes" /\ Next /\ UNCHANGED <<cacheVars, vectorVars>>
       \/ /\ UNCHANGED <<vars, vectorVars>>
          /\ \/ part = "local cache" /\ Local!Next
             \/ part = "lossy cache" /\ Lossy!Next
             \/ part = "remote cache" /\ Remote!Next
       \/ /\ UNCHANGED <<vars, cacheVars>>
          /\ \/ part = "vectors" /\ Vectors!Next
             \/ part = "imports" /\ Imports!Next

KnowledgeSpec ==
    KnowledgeInit /\ [][KnowledgeNext]_<<part, vars, cacheVars, vectorVars>>

\* What is kept of the knowledge graph under a revision reflects it, and a search
\* sees what the graph has counted before it began (graph.py); a search of a knowledge
\* base finds the chunks that are stored, all of them of its model (vector_backend.py).
SearchesAreCurrent ==
    /\ part = "local cache" => Local!SearchesAreCurrent
    /\ part \in {"lossy cache", "remote cache"} => Remote!SearchesAreCurrent
    /\ part \in {"vectors", "imports"} => Vectors!SearchFinds /\ Vectors!EmbeddedAlike
=============================================================================

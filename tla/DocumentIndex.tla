--------------------------- MODULE DocumentIndex ---------------------------
(***************************************************************************)
(* The lifecycle of a document's indexes in core/knowledge: the rows of    *)
(* document_indexes (store.py), the executors that claim and build them    *)
(* (indexing.py) and the manager operations that create, request and       *)
(* delete them (manager.py).                                               *)
(*                                                                         *)
(* Every coroutine runs on one event loop, so what lies between two awaits *)
(* is not interleaved with another coroutine: `loop' names the executor    *)
(* inside such a section.  A crash can still fall between two commits of a *)
(* section, which is why a section is more than one action.                *)
(***************************************************************************)
EXTENDS Naturals, FiniteSets

CONSTANTS NumDocs,      \* documents a behaviour may import
          Workers,      \* LocalIndexWorker instances
          Callers,      \* HTTP requests that import or rebuild in sync mode
          Free,         \* no executor: the event loop is between two sections
          InitMode,     \* knowledge.indexing.mode at start
          MaxVersion,   \* bound on rebuild requests of one index
          MaxSettings,  \* bound on edits of the knowledge base's settings
          MaxSwitches,  \* bound on run-time changes of the indexing mode
          MaxCrashes    \* bound on process crashes

Docs == 1..NumDocs
Vector == "vector_fulltext"
Graph == "graph"
IndexTypes == {Vector, Graph}
Indexes == Docs \X IndexTypes
Executors == Workers \cup Callers

ASSUME DocumentIndexAssumption ==
    /\ {NumDocs, MaxVersion, MaxSettings, MaxSwitches, MaxCrashes} \subseteq Nat
    /\ MaxVersion >= 1 /\ MaxSettings >= 1
    /\ InitMode \in {"async", "sync"}
    /\ Workers \cap Callers = {}
    /\ Free \notin Executors

VARIABLES
    docs,      \* documents and document_payloads: which rows a document has
    chunks,    \* settings generation the stored chunks were cut with; 0: none
    rows,      \* document_indexes
    settings,  \* generation of the knowledge base's chunk and embedding settings
    asked,     \* history: settings generation when an index was last requested
    exec,      \* claims and position of each executor
    worker,    \* what start() and stop() made of each LocalIndexWorker
    mode,      \* knowledge.indexing.mode
    loop,      \* the executor in a section without await, or Free
    switches,  \* mode changes left
    crashes    \* crashes left

vars == <<docs, chunks, rows, settings, asked, exec, worker, mode, loop, switches, crashes>>

(***************************************************************************)
(* Records.  A row that does not exist has status "untracked", the word    *)
(* get_index_status uses for it.  `aged' says that last_reconciled_at is   *)
(* older than the stale timeout.                                           *)
(***************************************************************************)
Status == {"untracked", "pending", "creating", "active", "queued", "failed"}
Row == [status : Status, version : Nat, observed : Nat, aged : BOOLEAN]
RowWith(s, v, o, a) == [status |-> s, version |-> v, observed |-> o, aged |-> a]
NoRow == RowWith("untracked", 0, 0, FALSE)
NewRow == RowWith("pending", 1, 0, FALSE)

Claim == [index : Indexes, target : Nat]
Phase == {"idle", "run", "embedding", "fill", "settle", "importing"}
Exec == [phase : Phase, batch : SUBSET Claim, built : Nat, doc : Docs \cup {0}]
At(p, b, s, d) == [phase |-> p, batch |-> b, built |-> s, doc |-> d]
Idle == At("idle", {}, 0, 0)

Stored(d) == docs[d] = "stored"

(***************************************************************************)
(* Row operations of KnowledgeStore, each one UPDATE.                      *)
(***************************************************************************)
NeedsReconciliation(r) == r.status = "pending" /\ r.observed < r.version

Stale(r) == r.status = "creating" /\ r.aged /\ r.observed < r.version

(* Fault: a stale claim is not put back. *)
ResetForgotten(r) == r

ResetIfStale(r) ==
    IF Stale(r) THEN RowWith("pending", r.version, r.observed, r.aged) ELSE r

(* Fault: a request made while a build runs is taken to be served by it. *)
RequestedUnlessCreating(r) ==
    IF r.status = "untracked" THEN NewRow
    ELSE IF r.status = "creating" THEN r
    ELSE [r EXCEPT !.status = "pending", !.version = @ + 1]

(* Fault: a request starts the version counters over. *)
RequestedAnew(r) == NewRow

Requested(r) ==
    IF r.status = "untracked" THEN NewRow
    ELSE RowWith("pending", r.version + 1, r.observed, r.aged)

Claimed(r) == RowWith("creating", r.version, r.observed, FALSE)

(* Fault: a build is published without comparing its version. *)
FinishedAnyVersion(r, target, status) ==
    IF r.status = "creating"
    THEN [r EXCEPT !.status = status, !.observed = target]
    ELSE r

Finished(r, target, status) ==
    IF r.status = "creating" /\ r.version = target
    THEN RowWith(status, r.version, target, r.aged)
    ELSE r

(* Fault: an error is recorded whatever the status of the row is. *)
FailedAnyStatus(r) ==
    IF r.status # "untracked" THEN [r EXCEPT !.status = "failed"] ELSE r

Failed(r) ==
    IF r.status = "creating" THEN RowWith("failed", r.version, r.observed, r.aged) ELSE r

(* claim_document_index for every row of S that needs reconciliation, and the
   claims it returns. *)
ClaimRows(rs, S) ==
    [i \in Indexes |-> IF i \in S /\ NeedsReconciliation(rs[i])
                       THEN Claimed(rs[i]) ELSE rs[i]]

ClaimsOf(rs, S) ==
    {[index |-> i, target |-> rs[i].version] : i \in {j \in S : NeedsReconciliation(rs[j])}}

(* The order both reconcilers sort their claims in. *)
Rank(type) == IF type = Vector THEN 0 ELSE 1
Precedes(i, j) == i[1] < j[1] \/ (i[1] = j[1] /\ Rank(i[2]) <= Rank(j[2]))
IsNext(c, batch) == c \in batch /\ \A o \in batch : Precedes(c.index, o.index)

Init ==
    /\ docs = [d \in Docs |-> "absent"]
    /\ chunks = [d \in Docs |-> 0]
    /\ rows = [i \in Indexes |-> NoRow]
    /\ settings = 1
    /\ asked = [i \in Indexes |-> 0]
    /\ exec = [e \in Executors |-> Idle]
    /\ worker \in [Workers -> {"off", "on"}]
    /\ \A v, w \in Workers : worker[v] = "on" /\ worker[w] = "on" => v = w
    /\ (InitMode = "sync") <=> (\A w \in Workers : worker[w] = "off")
    /\ mode = InitMode
    /\ loop = Free
    /\ switches = MaxSwitches /\ crashes = MaxCrashes

-----------------------------------------------------------------------------
(***************************************************************************)
(* Imports.                                                                *)
(***************************************************************************)
(* A fresh doc_id that no import in flight is going to use. *)
Unused(d) == docs[d] = "absent" /\ \A e \in Executors : exec[e].doc # d

(* import_document in async mode: document, payload and index requests are
   stored, nothing is built. *)
ImportAsync(d) ==
    /\ loop = Free /\ mode = "async" /\ Unused(d)
    /\ docs' = [docs EXCEPT ![d] = "stored"]
    /\ rows' = [i \in Indexes |-> IF i[1] = d THEN Requested(rows[i]) ELSE rows[i]]
    /\ asked' = [i \in Indexes |-> IF i[1] = d THEN settings ELSE asked[i]]
    /\ UNCHANGED <<chunks, settings, exec, worker, mode, loop, switches, crashes>>

(* import_document in sync mode up to its await: the settings are read and the
   chunks cut before the embedding request. *)
ImportSyncStart(c, d) ==
    /\ loop = Free /\ mode = "sync" /\ Unused(d)
    /\ exec[c].phase = "idle"
    /\ exec' = [exec EXCEPT ![c] = At("importing", {}, settings, d)]
    /\ UNCHANGED <<docs, chunks, rows, settings, asked, worker, mode, loop, switches, crashes>>

(* ... and after it: the document is stored with its chunks, its vector index
   recorded active, and its graph index recorded queued if a graph task was
   enqueued. *)
ImportSyncFinish(c) ==
    /\ loop = Free /\ exec[c].phase = "importing"
    /\ \E enqueued \in BOOLEAN :
         LET d == exec[c].doc
             Recorded(t) == RowWith(IF t = Vector THEN "active" ELSE "queued", 1, 1, FALSE)
             Tracked(i) == i[1] = d /\ (i[2] = Vector \/ enqueued)
         IN /\ docs' = [docs EXCEPT ![d] = "stored"]
            /\ chunks' = [chunks EXCEPT ![d] = exec[c].built]
            /\ rows' = [i \in Indexes |-> IF Tracked(i) THEN Recorded(i[2]) ELSE rows[i]]
            /\ asked' = [i \in Indexes |-> IF Tracked(i) THEN exec[c].built ELSE asked[i]]
    /\ exec' = [exec EXCEPT ![c] = Idle]
    /\ UNCHANGED <<settings, worker, mode, loop, switches, crashes>>

(* The embedding request failed, or the HTTP request was cancelled: the
   document was not created yet. *)
ImportSyncFail(c) ==
    /\ loop = Free /\ exec[c].phase = "importing"
    /\ exec' = [exec EXCEPT ![c] = Idle]
    /\ UNCHANGED <<docs, chunks, rows, settings, asked, worker, mode, loop, switches, crashes>>

-----------------------------------------------------------------------------
(***************************************************************************)
(* Requests of the dashboard.                                              *)
(***************************************************************************)
(* The documents rebuild_document_indexes is called for: one, or all. *)
Scopes == {{d} : d \in Docs} \cup {Docs}

(* The indexes it requests: those that failed, or every type. *)
RebuildTargets(ds, failedOnly) ==
    {i \in Indexes : /\ i[1] \in ds /\ Stored(i[1])
                     /\ failedOnly => rows[i].status = "failed"}

RequestRows(S) == [i \in Indexes |-> IF i \in S THEN Requested(rows[i]) ELSE rows[i]]

RequestSettings(S) == [i \in Indexes |-> IF i \in S THEN settings ELSE asked[i]]

RebuildAsync(ds, failedOnly) ==
    LET S == RebuildTargets(ds, failedOnly) IN
    /\ loop = Free /\ mode = "async"
    /\ S # {} /\ \A i \in S : rows[i].version < MaxVersion
    /\ rows' = RequestRows(S)
    /\ asked' = RequestSettings(S)
    /\ UNCHANGED <<docs, chunks, settings, exec, worker, mode, loop, switches, crashes>>

(* In sync mode the caller also resets stale claims, claims what it requested
   and starts to execute its claims, all before its first await. *)
RebuildSync(c, ds, failedOnly) ==
    LET S == RebuildTargets(ds, failedOnly)
        fresh == [i \in Indexes |-> ResetIfStale(RequestRows(S)[i])]
    IN /\ loop = Free /\ mode = "sync" /\ exec[c].phase = "idle"
       /\ S # {} /\ \A i \in S : rows[i].version < MaxVersion
       /\ rows' = ClaimRows(fresh, S)
       /\ asked' = RequestSettings(S)
       /\ exec' = [exec EXCEPT ![c] = At("run", ClaimsOf(fresh, S), 0, 0)]
       /\ loop' = c
       /\ UNCHANGED <<docs, chunks, settings, worker, mode, switches, crashes>>

(* delete_document: payload, chunks and index rows go by ON DELETE CASCADE. *)
DeleteDocument(d) ==
    /\ loop = Free /\ docs[d] \in {"created", "stored"}
    /\ docs' = [docs EXCEPT ![d] = "deleted"]
    /\ chunks' = [chunks EXCEPT ![d] = 0]
    /\ rows' = [i \in Indexes |-> IF i[1] = d THEN NoRow ELSE rows[i]]
    /\ asked' = [i \in Indexes |-> IF i[1] = d THEN 0 ELSE asked[i]]
    /\ UNCHANGED <<settings, exec, worker, mode, loop, switches, crashes>>

(* update_knowledge_base with a new chunk size, overlap or embedding model. *)
EditSettings ==
    /\ loop = Free /\ settings < MaxSettings
    /\ settings' = settings + 1
    /\ UNCHANGED <<docs, chunks, rows, asked, exec, worker, mode, loop, switches, crashes>>

-----------------------------------------------------------------------------
(***************************************************************************)
(* The reconciler and the executor.                                        *)
(***************************************************************************)
(* reconcile_once: stale claims are reset, everything that needs
   reconciliation is claimed, and the claims are executed in order. *)
Reconcile(w) ==
    LET fresh == [i \in Indexes |-> ResetIfStale(rows[i])]
        claims == ClaimsOf(fresh, Indexes)
    IN /\ loop = Free /\ worker[w] = "on" /\ exec[w].phase = "idle"
       /\ claims # {}
       /\ rows' = ClaimRows(fresh, Indexes)
       /\ exec' = [exec EXCEPT ![w] = At("run", claims, 0, 0)]
       /\ loop' = w
       /\ UNCHANGED <<docs, chunks, settings, asked, worker, mode, switches, crashes>>

(* The executor is done with claim c: row i becomes r and the next claim of the
   batch is started in the same section. *)
Settle(e, c, r) ==
    /\ rows' = [rows EXCEPT ![c.index] = r]
    /\ exec' = [exec EXCEPT ![e] = At("run", exec[e].batch \ {c}, 0, 0)]
    /\ loop' = e

(* A vector build up to its await: settings are read and chunks cut. *)
StartVector(e) ==
    \E c \in exec[e].batch :
      /\ loop = e /\ exec[e].phase = "run" /\ IsNext(c, exec[e].batch)
      /\ c.index[2] = Vector /\ Stored(c.index[1])
      /\ exec' = [exec EXCEPT ![e] = At("embedding", exec[e].batch, settings, 0)]
      /\ loop' = Free
      /\ UNCHANGED <<docs, chunks, rows, settings, asked, worker, mode, switches, crashes>>

(* A graph build has no await: it hands the chunks to the extraction queue,
   which may refuse them. *)
BuildGraph(e) ==
    \E c \in exec[e].batch, accepted \in BOOLEAN :
      /\ loop = e /\ exec[e].phase = "run" /\ IsNext(c, exec[e].batch)
      /\ c.index[2] = Graph /\ Stored(c.index[1])
      /\ Settle(e, c, IF chunks[c.index[1]] # 0 /\ accepted
                      THEN Finished(rows[c.index], c.target, "queued")
                      ELSE Failed(rows[c.index]))
      /\ UNCHANGED <<docs, chunks, settings, asked, worker, mode, switches, crashes>>

(* The document went away between the claim and the build. *)
MissingDocument(e) ==
    \E c \in exec[e].batch :
      /\ loop = e /\ exec[e].phase = "run" /\ IsNext(c, exec[e].batch)
      /\ ~Stored(c.index[1])
      /\ Settle(e, c, Failed(rows[c.index]))
      /\ UNCHANGED <<docs, chunks, settings, asked, worker, mode, switches, crashes>>

(* The embeddings arrive: replace_chunks first deletes and commits. *)
EmbeddingArrived(e) ==
    \E c \in exec[e].batch :
      /\ loop = Free /\ exec[e].phase = "embedding" /\ IsNext(c, exec[e].batch)
      /\ chunks' = [chunks EXCEPT ![c.index[1]] = 0]
      /\ exec' = [exec EXCEPT ![e] = At("fill", exec[e].batch, exec[e].built, 0)]
      /\ loop' = e
      /\ UNCHANGED <<docs, rows, settings, asked, worker, mode, switches, crashes>>

(* The embedding request fails or returns the wrong count or dimension. *)
EmbeddingFailed(e) ==
    \E c \in exec[e].batch :
      /\ loop = Free /\ exec[e].phase = "embedding" /\ IsNext(c, exec[e].batch)
      /\ Settle(e, c, Failed(rows[c.index]))
      /\ UNCHANGED <<docs, chunks, settings, asked, worker, mode, switches, crashes>>

(* Fault: an await between storing the chunks and publishing them. *)
FillChunksThenYield(e) ==
    \E c \in exec[e].batch :
      /\ loop = e /\ exec[e].phase = "fill" /\ IsNext(c, exec[e].batch)
      /\ chunks' = [chunks EXCEPT ![c.index[1]] =
                      IF Stored(c.index[1]) THEN exec[e].built ELSE 0]
      /\ exec' = [exec EXCEPT ![e] = At("settle", exec[e].batch, exec[e].built, 0)]
      /\ loop' = Free
      /\ UNCHANGED <<docs, rows, settings, asked, worker, mode, switches, crashes>>

(* ... then inserts the chunks it cut and commits again.  For a document deleted
   meanwhile the foreign key refuses the insert and the build fails. *)
FillChunks(e) ==
    \E c \in exec[e].batch :
      /\ exec[e].phase = "fill" /\ IsNext(c, exec[e].batch)
      /\ IF Stored(c.index[1])
         THEN /\ chunks' = [chunks EXCEPT ![c.index[1]] = exec[e].built]
              /\ exec' = [exec EXCEPT ![e] = At("settle", exec[e].batch, exec[e].built, 0)]
              /\ UNCHANGED <<rows, loop>>
         ELSE /\ Settle(e, c, Failed(rows[c.index]))
              /\ UNCHANGED chunks
      /\ UNCHANGED <<docs, settings, asked, worker, mode, switches, crashes>>

CompleteVector(e) ==
    \E c \in exec[e].batch :
      /\ exec[e].phase = "settle" /\ IsNext(c, exec[e].batch)
      /\ Settle(e, c, Finished(rows[c.index], c.target, "active"))
      /\ UNCHANGED <<docs, chunks, settings, asked, worker, mode, switches, crashes>>

(* The batch is done.  A worker whose stop() was called leaves its loop. *)
EndBatch(e) ==
    /\ loop = e /\ exec[e].phase = "run" /\ exec[e].batch = {}
    /\ exec' = [exec EXCEPT ![e] = Idle]
    /\ worker' = IF e \in Workers /\ worker[e] = "stopping"
                 THEN [worker EXCEPT ![e] = "off"] ELSE worker
    /\ loop' = Free
    /\ UNCHANGED <<docs, chunks, rows, settings, asked, mode, switches, crashes>>

(* A rebuild request is cancelled while it awaits its embeddings: CancelledError
   is no Exception, so its claims are left "creating". *)
CancelCaller(c) ==
    /\ loop = Free /\ exec[c].phase = "embedding"
    /\ exec' = [exec EXCEPT ![c] = Idle]
    /\ UNCHANGED <<docs, chunks, rows, settings, asked, worker, mode, loop, switches, crashes>>

(* The stale timeout of a claim passes. *)
Age(i) ==
    /\ loop = Free /\ rows[i].status = "creating" /\ ~rows[i].aged
    /\ rows' = [rows EXCEPT ![i] = RowWith("creating", rows[i].version, rows[i].observed, TRUE)]
    /\ UNCHANGED <<docs, chunks, settings, asked, exec, worker, mode, loop, switches, crashes>>

-----------------------------------------------------------------------------
(***************************************************************************)
(* Configuration and crashes.                                              *)
(***************************************************************************)
(* update_config to sync: stop() lets a busy worker finish its batch. *)
SwitchToSync ==
    /\ loop = Free /\ mode = "async" /\ switches > 0
    /\ mode' = "sync"
    /\ worker' = [w \in Workers |->
                    IF worker[w] # "on" THEN worker[w]
                    ELSE IF exec[w].phase = "idle" THEN "off" ELSE "stopping"]
    /\ switches' = switches - 1
    /\ UNCHANGED <<docs, chunks, rows, settings, asked, exec, loop, crashes>>

(* update_config to async: a new worker is started beside one that is stopping. *)
SwitchToAsync(w) ==
    /\ loop = Free /\ mode = "sync" /\ switches > 0 /\ worker[w] = "off"
    /\ mode' = "async"
    /\ worker' = [worker EXCEPT ![w] = "on"]
    /\ switches' = switches - 1
    /\ UNCHANGED <<docs, chunks, rows, settings, asked, exec, loop, crashes>>

(* The process dies and is started again: claims in memory are lost. *)
Restart ==
    /\ crashes > 0
    /\ exec' = [e \in Executors |-> Idle]
    /\ loop' = Free
    /\ IF mode = "sync" \/ Workers = {}
       THEN worker' = [w \in Workers |-> "off"]
       ELSE \E w \in Workers : worker' = [v \in Workers |-> IF v = w THEN "on" ELSE "off"]
    /\ crashes' = crashes - 1
    /\ UNCHANGED <<settings, mode, switches>>

Crash ==
    /\ Restart
    /\ UNCHANGED <<docs, chunks, rows, asked>>

(* It dies between two commits of an import: the document exists without a
   payload, or with its payload but no index rows. *)
CrashInImport(d) ==
    /\ loop = Free /\ mode = "async" /\ Unused(d)
    /\ Restart
    /\ \E left \in {"created", "stored"} : docs' = [docs EXCEPT ![d] = left]
    /\ UNCHANGED <<chunks, rows, asked>>

(* A sync import also commits the chunks before the index rows. *)
CrashInSyncImport(c) ==
    /\ loop = Free /\ exec[c].phase = "importing"
    /\ Restart
    /\ \E left \in {"created", "stored"}, cut \in {0, exec[c].built} :
         /\ left = "created" => cut = 0
         /\ docs' = [docs EXCEPT ![exec[c].doc] = left]
         /\ chunks' = [chunks EXCEPT ![exec[c].doc] = cut]
    /\ UNCHANGED <<rows, asked>>

-----------------------------------------------------------------------------
ExecutorStep(e) ==
    \/ StartVector(e) \/ BuildGraph(e) \/ MissingDocument(e)
    \/ EmbeddingArrived(e) \/ EmbeddingFailed(e)
    \/ FillChunks(e) \/ CompleteVector(e) \/ EndBatch(e)

Next ==
    \/ \E d \in Docs : ImportAsync(d) \/ DeleteDocument(d) \/ CrashInImport(d)
    \/ \E c \in Callers, d \in Docs : ImportSyncStart(c, d)
    \/ \E c \in Callers : ImportSyncFinish(c) \/ ImportSyncFail(c)
                       \/ CancelCaller(c) \/ CrashInSyncImport(c)
    \/ \E ds \in Scopes, f \in BOOLEAN : RebuildAsync(ds, f)
    \/ \E c \in Callers, ds \in Scopes, f \in BOOLEAN : RebuildSync(c, ds, f)
    \/ \E w \in Workers : Reconcile(w) \/ SwitchToAsync(w)
    \/ \E e \in Executors : ExecutorStep(e)
    \/ \E i \in Indexes : Age(i)
    \/ EditSettings \/ SwitchToSync \/ Crash

Spec == Init /\ [][Next]_vars

(* A worker's loop keeps running, the embedding client answers or times out, and
   time passes. *)
Fairness ==
    /\ \A w \in Workers : WF_vars(Reconcile(w))
    /\ \A e \in Executors : WF_vars(ExecutorStep(e))
    /\ \A i \in Indexes : WF_vars(Age(i))

FairSpec == Spec /\ Fairness

-----------------------------------------------------------------------------
(***************************************************************************)
(* Properties.                                                             *)
(***************************************************************************)
(* The type invariant. *)
TypeOK ==
    /\ docs \in [Docs -> {"absent", "created", "stored", "deleted"}]
    /\ chunks \in [Docs -> Nat]
    /\ rows \in [Indexes -> Row]
    /\ settings \in Nat
    /\ asked \in [Indexes -> Nat]
    /\ exec \in [Executors -> Exec]
    /\ worker \in [Workers -> {"off", "on", "stopping"}]
    /\ mode \in {"async", "sync"}
    /\ loop \in Executors \cup {Free}
    /\ switches \in Nat /\ crashes \in Nat

Coherent(r) ==
    /\ r.status = "untracked" => r = NoRow
    /\ r.status \in {"active", "queued"} => r.observed = r.version
    /\ r.status \in {"pending", "creating", "failed"} => r.observed < r.version

(* The status of a row and its two version counters always tell the same story:
   a settled row has observed exactly the requested version, an unsettled or
   failed one lags behind it, whichever executors raced on the row and
   whatever was requested while they ran. *)
StatusMatchesVersions == \A i \in Indexes : Coherent(rows[i])

(* A row never forgets a version it has observed, and what it comes to observe is
   the newest version requested: no executor publishes a build that was already
   superseded, and no two publish the same version.  Rows go only with their
   document. *)
ObservedAdvances ==
    [][\A i \in Indexes :
         \/ rows'[i].observed = rows[i].observed
         \/ /\ rows'[i].observed > rows[i].observed
            /\ rows'[i].observed = rows'[i].version
         \/ docs'[i[1]] = "deleted"]_vars

(* When a build is published as active, the chunks in the store are at that moment
   cut with settings at least as new as those in force when the index was last
   requested, whichever other executors are in the middle of a build. *)
FreshAtCompletion ==
    [][\A d \in Docs :
         rows[<<d, Vector>>].status # "active" /\ rows'[<<d, Vector>>].status = "active"
           => chunks'[d] >= asked'[<<d, Vector>>]]_vars

(* Both: what a row observes, and what it is published with, only moves on. *)
BuildsAdvance == ObservedAdvances /\ FreshAtCompletion

(* Where one executor runs at a time, an active index stays that way: its chunks
   are never missing and never older than its last request. *)
ActiveIsFresh ==
    \A d \in Docs :
      rows[<<d, Vector>>].status = "active" => chunks[d] >= asked[<<d, Vector>>]

(* Where one executor runs at a time, an index is failed only by the executor that
   holds the claim on its current version: a request made during a build is not
   failed by that build's error. *)
FailureIsOwn ==
    [][\A i \in Indexes :
         rows[i].status # "failed" /\ rows'[i].status = "failed"
           => \E e \in Executors : \E c \in exec[e].batch :
                c.index = i /\ c.target = rows[i].version]_vars

(* In async mode every request is eventually answered: whatever crashed or was
   edited in between, a tracked index does not stay pending or creating. *)
Settles ==
    \A i \in Indexes :
      rows[i].status \in {"pending", "creating"}
        ~> rows[i].status \notin {"pending", "creating"}

-----------------------------------------------------------------------------
(***************************************************************************)
(* The parts of the inductive invariant behind these properties.           *)
(***************************************************************************)
(* Only a stored document has index rows. *)
RowsHaveDocs == \A i \in Indexes : docs[i[1]] # "stored" => rows[i] = NoRow

(* An import in flight has a document id of its own, not in the store yet. *)
ImportsDisjoint ==
    \A e \in Executors :
      IF exec[e].phase = "importing"
      THEN /\ exec[e].doc \in Docs /\ docs[exec[e].doc] = "absent"
           /\ \A f \in Executors : exec[f].doc = exec[e].doc => f = e
      ELSE exec[e].doc = 0

(* Nothing was asked for or cut with settings of the future. *)
AskedKnown ==
    /\ \A i \in Indexes : asked[i] <= settings
    /\ \A e \in Executors : exec[e].built <= settings

(* An executor between two awaits holds the event loop. *)
SectionHeld ==
    \A e \in Executors : exec[e].phase \in {"run", "fill", "settle"} => loop = e

(* A claim never runs ahead of its row. *)
ClaimsBehind ==
    \A e \in Executors : \A c \in exec[e].batch :
      /\ docs[c.index[1]] \in {"stored", "deleted"}
      /\ Stored(c.index[1]) => c.target <= rows[c.index].version

(* A build of the current version was cut with settings as new as its request. *)
BuildFresh ==
    \A e \in Executors : exec[e].phase \in {"embedding", "fill", "settle"} =>
      \A c \in exec[e].batch :
        /\ IsNext(c, exec[e].batch) /\ Stored(c.index[1])
        /\ rows[c.index].version = c.target
        => asked[c.index] <= exec[e].built

(* Before it is published the build is what the store holds. *)
FillDone ==
    \A e \in Executors : exec[e].phase = "settle" =>
      \A c \in exec[e].batch :
        IsNext(c, exec[e].batch) /\ Stored(c.index[1])
          => chunks[c.index[1]] = exec[e].built

IInv ==
    /\ TypeOK /\ StatusMatchesVersions /\ RowsHaveDocs /\ ImportsDisjoint
    /\ AskedKnown /\ SectionHeld /\ ClaimsBehind /\ BuildFresh /\ FillDone

(* One executor at a time has claims: one worker, and no rebuild in sync mode
   beside it or beside another. *)
Executing == {"run", "embedding", "fill", "settle"}
OneExecutes ==
    \A e, f \in Executors :
      exec[e].phase \in Executing /\ exec[f].phase \in Executing => e = f

(* Then its claims are of different rows, which nobody has settled meanwhile; a
   row that is being built is built at the version claimed. *)
ClaimsOpen ==
    \A e \in Executors : \A c \in exec[e].batch :
      /\ \A o \in exec[e].batch : o.index = c.index => o = c
      /\ Stored(c.index[1]) =>
           /\ rows[c.index].status \in {"pending", "creating"}
           /\ rows[c.index].status = "creating" => rows[c.index].version = c.target

(* Only a vector index is built in more than one section. *)
NextIsVector ==
    \A e \in Executors : exec[e].phase \in Executing \ {"run"} =>
      \A c \in exec[e].batch : IsNext(c, exec[e].batch) => c.index[2] = Vector

(* Who executes nothing has no claims. *)
ClaimsExecuted ==
    \A e \in Executors : exec[e].phase \notin Executing => exec[e].batch = {}

FreshInv == IInv /\ ClaimsOpen /\ NextIsVector /\ ClaimsExecuted /\ ActiveIsFresh
=============================================================================

--------------------------- MODULE KnowledgeProofs ---------------------------
(***************************************************************************)
(* What holds of the knowledge bases for every value of the constants: of  *)
(* the rows, claims and builds of DocumentIndex, and, further below, of    *)
(* the caches of GraphCache and the vectors of VectorIndex.                *)
(***************************************************************************)
EXTENDS DocumentIndex, FiniteSetTheorems, WellFoundedInduction, TLAPS

(***************************************************************************)
(* What the row operations do to one row.                                  *)
(***************************************************************************)
LEMMA NoRowType == NoRow \in Row /\ Coherent(NoRow)
  BY DEF NoRow, Row, RowWith, Status, Coherent

LEMMA NewRowType == NewRow \in Row /\ Coherent(NewRow)
  BY DEF NewRow, NoRow, Row, RowWith, Status, Coherent

LEMMA RequestedType ==
  ASSUME NEW r \in Row, Coherent(r)
  PROVE  /\ Requested(r) \in Row
         /\ Coherent(Requested(r))
         /\ Requested(r).status = "pending"
         /\ Requested(r).version = r.version + 1
         /\ Requested(r).observed = r.observed
  BY DEF Requested, NewRow, NoRow, Row, RowWith, Status, Coherent

LEMMA ResetType ==
  ASSUME NEW r \in Row, Coherent(r)
  PROVE  /\ ResetIfStale(r) \in Row
         /\ Coherent(ResetIfStale(r))
         /\ ResetIfStale(r).version = r.version
         /\ ResetIfStale(r).observed = r.observed
         /\ ResetIfStale(r).status = "untracked" <=> r.status = "untracked"
         /\ ResetIfStale(r).status = "active" <=> r.status = "active"
  BY DEF ResetIfStale, Stale, Row, RowWith, Status, Coherent

LEMMA ClaimedType ==
  ASSUME NEW r \in Row, Coherent(r), NeedsReconciliation(r)
  PROVE  /\ Claimed(r) \in Row
         /\ Coherent(Claimed(r))
         /\ Claimed(r).version = r.version
         /\ Claimed(r).observed = r.observed
         /\ Claimed(r).status = "creating"
  BY DEF NeedsReconciliation, Claimed, Row, RowWith, Status, Coherent

LEMMA FinishedType ==
  ASSUME NEW r \in Row, Coherent(r), NEW t \in Nat, NEW s \in {"active", "queued"}
  PROVE  /\ Finished(r, t, s) \in Row
         /\ Coherent(Finished(r, t, s))
         /\ Finished(r, t, s).version = r.version
         /\ Finished(r, t, s).status = "untracked" <=> r.status = "untracked"
         /\ Finished(r, t, s) = r \/ /\ r.version = t
                                     /\ Finished(r, t, s).observed = r.version
                                     /\ Finished(r, t, s).observed > r.observed
  BY DEF Finished, Row, RowWith, Status, Coherent

LEMMA FailedType ==
  ASSUME NEW r \in Row, Coherent(r)
  PROVE  /\ Failed(r) \in Row
         /\ Coherent(Failed(r))
         /\ Failed(r).version = r.version
         /\ Failed(r).observed = r.observed
         /\ Failed(r).status = "untracked" <=> r.status = "untracked"
         /\ Failed(r).status = "active" => r.status = "active"
  BY DEF Failed, Row, RowWith, Status, Coherent
(***************************************************************************)
(* Types.                                                                  *)
(***************************************************************************)
LEMMA AtType ==
  ASSUME NEW p \in Phase, NEW b \in SUBSET Claim, NEW s \in Nat, NEW d \in Docs \cup {0}
  PROVE  At(p, b, s, d) \in Exec
  BY DEF At, Exec

LEMMA IdleType == Idle \in Exec
  BY AtType DEF Idle, Phase

LEMMA ExecFields ==
  ASSUME TypeOK, NEW e \in Executors
  PROVE  /\ exec[e].phase \in Phase /\ exec[e].batch \in SUBSET Claim
         /\ exec[e].built \in Nat /\ exec[e].doc \in Docs \cup {0}
  BY DEF TypeOK, Exec

LEMMA IndexPair ==
  ASSUME NEW i \in Indexes
  PROVE  i[1] \in Docs /\ i[2] \in IndexTypes /\ i = <<i[1], i[2]>>
  BY DEF Indexes

LEMMA ClaimFields ==
  ASSUME NEW c \in Claim
  PROVE  c.index \in Indexes /\ c.target \in Nat /\ c.index[1] \in Docs
  BY IndexPair DEF Claim

LEMMA ClaimsType ==
  ASSUME NEW rs \in [Indexes -> Row], NEW S \in SUBSET Indexes
  PROVE  ClaimsOf(rs, S) \in SUBSET Claim
  BY DEF ClaimsOf, Claim, Row

(* The rows after claiming and after resetting stale claims, row by row. *)
LEMMA ClaimRowsType ==
  ASSUME NEW rs \in [Indexes -> Row], \A i \in Indexes : Coherent(rs[i]),
         NEW S \in SUBSET Indexes
  PROVE  /\ ClaimRows(rs, S) \in [Indexes -> Row]
         /\ \A i \in Indexes :
              /\ Coherent(ClaimRows(rs, S)[i])
              /\ ClaimRows(rs, S)[i].version = rs[i].version
              /\ ClaimRows(rs, S)[i].observed = rs[i].observed
              /\ ClaimRows(rs, S)[i].status = "active" => rs[i].status = "active"
              /\ rs[i].status = "untracked" => ClaimRows(rs, S)[i] = rs[i]
<1>1. ASSUME NEW i \in Indexes
      PROVE  /\ ClaimRows(rs, S)[i] \in Row
             /\ Coherent(ClaimRows(rs, S)[i])
             /\ ClaimRows(rs, S)[i].version = rs[i].version
             /\ ClaimRows(rs, S)[i].observed = rs[i].observed
             /\ ClaimRows(rs, S)[i].status = "active" => rs[i].status = "active"
             /\ rs[i].status = "untracked" => ClaimRows(rs, S)[i] = rs[i]
  <2>1. CASE i \in S /\ NeedsReconciliation(rs[i])
    <3>1. ClaimRows(rs, S)[i] = Claimed(rs[i])
      BY <2>1 DEF ClaimRows
    <3>2. QED
      BY <2>1, <3>1, ClaimedType DEF NeedsReconciliation
  <2>2. CASE ~(i \in S /\ NeedsReconciliation(rs[i]))
    <3>1. ClaimRows(rs, S)[i] = rs[i]
      BY <2>2 DEF ClaimRows
    <3>2. QED
      BY <3>1
  <2>3. QED
    BY <2>1, <2>2
<1>2. QED
  BY <1>1 DEF ClaimRows

LEMMA ResetRowsType ==
  ASSUME NEW rs \in [Indexes -> Row], \A i \in Indexes : Coherent(rs[i]),
         NEW fresh, fresh = [i \in Indexes |-> ResetIfStale(rs[i])]
  PROVE  /\ fresh \in [Indexes -> Row]
         /\ \A i \in Indexes :
              /\ Coherent(fresh[i])
              /\ fresh[i].version = rs[i].version
              /\ fresh[i].observed = rs[i].observed
              /\ fresh[i].status = "active" <=> rs[i].status = "active"
              /\ fresh[i].status = "untracked" <=> rs[i].status = "untracked"
  BY ResetType

(* One claim settled: the rows, executors and loop stay well typed. *)
LEMMA SettleType ==
  ASSUME TypeOK, NEW e \in Executors, NEW c \in exec[e].batch, NEW r \in Row, Settle(e, c, r)
  PROVE  /\ rows' \in [Indexes -> Row]
         /\ exec' \in [Executors -> Exec]
         /\ loop' \in Executors \cup {Free}
<1>1. c.index \in Indexes /\ exec[e].batch \ {c} \in SUBSET Claim
  BY ExecFields, ClaimFields
<1>2. At("run", exec[e].batch \ {c}, 0, 0) \in Exec
  BY <1>1, AtType DEF Phase
<1>3. QED
  BY <1>1, <1>2 DEF Settle, TypeOK

LEMMA RowCoherent ==
  ASSUME TypeOK, StatusMatchesVersions, NEW i \in Indexes
  PROVE  rows[i] \in Row /\ Coherent(rows[i])
  BY DEF TypeOK, StatusMatchesVersions

(* The row an executor writes when it is done with a claim. *)
LEMMA SettledRow ==
  ASSUME TypeOK, StatusMatchesVersions, NEW e \in Executors, NEW c \in exec[e].batch,
         NEW r, r \in {Failed(rows[c.index]), Finished(rows[c.index], c.target, "active"),
                       Finished(rows[c.index], c.target, "queued")}
  PROVE  /\ r \in Row /\ Coherent(r)
         /\ r.version = rows[c.index].version
         /\ r.status = "untracked" <=> rows[c.index].status = "untracked"
         /\ \/ r.observed = rows[c.index].observed
            \/ r.observed > rows[c.index].observed /\ r.observed = r.version
<1>1. c.index \in Indexes /\ c.target \in Nat
  BY ExecFields, ClaimFields
<1>2. rows[c.index] \in Row /\ Coherent(rows[c.index])
  BY <1>1, RowCoherent
<1>3. QED
  BY <1>1, <1>2 DEF Failed, Finished, Row, RowWith, Status, Coherent

LEMMA RequestRowsType ==
  ASSUME TypeOK, StatusMatchesVersions, NEW S \in SUBSET Indexes
  PROVE  /\ RequestRows(S) \in [Indexes -> Row]
         /\ RequestSettings(S) \in [Indexes -> Nat]
         /\ \A i \in Indexes :
              /\ Coherent(RequestRows(S)[i])
              /\ RequestRows(S)[i].observed = rows[i].observed
              /\ i \in S => RequestRows(S)[i].version = rows[i].version + 1
              /\ i \in S => RequestRows(S)[i].status = "pending"
              /\ i \notin S => RequestRows(S)[i] = rows[i]
<1>1. \A i \in Indexes : rows[i] \in Row /\ Coherent(rows[i])
  BY RowCoherent
<1>2. \A i \in Indexes : i \in S => RequestRows(S)[i] = Requested(rows[i])
  BY DEF RequestRows
<1>3. \A i \in Indexes : i \notin S => RequestRows(S)[i] = rows[i]
  BY DEF RequestRows
<1>4. ASSUME NEW i \in Indexes
      PROVE  RequestRows(S)[i] \in Row /\ Coherent(RequestRows(S)[i])
             /\ RequestRows(S)[i].observed = rows[i].observed
             /\ (i \in S => RequestRows(S)[i].version = rows[i].version + 1)
             /\ (i \in S => RequestRows(S)[i].status = "pending")
  BY <1>1, <1>2, <1>3, RequestedType
<1>5. QED
  BY <1>3, <1>4 DEF RequestRows, RequestSettings, TypeOK

LEMMA TargetsType ==
  ASSUME NEW ds \in Scopes, NEW f \in BOOLEAN
  PROVE  RebuildTargets(ds, f) \in SUBSET Indexes
  BY DEF RebuildTargets

(* The rows after reconcile_once and after a rebuild in sync mode. *)
LEMMA ReconciledRows ==
  ASSUME NEW rs \in [Indexes -> Row], \A i \in Indexes : Coherent(rs[i]),
         NEW S \in SUBSET Indexes,
         NEW fresh, fresh = [i \in Indexes |-> ResetIfStale(rs[i])]
  PROVE  /\ ClaimRows(fresh, S) \in [Indexes -> Row]
         /\ ClaimsOf(fresh, S) \in SUBSET Claim
         /\ \A i \in Indexes :
              /\ Coherent(ClaimRows(fresh, S)[i])
              /\ ClaimRows(fresh, S)[i].version = rs[i].version
              /\ ClaimRows(fresh, S)[i].observed = rs[i].observed
              /\ ClaimRows(fresh, S)[i].status = "active" => rs[i].status = "active"
              /\ rs[i] = NoRow => ClaimRows(fresh, S)[i] = NoRow
         /\ \A c \in ClaimsOf(fresh, S) :
              c.index \in S /\ c.target = rs[c.index].version /\ rs[c.index] # NoRow
<1>1. /\ fresh \in [Indexes -> Row]
      /\ \A i \in Indexes :
           /\ Coherent(fresh[i])
           /\ fresh[i].version = rs[i].version
           /\ fresh[i].observed = rs[i].observed
           /\ fresh[i].status = "active" <=> rs[i].status = "active"
           /\ fresh[i].status = "untracked" <=> rs[i].status = "untracked"
  BY ResetRowsType
<1>2. ClaimsOf(fresh, S) \in SUBSET Claim
  BY <1>1, ClaimsType
<1>3. \A i \in Indexes : rs[i] = NoRow <=> rs[i].status = "untracked"
  BY DEF Coherent, NoRow, RowWith
<1>4. \A i \in Indexes : fresh[i].status = "untracked" => fresh[i] = NoRow
  BY <1>1 DEF Coherent
<1>5. /\ ClaimRows(fresh, S) \in [Indexes -> Row]
      /\ \A i \in Indexes :
           /\ Coherent(ClaimRows(fresh, S)[i])
           /\ ClaimRows(fresh, S)[i].version = fresh[i].version
           /\ ClaimRows(fresh, S)[i].observed = fresh[i].observed
           /\ ClaimRows(fresh, S)[i].status = "active" => fresh[i].status = "active"
           /\ fresh[i].status = "untracked" => ClaimRows(fresh, S)[i] = fresh[i]
  BY <1>1, ClaimRowsType
<1>6. \A c \in ClaimsOf(fresh, S) :
        c.index \in S /\ c.target = rs[c.index].version /\ rs[c.index] # NoRow
  <2>1. ASSUME NEW c \in ClaimsOf(fresh, S)
        PROVE  c.index \in S /\ c.target = rs[c.index].version /\ rs[c.index] # NoRow
    <3>1. PICK i \in S : /\ c = [index |-> i, target |-> fresh[i].version]
                         /\ NeedsReconciliation(fresh[i])
      BY DEF ClaimsOf
    <3>2. fresh[i].status # "untracked"
      BY <3>1 DEF NeedsReconciliation
    <3>3. QED
      BY <1>1, <1>3, <3>1, <3>2
  <2>2. QED
    BY <2>1
<1>7. QED
  BY <1>1, <1>2, <1>3, <1>4, <1>5, <1>6

(***************************************************************************)
(* Type correctness and coherence of the rows.                             *)
(***************************************************************************)
LEMMA InitTyped == Init => TypeOK /\ StatusMatchesVersions
<1> SUFFICES ASSUME Init PROVE TypeOK /\ StatusMatchesVersions
  OBVIOUS
<1>1. NoRow \in Row /\ Coherent(NoRow) /\ Idle \in Exec
  BY NoRowType, IdleType
<1>2. QED
  BY <1>1, DocumentIndexAssumption DEF Init, TypeOK, StatusMatchesVersions

LEMMA NextTyped ==
  ASSUME TypeOK, StatusMatchesVersions, [Next]_vars
  PROVE  TypeOK' /\ StatusMatchesVersions'
<1>1. ASSUME NEW d \in Docs, ImportAsync(d)
      PROVE  TypeOK' /\ StatusMatchesVersions'
  <2>1. \A j \in Indexes : Requested(rows[j]) \in Row /\ Coherent(Requested(rows[j]))
    BY RowCoherent, RequestedType
  <2>2. QED
    BY <1>1, <2>1, RowCoherent DEF ImportAsync, TypeOK, StatusMatchesVersions
<1>2. ASSUME NEW d \in Docs, DeleteDocument(d)
      PROVE  TypeOK' /\ StatusMatchesVersions'
  BY <1>2, NoRowType, RowCoherent DEF DeleteDocument, TypeOK, StatusMatchesVersions
<1>3. ASSUME NEW d \in Docs, CrashInImport(d)
      PROVE  TypeOK' /\ StatusMatchesVersions'
  <2>1. worker' \in [Workers -> {"off", "on", "stopping"}]
    BY <1>3 DEF CrashInImport, Restart
  <2>2. switches' \in Nat /\ crashes' \in Nat
    BY <1>3 DEF CrashInImport, Restart, TypeOK
  <2>3. QED
    BY <1>3, <2>1, <2>2, IdleType DEF CrashInImport, Restart, TypeOK, StatusMatchesVersions
<1>4. ASSUME NEW c \in Callers, NEW d \in Docs, ImportSyncStart(c, d)
      PROVE  TypeOK' /\ StatusMatchesVersions'
  <2>1. At("importing", {}, settings, d) \in Exec
    BY AtType DEF Phase, TypeOK
  <2>2. QED
    BY <1>4, <2>1 DEF ImportSyncStart, TypeOK, StatusMatchesVersions
<1>5. ASSUME NEW c \in Callers, ImportSyncFinish(c)
      PROVE  TypeOK' /\ StatusMatchesVersions'
  <2>1. exec[c].doc \in Docs \cup {0} /\ exec[c].built \in Nat
    BY ExecFields DEF Executors
  <2>2. \A t \in IndexTypes :
          LET r == RowWith(IF t = Vector THEN "active" ELSE "queued", 1, 1, FALSE)
          IN  r \in Row /\ Coherent(r)
    BY DEF RowWith, Row, Status, Coherent
  <2>3. \A j \in Indexes : j[2] \in IndexTypes
    BY IndexPair
  <2>4. PICK enqueued \in BOOLEAN :
          /\ docs' = [docs EXCEPT ![exec[c].doc] = "stored"]
          /\ chunks' = [chunks EXCEPT ![exec[c].doc] = exec[c].built]
          /\ rows' = [j \in Indexes |->
                        IF j[1] = exec[c].doc /\ (j[2] = Vector \/ enqueued)
                        THEN RowWith(IF j[2] = Vector THEN "active" ELSE "queued", 1, 1, FALSE)
                        ELSE rows[j]]
          /\ asked' = [j \in Indexes |->
                        IF j[1] = exec[c].doc /\ (j[2] = Vector \/ enqueued)
                        THEN exec[c].built ELSE asked[j]]
    BY <1>5 DEF ImportSyncFinish
  <2>5. rows' \in [Indexes -> Row] /\ \A j \in Indexes : Coherent(rows'[j])
    BY <2>2, <2>3, <2>4, RowCoherent
  <2>6. docs' \in [Docs -> {"absent", "created", "stored", "deleted"}]
        /\ chunks' \in [Docs -> Nat] /\ asked' \in [Indexes -> Nat]
    BY <2>1, <2>4 DEF TypeOK
  <2>7. QED
    BY <1>5, <2>5, <2>6, IdleType DEF ImportSyncFinish, TypeOK, StatusMatchesVersions
<1>6. ASSUME NEW c \in Callers, ImportSyncFail(c)
      PROVE  TypeOK' /\ StatusMatchesVersions'
  BY <1>6, IdleType DEF ImportSyncFail, TypeOK, StatusMatchesVersions
<1>7. ASSUME NEW c \in Callers, CancelCaller(c)
      PROVE  TypeOK' /\ StatusMatchesVersions'
  BY <1>7, IdleType DEF CancelCaller, TypeOK, StatusMatchesVersions
<1>8. ASSUME NEW c \in Callers, CrashInSyncImport(c)
      PROVE  TypeOK' /\ StatusMatchesVersions'
  <2>1. worker' \in [Workers -> {"off", "on", "stopping"}]
    BY <1>8 DEF CrashInSyncImport, Restart
  <2>2. switches' \in Nat /\ crashes' \in Nat
    BY <1>8 DEF CrashInSyncImport, Restart, TypeOK
  <2>3. exec[c].built \in Nat
    BY ExecFields DEF Executors
  <2>4. docs' \in [Docs -> {"absent", "created", "stored", "deleted"}]
        /\ chunks' \in [Docs -> Nat]
    <3>1. PICK left \in {"created", "stored"}, cut \in {0, exec[c].built} :
            /\ docs' = [docs EXCEPT ![exec[c].doc] = left]
            /\ chunks' = [chunks EXCEPT ![exec[c].doc] = cut]
      BY <1>8 DEF CrashInSyncImport
    <3>2. cut \in Nat
      BY <2>3
    <3>3. chunks' \in [Docs -> Nat]
      BY <3>1, <3>2 DEF TypeOK
    <3>4. docs' \in [Docs -> {"absent", "created", "stored", "deleted"}]
      BY <3>1 DEF TypeOK
    <3>5. QED
      BY <3>3, <3>4
  <2>5. QED
    BY <1>8, <2>1, <2>2, IdleType, <2>3, <2>4 DEF CrashInSyncImport, Restart, TypeOK,
       StatusMatchesVersions
<1>9. ASSUME NEW ds \in Scopes, NEW f \in BOOLEAN, RebuildAsync(ds, f)
      PROVE  TypeOK' /\ StatusMatchesVersions'
  BY <1>9, TargetsType, RequestRowsType DEF RebuildAsync, TypeOK, StatusMatchesVersions
<1>10. ASSUME NEW c \in Callers, NEW ds \in Scopes, NEW f \in BOOLEAN, RebuildSync(c, ds, f)
      PROVE  TypeOK' /\ StatusMatchesVersions'
  <2> DEFINE S == RebuildTargets(ds, f)
              fresh == [j \in Indexes |-> ResetIfStale(RequestRows(S)[j])]
  <2>1. S \in SUBSET Indexes
    BY TargetsType
  <2>2. RequestRows(S) \in [Indexes -> Row] /\ \A j \in Indexes : Coherent(RequestRows(S)[j])
    BY <2>1, RequestRowsType
  <2>3. ClaimRows(fresh, S) \in [Indexes -> Row] /\ ClaimsOf(fresh, S) \in SUBSET Claim
        /\ \A j \in Indexes : Coherent(ClaimRows(fresh, S)[j])
    BY <2>1, <2>2, ReconciledRows
  <2>4. At("run", ClaimsOf(fresh, S), 0, 0) \in Exec
    BY <2>3, AtType DEF Phase
  <2>5. /\ rows' = ClaimRows(fresh, S) /\ asked' = RequestSettings(S) /\ loop' = c
        /\ exec' = [exec EXCEPT ![c] = At("run", ClaimsOf(fresh, S), 0, 0)]
        /\ UNCHANGED <<docs, chunks, settings, worker, mode, switches, crashes>>
    BY <1>10 DEF RebuildSync
  <2>6. QED
    BY <2>1, <2>3, <2>4, <2>5, RequestRowsType DEF TypeOK, StatusMatchesVersions, Executors
<1>11. ASSUME NEW w \in Workers, Reconcile(w)
      PROVE  TypeOK' /\ StatusMatchesVersions'
  <2> DEFINE fresh == [j \in Indexes |-> ResetIfStale(rows[j])]
  <2>1. rows \in [Indexes -> Row] /\ \A j \in Indexes : Coherent(rows[j])
    BY DEF TypeOK, StatusMatchesVersions
  <2>2. /\ ClaimRows(fresh, Indexes) \in [Indexes -> Row]
        /\ ClaimsOf(fresh, Indexes) \in SUBSET Claim
        /\ \A j \in Indexes : Coherent(ClaimRows(fresh, Indexes)[j])
    BY <2>1, ReconciledRows
  <2>3. At("run", ClaimsOf(fresh, Indexes), 0, 0) \in Exec
    BY <2>2, AtType DEF Phase
  <2>4. /\ rows' = ClaimRows(fresh, Indexes) /\ loop' = w
        /\ exec' = [exec EXCEPT ![w] = At("run", ClaimsOf(fresh, Indexes), 0, 0)]
        /\ UNCHANGED <<docs, chunks, settings, asked, worker, mode, switches, crashes>>
    BY <1>11 DEF Reconcile
  <2>5. QED
    BY <2>2, <2>3, <2>4 DEF TypeOK, StatusMatchesVersions, Executors
<1>12. ASSUME NEW w \in Workers, SwitchToAsync(w)
      PROVE  TypeOK' /\ StatusMatchesVersions'
  BY <1>12 DEF SwitchToAsync, TypeOK, StatusMatchesVersions
<1>13. ASSUME NEW e \in Executors, StartVector(e)
      PROVE  TypeOK' /\ StatusMatchesVersions'
  <2>1. exec[e].batch \in SUBSET Claim /\ exec[e].built \in Nat /\ settings \in Nat
    BY ExecFields DEF TypeOK
  <2>2. At("embedding", exec[e].batch, settings, 0) \in Exec
    BY <2>1, AtType DEF Phase
  <2>3. QED
    BY <1>13, <2>2 DEF StartVector, TypeOK, StatusMatchesVersions
<1>14. ASSUME NEW e \in Executors, BuildGraph(e)
      PROVE  TypeOK' /\ StatusMatchesVersions'
  <2>1. PICK c \in exec[e].batch :
          \E r \in {Failed(rows[c.index]), Finished(rows[c.index], c.target, "queued")} :
            Settle(e, c, r)
    BY <1>14 DEF BuildGraph
  <2>2. PICK r \in {Failed(rows[c.index]), Finished(rows[c.index], c.target, "queued")} :
          Settle(e, c, r)
    BY <2>1
  <2>3. r \in Row /\ Coherent(r)
    BY <2>2, SettledRow
  <2>4. rows' \in [Indexes -> Row] /\ exec' \in [Executors -> Exec]
        /\ loop' \in Executors \cup {Free}
    BY <2>2, <2>3, SettleType
  <2>5. StatusMatchesVersions'
    BY <2>2, <2>3, <2>4, RowCoherent DEF Settle, StatusMatchesVersions, TypeOK
  <2>6. QED
    BY <1>14, <2>4, <2>5 DEF BuildGraph, TypeOK
<1>15. ASSUME NEW e \in Executors, MissingDocument(e)
      PROVE  TypeOK' /\ StatusMatchesVersions'
  <2>1. PICK c \in exec[e].batch :
          Settle(e, c, Failed(rows[c.index]))
    BY <1>15 DEF MissingDocument
  <2>2. Failed(rows[c.index]) \in Row
        /\ Coherent(Failed(rows[c.index]))
    BY <2>1, SettledRow
  <2>3. rows' \in [Indexes -> Row] /\ exec' \in [Executors -> Exec]
        /\ loop' \in Executors \cup {Free}
    BY <2>1, <2>2, SettleType
  <2>4. StatusMatchesVersions'
    BY <2>1, <2>2, <2>3, RowCoherent DEF Settle, StatusMatchesVersions, TypeOK
  <2>5. QED
    BY <1>15, <2>3, <2>4 DEF MissingDocument, TypeOK
<1>16. ASSUME NEW e \in Executors, EmbeddingArrived(e)
      PROVE  TypeOK' /\ StatusMatchesVersions'
  <2>1. exec[e].batch \in SUBSET Claim /\ exec[e].built \in Nat /\ settings \in Nat
    BY ExecFields DEF TypeOK
  <2>2. At("fill", exec[e].batch, exec[e].built, 0) \in Exec
    BY <2>1, AtType DEF Phase
  <2>3. chunks' \in [Docs -> Nat]
    <3>1. PICK c \in exec[e].batch : chunks' = [chunks EXCEPT ![c.index[1]] = 0]
      BY <1>16 DEF EmbeddingArrived
    <3>2. QED
      BY <3>1 DEF TypeOK
  <2>4. QED
    BY <1>16, <2>2, <2>3 DEF EmbeddingArrived, TypeOK, StatusMatchesVersions
<1>17. ASSUME NEW e \in Executors, EmbeddingFailed(e)
      PROVE  TypeOK' /\ StatusMatchesVersions'
  <2>1. PICK c \in exec[e].batch :
          Settle(e, c, Failed(rows[c.index]))
    BY <1>17 DEF EmbeddingFailed
  <2>2. Failed(rows[c.index]) \in Row
        /\ Coherent(Failed(rows[c.index]))
    BY <2>1, SettledRow
  <2>3. rows' \in [Indexes -> Row] /\ exec' \in [Executors -> Exec]
        /\ loop' \in Executors \cup {Free}
    BY <2>1, <2>2, SettleType
  <2>4. StatusMatchesVersions'
    BY <2>1, <2>2, <2>3, RowCoherent DEF Settle, StatusMatchesVersions, TypeOK
  <2>5. QED
    BY <1>17, <2>3, <2>4 DEF EmbeddingFailed, TypeOK
<1>18. ASSUME NEW e \in Executors, FillChunks(e)
      PROVE  TypeOK' /\ StatusMatchesVersions'
  <2>1. PICK c \in exec[e].batch :
          IF Stored(c.index[1])
          THEN /\ chunks' = [chunks EXCEPT ![c.index[1]] = exec[e].built]
               /\ exec' = [exec EXCEPT ![e] = At("settle", exec[e].batch, exec[e].built, 0)]
               /\ UNCHANGED <<rows, loop>>
          ELSE Settle(e, c, Failed(rows[c.index])) /\ UNCHANGED chunks
    BY <1>18 DEF FillChunks
  <2>2. UNCHANGED <<docs, settings, asked, worker, mode, switches, crashes>>
    BY <1>18 DEF FillChunks
  <2>3. CASE Stored(c.index[1])
    <3>1. exec[e].batch \in SUBSET Claim /\ exec[e].built \in Nat
      BY ExecFields
    <3>2. At("settle", exec[e].batch, exec[e].built, 0) \in Exec
      BY <3>1, AtType DEF Phase
    <3>3. QED
      BY <2>1, <2>2, <2>3, <3>1, <3>2 DEF TypeOK, StatusMatchesVersions
  <2>4. CASE ~Stored(c.index[1])
    <3>1. Settle(e, c, Failed(rows[c.index])) /\ UNCHANGED chunks
      BY <2>1, <2>4
    <3>2. Failed(rows[c.index]) \in Row /\ Coherent(Failed(rows[c.index]))
      BY SettledRow
    <3>3. rows' \in [Indexes -> Row] /\ exec' \in [Executors -> Exec]
          /\ loop' \in Executors \cup {Free}
      BY <3>1, <3>2, SettleType
    <3>4. StatusMatchesVersions'
      BY <3>1, <3>2, <3>3, RowCoherent DEF Settle, StatusMatchesVersions, TypeOK
    <3>5. QED
      BY <2>2, <3>1, <3>3, <3>4 DEF TypeOK
  <2>5. QED
    BY <2>3, <2>4
<1>19. ASSUME NEW e \in Executors, CompleteVector(e)
      PROVE  TypeOK' /\ StatusMatchesVersions'
  <2>1. PICK c \in exec[e].batch :
          Settle(e, c, Finished(rows[c.index], c.target, "active"))
    BY <1>19 DEF CompleteVector
  <2>2. Finished(rows[c.index], c.target, "active") \in Row
        /\ Coherent(Finished(rows[c.index], c.target, "active"))
    BY <2>1, SettledRow
  <2>3. rows' \in [Indexes -> Row] /\ exec' \in [Executors -> Exec]
        /\ loop' \in Executors \cup {Free}
    BY <2>1, <2>2, SettleType
  <2>4. StatusMatchesVersions'
    BY <2>1, <2>2, <2>3, RowCoherent DEF Settle, StatusMatchesVersions, TypeOK
  <2>5. QED
    BY <1>19, <2>3, <2>4 DEF CompleteVector, TypeOK
<1>20. ASSUME NEW e \in Executors, EndBatch(e)
      PROVE  TypeOK' /\ StatusMatchesVersions'
  BY <1>20, IdleType DEF EndBatch, TypeOK, StatusMatchesVersions
<1>21. ASSUME NEW i \in Indexes, Age(i)
      PROVE  TypeOK' /\ StatusMatchesVersions'
  <2>1. RowWith("creating", rows[i].version, rows[i].observed, TRUE) \in Row
        /\ Coherent(RowWith("creating", rows[i].version, rows[i].observed, TRUE))
    BY <1>21, RowCoherent DEF Age, Row, RowWith, Status, Coherent
  <2>2. QED
    BY <1>21, <2>1 DEF Age, TypeOK, StatusMatchesVersions
<1>22. ASSUME EditSettings
      PROVE  TypeOK' /\ StatusMatchesVersions'
  BY <1>22 DEF EditSettings, TypeOK, StatusMatchesVersions
<1>23. ASSUME SwitchToSync
      PROVE  TypeOK' /\ StatusMatchesVersions'
  BY <1>23 DEF SwitchToSync, TypeOK, StatusMatchesVersions
<1>24. ASSUME Crash
      PROVE  TypeOK' /\ StatusMatchesVersions'
  <2>1. worker' \in [Workers -> {"off", "on", "stopping"}]
    BY <1>24 DEF Crash, Restart
  <2>2. switches' \in Nat /\ crashes' \in Nat
    BY <1>24 DEF Crash, Restart, TypeOK
  <2>3. QED
    BY <1>24, <2>1, <2>2, IdleType DEF Crash, Restart, TypeOK, StatusMatchesVersions
<1>25. CASE UNCHANGED vars
  BY <1>25 DEF vars, TypeOK, StatusMatchesVersions
<1>26. QED
  BY <1>1, <1>2, <1>3, <1>4, <1>5, <1>6, <1>7, <1>8, <1>9, <1>10, <1>11,
     <1>12, <1>13, <1>14, <1>15, <1>16, <1>17, <1>18, <1>19, <1>20, <1>21,
     <1>22, <1>23, <1>24, <1>25
     DEF Next, ExecutorStep, vars

(* Every behaviour is well typed, and the status and versions of every index row
   agree, for any number of documents, workers and callers. *)
THEOREM RowsAreCoherent == Spec => [](TypeOK /\ StatusMatchesVersions)
<1>1. Init => TypeOK /\ StatusMatchesVersions
  BY InitTyped
<1>2. TypeOK /\ StatusMatchesVersions /\ [Next]_vars => TypeOK' /\ StatusMatchesVersions'
  BY NextTyped
<1>3. QED
  BY <1>1, <1>2, PTL DEF Spec

(***************************************************************************)
(* What a step does to a row, and to an executor.                          *)
(***************************************************************************)
\* A row stays with its document and its request, is requested anew, comes with its document
\* or goes with it.
RowStays(i) ==
    /\ docs'[i[1]] = docs[i[1]] /\ asked'[i] = asked[i]
    /\ rows'[i].version = rows[i].version
    /\ rows[i] = NoRow => rows'[i] = NoRow

RowAsked(i) ==
    /\ docs[i[1]] = "stored" /\ docs'[i[1]] = "stored"
    /\ asked'[i] = settings /\ rows'[i].version > rows[i].version

RowComes(i) ==
    /\ docs[i[1]] = "absent" /\ docs'[i[1]] # "absent"
    /\ asked'[i] <= settings
    /\ docs'[i[1]] # "stored" => rows'[i] = NoRow

RowGoes(i) == docs'[i[1]] = "deleted" /\ rows'[i] = NoRow /\ asked'[i] = 0

\* What it has observed stays, or becomes the newest version.
Observes(i) ==
    \/ rows'[i].observed = rows[i].observed
    \/ rows'[i].observed > rows[i].observed /\ rows'[i].observed = rows'[i].version
    \/ docs'[i[1]] = "deleted"

RowMoves(i) ==
    /\ RowStays(i) \/ RowAsked(i) \/ RowComes(i) \/ RowGoes(i)
    /\ Observes(i)

\* An executor stands still, is idle, has claims to run, or is one stage further with a build.
Stands(e) ==
    /\ exec'[e] = exec[e]
    /\ loop = e => loop' = e /\ (exec[e].phase = "settle" => chunks' = chunks)

Imports(e) == exec'[e].phase = "importing" /\ exec'[e].batch = {} /\ exec'[e].built = settings

Runs(e) ==
    /\ exec'[e].phase = "run" /\ exec'[e].built = 0 /\ loop' = e
    /\ \A c \in exec'[e].batch :
        c \in exec[e].batch \/ (docs'[c.index[1]] = "stored" /\ c.target = rows'[c.index].version)

Embeds(e) ==
    exec'[e].phase = "embedding" /\ exec'[e].batch = exec[e].batch /\ exec'[e].built = settings

Fills(e) ==
    /\ exec[e].phase = "embedding" /\ exec'[e].phase = "fill" /\ loop' = e
    /\ exec'[e].batch = exec[e].batch /\ exec'[e].built = exec[e].built

Publishes(e) ==
    /\ exec[e].phase = "fill" /\ exec'[e].phase = "settle" /\ loop' = e
    /\ exec'[e].batch = exec[e].batch /\ exec'[e].built = exec[e].built
    /\ \A c \in exec[e].batch : IsNext(c, exec[e].batch) => chunks'[c.index[1]] = exec[e].built

Moves(e) ==
    \/ Stands(e) \/ exec'[e] = Idle \/ Imports(e) \/ Runs(e) \/ Embeds(e)
    \/ Fills(e) \/ Publishes(e)

LEMMA AtFields ==
  ASSUME NEW p, NEW b, NEW s, NEW d
  PROVE  /\ At(p, b, s, d).phase = p /\ At(p, b, s, d).batch = b
         /\ At(p, b, s, d).built = s /\ At(p, b, s, d).doc = d
  BY DEF At

(* Two claims that are both the next one are of the same document. *)
LEMMA OneNext ==
  ASSUME TypeOK, NEW e \in Executors, NEW c \in exec[e].batch, NEW o \in exec[e].batch,
         IsNext(c, exec[e].batch), IsNext(o, exec[e].batch)
  PROVE  c.index[1] = o.index[1]
<1>1. c.index[1] \in Docs /\ o.index[1] \in Docs
  BY ExecFields, ClaimFields
<1>2. Precedes(c.index, o.index) /\ Precedes(o.index, c.index)
  BY DEF IsNext
<1>3. Docs \subseteq Nat
  BY DocumentIndexAssumption DEF Docs
<1>4. c.index[1] \in Nat /\ o.index[1] \in Nat
  BY <1>1, <1>3
<1>5. QED
  BY <1>2, <1>4 DEF Precedes

(* An executor writes the row of its claim and goes on with the others. *)
LEMMA SettleMoves ==
  ASSUME TypeOK, StatusMatchesVersions, NEW e \in Executors, NEW c \in exec[e].batch,
         NEW r \in {Failed(rows[c.index]), Finished(rows[c.index], c.target, "active"),
                    Finished(rows[c.index], c.target, "queued")},
         Settle(e, c, r), UNCHANGED <<docs, asked>>
  PROVE  /\ \A i \in Indexes : RowMoves(i)
         /\ Runs(e)
<1>1. /\ r \in Row /\ Coherent(r)
      /\ r.version = rows[c.index].version
      /\ r.status = "untracked" <=> rows[c.index].status = "untracked"
      /\ \/ r.observed = rows[c.index].observed
         \/ r.observed > rows[c.index].observed /\ r.observed = r.version
  BY SettledRow
<1>2. c.index \in Indexes /\ Coherent(rows[c.index])
  BY ExecFields, ClaimFields, RowCoherent
<1>3. rows[c.index] = NoRow => r = NoRow
  BY <1>1 DEF Coherent, NoRow, RowWith
<1>4. rows' = [rows EXCEPT ![c.index] = r] /\ rows \in [Indexes -> Row]
  BY DEF Settle, TypeOK
<1>5. rows'[c.index] = r /\ \A i \in Indexes : i # c.index => rows'[i] = rows[i]
  BY <1>2, <1>4
<1>6. \A i \in Indexes : RowStays(i) /\ Observes(i)
  BY <1>1, <1>3, <1>5 DEF RowStays, Observes
<1>7. exec'[e] = At("run", exec[e].batch \ {c}, 0, 0) /\ loop' = e
  BY DEF Settle, TypeOK
<1>8. Runs(e)
  BY <1>7, AtFields DEF Runs
<1>9. QED
  BY <1>6, <1>8 DEF RowMoves

(* What the reconciler keeps of a row, and which claims it makes. *)
LEMMA ReconciledKept ==
  ASSUME NEW rs \in [Indexes -> Row], \A i \in Indexes : Coherent(rs[i]),
         NEW S \in SUBSET Indexes,
         NEW fresh, \A i \in Indexes : fresh[i] = ResetIfStale(rs[i])
  PROVE  /\ \A i \in Indexes :
              /\ ClaimRows(fresh, S)[i].version = rs[i].version
              /\ ClaimRows(fresh, S)[i].observed = rs[i].observed
              /\ ClaimRows(fresh, S)[i].status = "active" => rs[i].status = "active"
              /\ rs[i] = NoRow => ClaimRows(fresh, S)[i] = NoRow
         /\ \A c \in ClaimsOf(fresh, S) :
              c.index \in S /\ c.target = rs[c.index].version /\ rs[c.index] # NoRow
<1>1. ASSUME NEW i \in Indexes
      PROVE  /\ fresh[i].version = rs[i].version /\ fresh[i].observed = rs[i].observed
             /\ fresh[i].status = "active" => rs[i].status = "active"
             /\ fresh[i].status = "untracked" <=> rs[i].status = "untracked"
             /\ fresh[i].status = "untracked" => fresh[i] = NoRow
             /\ rs[i] = NoRow <=> rs[i].status = "untracked"
  <2>1. rs[i] \in Row /\ Coherent(rs[i]) /\ fresh[i] = ResetIfStale(rs[i])
    OBVIOUS
  <2>2. QED
    BY <2>1, ResetType DEF Coherent, NoRow, RowWith
<1>2. ASSUME NEW i \in Indexes
      PROVE  /\ ClaimRows(fresh, S)[i].version = rs[i].version
             /\ ClaimRows(fresh, S)[i].observed = rs[i].observed
             /\ ClaimRows(fresh, S)[i].status = "active" => rs[i].status = "active"
             /\ rs[i] = NoRow => ClaimRows(fresh, S)[i] = NoRow
  <2>1. CASE i \in S /\ NeedsReconciliation(fresh[i])
    <3>1. ClaimRows(fresh, S)[i] = Claimed(fresh[i]) /\ fresh[i].status # "untracked"
      BY <2>1 DEF ClaimRows, NeedsReconciliation
    <3>2. QED
      BY <1>1, <3>1 DEF Claimed, RowWith
  <2>2. CASE ~(i \in S /\ NeedsReconciliation(fresh[i]))
    <3>1. ClaimRows(fresh, S)[i] = fresh[i]
      BY <2>2 DEF ClaimRows
    <3>2. QED
      BY <1>1, <3>1
  <2>3. QED
    BY <2>1, <2>2
<1>3. ASSUME NEW c \in ClaimsOf(fresh, S)
      PROVE  c.index \in S /\ c.target = rs[c.index].version /\ rs[c.index] # NoRow
  <2>1. PICK i \in S : /\ c = [index |-> i, target |-> fresh[i].version]
                       /\ NeedsReconciliation(fresh[i])
    BY DEF ClaimsOf
  <2>2. fresh[i].status # "untracked"
    BY <2>1 DEF NeedsReconciliation
  <2>3. QED
    BY <1>1, <2>1, <2>2
<1>4. QED
  BY <1>2, <1>3

(* The reconciler of a worker claims rows that exist, at the version they have. *)
LEMMA ReconcileRows ==
  ASSUME TypeOK, StatusMatchesVersions,
         NEW fresh, \A i \in Indexes : fresh[i] = ResetIfStale(rows[i])
  PROVE  /\ \A i \in Indexes :
              /\ ClaimRows(fresh, Indexes)[i].version = rows[i].version
              /\ ClaimRows(fresh, Indexes)[i].observed = rows[i].observed
              /\ rows[i] = NoRow => ClaimRows(fresh, Indexes)[i] = NoRow
         /\ \A k \in ClaimsOf(fresh, Indexes) :
              k.index \in Indexes /\ k.target = rows[k.index].version /\ rows[k.index] # NoRow
<1>1. rows \in [Indexes -> Row] /\ \A j \in Indexes : Coherent(rows[j])
  BY DEF TypeOK, StatusMatchesVersions
<1>2. Indexes \in SUBSET Indexes
  OBVIOUS
<1>3. QED
  BY <1>1, <1>2, ReconciledKept

(* A rebuild in sync mode claims what it requested, at the version it requested. *)
LEMMA RebuiltRows ==
  ASSUME TypeOK, StatusMatchesVersions, NEW S \in SUBSET Indexes,
         NEW fresh, \A i \in Indexes : fresh[i] = ResetIfStale(RequestRows(S)[i])
  PROVE  /\ \A i \in Indexes :
              /\ ClaimRows(fresh, S)[i].version = RequestRows(S)[i].version
              /\ ClaimRows(fresh, S)[i].observed = RequestRows(S)[i].observed
              /\ RequestRows(S)[i] = NoRow => ClaimRows(fresh, S)[i] = NoRow
         /\ \A k \in ClaimsOf(fresh, S) :
              k.index \in S /\ k.target = RequestRows(S)[k.index].version
<1>1. RequestRows(S) \in [Indexes -> Row] /\ \A j \in Indexes : Coherent(RequestRows(S)[j])
  BY RequestRowsType
<1>2. QED
  BY <1>1, ReconciledKept

(* Every step is made of such moves. *)
LEMMA StepMoves ==
  ASSUME TypeOK, StatusMatchesVersions, RowsHaveDocs, ImportsDisjoint, AskedKnown, SectionHeld,
         [Next]_vars
  PROVE  /\ \A i \in Indexes : RowMoves(i)
         /\ \A e \in Executors : Moves(e)
         /\ settings' >= settings
<1> DEFINE RowsMove == \A i \in Indexes : RowMoves(i)
           ExecsMove == \A e \in Executors : Moves(e)
           Goal == RowsMove /\ ExecsMove /\ settings' >= settings
<1>0. /\ settings \in Nat /\ exec \in [Executors -> Exec] /\ rows \in [Indexes -> Row]
      /\ docs \in [Docs -> {"absent", "created", "stored", "deleted"}]
      /\ chunks \in [Docs -> Nat] /\ asked \in [Indexes -> Nat]
      /\ Free \notin Executors
      /\ Workers \subseteq Executors /\ Callers \subseteq Executors
      /\ \A i \in Indexes : i[1] \in Docs
  BY IndexPair, DocumentIndexAssumption DEF TypeOK, Executors
<1> USE <1>0
<1>1. ASSUME UNCHANGED <<docs, rows, asked>> PROVE RowsMove
  BY <1>1 DEF RowMoves, RowStays, Observes
<1>2. ASSUME NEW x \in Executors, NEW y, exec' = [exec EXCEPT ![x] = y], Moves(x),
             loop \in {x, Free}
      PROVE  ExecsMove
  <2>1. ASSUME NEW e \in Executors, e # x PROVE Stands(e)
    BY <1>2, <2>1 DEF Stands
  <2>2. QED
    BY <1>2, <2>1 DEF Moves
<1>3. ASSUME exec' = exec, loop' = loop, chunks' = chunks \/ loop = Free PROVE ExecsMove
  BY <1>3 DEF Moves, Stands
<1>4. ASSUME exec' = [e \in Executors |-> Idle] PROVE ExecsMove
  BY <1>4 DEF Moves
<1>5. ASSUME NEW d \in Docs, ImportAsync(d) PROVE Goal
  <2>1. ASSUME NEW i \in Indexes PROVE RowMoves(i)
    <3>1. CASE i[1] = d
      <4>1. docs[d] = "absent" /\ docs'[d] = "stored" /\ asked'[i] = settings
        BY <1>5, <3>1 DEF ImportAsync, Unused
      <4>2. rows'[i] = Requested(rows[i]) /\ rows[i] = NoRow
        BY <1>5, <3>1, <4>1 DEF ImportAsync, RowsHaveDocs
      <4>3. rows'[i].observed = rows[i].observed
        BY <4>2 DEF Requested, NewRow, NoRow, RowWith
      <4>4. QED
        BY <3>1, <4>1, <4>3 DEF RowMoves, RowComes, Observes
    <3>2. CASE i[1] # d
      BY <1>5, <3>2 DEF ImportAsync, RowMoves, RowStays, Observes
    <3>3. QED
      BY <3>1, <3>2
  <2>2. QED
    BY <1>3, <1>5, <2>1 DEF ImportAsync
<1>6. ASSUME NEW d \in Docs, DeleteDocument(d) PROVE Goal
  <2>1. ASSUME NEW i \in Indexes PROVE RowMoves(i)
    <3>1. CASE i[1] = d
      BY <1>6, <3>1 DEF DeleteDocument, RowMoves, RowGoes, Observes
    <3>2. CASE i[1] # d
      BY <1>6, <3>2 DEF DeleteDocument, RowMoves, RowStays, Observes
    <3>3. QED
      BY <3>1, <3>2
  <2>2. QED
    BY <1>3, <1>6, <2>1 DEF DeleteDocument
<1>7. ASSUME NEW d \in Docs, docs[d] = "absent", NEW left \in {"created", "stored"},
             docs' = [docs EXCEPT ![d] = left], UNCHANGED <<rows, asked, settings>>,
             exec' = [e \in Executors |-> Idle]
      PROVE  Goal
  <2>1. ASSUME NEW i \in Indexes PROVE RowMoves(i)
    <3>1. CASE i[1] = d
      <4>1. docs'[d] # "absent" /\ rows[i] = NoRow /\ asked[i] <= settings
        BY <1>7, <3>1 DEF RowsHaveDocs, AskedKnown
      <4>2. QED
        BY <1>7, <3>1, <4>1 DEF RowMoves, RowComes, Observes
    <3>2. CASE i[1] # d
      BY <1>7, <3>2 DEF RowMoves, RowStays, Observes
    <3>3. QED
      BY <3>1, <3>2
  <2>2. QED
    BY <1>4, <1>7, <2>1
<1>8. ASSUME NEW d \in Docs, CrashInImport(d) PROVE Goal
  BY <1>7, <1>8 DEF CrashInImport, Restart, Unused
<1>9. ASSUME NEW c \in Callers, NEW d \in Docs, ImportSyncStart(c, d) PROVE Goal
  <2>1. exec' = [exec EXCEPT ![c] = At("importing", {}, settings, d)] /\ loop = Free
    BY <1>9 DEF ImportSyncStart
  <2>2. Imports(c)
    BY <2>1, AtFields DEF Imports
  <2>3. Moves(c) /\ c \in Executors
    BY <2>2 DEF Moves
  <2>4. ExecsMove
    BY <1>2, <2>1, <2>3
  <2>5. UNCHANGED <<docs, rows, asked, settings>>
    BY <1>9 DEF ImportSyncStart
  <2>6. QED
    BY <1>1, <2>4, <2>5
<1>10. ASSUME NEW c \in Callers, ImportSyncFinish(c) PROVE Goal
  <2> DEFINE d == exec[c].doc
  <2>1. d \in Docs /\ docs[d] = "absent" /\ exec[c].built <= settings
    BY <1>10 DEF ImportSyncFinish, ImportsDisjoint, AskedKnown
  <2>2. PICK enqueued \in BOOLEAN :
          /\ docs' = [docs EXCEPT ![d] = "stored"]
          /\ rows' = [j \in Indexes |->
                        IF j[1] = d /\ (j[2] = Vector \/ enqueued)
                        THEN RowWith(IF j[2] = Vector THEN "active" ELSE "queued", 1, 1, FALSE)
                        ELSE rows[j]]
          /\ asked' = [j \in Indexes |->
                        IF j[1] = d /\ (j[2] = Vector \/ enqueued)
                        THEN exec[c].built ELSE asked[j]]
    BY <1>10 DEF ImportSyncFinish
  <2>3. ASSUME NEW i \in Indexes PROVE RowMoves(i)
    <3>1. CASE i[1] = d
      <4>1. rows[i] = NoRow /\ docs[i[1]] = "absent" /\ docs'[i[1]] = "stored"
        BY <2>1, <2>2, <3>1 DEF RowsHaveDocs
      <4>2. asked'[i] <= settings
        BY <2>1, <2>2, <3>1 DEF AskedKnown
      <4>3. Observes(i)
        BY <2>2, <3>1, <4>1 DEF Observes, RowWith, NoRow
      <4>4. QED
        BY <4>1, <4>2, <4>3 DEF RowMoves, RowComes
    <3>2. CASE i[1] # d
      BY <2>1, <2>2, <3>2 DEF RowMoves, RowStays, Observes
    <3>3. QED
      BY <3>1, <3>2
  <2>4. exec' = [exec EXCEPT ![c] = Idle] /\ loop = Free /\ settings' = settings
    BY <1>10 DEF ImportSyncFinish
  <2>5. c \in Executors /\ Moves(c)
    BY <2>4 DEF Moves
  <2>6. ExecsMove
    BY <1>2, <2>4, <2>5
  <2>7. QED
    BY <2>3, <2>4, <2>6
<1>11. ASSUME NEW c \in Callers, ImportSyncFail(c) \/ CancelCaller(c) PROVE Goal
  BY <1>1, <1>2, <1>11 DEF ImportSyncFail, CancelCaller, Moves
<1>12. ASSUME NEW c \in Callers, CrashInSyncImport(c) PROVE Goal
  <2>1. exec[c].doc \in Docs /\ docs[exec[c].doc] = "absent"
    BY <1>12 DEF CrashInSyncImport, ImportsDisjoint
  <2>2. QED
    BY <1>7, <1>12, <2>1 DEF CrashInSyncImport, Restart
<1>13. ASSUME NEW ds \in Scopes, NEW f \in BOOLEAN, NEW S, S = RebuildTargets(ds, f),
              UNCHANGED <<docs, settings>>, asked' = RequestSettings(S),
              \A i \in Indexes : /\ rows'[i].version = RequestRows(S)[i].version
                                 /\ rows'[i].observed = RequestRows(S)[i].observed
                                 /\ RequestRows(S)[i] = NoRow => rows'[i] = NoRow
       PROVE  RowsMove
  <2>1. S \in SUBSET Indexes /\ \A i \in S : docs[i[1]] = "stored"
    BY <1>13, TargetsType DEF RebuildTargets, Stored
  <2>2. \A i \in Indexes :
          /\ RequestRows(S)[i].observed = rows[i].observed
          /\ i \in S => RequestRows(S)[i].version = rows[i].version + 1
          /\ i \notin S => RequestRows(S)[i] = rows[i]
    BY <2>1, RequestRowsType
  <2>3. \A i \in Indexes : rows[i].version \in Nat
    BY DEF Row
  <2>4. ASSUME NEW i \in Indexes PROVE RowMoves(i)
    <3>1. Observes(i)
      BY <1>13, <2>2 DEF Observes
    <3>2. CASE i \in S
      <4>1. RowAsked(i)
        BY <1>13, <2>1, <2>2, <2>3, <3>2 DEF RowAsked, RequestSettings
      <4>2. QED
        BY <3>1, <4>1 DEF RowMoves
    <3>3. CASE i \notin S
      <4>1. RowStays(i)
        BY <1>13, <2>2, <3>3 DEF RowStays, RequestSettings
      <4>2. QED
        BY <3>1, <4>1 DEF RowMoves
    <3>4. QED
      BY <3>2, <3>3
  <2>5. QED
    BY <2>4
<1>14. ASSUME NEW ds \in Scopes, NEW f \in BOOLEAN, RebuildAsync(ds, f) PROVE Goal
  <2>1. RowsMove
    BY <1>13, <1>14 DEF RebuildAsync
  <2>2. QED
    BY <1>3, <1>14, <2>1 DEF RebuildAsync
<1>15. ASSUME NEW c \in Callers, NEW ds \in Scopes, NEW f \in BOOLEAN, RebuildSync(c, ds, f)
       PROVE  Goal
  <2> DEFINE S == RebuildTargets(ds, f)
              fresh == [j \in Indexes |-> ResetIfStale(RequestRows(S)[j])]
  <2>1. S \in SUBSET Indexes /\ \A i \in S : docs[i[1]] = "stored"
    BY TargetsType DEF RebuildTargets, Stored
  <2>10. \A j \in Indexes : fresh[j] = ResetIfStale(RequestRows(S)[j])
    OBVIOUS
  <2>4. /\ rows' = ClaimRows(fresh, S) /\ asked' = RequestSettings(S) /\ loop' = c
        /\ exec' = [exec EXCEPT ![c] = At("run", ClaimsOf(fresh, S), 0, 0)]
        /\ UNCHANGED <<docs, chunks, settings, worker, mode, switches, crashes>> /\ loop = Free
    BY <1>15 DEF RebuildSync
  <2>11. S = RebuildTargets(ds, f)
    OBVIOUS
  <2> HIDE DEF fresh, S
  <2>3. /\ \A i \in Indexes :
              /\ ClaimRows(fresh, S)[i].version = RequestRows(S)[i].version
              /\ ClaimRows(fresh, S)[i].observed = RequestRows(S)[i].observed
              /\ RequestRows(S)[i] = NoRow => ClaimRows(fresh, S)[i] = NoRow
        /\ \A k \in ClaimsOf(fresh, S) :
              k.index \in S /\ k.target = RequestRows(S)[k.index].version
    BY <2>1, <2>10, RebuiltRows
  <2>5. RowsMove
    BY <1>13, <2>3, <2>4, <2>11
  <2>6. exec'[c] = At("run", ClaimsOf(fresh, S), 0, 0)
    BY <2>4
  <2>7. Runs(c)
    BY <2>1, <2>3, <2>4, <2>6, AtFields DEF Runs
  <2>8. ExecsMove
    BY <1>2, <2>4, <2>7 DEF Moves
  <2>9. QED
    BY <2>4, <2>5, <2>8
<1>16. ASSUME NEW w \in Workers, Reconcile(w) PROVE Goal
  <2> DEFINE fresh == [j \in Indexes |-> ResetIfStale(rows[j])]
  <2>10. \A j \in Indexes : fresh[j] = ResetIfStale(rows[j])
    OBVIOUS
  <2>3. /\ rows' = ClaimRows(fresh, Indexes) /\ loop' = w /\ loop = Free
        /\ exec' = [exec EXCEPT ![w] = At("run", ClaimsOf(fresh, Indexes), 0, 0)]
        /\ UNCHANGED <<docs, chunks, settings, asked, worker, mode, switches, crashes>>
    BY <1>16 DEF Reconcile
  <2> HIDE DEF fresh
  <2>2. /\ \A i \in Indexes :
              /\ ClaimRows(fresh, Indexes)[i].version = rows[i].version
              /\ ClaimRows(fresh, Indexes)[i].observed = rows[i].observed
              /\ rows[i] = NoRow => ClaimRows(fresh, Indexes)[i] = NoRow
        /\ \A k \in ClaimsOf(fresh, Indexes) :
              k.index \in Indexes /\ k.target = rows[k.index].version /\ rows[k.index] # NoRow
    BY <2>10, ReconcileRows
  <2>4. RowsMove
    BY <2>2, <2>3 DEF RowMoves, RowStays, Observes
  <2>5. exec'[w] = At("run", ClaimsOf(fresh, Indexes), 0, 0)
    BY <2>3
  <2>6. \A k \in ClaimsOf(fresh, Indexes) :
            docs'[k.index[1]] = "stored" /\ k.target = rows'[k.index].version
    BY <2>2, <2>3 DEF RowsHaveDocs
  <2>7. Runs(w)
    BY <2>3, <2>5, <2>6, AtFields DEF Runs
  <2>8. ExecsMove
    BY <1>2, <2>3, <2>7 DEF Moves
  <2>9. QED
    BY <2>3, <2>4, <2>8
<1>17. ASSUME NEW w \in Workers, SwitchToAsync(w) PROVE Goal
  BY <1>1, <1>3, <1>17 DEF SwitchToAsync
<1>18. ASSUME NEW e \in Executors, StartVector(e) PROVE Goal
  <2>1. exec' = [exec EXCEPT ![e] = At("embedding", exec[e].batch, settings, 0)] /\ loop = e
    BY <1>18 DEF StartVector
  <2>2. Embeds(e)
    BY <2>1, AtFields DEF Embeds
  <2>3. Moves(e)
    BY <2>2 DEF Moves
  <2>4. ExecsMove
    BY <1>2, <2>1, <2>3
  <2>5. UNCHANGED <<docs, rows, asked, settings>>
    BY <1>18 DEF StartVector
  <2>6. QED
    BY <1>1, <2>4, <2>5
<1>19. ASSUME NEW e \in Executors, NEW c \in exec[e].batch,
              NEW r \in {Failed(rows[c.index]), Finished(rows[c.index], c.target, "active"),
                         Finished(rows[c.index], c.target, "queued")},
              Settle(e, c, r), UNCHANGED <<docs, asked, settings>>, loop \in {e, Free}
       PROVE  Goal
  <2>1. RowsMove /\ Runs(e)
    BY <1>19, SettleMoves
  <2>2. exec' = [exec EXCEPT ![e] = At("run", exec[e].batch \ {c}, 0, 0)]
    BY <1>19 DEF Settle
  <2>3. ExecsMove
    BY <1>2, <1>19, <2>1, <2>2 DEF Moves
  <2>4. QED
    BY <1>19, <2>1, <2>3
<1>20. ASSUME NEW e \in Executors, BuildGraph(e) PROVE Goal
  <2>1. PICK c \in exec[e].batch, accepted \in BOOLEAN :
          Settle(e, c, IF chunks[c.index[1]] # 0 /\ accepted
                       THEN Finished(rows[c.index], c.target, "queued")
                       ELSE Failed(rows[c.index]))
    BY <1>20 DEF BuildGraph
  <2>2. loop = e /\ UNCHANGED <<docs, asked, settings>>
    BY <1>20 DEF BuildGraph
  <2>3. QED
    BY <1>19, <2>1, <2>2
<1>21. ASSUME NEW e \in Executors, MissingDocument(e) \/ EmbeddingFailed(e) PROVE Goal
  <2>1. PICK c \in exec[e].batch : Settle(e, c, Failed(rows[c.index]))
    BY <1>21 DEF MissingDocument, EmbeddingFailed
  <2>2. loop \in {e, Free} /\ UNCHANGED <<docs, asked, settings>>
    BY <1>21 DEF MissingDocument, EmbeddingFailed
  <2>3. QED
    BY <1>19, <2>1, <2>2
<1>22. ASSUME NEW e \in Executors, EmbeddingArrived(e) PROVE Goal
  <2>1. /\ exec' = [exec EXCEPT ![e] = At("fill", exec[e].batch, exec[e].built, 0)]
        /\ loop = Free /\ loop' = e /\ exec[e].phase = "embedding"
        /\ UNCHANGED <<docs, rows, settings, asked>>
    BY <1>22 DEF EmbeddingArrived
  <2>2. Fills(e)
    BY <2>1, AtFields DEF Fills
  <2>3. Moves(e)
    BY <2>2 DEF Moves
  <2>4. ExecsMove
    BY <1>2, <2>1, <2>3
  <2>5. QED
    BY <1>1, <2>1, <2>4
<1>23. ASSUME NEW e \in Executors, FillChunks(e) PROVE Goal
  <2>1. PICK c \in exec[e].batch :
          /\ exec[e].phase = "fill" /\ IsNext(c, exec[e].batch)
          /\ IF Stored(c.index[1])
             THEN /\ chunks' = [chunks EXCEPT ![c.index[1]] = exec[e].built]
                  /\ exec' = [exec EXCEPT ![e] = At("settle", exec[e].batch, exec[e].built, 0)]
                  /\ UNCHANGED <<rows, loop>>
             ELSE Settle(e, c, Failed(rows[c.index])) /\ UNCHANGED chunks
    BY <1>23 DEF FillChunks
  <2>2. UNCHANGED <<docs, settings, asked>> /\ loop = e
    BY <1>23, <2>1 DEF FillChunks, SectionHeld
  <2>3. CASE Stored(c.index[1])
    <3>1. /\ chunks' = [chunks EXCEPT ![c.index[1]] = exec[e].built]
          /\ exec' = [exec EXCEPT ![e] = At("settle", exec[e].batch, exec[e].built, 0)]
          /\ UNCHANGED <<rows, loop>>
      BY <2>1, <2>3
    <3>2. c.index[1] \in Docs
      BY ExecFields, ClaimFields
    <3>3. \A o \in exec[e].batch : IsNext(o, exec[e].batch) => chunks'[o.index[1]] = exec[e].built
      BY <2>1, <3>1, <3>2, OneNext
    <3>4. Publishes(e)
      BY <2>1, <2>2, <3>1, <3>3, AtFields DEF Publishes
    <3>5. Moves(e)
      BY <3>4 DEF Moves
    <3>6. ExecsMove
      BY <1>2, <2>2, <3>1, <3>5
    <3>7. QED
      BY <1>1, <2>2, <3>1, <3>6
  <2>4. CASE ~Stored(c.index[1])
    BY <1>19, <2>1, <2>2, <2>4
  <2>5. QED
    BY <2>3, <2>4
<1>24. ASSUME NEW e \in Executors, CompleteVector(e) PROVE Goal
  <2>1. PICK c \in exec[e].batch : Settle(e, c, Finished(rows[c.index], c.target, "active"))
    BY <1>24 DEF CompleteVector
  <2>2. loop = e /\ UNCHANGED <<docs, asked, settings>>
    BY <1>24 DEF CompleteVector, SectionHeld
  <2>3. QED
    BY <1>19, <2>1, <2>2
<1>25. ASSUME NEW e \in Executors, EndBatch(e) PROVE Goal
  <2>1. exec' = [exec EXCEPT ![e] = Idle] /\ loop = e /\ UNCHANGED <<docs, rows, asked, settings>>
    BY <1>25 DEF EndBatch
  <2>2. Moves(e)
    BY <2>1 DEF Moves
  <2>3. ExecsMove
    BY <1>2, <2>1, <2>2
  <2>4. QED
    BY <1>1, <2>1, <2>3
<1>26. ASSUME NEW i \in Indexes, Age(i) PROVE Goal
  <2>1. /\ rows' = [rows EXCEPT ![i] = RowWith("creating", rows[i].version, rows[i].observed, TRUE)]
        /\ rows[i].status = "creating" /\ UNCHANGED <<docs, chunks, asked, settings, exec, loop>>
    BY <1>26 DEF Age
  <2>2. rows[i] # NoRow
    BY <2>1 DEF NoRow, RowWith
  <2>3. /\ rows'[i].version = rows[i].version /\ rows'[i].observed = rows[i].observed
        /\ \A j \in Indexes : j # i => rows'[j] = rows[j]
    BY <2>1 DEF RowWith
  <2>4. RowsMove
    BY <2>1, <2>2, <2>3 DEF RowMoves, RowStays, Observes
  <2>5. QED
    BY <1>3, <2>1, <2>4
<1>27. ASSUME EditSettings PROVE Goal
  BY <1>1, <1>3, <1>27 DEF EditSettings
<1>28. ASSUME SwitchToSync PROVE Goal
  BY <1>1, <1>3, <1>28 DEF SwitchToSync
<1>29. ASSUME Crash PROVE Goal
  BY <1>1, <1>4, <1>29 DEF Crash, Restart
<1>30. CASE UNCHANGED vars
  BY <1>1, <1>3, <1>30 DEF vars
<1>31. QED
  BY <1>5, <1>6, <1>8, <1>9, <1>10, <1>11, <1>12, <1>14, <1>15, <1>16, <1>17, <1>18, <1>20,
     <1>21, <1>22, <1>23, <1>24, <1>25, <1>26, <1>27, <1>28, <1>29, <1>30
     DEF Next, ExecutorStep

(***************************************************************************)
(* The other parts of the inductive invariant.                             *)
(***************************************************************************)
(* An import in flight keeps its document id to itself. *)
LEMMA ImportsKept ==
  ASSUME TypeOK, ImportsDisjoint, [Next]_vars
  PROVE  ImportsDisjoint'
<1>0. /\ exec \in [Executors -> Exec] /\ Callers \subseteq Executors /\ Workers \subseteq Executors
      /\ docs \in [Docs -> {"absent", "created", "stored", "deleted"}]
      /\ Docs \subseteq Nat /\ 0 \notin Docs
  BY DocumentIndexAssumption DEF TypeOK, Executors, Docs
<1> USE <1>0
<1>1. Idle.phase = "idle" /\ Idle.doc = 0
  BY AtFields DEF Idle
<1>2. ASSUME \A d \in Docs : docs[d] = "absent" => docs'[d] = "absent",
             \A e \in Executors : \/ exec'[e] = exec[e]
                                  \/ exec'[e].phase # "importing" /\ exec'[e].doc = 0
      PROVE  ImportsDisjoint'
  <2> SUFFICES ASSUME NEW e \in Executors
               PROVE  IF exec'[e].phase = "importing"
                      THEN /\ exec'[e].doc \in Docs /\ docs'[exec'[e].doc] = "absent"
                           /\ \A f \in Executors : exec'[f].doc = exec'[e].doc => f = e
                      ELSE exec'[e].doc = 0
    BY DEF ImportsDisjoint
  <2>1. CASE exec'[e] # exec[e]
    BY <1>2, <2>1
  <2>2. CASE exec'[e] = exec[e] /\ exec[e].phase = "importing"
    <3>1. /\ exec[e].doc \in Docs /\ docs[exec[e].doc] = "absent"
          /\ \A f \in Executors : exec[f].doc = exec[e].doc => f = e
      BY <2>2 DEF ImportsDisjoint
    <3>2. ASSUME NEW f \in Executors, exec'[f].doc = exec'[e].doc PROVE f = e
      <4>1. exec'[f].doc # 0
        BY <2>2, <3>1, <3>2
      <4>2. exec'[f] = exec[f]
        BY <1>2, <4>1
      <4>3. QED
        BY <2>2, <3>1, <3>2, <4>2
    <3>3. QED
      BY <1>2, <2>2, <3>1, <3>2
  <2>3. CASE exec'[e] = exec[e] /\ exec[e].phase # "importing"
    BY <2>3 DEF ImportsDisjoint
  <2>4. QED
    BY <2>1, <2>2, <2>3
<1>3. ASSUME exec' = [e \in Executors |-> Idle] PROVE ImportsDisjoint'
  BY <1>1, <1>3 DEF ImportsDisjoint
<1>4. ASSUME NEW d \in Docs, ImportAsync(d) PROVE ImportsDisjoint'
  <2>1. \A e \in Executors : exec[e].doc # d
    BY <1>4 DEF ImportAsync, Unused
  <2>2. docs' = [docs EXCEPT ![d] = "stored"] /\ exec' = exec
    BY <1>4 DEF ImportAsync
  <2>3. QED
    BY <2>1, <2>2 DEF ImportsDisjoint
<1>5. ASSUME NEW d \in Docs, DeleteDocument(d) PROVE ImportsDisjoint'
  BY <1>2, <1>5 DEF DeleteDocument
<1>6. ASSUME NEW c \in Callers, NEW d \in Docs, ImportSyncStart(c, d) PROVE ImportsDisjoint'
  <2>1. /\ docs[d] = "absent" /\ docs' = docs
        /\ exec' = [exec EXCEPT ![c] = At("importing", {}, settings, d)]
        /\ \A e \in Executors : exec[e].doc # d
    BY <1>6 DEF ImportSyncStart, Unused
  <2>2. exec'[c].phase = "importing" /\ exec'[c].doc = d
    BY <2>1, AtFields
  <2>3. QED
    BY <2>1, <2>2 DEF ImportsDisjoint
<1>7. ASSUME NEW c \in Callers, ImportSyncFinish(c) PROVE ImportsDisjoint'
  <2>1. /\ exec[c].phase = "importing" /\ docs' = [docs EXCEPT ![exec[c].doc] = "stored"]
        /\ exec' = [exec EXCEPT ![c] = Idle]
    BY <1>7 DEF ImportSyncFinish
  <2>2. exec[c].doc \in Docs /\ \A f \in Executors : exec[f].doc = exec[c].doc => f = c
    BY <2>1 DEF ImportsDisjoint
  <2>3. QED
    BY <1>1, <2>1, <2>2 DEF ImportsDisjoint
<1>8. ASSUME NEW c \in Callers, ImportSyncFail(c) \/ CancelCaller(c) PROVE ImportsDisjoint'
  BY <1>1, <1>2, <1>8 DEF ImportSyncFail, CancelCaller
<1>9. ASSUME (\E d \in Docs : CrashInImport(d)) \/ (\E c \in Callers : CrashInSyncImport(c)) \/ Crash
      PROVE  ImportsDisjoint'
  BY <1>3, <1>9 DEF CrashInImport, CrashInSyncImport, Crash, Restart
<1>10. ASSUME NEW ds \in Scopes, NEW f \in BOOLEAN, RebuildAsync(ds, f) PROVE ImportsDisjoint'
  BY <1>2, <1>10 DEF RebuildAsync
<1>11. ASSUME NEW c \in Callers, NEW ds \in Scopes, NEW f \in BOOLEAN, RebuildSync(c, ds, f)
       PROVE  ImportsDisjoint'
  <2>1. docs' = docs /\ \E b : exec' = [exec EXCEPT ![c] = At("run", b, 0, 0)]
    BY <1>11 DEF RebuildSync
  <2>2. QED
    BY <1>2, <2>1, AtFields
<1>12. ASSUME NEW w \in Workers, Reconcile(w) PROVE ImportsDisjoint'
  <2>1. docs' = docs /\ \E b : exec' = [exec EXCEPT ![w] = At("run", b, 0, 0)]
    BY <1>12 DEF Reconcile
  <2>2. QED
    BY <1>2, <2>1, AtFields
<1>13. ASSUME NEW w \in Workers, SwitchToAsync(w) PROVE ImportsDisjoint'
  BY <1>2, <1>13 DEF SwitchToAsync
<1>14. ASSUME NEW e \in Executors, ExecutorStep(e) PROVE ImportsDisjoint'
  <2>1. docs' = docs
    BY <1>14 DEF ExecutorStep, StartVector, BuildGraph, MissingDocument, EmbeddingArrived,
                 EmbeddingFailed, FillChunks, CompleteVector, EndBatch
  <2>2. \/ exec' = [exec EXCEPT ![e] = Idle]
        \/ \E p \in {"run", "embedding", "fill", "settle"} : \E b, s :
               exec' = [exec EXCEPT ![e] = At(p, b, s, 0)]
    BY <1>14 DEF ExecutorStep, StartVector, BuildGraph, MissingDocument, EmbeddingArrived,
                 EmbeddingFailed, FillChunks, CompleteVector, EndBatch, Settle
  <2>3. QED
    BY <1>1, <1>2, <2>1, <2>2, AtFields
<1>15. ASSUME (\E i \in Indexes : Age(i)) \/ EditSettings \/ SwitchToSync PROVE ImportsDisjoint'
  BY <1>2, <1>15 DEF Age, EditSettings, SwitchToSync
<1>16. CASE UNCHANGED vars
  BY <1>2, <1>16 DEF vars
<1>17. QED
  BY <1>4, <1>5, <1>6, <1>7, <1>8, <1>9, <1>10, <1>11, <1>12, <1>13, <1>14, <1>15, <1>16 DEF
     Next

LEMMA InvariantKept == IInv /\ [Next]_vars => IInv'
<1> SUFFICES ASSUME IInv, [Next]_vars PROVE IInv'
  OBVIOUS
<1>1. /\ TypeOK /\ StatusMatchesVersions /\ RowsHaveDocs /\ ImportsDisjoint /\ AskedKnown
      /\ SectionHeld /\ ClaimsBehind /\ BuildFresh /\ FillDone
  BY DEF IInv
<1>2. /\ \A i \in Indexes : RowMoves(i)
      /\ \A e \in Executors : Moves(e)
      /\ settings' >= settings
  BY <1>1, StepMoves
<1>3. TypeOK' /\ StatusMatchesVersions' /\ ImportsDisjoint'
  BY <1>1, NextTyped, ImportsKept
<1>4. /\ settings \in Nat /\ settings' \in Nat
      /\ asked \in [Indexes -> Nat] /\ asked' \in [Indexes -> Nat]
      /\ docs \in [Docs -> {"absent", "created", "stored", "deleted"}]
      /\ \A i \in Indexes : /\ rows[i].version \in Nat /\ rows'[i].version \in Nat
                            /\ i[1] \in Docs
      /\ \A e \in Executors : exec[e].built \in Nat /\ exec'[e].built \in Nat
  BY <1>1, <1>3, IndexPair DEF TypeOK, Row, Exec
<1>5. \A e \in Executors : \A c \in exec'[e].batch : c.index \in Indexes /\ c.target \in Nat
  BY <1>3 DEF TypeOK, Exec, Claim
<1>6. \A e \in Executors : \A c \in exec[e].batch : c.index \in Indexes /\ c.target \in Nat
  BY <1>1 DEF TypeOK, Exec, Claim
<1>7. Idle.phase = "idle" /\ Idle.batch = {} /\ Idle.built = 0
  BY AtFields DEF Idle
<1>8. RowsHaveDocs'
  <2> SUFFICES ASSUME NEW i \in Indexes, docs'[i[1]] # "stored" PROVE rows'[i] = NoRow
    BY DEF RowsHaveDocs
  <2>1. RowStays(i) \/ RowAsked(i) \/ RowComes(i) \/ RowGoes(i)
    BY <1>2 DEF RowMoves
  <2>2. QED
    BY <1>1, <2>1 DEF RowStays, RowAsked, RowComes, RowGoes, RowsHaveDocs
<1>9. AskedKnown'
  <2>1. ASSUME NEW i \in Indexes PROVE asked'[i] <= settings'
    <3>1. RowStays(i) \/ RowAsked(i) \/ RowComes(i) \/ RowGoes(i)
      BY <1>2 DEF RowMoves
    <3>2. asked'[i] <= settings /\ asked'[i] \in Nat
      BY <1>1, <1>4, <3>1 DEF RowStays, RowAsked, RowComes, RowGoes, AskedKnown
    <3>3. QED
      BY <1>2, <1>4, <3>2
  <2>2. ASSUME NEW e \in Executors PROVE exec'[e].built <= settings'
    <3>1. exec[e].built <= settings /\ Moves(e)
      BY <1>1, <1>2 DEF AskedKnown
    <3>2. exec'[e].built \in {exec[e].built, settings, 0}
      BY <1>7, <3>1 DEF Moves, Stands, Imports, Runs, Embeds, Fills, Publishes
    <3>3. QED
      BY <1>2, <1>4, <3>1, <3>2
  <2>3. QED
    BY <2>1, <2>2 DEF AskedKnown
<1>10. SectionHeld'
  <2> SUFFICES ASSUME NEW e \in Executors, exec'[e].phase \in {"run", "fill", "settle"}
               PROVE  loop' = e
    BY DEF SectionHeld
  <2>1. Moves(e)
    BY <1>2
  <2>2. QED
    BY <1>1, <1>7, <2>1
       DEF Moves, Stands, Imports, Runs, Embeds, Fills, Publishes, SectionHeld
\* What an old claim is about is still there or gone, and its row has not gone back.
<1>11. ASSUME NEW e \in Executors, NEW c \in exec[e].batch
       PROVE  /\ docs'[c.index[1]] \in {"stored", "deleted"}
              /\ docs'[c.index[1]] = "stored" =>
                    /\ docs[c.index[1]] = "stored"
                    /\ c.target <= rows'[c.index].version
                    /\ rows'[c.index].version = c.target =>
                          /\ rows[c.index].version = c.target
                          /\ asked'[c.index] = asked[c.index]
  <2>1. /\ c.index \in Indexes /\ c.target \in Nat
        /\ docs[c.index[1]] \in {"stored", "deleted"}
        /\ docs[c.index[1]] = "stored" => c.target <= rows[c.index].version
    BY <1>1, <1>6 DEF ClaimsBehind, Stored
  <2>2. RowStays(c.index) \/ RowAsked(c.index) \/ RowComes(c.index) \/ RowGoes(c.index)
    BY <1>2, <2>1 DEF RowMoves
  <2>3. rows[c.index].version \in Nat /\ rows'[c.index].version \in Nat
    BY <1>4, <2>1
  <2>4. CASE RowStays(c.index)
    BY <2>1, <2>3, <2>4 DEF RowStays
  <2>5. CASE RowAsked(c.index)
    BY <2>1, <2>3, <2>5 DEF RowAsked
  <2>6. CASE RowComes(c.index) \/ RowGoes(c.index)
    BY <2>1, <2>6 DEF RowComes, RowGoes
  <2>7. QED
    BY <2>2, <2>4, <2>5, <2>6
<1>12. ClaimsBehind'
  <2> SUFFICES ASSUME NEW e \in Executors, NEW c \in exec'[e].batch
               PROVE  /\ docs'[c.index[1]] \in {"stored", "deleted"}
                      /\ docs'[c.index[1]] = "stored" => c.target <= rows'[c.index].version
    BY DEF ClaimsBehind, Stored
  <2>1. CASE c \in exec[e].batch
    BY <1>11, <2>1
  <2>2. CASE c \notin exec[e].batch
    <3>1. Moves(e)
      BY <1>2
    <3>2. Runs(e)
      BY <1>7, <2>2, <3>1 DEF Moves, Stands, Imports, Embeds, Fills, Publishes
    <3>3. docs'[c.index[1]] = "stored" /\ c.target = rows'[c.index].version
      BY <2>2, <3>2 DEF Runs
    <3>4. QED
      BY <1>5, <3>3
  <2>3. QED
    BY <2>1, <2>2
\* A build that goes on has its claims.
<1>13. ASSUME NEW e \in Executors, exec'[e].phase \in {"embedding", "fill", "settle"}
       PROVE  /\ Stands(e) \/ Embeds(e) \/ Fills(e) \/ Publishes(e)
              /\ exec'[e].batch = exec[e].batch
  <2>1. Moves(e)
    BY <1>2
  <2>2. QED
    BY <1>7, <1>13, <2>1 DEF Moves, Stands, Imports, Runs, Embeds, Fills, Publishes
<1>14. BuildFresh'
  <2> SUFFICES ASSUME NEW e \in Executors, exec'[e].phase \in {"embedding", "fill", "settle"},
                      NEW c \in exec'[e].batch, IsNext(c, exec'[e].batch),
                      docs'[c.index[1]] = "stored", rows'[c.index].version = c.target
               PROVE  asked'[c.index] <= exec'[e].built
    BY DEF BuildFresh, Stored
  <2>1. c \in exec[e].batch /\ c.index \in Indexes /\ IsNext(c, exec[e].batch)
    BY <1>6, <1>13
  <2>2. /\ docs[c.index[1]] = "stored" /\ rows[c.index].version = c.target
        /\ asked'[c.index] = asked[c.index]
    BY <1>11, <2>1
  <2>3. CASE Embeds(e)
    BY <1>1, <2>1, <2>2, <2>3 DEF Embeds, AskedKnown
  <2>4. CASE Stands(e) \/ Fills(e) \/ Publishes(e)
    <3>1. exec[e].phase \in {"embedding", "fill", "settle"} /\ exec'[e].built = exec[e].built
      BY <2>4 DEF Stands, Fills, Publishes
    <3>2. QED
      BY <1>1, <2>1, <2>2, <3>1 DEF BuildFresh, Stored
  <2>5. QED
    BY <1>13, <2>3, <2>4
<1>15. FillDone'
  <2> SUFFICES ASSUME NEW e \in Executors, exec'[e].phase = "settle",
                      NEW c \in exec'[e].batch, IsNext(c, exec'[e].batch),
                      docs'[c.index[1]] = "stored"
               PROVE  chunks'[c.index[1]] = exec'[e].built
    BY DEF FillDone, Stored
  <2>1. c \in exec[e].batch /\ IsNext(c, exec[e].batch) /\ docs[c.index[1]] = "stored"
    BY <1>11, <1>13
  <2>2. CASE Stands(e)
    <3>1. exec'[e] = exec[e] /\ exec[e].phase = "settle" /\ chunks' = chunks
      BY <1>1, <2>2 DEF Stands, SectionHeld
    <3>2. QED
      BY <1>1, <2>1, <3>1 DEF FillDone, Stored
  <2>3. CASE Publishes(e)
    BY <2>1, <2>3 DEF Publishes
  <2>4. QED
    BY <1>13, <2>2, <2>3 DEF Embeds, Fills
<1>16. QED
  BY <1>3, <1>8, <1>9, <1>10, <1>12, <1>14, <1>15 DEF IInv

LEMMA InitInvariant == Init => IInv
<1> SUFFICES ASSUME Init PROVE IInv
  OBVIOUS
<1>1. TypeOK /\ StatusMatchesVersions
  BY InitTyped
<1>2. Idle.phase = "idle" /\ Idle.batch = {} /\ Idle.built = 0 /\ Idle.doc = 0
  BY AtFields DEF Idle
<1>3. \A e \in Executors : exec[e] = Idle
  BY DEF Init
<1>4. RowsHaveDocs /\ AskedKnown
  BY <1>2, <1>3 DEF Init, RowsHaveDocs, AskedKnown
<1>5. ImportsDisjoint /\ SectionHeld /\ ClaimsBehind /\ BuildFresh /\ FillDone
  BY <1>2, <1>3 DEF ImportsDisjoint, SectionHeld, ClaimsBehind, BuildFresh, FillDone
<1>6. QED
  BY <1>1, <1>4, <1>5 DEF IInv

(* The inductive invariant holds for any documents, workers, callers and bounds. *)
THEOREM InvariantHolds == Spec => []IInv
  BY InitInvariant, InvariantKept, PTL DEF Spec

(* An index becomes active in a step only by an import or by the build that is published. *)
LEMMA Activated ==
  ASSUME IInv, [Next]_vars, NEW d \in Docs,
         rows[<<d, Vector>>].status # "active", rows'[<<d, Vector>>].status = "active"
  PROVE  chunks'[d] >= asked'[<<d, Vector>>]
<1> DEFINE i == <<d, Vector>>
           Goal == chunks'[d] >= asked'[i]
<1>0. /\ i \in Indexes /\ rows \in [Indexes -> Row] /\ exec \in [Executors -> Exec]
      /\ chunks \in [Docs -> Nat] /\ asked \in [Indexes -> Nat]
      /\ Callers \subseteq Executors /\ i[1] = d /\ i[2] = Vector
  BY DEF IInv, TypeOK, Indexes, IndexTypes, Executors
<1>1. rows[i] \in Row /\ Coherent(rows[i]) /\ rows[i].status # "active" /\ rows'[i].status = "active"
  BY DEF IInv, TypeOK, StatusMatchesVersions, Indexes, IndexTypes
<1> HIDE DEF i
<1>2. rows'[i] # rows[i]
  BY <1>1
<1>3. ASSUME NEW c \in Callers, ImportSyncFinish(c) PROVE Goal
  <2>1. exec[c].doc \in Docs /\ exec[c].built \in Nat
    BY <1>0, <1>3 DEF IInv, ImportSyncFinish, ImportsDisjoint, Exec
  <2>2. PICK enqueued \in BOOLEAN :
          /\ chunks' = [chunks EXCEPT ![exec[c].doc] = exec[c].built]
          /\ rows' = [j \in Indexes |->
                        IF j[1] = exec[c].doc /\ (j[2] = Vector \/ enqueued)
                        THEN RowWith(IF j[2] = Vector THEN "active" ELSE "queued", 1, 1, FALSE)
                        ELSE rows[j]]
          /\ asked' = [j \in Indexes |->
                        IF j[1] = exec[c].doc /\ (j[2] = Vector \/ enqueued)
                        THEN exec[c].built ELSE asked[j]]
    BY <1>3 DEF ImportSyncFinish
  <2>3. d = exec[c].doc
    BY <1>0, <1>2, <2>2
  <2>4. chunks'[d] = exec[c].built /\ asked'[i] = exec[c].built
    BY <1>0, <2>1, <2>2, <2>3
  <2>5. QED
    BY <2>1, <2>4
<1>4. ASSUME NEW e \in Executors, CompleteVector(e) PROVE Goal
  <2>1. PICK c \in exec[e].batch :
          /\ exec[e].phase = "settle" /\ IsNext(c, exec[e].batch)
          /\ Settle(e, c, Finished(rows[c.index], c.target, "active"))
    BY <1>4 DEF CompleteVector
  <2>2. rows' = [rows EXCEPT ![c.index] = Finished(rows[c.index], c.target, "active")]
    BY <2>1 DEF Settle
  <2>3. c.index = i
    BY <1>0, <1>2, <2>2
  <2>4. rows'[i] = Finished(rows[i], c.target, "active")
    BY <1>0, <2>2, <2>3
  <2>5. rows[i].status = "creating" /\ rows[i].version = c.target
    BY <1>2, <2>4 DEF Finished
  <2>6. Stored(d)
    BY <1>0, <2>5 DEF IInv, RowsHaveDocs, Stored, NoRow, RowWith
  <2>7. asked[i] <= exec[e].built /\ chunks[d] = exec[e].built
    BY <1>0, <2>1, <2>3, <2>5, <2>6 DEF IInv, BuildFresh, FillDone
  <2>8. UNCHANGED <<chunks, asked>>
    BY <1>4 DEF CompleteVector
  <2>9. exec[e].built \in Nat
    BY <1>0 DEF Exec
  <2>10. QED
    BY <1>0, <2>7, <2>8, <2>9
\* No other step makes a row active.
<1>5. ASSUME rows' = rows PROVE FALSE
  BY <1>2, <1>5
<1>6. ASSUME NEW e \in Executors, NEW c \in exec[e].batch, NEW r, Settle(e, c, r),
             r \in {Failed(rows[c.index]), Finished(rows[c.index], c.target, "queued")}
      PROVE  FALSE
  <2>1. rows' = [rows EXCEPT ![c.index] = r]
    BY <1>6 DEF Settle
  <2>2. c.index = i
    BY <1>0, <1>2, <2>1
  <2>3. rows'[i] = r /\ r \in {Failed(rows[i]), Finished(rows[i], c.target, "queued")}
    BY <1>0, <1>6, <2>1, <2>2
  <2>4. QED
    BY <1>1, <2>3 DEF Failed, Finished, RowWith
<1>7. ASSUME NEW e \in Executors, BuildGraph(e) \/ MissingDocument(e) \/ EmbeddingFailed(e) PROVE FALSE
  <2>1. \E c \in exec[e].batch :
          \E r \in {Failed(rows[c.index]), Finished(rows[c.index], c.target, "queued")} : Settle(e, c, r)
    BY <1>7 DEF BuildGraph, MissingDocument, EmbeddingFailed
  <2>2. QED
    BY <1>6, <2>1
<1>8. ASSUME NEW e \in Executors, FillChunks(e) PROVE FALSE
  <2>1. \/ rows' = rows
        \/ \E c \in exec[e].batch :
             \E r \in {Failed(rows[c.index]), Finished(rows[c.index], c.target, "queued")} : Settle(e, c, r)
    BY <1>8 DEF FillChunks
  <2>2. QED
    BY <1>5, <1>6, <2>1
<1>9. ASSUME NEW e \in Executors, StartVector(e) \/ EmbeddingArrived(e) \/ EndBatch(e) PROVE FALSE
  BY <1>5, <1>9 DEF StartVector, EmbeddingArrived, EndBatch
<1>10. ASSUME NEW x \in Docs, ImportAsync(x) PROVE FALSE
  <2>1. rows'[i] = Requested(rows[i])
    BY <1>0, <1>2, <1>10 DEF ImportAsync
  <2>2. QED
    BY <1>1, <2>1, RequestedType
<1>11. ASSUME NEW x \in Docs, DeleteDocument(x) \/ CrashInImport(x) PROVE FALSE
  <2>1. rows'[i] = NoRow \/ rows'[i] = rows[i]
    BY <1>0, <1>11 DEF DeleteDocument, CrashInImport
  <2>2. QED
    BY <1>1, <2>1 DEF NoRow, RowWith
<1>12. ASSUME NEW c \in Callers, NEW x \in Docs, ImportSyncStart(c, x) PROVE FALSE
  BY <1>5, <1>12 DEF ImportSyncStart
<1>13. ASSUME NEW c \in Callers, ImportSyncFail(c) \/ CancelCaller(c) \/ CrashInSyncImport(c)
       PROVE  FALSE
  BY <1>5, <1>13 DEF ImportSyncFail, CancelCaller, CrashInSyncImport
<1>14. ASSUME NEW S \in SUBSET Indexes
       PROVE  /\ RequestRows(S) \in [Indexes -> Row] /\ \A j \in Indexes : Coherent(RequestRows(S)[j])
              /\ RequestRows(S)[i].status # "active"
  <2>1. TypeOK /\ StatusMatchesVersions
    BY DEF IInv
  <2>2. QED
    BY <1>0, <1>1, <2>1, RequestRowsType
<1>15. ASSUME NEW ds \in Scopes, NEW f \in BOOLEAN, RebuildAsync(ds, f) PROVE FALSE
  <2>1. rows' = RequestRows(RebuildTargets(ds, f))
    BY <1>15 DEF RebuildAsync
  <2>2. QED
    BY <1>1, <1>14, <2>1, TargetsType
<1>16. ASSUME NEW rs \in [Indexes -> Row], \A j \in Indexes : Coherent(rs[j]), NEW S \in SUBSET Indexes,
              rs[i].status # "active",
              rows' = ClaimRows([j \in Indexes |-> ResetIfStale(rs[j])], S)
       PROVE  FALSE
  <2> DEFINE fresh == [j \in Indexes |-> ResetIfStale(rs[j])]
  <2>1. rows' = ClaimRows(fresh, S) /\ (\A j \in Indexes : fresh[j] = ResetIfStale(rs[j]))
    BY <1>16
  <2> HIDE DEF fresh
  <2>2. \A j \in Indexes : ClaimRows(fresh, S)[j].status = "active" => rs[j].status = "active"
    BY <1>16, <2>1, ReconciledKept
  <2>3. QED
    BY <1>0, <1>1, <1>16, <2>1, <2>2
<1>17. ASSUME NEW c \in Callers, NEW ds \in Scopes, NEW f \in BOOLEAN, RebuildSync(c, ds, f)
       PROVE  FALSE
  <2> DEFINE S == RebuildTargets(ds, f)
  <2>1. S \in SUBSET Indexes
    BY TargetsType
  <2>2. rows' = ClaimRows([j \in Indexes |-> ResetIfStale(RequestRows(S)[j])], S)
    BY <1>17 DEF RebuildSync
  <2> HIDE DEF S
  <2>3. QED
    BY <1>14, <1>16, <2>1, <2>2
<1>18. ASSUME NEW w \in Workers, Reconcile(w) PROVE FALSE
  <2>1. rows' = ClaimRows([j \in Indexes |-> ResetIfStale(rows[j])], Indexes)
    BY <1>18 DEF Reconcile
  <2>2. \A j \in Indexes : Coherent(rows[j])
    BY DEF IInv, StatusMatchesVersions
  <2>3. QED
    BY <1>0, <1>1, <1>16, <2>1, <2>2
<1>19. ASSUME NEW w \in Workers, SwitchToAsync(w) PROVE FALSE
  BY <1>5, <1>19 DEF SwitchToAsync
<1>20. ASSUME NEW j \in Indexes, Age(j) PROVE FALSE
  <2>1. rows' = [rows EXCEPT ![j] = RowWith("creating", rows[j].version, rows[j].observed, TRUE)]
    BY <1>20 DEF Age
  <2>2. rows'[i].status = "creating" \/ rows'[i] = rows[i]
    BY <1>0, <2>1 DEF RowWith
  <2>3. QED
    BY <1>1, <2>2
<1>21. ASSUME EditSettings \/ SwitchToSync \/ Crash PROVE FALSE
  BY <1>5, <1>21 DEF EditSettings, SwitchToSync, Crash
<1>22. ASSUME UNCHANGED vars PROVE FALSE
  BY <1>5, <1>22 DEF vars
<1> HIDE DEF Goal
<1>23. ASSUME NEW e \in Executors, ExecutorStep(e) PROVE Goal
  BY <1>4, <1>7, <1>8, <1>9, <1>23 DEF ExecutorStep
<1>24. ASSUME Next PROVE Goal
  BY <1>3, <1>10, <1>11, <1>12, <1>13, <1>15, <1>17, <1>18, <1>19, <1>20, <1>21, <1>23, <1>24
     DEF Next
<1>25. Goal
  BY <1>22, <1>24
<1>26. QED
  BY <1>25 DEF Goal, i

(* What a row has observed it never forgets, what it comes to observe is the newest version
   requested, and a build that is published has the newest settings: whatever executors,
   requests, crashes and mode changes overlap. *)
THEOREM BuildsOnlyAdvance == Spec => BuildsAdvance
<1>1. ASSUME IInv, [Next]_vars, NEW i \in Indexes
      PROVE  \/ rows'[i].observed = rows[i].observed
             \/ /\ rows'[i].observed > rows[i].observed
                /\ rows'[i].observed = rows'[i].version
             \/ docs'[i[1]] = "deleted"
  <2>1. RowMoves(i)
    BY <1>1, StepMoves DEF IInv
  <2>2. QED
    BY <2>1 DEF RowMoves, Observes
<1>2. IInv /\ [Next]_vars =>
        [\A i \in Indexes :
           \/ rows'[i].observed = rows[i].observed
           \/ /\ rows'[i].observed > rows[i].observed
              /\ rows'[i].observed = rows'[i].version
           \/ docs'[i[1]] = "deleted"]_vars
  BY <1>1
<1>3. IInv /\ [Next]_vars =>
        [\A d \in Docs :
           rows[<<d, Vector>>].status # "active" /\ rows'[<<d, Vector>>].status = "active"
             => chunks'[d] >= asked'[<<d, Vector>>]]_vars
  BY Activated
<1>4. QED
  BY <1>2, <1>3, InvariantHolds, PTL DEF Spec, BuildsAdvance, ObservedAdvances,
     FreshAtCompletion

(***************************************************************************)
(* Where one executor runs at a time.                                      *)
(***************************************************************************)
\* A row under claims is requested again, is aged, goes with its document or stays.
Claimable(i) ==
    docs'[i[1]] = "stored" =>
        /\ docs[i[1]] = "stored"
        /\ \/ rows'[i].status = "pending"
           \/ rows'[i].status = rows[i].status /\ rows'[i].version = rows[i].version

\* An index that stays active keeps its chunks, and was not requested.
StaysFresh(d) ==
    rows[<<d, Vector>>].status = "active" /\ rows'[<<d, Vector>>].status = "active"
        => chunks'[d] = chunks[d] /\ asked'[<<d, Vector>>] = asked[<<d, Vector>>]

LEMMA ClaimsStayOpen ==
  ASSUME ClaimsOpen, \A e \in Executors : exec'[e].batch \subseteq exec[e].batch,
         \A e \in Executors : \A c \in exec'[e].batch : Claimable(c.index)
  PROVE  ClaimsOpen'
<1>1. ASSUME NEW e \in Executors, NEW c \in exec'[e].batch
      PROVE  /\ \A o \in exec'[e].batch : o.index = c.index => o = c
             /\ docs'[c.index[1]] = "stored" =>
                  /\ rows'[c.index].status \in {"pending", "creating"}
                  /\ rows'[c.index].status = "creating" => rows'[c.index].version = c.target
  <2>1. c \in exec[e].batch /\ exec'[e].batch \subseteq exec[e].batch /\ Claimable(c.index)
    OBVIOUS
  <2>2. QED
    BY <2>1 DEF ClaimsOpen, Claimable, Stored
<1>2. QED
  BY <1>1 DEF ClaimsOpen, Stored

\* Only one executor has claims.
LEMMA OnlyClaims ==
  ASSUME ClaimsExecuted, OneExecutes, NEW e \in Executors, exec[e].phase \in Executing,
         NEW f \in Executors, f # e
  PROVE  exec[f].batch = {} /\ exec[f].phase \notin Executing
  BY DEF ClaimsExecuted, OneExecutes

\* An executor that has settled a claim has the others left.
LEMMA SettleKeepsClaims ==
  ASSUME TypeOK, ClaimsOpen, NextIsVector, ClaimsExecuted, OneExecutes,
         NEW e \in Executors, exec[e].phase \in Executing,
         NEW c \in exec[e].batch, NEW r, Settle(e, c, r), UNCHANGED docs
  PROVE  ClaimsOpen' /\ NextIsVector' /\ ClaimsExecuted'
<1>1. exec' = [exec EXCEPT ![e] = At("run", exec[e].batch \ {c}, 0, 0)]
      /\ rows' = [rows EXCEPT ![c.index] = r]
  BY DEF Settle
<1>2. /\ exec'[e].phase = "run" /\ exec'[e].batch = exec[e].batch \ {c}
      /\ \A f \in Executors : f # e => exec'[f] = exec[f]
  BY <1>1, AtFields DEF TypeOK
<1>3. ASSUME NEW f \in Executors, NEW k \in exec'[f].batch PROVE Claimable(k.index)
  <2>1. f = e
    BY <1>2, <1>3, OnlyClaims
  <2>2. k \in exec[e].batch /\ k # c
    BY <1>2, <1>3, <2>1
  <2>3. k.index # c.index /\ k.index \in Indexes
    BY <2>2, ExecFields, ClaimFields DEF ClaimsOpen
  <2>4. rows'[k.index] = rows[k.index]
    BY <1>1, <2>3 DEF TypeOK
  <2>5. QED
    BY <2>4 DEF Claimable
<1>4. ClaimsOpen'
  <2>1. \A f \in Executors : exec'[f].batch \subseteq exec[f].batch
    BY <1>2
  <2>2. QED
    BY <1>3, <2>1, ClaimsStayOpen
<1>5. NextIsVector'
  BY <1>2 DEF NextIsVector, Executing
<1>6. ClaimsExecuted'
  BY <1>2 DEF ClaimsExecuted, Executing
<1>7. QED
  BY <1>4, <1>5, <1>6

\* What the reconciler claims is open, if nobody else has claims.
LEMMA NewClaimsOpen ==
  ASSUME NEW e \in Executors, ClaimsExecuted, OneExecutes', exec \in [Executors -> Exec],
         NEW fresh \in [Indexes -> Row], NEW S \in SUBSET Indexes,
         exec' = [exec EXCEPT ![e] = At("run", ClaimsOf(fresh, S), 0, 0)],
         rows' = ClaimRows(fresh, S)
  PROVE  ClaimsOpen' /\ NextIsVector' /\ ClaimsExecuted'
<1>1. /\ exec'[e].phase = "run" /\ exec'[e].batch = ClaimsOf(fresh, S)
      /\ \A f \in Executors : f # e => exec'[f] = exec[f]
  BY AtFields
<1>2. ASSUME NEW f \in Executors, f # e PROVE exec'[f].batch = {} /\ exec'[f].phase \notin Executing
  <2>1. exec'[f].phase \notin Executing
    BY <1>1, <1>2 DEF OneExecutes, Executing
  <2>2. QED
    BY <1>1, <1>2, <2>1 DEF ClaimsExecuted
<1>3. ASSUME NEW c \in ClaimsOf(fresh, S)
      PROVE  /\ \A o \in ClaimsOf(fresh, S) : o.index = c.index => o = c
             /\ rows'[c.index].status = "creating" /\ rows'[c.index].version = c.target
  <2>1. PICK i \in S : c = [index |-> i, target |-> fresh[i].version] /\ NeedsReconciliation(fresh[i])
    BY DEF ClaimsOf
  <2>2. rows'[i] = Claimed(fresh[i])
    BY <2>1 DEF ClaimRows
  <2>3. \A o \in ClaimsOf(fresh, S) : \E j \in S : o = [index |-> j, target |-> fresh[j].version]
    BY DEF ClaimsOf
  <2>4. QED
    BY <2>1, <2>2, <2>3 DEF Claimed, RowWith
<1>4. ClaimsOpen'
  BY <1>1, <1>2, <1>3 DEF ClaimsOpen
<1>5. NextIsVector'
  BY <1>1, <1>2 DEF NextIsVector, Executing
<1>6. ClaimsExecuted'
  BY <1>1, <1>2 DEF ClaimsExecuted, Executing
<1>7. QED
  BY <1>4, <1>5, <1>6

\* An executor that starts no claim leaves the others their own.
LEMMA NoNewClaims ==
  ASSUME ClaimsOpen, NextIsVector, ClaimsExecuted,
         \A e \in Executors : exec'[e] = exec[e]
                              \/ exec'[e].batch = {},
         \A e \in Executors : \A c \in exec'[e].batch : Claimable(c.index)
  PROVE  ClaimsOpen' /\ NextIsVector' /\ ClaimsExecuted'
<1>1. \A e \in Executors : exec'[e].batch \subseteq exec[e].batch
  OBVIOUS
<1>2. ClaimsOpen'
  BY <1>1, ClaimsStayOpen
<1>3. NextIsVector'
  BY DEF NextIsVector
<1>4. ClaimsExecuted'
  BY DEF ClaimsExecuted
<1>5. QED
  BY <1>2, <1>3, <1>4

\* A vector build goes on to its next section with the claims it has.
LEMMA BuildGoesOn ==
  ASSUME TypeOK, ClaimsOpen, NextIsVector, ClaimsExecuted,
         NEW e \in Executors, exec[e].phase \in Executing,
         NEW c \in exec[e].batch, IsNext(c, exec[e].batch), c.index[2] = Vector,
         NEW p \in Executing, NEW s, exec' = [exec EXCEPT ![e] = At(p, exec[e].batch, s, 0)],
         UNCHANGED <<docs, rows>>
  PROVE  ClaimsOpen' /\ NextIsVector' /\ ClaimsExecuted'
<1>1. /\ exec'[e].phase = p /\ exec'[e].batch = exec[e].batch
      /\ \A f \in Executors : f # e => exec'[f] = exec[f]
  BY AtFields DEF TypeOK
<1>2. \A f \in Executors : exec'[f].batch \subseteq exec[f].batch
  BY <1>1
<1>3. \A f \in Executors : \A k \in exec'[f].batch : Claimable(k.index)
  BY DEF Claimable
<1>4. ClaimsOpen'
  BY <1>2, <1>3, ClaimsStayOpen
<1>5. ASSUME NEW o \in exec[e].batch, IsNext(o, exec[e].batch) PROVE o.index[2] = Vector
  <2>1. o.index[1] = c.index[1] /\ o.index \in Indexes /\ c.index \in Indexes
    BY <1>5, OneNext, ExecFields, ClaimFields
  <2>2. Precedes(o.index, c.index)
    BY <1>5 DEF IsNext
  <2>3. Rank(o.index[2]) <= Rank(c.index[2])
    BY <2>1, <2>2, DocumentIndexAssumption DEF Precedes, Indexes, Docs
  <2>4. QED
    BY <2>1, <2>3 DEF Rank, Indexes, IndexTypes
<1>6. NextIsVector'
  BY <1>1, <1>5 DEF NextIsVector
<1>7. ClaimsExecuted'
  BY <1>1 DEF ClaimsExecuted
<1>8. QED
  BY <1>4, <1>6, <1>7

\* The row of a vector build is not active.
LEMMA BuiltIsOpen ==
  ASSUME IInv, ClaimsOpen, NEW e \in Executors, NEW c \in exec[e].batch, c.index[2] = Vector
  PROVE  /\ c.index = <<c.index[1], Vector>> /\ c.index \in Indexes /\ c.index[1] \in Docs
         /\ rows[c.index].status # "active"
<1>1. c.index \in Indexes
  BY ExecFields, ClaimFields DEF IInv
<1>2. c.index = <<c.index[1], Vector>> /\ c.index[1] \in Docs
  BY <1>1, IndexPair
<1>3. CASE Stored(c.index[1])
  BY <1>1, <1>2, <1>3 DEF ClaimsOpen
<1>4. CASE ~Stored(c.index[1])
  BY <1>1, <1>2, <1>4 DEF IInv, RowsHaveDocs, Stored, NoRow, RowWith
<1>5. QED
  BY <1>1, <1>2, <1>3, <1>4

\* A row that is requested, and perhaps claimed, is not active.
LEMMA ActiveIsNotRequested ==
  ASSUME IInv, NEW S \in SUBSET Indexes, NEW i \in Indexes,
         NEW fresh, \A j \in Indexes : fresh[j] = ResetIfStale(RequestRows(S)[j]),
         ClaimRows(fresh, S)[i].status = "active"
  PROVE  i \notin S
<1>1. /\ RequestRows(S) \in [Indexes -> Row] /\ \A j \in Indexes : Coherent(RequestRows(S)[j])
      /\ i \in S => RequestRows(S)[i].status = "pending"
  BY RequestRowsType DEF IInv
<1>2. RequestRows(S)[i].status = "active"
  BY <1>1, ReconciledKept
<1>3. QED
  BY <1>1, <1>2

\* Whatever is done by one executor at a time, claims stay open and active indexes fresh.
LEMMA OneKeepsFresh ==
  ASSUME IInv, ClaimsOpen, NextIsVector, ClaimsExecuted, OneExecutes, OneExecutes', [Next]_vars
  PROVE  ClaimsOpen' /\ NextIsVector' /\ ClaimsExecuted' /\ \A d \in Docs : StaysFresh(d)
<1> DEFINE Fresh == \A d \in Docs : StaysFresh(d)
           Goal == ClaimsOpen' /\ NextIsVector' /\ ClaimsExecuted' /\ Fresh
           Same == \A e \in Executors : exec'[e] = exec[e] \/ exec'[e].batch = {}
           Held == \A e \in Executors : \A c \in exec'[e].batch : Claimable(c.index)
<1>0. /\ TypeOK /\ Callers \subseteq Executors /\ Workers \subseteq Executors
      /\ \A d \in Docs : <<d, Vector>> \in Indexes
      /\ rows \in [Indexes -> Row] /\ exec \in [Executors -> Exec]
      /\ chunks \in [Docs -> Nat] /\ asked \in [Indexes -> Nat]
      /\ docs \in [Docs -> {"absent", "created", "stored", "deleted"}]
      /\ Idle.batch = {}
  BY AtFields DEF IInv, TypeOK, Indexes, IndexTypes, Executors, Idle
<1>a. ASSUME Same, Held, Fresh PROVE Goal
  BY <1>a, NoNewClaims
<1>b. ASSUME NEW e \in Executors, NEW c \in exec[e].batch
      PROVE  c.index \in Indexes /\ c.index[1] \in Docs /\ docs[c.index[1]] \in {"stored", "deleted"}
  BY <1>b, <1>0, ExecFields, ClaimFields DEF IInv, ClaimsBehind
<1>c. ASSUME NEW e \in Executors, NEW c \in exec[e].batch, UNCHANGED <<docs, rows>>
      PROVE  Claimable(c.index)
  BY <1>c DEF Claimable
<1>d. ASSUME UNCHANGED <<chunks, asked>> PROVE Fresh
  BY <1>d DEF StaysFresh
<1>1. ASSUME NEW x \in Docs, ImportAsync(x) PROVE Goal
  <2>1. /\ docs[x] = "absent" /\ docs' = [docs EXCEPT ![x] = "stored"]
        /\ rows' = [i \in Indexes |-> IF i[1] = x THEN Requested(rows[i]) ELSE rows[i]]
        /\ asked' = [i \in Indexes |-> IF i[1] = x THEN settings ELSE asked[i]]
        /\ UNCHANGED <<chunks, exec>>
    BY <1>1 DEF ImportAsync, Unused
  <2>2. ASSUME NEW e \in Executors, NEW c \in exec[e].batch PROVE Claimable(c.index)
    <3>1. c.index \in Indexes /\ c.index[1] \in Docs /\ c.index[1] # x
      BY <1>b, <2>1, <2>2
    <3>2. QED
      BY <1>0, <2>1, <3>1 DEF Claimable
  <2>3. ASSUME NEW d \in Docs PROVE StaysFresh(d)
    <3>1. CASE d = x
      <4>1. rows'[<<d, Vector>>] = Requested(rows[<<d, Vector>>])
        BY <1>0, <2>1, <3>1
      <4>2. rows'[<<d, Vector>>].status = "pending"
        BY <1>0, <4>1, RequestedType, RowCoherent DEF IInv
      <4>3. QED
        BY <4>2 DEF StaysFresh
    <3>2. CASE d # x
      BY <1>0, <2>1, <3>2 DEF StaysFresh
    <3>3. QED
      BY <3>1, <3>2
  <2>4. QED
    BY <1>a, <2>1, <2>2, <2>3
<1>2. ASSUME NEW x \in Docs, DeleteDocument(x) PROVE Goal
  <2>1. /\ docs' = [docs EXCEPT ![x] = "deleted"]
        /\ chunks' = [chunks EXCEPT ![x] = 0]
        /\ rows' = [i \in Indexes |-> IF i[1] = x THEN NoRow ELSE rows[i]]
        /\ asked' = [i \in Indexes |-> IF i[1] = x THEN 0 ELSE asked[i]]
        /\ UNCHANGED exec
    BY <1>2 DEF DeleteDocument
  <2>2. ASSUME NEW e \in Executors, NEW c \in exec[e].batch PROVE Claimable(c.index)
    <3>1. c.index \in Indexes /\ c.index[1] \in Docs
      BY <1>b, <2>2
    <3>2. CASE c.index[1] = x
      BY <1>0, <2>1, <3>1, <3>2 DEF Claimable
    <3>3. CASE c.index[1] # x
      BY <1>0, <2>1, <3>1, <3>3 DEF Claimable
    <3>4. QED
      BY <3>2, <3>3
  <2>3. ASSUME NEW d \in Docs PROVE StaysFresh(d)
    <3>1. CASE d = x
      BY <1>0, <2>1, <3>1 DEF StaysFresh, NoRow, RowWith
    <3>2. CASE d # x
      BY <1>0, <2>1, <3>2 DEF StaysFresh
    <3>3. QED
      BY <3>1, <3>2
  <2>4. QED
    BY <1>a, <2>1, <2>2, <2>3
<1>3. ASSUME Restart PROVE Same /\ Held
  <2>1. exec' = [e \in Executors |-> Idle]
    BY <1>3 DEF Restart
  <2>2. \A e \in Executors : exec'[e].batch = {}
    BY <1>0, <2>1
  <2>3. QED
    BY <2>2
<1>4. ASSUME Crash \/ \E x \in Docs : CrashInImport(x) PROVE Goal
  <2>1. Restart /\ UNCHANGED <<chunks, asked>>
    BY <1>4 DEF Crash, CrashInImport
  <2>2. QED
    BY <1>3, <1>a, <1>d, <2>1
<1>5. ASSUME NEW c \in Callers, CrashInSyncImport(c) PROVE Goal
  <2>1. /\ Restart /\ exec[c].doc \in Docs /\ docs[exec[c].doc] = "absent"
        /\ \E cut \in {0, exec[c].built} : chunks' = [chunks EXCEPT ![exec[c].doc] = cut]
        /\ UNCHANGED <<rows, asked>>
    BY <1>0, <1>5 DEF CrashInSyncImport, IInv, ImportsDisjoint
  <2>2. ASSUME NEW d \in Docs PROVE StaysFresh(d)
    <3>1. CASE d = exec[c].doc
      <4>1. rows[<<d, Vector>>] = NoRow
        BY <1>0, <2>1, <3>1 DEF IInv, RowsHaveDocs
      <4>2. QED
        BY <4>1 DEF StaysFresh, NoRow, RowWith
    <3>2. CASE d # exec[c].doc
      BY <1>0, <2>1, <3>2 DEF StaysFresh
    <3>3. QED
      BY <3>1, <3>2
  <2>3. QED
    BY <1>3, <1>a, <2>1, <2>2
<1>6. ASSUME NEW c \in Callers, NEW x \in Docs, ImportSyncStart(c, x) PROVE Goal
  <2>1. /\ exec' = [exec EXCEPT ![c] = At("importing", {}, settings, x)]
        /\ UNCHANGED <<docs, chunks, rows, asked>>
    BY <1>6 DEF ImportSyncStart
  <2>2. Same
    BY <1>0, <2>1, AtFields
  <2>3. Held
    BY <1>c, <2>1, <2>2
  <2>4. QED
    BY <1>a, <1>d, <2>1, <2>2, <2>3
<1>7. ASSUME NEW c \in Callers, ImportSyncFinish(c) PROVE Goal
  <2>1. exec[c].doc \in Docs /\ docs[exec[c].doc] = "absent"
    BY <1>0, <1>7 DEF ImportSyncFinish, IInv, ImportsDisjoint
  <2>2. PICK enqueued \in BOOLEAN :
          /\ docs' = [docs EXCEPT ![exec[c].doc] = "stored"]
          /\ chunks' = [chunks EXCEPT ![exec[c].doc] = exec[c].built]
          /\ rows' = [j \in Indexes |->
                        IF j[1] = exec[c].doc /\ (j[2] = Vector \/ enqueued)
                        THEN RowWith(IF j[2] = Vector THEN "active" ELSE "queued", 1, 1, FALSE)
                        ELSE rows[j]]
          /\ asked' = [j \in Indexes |->
                        IF j[1] = exec[c].doc /\ (j[2] = Vector \/ enqueued)
                        THEN exec[c].built ELSE asked[j]]
    BY <1>7 DEF ImportSyncFinish
  <2>3. exec' = [exec EXCEPT ![c] = Idle]
    BY <1>7 DEF ImportSyncFinish
  <2>4. Same
    BY <1>0, <2>3
  <2>5. ASSUME NEW e \in Executors, NEW k \in exec'[e].batch PROVE Claimable(k.index)
    <3>1. k \in exec[e].batch
      BY <2>4, <2>5
    <3>2. k.index \in Indexes /\ k.index[1] \in Docs /\ k.index[1] # exec[c].doc
      BY <1>b, <2>1, <3>1
    <3>3. QED
      BY <1>0, <2>2, <3>2 DEF Claimable
  <2>6. ASSUME NEW d \in Docs PROVE StaysFresh(d)
    <3>1. CASE d = exec[c].doc
      <4>1. rows[<<d, Vector>>] = NoRow
        BY <1>0, <2>1, <3>1 DEF IInv, RowsHaveDocs
      <4>2. QED
        BY <4>1 DEF StaysFresh, NoRow, RowWith
    <3>2. CASE d # exec[c].doc
      BY <1>0, <2>2, <3>2 DEF StaysFresh
    <3>3. QED
      BY <3>1, <3>2
  <2>7. QED
    BY <1>a, <2>4, <2>5, <2>6
<1>8. ASSUME NEW e \in Executors, exec' = [exec EXCEPT ![e] = Idle],
             UNCHANGED <<docs, chunks, rows, asked>>
      PROVE  Goal
  <2>1. Same
    BY <1>0, <1>8
  <2>2. Held
    BY <1>8, <1>c, <2>1
  <2>3. QED
    BY <1>8, <1>a, <1>d, <2>1, <2>2
<1>9. ASSUME NEW c \in Callers, ImportSyncFail(c) \/ CancelCaller(c) PROVE Goal
  <2>1. exec' = [exec EXCEPT ![c] = Idle] /\ UNCHANGED <<docs, chunks, rows, asked>>
    BY <1>9 DEF ImportSyncFail, CancelCaller
  <2>2. QED
    BY <1>0, <1>8, <2>1
<1>10. ASSUME NEW ds \in Scopes, NEW f \in BOOLEAN, RebuildAsync(ds, f) PROVE Goal
  <2> DEFINE S == RebuildTargets(ds, f)
  <2>1. S \in SUBSET Indexes
    BY TargetsType
  <2>2. rows' = RequestRows(S) /\ asked' = RequestSettings(S) /\ UNCHANGED <<docs, chunks, exec>>
    BY <1>10 DEF RebuildAsync
  <2> HIDE DEF S
  <2>3. \A i \in Indexes : /\ i \in S => rows'[i].status = "pending"
                           /\ i \notin S => rows'[i] = rows[i]
    BY <2>1, <2>2, RequestRowsType DEF IInv
  <2>4. ASSUME NEW e \in Executors, NEW c \in exec'[e].batch PROVE Claimable(c.index)
    <3>1. c.index \in Indexes /\ docs[c.index[1]] \in {"stored", "deleted"}
      BY <1>b, <2>2, <2>4
    <3>2. QED
      BY <2>2, <2>3, <3>1 DEF Claimable
  <2>5. Fresh
    BY <1>0, <2>2, <2>3 DEF StaysFresh, RequestSettings
  <2>6. QED
    BY <1>a, <2>2, <2>4, <2>5
<1>11. ASSUME NEW c \in Callers, NEW ds \in Scopes, NEW f \in BOOLEAN, RebuildSync(c, ds, f)
       PROVE  Goal
  <2> DEFINE S == RebuildTargets(ds, f)
             fresh == [j \in Indexes |-> ResetIfStale(RequestRows(S)[j])]
  <2>1. S \in SUBSET Indexes
    BY TargetsType
  <2>2. /\ rows' = ClaimRows(fresh, S) /\ asked' = RequestSettings(S)
        /\ exec' = [exec EXCEPT ![c] = At("run", ClaimsOf(fresh, S), 0, 0)]
        /\ UNCHANGED <<docs, chunks>>
    BY <1>11 DEF RebuildSync
  <2> HIDE DEF S
  <2>3. /\ RequestRows(S) \in [Indexes -> Row]
        /\ \A j \in Indexes : Coherent(RequestRows(S)[j])
    BY <2>1, RequestRowsType DEF IInv
  <2>4. fresh \in [Indexes -> Row] /\ \A j \in Indexes : fresh[j] = ResetIfStale(RequestRows(S)[j])
    BY <2>3, ResetType
  <2> HIDE DEF fresh
  <2>5. ClaimsOpen' /\ NextIsVector' /\ ClaimsExecuted'
    BY <1>0, <2>1, <2>2, <2>4, NewClaimsOpen
  <2>6. ASSUME NEW d \in Docs PROVE StaysFresh(d)
    <3>1. rows'[<<d, Vector>>].status = "active" => <<d, Vector>> \notin S
      BY <1>0, <2>1, <2>2, <2>4, ActiveIsNotRequested
    <3>2. <<d, Vector>> \notin S => asked'[<<d, Vector>>] = asked[<<d, Vector>>]
      BY <1>0, <2>2 DEF RequestSettings
    <3>3. QED
      BY <2>2, <3>1, <3>2 DEF StaysFresh
  <2>7. QED
    BY <2>5, <2>6
<1>12. ASSUME NEW w \in Workers, Reconcile(w) PROVE Goal
  <2> DEFINE fresh == [j \in Indexes |-> ResetIfStale(rows[j])]
  <2>1. /\ rows' = ClaimRows(fresh, Indexes)
        /\ exec' = [exec EXCEPT ![w] = At("run", ClaimsOf(fresh, Indexes), 0, 0)]
        /\ UNCHANGED <<docs, chunks, asked>>
    BY <1>12 DEF Reconcile
  <2>2. fresh \in [Indexes -> Row]
    BY <1>0, ResetType, RowCoherent DEF IInv
  <2> HIDE DEF fresh
  <2>3. Indexes \in SUBSET Indexes /\ w \in Executors
    BY <1>0
  <2>4. ClaimsOpen' /\ NextIsVector' /\ ClaimsExecuted'
    BY <1>0, <2>1, <2>2, <2>3, NewClaimsOpen
  <2>5. QED
    BY <1>d, <2>1, <2>4
<1>13. ASSUME NEW e \in Executors, StartVector(e) PROVE Goal
  <2>1. PICK c \in exec[e].batch :
          /\ exec[e].phase = "run" /\ IsNext(c, exec[e].batch) /\ c.index[2] = Vector
          /\ exec' = [exec EXCEPT ![e] = At("embedding", exec[e].batch, settings, 0)]
          /\ UNCHANGED <<docs, chunks, rows, asked>>
    BY <1>13 DEF StartVector
  <2>2. exec[e].phase \in Executing /\ "embedding" \in Executing
    BY <2>1 DEF Executing
  <2>3. ClaimsOpen' /\ NextIsVector' /\ ClaimsExecuted'
    BY <1>0, <2>1, <2>2, BuildGoesOn
  <2>4. QED
    BY <1>d, <2>1, <2>3
<1>14. ASSUME NEW e \in Executors, NEW c \in exec[e].batch, NEW r, Settle(e, c, r),
              exec[e].phase \in Executing, UNCHANGED <<docs, chunks, asked>>
       PROVE  Goal
  <2>1. ClaimsOpen' /\ NextIsVector' /\ ClaimsExecuted'
    BY <1>0, <1>14, SettleKeepsClaims
  <2>2. QED
    BY <1>14, <1>d, <2>1
<1>15. ASSUME NEW e \in Executors,
              BuildGraph(e) \/ MissingDocument(e) \/ EmbeddingFailed(e) \/ CompleteVector(e)
       PROVE  Goal
  <2>1. /\ \E c \in exec[e].batch : \E r : Settle(e, c, r)
        /\ exec[e].phase \in Executing /\ UNCHANGED <<docs, chunks, asked>>
    BY <1>15 DEF BuildGraph, MissingDocument, EmbeddingFailed, CompleteVector, Executing
  <2>2. QED
    BY <1>14, <2>1
\* The chunks of the document that is built, whose row is not active.
<1>16. ASSUME NEW e \in Executors, NEW c \in exec[e].batch, c.index[2] = Vector, NEW v,
              chunks' = [chunks EXCEPT ![c.index[1]] = v], UNCHANGED <<rows, asked>>
       PROVE  Fresh
  <2>1. c.index = <<c.index[1], Vector>> /\ rows[c.index].status # "active"
    BY <1>16, BuiltIsOpen
  <2>2. ASSUME NEW d \in Docs PROVE StaysFresh(d)
    <3>1. CASE d = c.index[1]
      BY <2>1, <3>1 DEF StaysFresh
    <3>2. CASE d # c.index[1]
      BY <1>0, <1>16, <3>2 DEF StaysFresh
    <3>3. QED
      BY <3>1, <3>2
  <2>3. QED
    BY <2>2
<1>17. ASSUME NEW e \in Executors, EmbeddingArrived(e) PROVE Goal
  <2>1. PICK c \in exec[e].batch :
          /\ exec[e].phase = "embedding" /\ IsNext(c, exec[e].batch)
          /\ chunks' = [chunks EXCEPT ![c.index[1]] = 0]
          /\ exec' = [exec EXCEPT ![e] = At("fill", exec[e].batch, exec[e].built, 0)]
          /\ UNCHANGED <<docs, rows, asked>>
    BY <1>17 DEF EmbeddingArrived
  <2>2. exec[e].phase \in Executing /\ "fill" \in Executing /\ c.index[2] = Vector
    BY <2>1 DEF Executing, NextIsVector
  <2>3. ClaimsOpen' /\ NextIsVector' /\ ClaimsExecuted'
    BY <1>0, <2>1, <2>2, BuildGoesOn
  <2>4. QED
    BY <1>16, <2>1, <2>2, <2>3
<1>18. ASSUME NEW e \in Executors, FillChunks(e) PROVE Goal
  <2>1. PICK c \in exec[e].batch :
          /\ exec[e].phase = "fill" /\ IsNext(c, exec[e].batch)
          /\ IF Stored(c.index[1])
             THEN /\ chunks' = [chunks EXCEPT ![c.index[1]] = exec[e].built]
                  /\ exec' = [exec EXCEPT ![e] = At("settle", exec[e].batch, exec[e].built, 0)]
                  /\ UNCHANGED <<rows, loop>>
             ELSE /\ Settle(e, c, Failed(rows[c.index]))
                  /\ UNCHANGED chunks
          /\ UNCHANGED <<docs, asked>>
    BY <1>18 DEF FillChunks
  <2>2. exec[e].phase \in Executing /\ "settle" \in Executing /\ c.index[2] = Vector
    BY <2>1 DEF Executing, NextIsVector
  <2>3. CASE Stored(c.index[1])
    <3>1. ClaimsOpen' /\ NextIsVector' /\ ClaimsExecuted'
      BY <1>0, <2>1, <2>2, <2>3, BuildGoesOn
    <3>2. QED
      BY <1>16, <2>1, <2>2, <2>3, <3>1
  <2>4. CASE ~Stored(c.index[1])
    BY <1>14, <2>1, <2>2, <2>4
  <2>5. QED
    BY <2>3, <2>4
<1>19. ASSUME NEW e \in Executors, EndBatch(e) PROVE Goal
  <2>1. exec' = [exec EXCEPT ![e] = Idle] /\ UNCHANGED <<docs, chunks, rows, asked>>
    BY <1>19 DEF EndBatch
  <2>2. QED
    BY <1>8, <2>1
<1>20. ASSUME UNCHANGED <<docs, chunks, rows, asked, exec>> PROVE Goal
  <2>1. Same
    BY <1>20
  <2>2. Held
    BY <1>20, <1>c
  <2>3. QED
    BY <1>20, <1>a, <1>d, <2>1, <2>2
<1>21. ASSUME EditSettings \/ SwitchToSync \/ UNCHANGED vars \/ \E w \in Workers : SwitchToAsync(w)
       PROVE  Goal
  <2>1. UNCHANGED <<docs, chunks, rows, asked, exec>>
    BY <1>21 DEF EditSettings, SwitchToSync, vars, SwitchToAsync
  <2>2. QED
    BY <1>20, <2>1
<1>22. ASSUME NEW j \in Indexes, Age(j) PROVE Goal
  <2>1. /\ rows[j].status = "creating"
        /\ rows' = [rows EXCEPT ![j] = RowWith("creating", rows[j].version, rows[j].observed, TRUE)]
        /\ UNCHANGED <<docs, chunks, asked, exec>>
    BY <1>22 DEF Age
  <2>2. ASSUME NEW e \in Executors, NEW c \in exec'[e].batch PROVE Claimable(c.index)
    <3>1. c.index \in Indexes
      BY <1>b, <2>1, <2>2
    <3>2. CASE c.index = j
      BY <1>0, <2>1, <3>1, <3>2 DEF Claimable, RowWith
    <3>3. CASE c.index # j
      BY <1>0, <2>1, <3>1, <3>3 DEF Claimable
    <3>4. QED
      BY <3>2, <3>3
  <2>3. QED
    BY <1>a, <1>d, <2>1, <2>2
<1> HIDE DEF Goal
<1>23. ASSUME NEW e \in Executors, ExecutorStep(e) PROVE Goal
  BY <1>13, <1>15, <1>17, <1>18, <1>19, <1>23 DEF ExecutorStep
<1>24. ASSUME Next PROVE Goal
  BY <1>1, <1>2, <1>4, <1>5, <1>6, <1>7, <1>9, <1>10, <1>11, <1>12, <1>21, <1>22, <1>23, <1>24
     DEF Next
<1>25. Goal
  BY <1>21, <1>24
<1>26. QED
  BY <1>25 DEF Goal

\* An executor that fails an index holds the claim on its current version.
LEMMA FailedByOwner ==
  ASSUME IInv, ClaimsOpen, [Next]_vars, NEW i \in Indexes,
         rows[i].status # "failed", rows'[i].status = "failed"
  PROVE  \E e \in Executors : \E c \in exec[e].batch : c.index = i /\ c.target = rows[i].version
<1> DEFINE Goal == \E e \in Executors : \E c \in exec[e].batch :
                     c.index = i /\ c.target = rows[i].version
           Written(c) == {Failed(rows[c.index]), Finished(rows[c.index], c.target, "active"),
                          Finished(rows[c.index], c.target, "queued")}
<1>0. /\ rows \in [Indexes -> Row] /\ Callers \subseteq Executors
      /\ rows[i] \in Row /\ Coherent(rows[i]) /\ rows'[i] # rows[i]
      /\ i = <<i[1], i[2]>> /\ i[1] \in Docs
  BY IndexPair DEF IInv, TypeOK, StatusMatchesVersions, Executors
<1>1. ASSUME NEW e \in Executors, NEW c \in exec[e].batch, NEW r \in Written(c), Settle(e, c, r)
      PROVE  Goal
  <2>1. rows' = [rows EXCEPT ![c.index] = r]
    BY <1>1 DEF Settle
  <2>2. c.index = i /\ rows'[i] = r
    BY <1>0, <2>1
  <2>3. r \in {Failed(rows[i]), Finished(rows[i], c.target, "active"),
               Finished(rows[i], c.target, "queued")}
    BY <1>1, <2>2
  <2>4. rows[i].status = "creating"
    BY <1>0, <2>2, <2>3 DEF Failed, Finished, RowWith
  <2>5. Stored(i[1])
    BY <1>0, <2>4 DEF IInv, RowsHaveDocs, Stored, NoRow, RowWith
  <2>6. rows[i].version = c.target
    BY <2>2, <2>4, <2>5 DEF ClaimsOpen
  <2>7. QED
    BY <2>2, <2>6
<1>2. ASSUME NEW e \in Executors,
             BuildGraph(e) \/ MissingDocument(e) \/ EmbeddingFailed(e) \/ CompleteVector(e)
      PROVE  Goal
  <2>1. \E c \in exec[e].batch : \E r \in Written(c) : Settle(e, c, r)
    BY <1>2 DEF BuildGraph, MissingDocument, EmbeddingFailed, CompleteVector
  <2>2. QED
    BY <1>1, <2>1
<1>3. ASSUME rows' = rows PROVE FALSE
  BY <1>0, <1>3
<1>4. ASSUME NEW e \in Executors, FillChunks(e) PROVE Goal
  <2>1. \/ rows' = rows
        \/ \E c \in exec[e].batch : \E r \in Written(c) : Settle(e, c, r)
    BY <1>4 DEF FillChunks
  <2>2. QED
    BY <1>1, <1>3, <2>1
\* No other step fails an index.
<1>5. ASSUME NEW e \in Executors, StartVector(e) \/ EmbeddingArrived(e) \/ EndBatch(e) PROVE FALSE
  BY <1>3, <1>5 DEF StartVector, EmbeddingArrived, EndBatch
<1>6. ASSUME NEW x \in Docs, ImportAsync(x) PROVE FALSE
  <2>1. rows'[i] = Requested(rows[i])
    BY <1>0, <1>6 DEF ImportAsync
  <2>2. QED
    BY <1>0, <2>1, RequestedType
<1>7. ASSUME NEW x \in Docs, DeleteDocument(x) \/ CrashInImport(x) PROVE FALSE
  <2>1. rows'[i] = NoRow \/ rows'[i] = rows[i]
    BY <1>0, <1>7 DEF DeleteDocument, CrashInImport
  <2>2. QED
    BY <1>0, <2>1 DEF NoRow, RowWith
<1>8. ASSUME NEW c \in Callers, ImportSyncFinish(c) PROVE FALSE
  <2>1. \E enqueued \in BOOLEAN :
          rows' = [j \in Indexes |->
                     IF j[1] = exec[c].doc /\ (j[2] = Vector \/ enqueued)
                     THEN RowWith(IF j[2] = Vector THEN "active" ELSE "queued", 1, 1, FALSE)
                     ELSE rows[j]]
    BY <1>8 DEF ImportSyncFinish
  <2>2. \/ rows'[i] = rows[i]
        \/ rows'[i] = RowWith(IF i[2] = Vector THEN "active" ELSE "queued", 1, 1, FALSE)
    BY <2>1
  <2>3. QED
    BY <1>0, <2>2 DEF RowWith
<1>9. ASSUME NEW c \in Callers, ImportSyncFail(c) \/ CancelCaller(c) \/ CrashInSyncImport(c)
      PROVE  FALSE
  BY <1>3, <1>9 DEF ImportSyncFail, CancelCaller, CrashInSyncImport
<1>10. ASSUME NEW c \in Callers, NEW x \in Docs, ImportSyncStart(c, x) PROVE FALSE
  BY <1>3, <1>10 DEF ImportSyncStart
<1>11. ASSUME NEW S \in SUBSET Indexes
       PROVE  RequestRows(S)[i].status # "failed"
  <2>1. /\ i \in S => RequestRows(S)[i].status = "pending"
        /\ i \notin S => RequestRows(S)[i] = rows[i]
    BY RequestRowsType DEF IInv
  <2>2. QED
    BY <2>1
<1>12. ASSUME NEW ds \in Scopes, NEW f \in BOOLEAN, RebuildAsync(ds, f) PROVE FALSE
  <2>1. rows' = RequestRows(RebuildTargets(ds, f))
    BY <1>12 DEF RebuildAsync
  <2>2. QED
    BY <1>11, <2>1, TargetsType
<1>13. ASSUME NEW rs, NEW S \in SUBSET Indexes, rs[i].status # "failed",
              rows' = ClaimRows([j \in Indexes |-> ResetIfStale(rs[j])], S)
       PROVE  FALSE
  <2> DEFINE fresh == [j \in Indexes |-> ResetIfStale(rs[j])]
  <2>1. fresh[i] = ResetIfStale(rs[i])
    OBVIOUS
  <2> HIDE DEF fresh
  <2>2. fresh[i].status # "failed"
    BY <1>13, <2>1 DEF ResetIfStale, RowWith
  <2>3. rows'[i] = Claimed(fresh[i]) \/ rows'[i] = fresh[i]
    BY <1>13 DEF ClaimRows, fresh
  <2>4. QED
    BY <2>2, <2>3 DEF Claimed, RowWith
<1>14. ASSUME NEW c \in Callers, NEW ds \in Scopes, NEW f \in BOOLEAN, RebuildSync(c, ds, f)
       PROVE  FALSE
  <2> DEFINE S == RebuildTargets(ds, f)
  <2>1. S \in SUBSET Indexes
    BY TargetsType
  <2>2. rows' = ClaimRows([j \in Indexes |-> ResetIfStale(RequestRows(S)[j])], S)
    BY <1>14 DEF RebuildSync
  <2> HIDE DEF S
  <2>3. QED
    BY <1>11, <1>13, <2>1, <2>2
<1>15. ASSUME NEW w \in Workers, Reconcile(w) PROVE FALSE
  <2>1. rows' = ClaimRows([j \in Indexes |-> ResetIfStale(rows[j])], Indexes)
    BY <1>15 DEF Reconcile
  <2>2. Indexes \in SUBSET Indexes
    OBVIOUS
  <2>3. QED
    BY <1>13, <2>1, <2>2
<1>16. ASSUME NEW j \in Indexes, Age(j) PROVE FALSE
  <2>1. rows' = [rows EXCEPT ![j] = RowWith("creating", rows[j].version, rows[j].observed, TRUE)]
    BY <1>16 DEF Age
  <2>2. rows'[i].status = "creating" \/ rows'[i] = rows[i]
    BY <1>0, <2>1 DEF RowWith
  <2>3. QED
    BY <1>0, <2>2
<1>17. ASSUME EditSettings \/ SwitchToSync \/ Crash \/ UNCHANGED vars
              \/ \E w \in Workers : SwitchToAsync(w)
       PROVE  FALSE
  BY <1>3, <1>17 DEF EditSettings, SwitchToSync, Crash, vars, SwitchToAsync
<1> HIDE DEF Goal
<1>18. ASSUME NEW e \in Executors, ExecutorStep(e) PROVE Goal
  BY <1>2, <1>4, <1>5, <1>18 DEF ExecutorStep
<1>19. ASSUME Next PROVE Goal
  BY <1>6, <1>7, <1>8, <1>9, <1>10, <1>12, <1>14, <1>15, <1>16, <1>17, <1>18, <1>19 DEF Next
<1>20. Goal
  BY <1>17, <1>19
<1>21. QED
  BY <1>20 DEF Goal

LEMMA InitFresh == Init => FreshInv
<1>1. ASSUME Init PROVE ClaimsOpen /\ NextIsVector /\ ClaimsExecuted /\ ActiveIsFresh
  <2>1. \A e \in Executors : exec[e].batch = {}
    BY <1>1, AtFields DEF Init, Idle
  <2>2. \A d \in Docs : rows[<<d, Vector>>].status = "untracked"
    BY <1>1 DEF Init, Indexes, IndexTypes, NoRow, RowWith
  <2>3. QED
    BY <2>1, <2>2 DEF ClaimsOpen, NextIsVector, ClaimsExecuted, ActiveIsFresh
<1>2. QED
  BY <1>1, InitInvariant DEF FreshInv

LEMMA FreshKept == FreshInv /\ OneExecutes /\ OneExecutes' /\ [Next]_vars => FreshInv'
<1> SUFFICES ASSUME FreshInv, OneExecutes, OneExecutes', [Next]_vars PROVE FreshInv'
  OBVIOUS
<1>1. IInv'
  BY InvariantKept DEF FreshInv
<1>2. ClaimsOpen' /\ NextIsVector' /\ ClaimsExecuted' /\ \A d \in Docs : StaysFresh(d)
  BY OneKeepsFresh DEF FreshInv
<1>3. ASSUME NEW d \in Docs, rows'[<<d, Vector>>].status = "active"
      PROVE  chunks'[d] >= asked'[<<d, Vector>>]
  <2>1. CASE rows[<<d, Vector>>].status = "active"
    BY <1>2, <1>3, <2>1 DEF StaysFresh, FreshInv, ActiveIsFresh
  <2>2. CASE rows[<<d, Vector>>].status # "active"
    BY <1>3, <2>2, Activated DEF FreshInv
  <2>3. QED
    BY <2>1, <2>2
<1>4. ActiveIsFresh'
  BY <1>3 DEF ActiveIsFresh
<1>5. QED
  BY <1>1, <1>2, <1>4 DEF FreshInv

\* Where one executor runs at a time, an active index is never older than its last request.
THEOREM ActiveStaysFresh == Spec /\ []OneExecutes => []ActiveIsFresh
<1>1. FreshInv => ActiveIsFresh
  BY DEF FreshInv
<1>2. QED
  BY <1>1, InitFresh, FreshKept, PTL DEF Spec

\* ... and an index is failed only by who holds the claim on its current version.
THEOREM FailuresAreOwn == Spec /\ []OneExecutes => FailureIsOwn
<1>1. FreshInv /\ [Next]_vars =>
        [\A i \in Indexes :
           rows[i].status # "failed" /\ rows'[i].status = "failed"
             => \E e \in Executors : \E c \in exec[e].batch :
                  c.index = i /\ c.target = rows[i].version]_vars
  BY FailedByOwner DEF FreshInv
<1>2. QED
  BY <1>1, InitFresh, FreshKept, PTL DEF Spec, FailureIsOwn

\* The process never leaves the indexing mode it was started in; in sync mode one request
\* rebuilds at a time.
Steady ==
    /\ MaxSwitches = 0
    /\ InitMode = "sync" => \A c, d \in Callers : c = d

\* What is steady then: who runs, and who may have claims.
SteadyInv ==
    /\ switches = 0 /\ mode = InitMode
    /\ \A v, w \in Workers : worker[v] # "off" /\ worker[w] # "off" => v = w
    /\ mode = "sync" => \A w \in Workers : worker[w] = "off"
    /\ \A e \in Executors : exec[e].phase \in Executing =>
         IF mode = "async" THEN e \in Workers /\ worker[e] # "off" ELSE e \in Callers

LEMMA SteadyIsOne ==
  ASSUME Steady, SteadyInv
  PROVE  OneExecutes
  BY DocumentIndexAssumption DEF Steady, SteadyInv, OneExecutes

LEMMA InitSteady == Steady /\ Init => SteadyInv
<1> SUFFICES ASSUME Steady, Init PROVE SteadyInv
  OBVIOUS
<1>1. \A e \in Executors : exec[e].phase \notin Executing
  BY AtFields DEF Init, Idle, Executing
<1>2. worker \in [Workers -> {"off", "on"}]
  BY DEF Init
<1>3. \A v, w \in Workers : worker[v] = "on" /\ worker[w] = "on" => v = w
  BY DEF Init
<1>4. switches = 0 /\ mode = InitMode
  BY DEF Init, Steady
<1>5. mode = "sync" => \A w \in Workers : worker[w] = "off"
  BY DEF Init
<1>6. QED
  BY <1>1, <1>2, <1>3, <1>4, <1>5 DEF SteadyInv

LEMMA SteadyKept == IInv /\ SteadyInv /\ [Next]_vars => SteadyInv'
<1> SUFFICES ASSUME IInv, SteadyInv, [Next]_vars PROVE SteadyInv'
  OBVIOUS
<1> DEFINE Goal == SteadyInv'
           Falls == \A e \in Executors : exec'[e].phase \in Executing => exec[e].phase \in Executing
<1>0. /\ exec \in [Executors -> Exec] /\ worker \in [Workers -> {"off", "on", "stopping"}]
      /\ Idle.phase \notin Executing /\ Callers \subseteq Executors /\ Workers \subseteq Executors
      /\ InitMode \in {"async", "sync"}
  BY AtFields, DocumentIndexAssumption DEF IInv, TypeOK, Idle, Executing, Executors
<1>1. ASSUME Falls, UNCHANGED <<worker, mode, switches>> PROVE Goal
  BY <1>1 DEF SteadyInv
<1>2. ASSUME UNCHANGED <<exec, worker, mode, switches>> PROVE Goal
  BY <1>1, <1>2
<1>3. ASSUME NEW e \in Executors, exec' = [exec EXCEPT ![e] = Idle] PROVE Falls
  BY <1>0, <1>3
<1>4. ASSUME NEW x \in Docs, ImportAsync(x) \/ DeleteDocument(x) PROVE Goal
  BY <1>2, <1>4 DEF ImportAsync, DeleteDocument
<1>5. ASSUME Restart PROVE Goal
  <2>1. exec' = [e \in Executors |-> Idle] /\ UNCHANGED <<mode, switches>>
    BY <1>5 DEF Restart
  <2>2. \A e \in Executors : exec'[e].phase \notin Executing
    BY <1>0, <2>1
  <2>3. CASE mode = "sync" \/ Workers = {}
    <3>1. worker' = [w \in Workers |-> "off"]
      BY <1>5, <2>3 DEF Restart
    <3>2. QED
      BY <2>1, <2>2, <3>1 DEF SteadyInv
  <2>4. CASE ~(mode = "sync" \/ Workers = {})
    <3>1. PICK w \in Workers : worker' = [v \in Workers |-> IF v = w THEN "on" ELSE "off"]
      BY <1>5, <2>4 DEF Restart
    <3>2. QED
      BY <2>1, <2>2, <2>4, <3>1 DEF SteadyInv
  <2>5. QED
    BY <2>3, <2>4
<1>6. ASSUME Crash \/ (\E x \in Docs : CrashInImport(x)) \/ \E c \in Callers : CrashInSyncImport(c)
      PROVE  Goal
  BY <1>5, <1>6 DEF Crash, CrashInImport, CrashInSyncImport
<1>7. ASSUME NEW c \in Callers, NEW x \in Docs, ImportSyncStart(c, x) PROVE Goal
  <2>1. exec' = [exec EXCEPT ![c] = At("importing", {}, settings, x)]
        /\ UNCHANGED <<worker, mode, switches>>
    BY <1>7 DEF ImportSyncStart
  <2>2. At("importing", {}, settings, x).phase \notin Executing
    BY AtFields DEF Executing
  <2>3. Falls
    BY <1>0, <2>1, <2>2
  <2>4. QED
    BY <1>1, <2>1, <2>3
<1>8. ASSUME NEW c \in Callers, ImportSyncFinish(c) \/ ImportSyncFail(c) \/ CancelCaller(c) PROVE Goal
  <2>1. exec' = [exec EXCEPT ![c] = Idle] /\ UNCHANGED <<worker, mode, switches>>
    BY <1>8 DEF ImportSyncFinish, ImportSyncFail, CancelCaller
  <2>2. QED
    BY <1>0, <1>1, <1>3, <2>1
<1>9. ASSUME NEW ds \in Scopes, NEW f \in BOOLEAN, RebuildAsync(ds, f) PROVE Goal
  BY <1>2, <1>9 DEF RebuildAsync
<1>10. ASSUME NEW e \in Executors, \A g \in Executors : g # e => exec'[g] = exec[g],
              IF mode = "async" THEN e \in Workers /\ worker[e] # "off" ELSE e \in Callers,
              UNCHANGED <<worker, mode, switches>>
       PROVE  Goal
  BY <1>10 DEF SteadyInv
<1>11. ASSUME NEW c \in Callers, NEW ds \in Scopes, NEW f \in BOOLEAN, RebuildSync(c, ds, f)
       PROVE  Goal
  <2>1. /\ mode = "sync" /\ UNCHANGED <<worker, mode, switches>>
        /\ \E b : exec' = [exec EXCEPT ![c] = b]
    BY <1>11 DEF RebuildSync
  <2>2. QED
    BY <1>0, <1>10, <2>1
<1>12. ASSUME NEW w \in Workers, Reconcile(w) PROVE Goal
  <2>1. /\ worker[w] = "on" /\ UNCHANGED <<worker, mode, switches>>
        /\ \E b : exec' = [exec EXCEPT ![w] = b]
    BY <1>12 DEF Reconcile
  <2>2. mode = "async"
    BY <1>0, <2>1 DEF SteadyInv
  <2>3. QED
    BY <1>0, <1>10, <2>1, <2>2
<1>13. ASSUME NEW e \in Executors, exec[e].phase \in Executing,
              UNCHANGED <<worker, mode, switches>>, \E b : exec' = [exec EXCEPT ![e] = b]
       PROVE  Goal
  <2>1. Falls
    BY <1>0, <1>13
  <2>2. QED
    BY <1>1, <1>13, <2>1
<1>14. ASSUME NEW e \in Executors,
              \/ StartVector(e) \/ BuildGraph(e) \/ MissingDocument(e) \/ EmbeddingArrived(e)
              \/ EmbeddingFailed(e) \/ CompleteVector(e)
       PROVE  Goal
  <2>1. exec[e].phase \in Executing /\ UNCHANGED <<worker, mode, switches>>
    BY <1>14 DEF StartVector, BuildGraph, MissingDocument, EmbeddingArrived, EmbeddingFailed,
                 CompleteVector, Executing
  <2>2. \E b : exec' = [exec EXCEPT ![e] = b]
    BY <1>14 DEF StartVector, BuildGraph, MissingDocument, EmbeddingArrived, EmbeddingFailed,
                 CompleteVector, Settle
  <2>3. QED
    BY <1>13, <2>1, <2>2
<1>15. ASSUME NEW e \in Executors, FillChunks(e) PROVE Goal
  <2>1. exec[e].phase \in Executing /\ UNCHANGED <<worker, mode, switches>>
    BY <1>15 DEF FillChunks, Executing
  <2>2. \E b : exec' = [exec EXCEPT ![e] = b]
    BY <1>15 DEF FillChunks, Settle
  <2>3. QED
    BY <1>13, <2>1, <2>2
<1>16. ASSUME NEW e \in Executors, EndBatch(e) PROVE Goal
  <2>1. /\ exec' = [exec EXCEPT ![e] = Idle] /\ UNCHANGED <<mode, switches>>
        /\ worker' = IF e \in Workers /\ worker[e] = "stopping"
                     THEN [worker EXCEPT ![e] = "off"] ELSE worker
    BY <1>16 DEF EndBatch
  <2>2. exec'[e].phase \notin Executing /\ \A g \in Executors : g # e => exec'[g] = exec[g]
    BY <1>0, <2>1
  <2>3. \A w \in Workers : /\ worker'[w] # "off" => worker[w] # "off"
                           /\ w # e => worker'[w] = worker[w]
    BY <1>0, <2>1
  <2>4. QED
    BY <2>1, <2>2, <2>3 DEF SteadyInv
<1>17. ASSUME NEW j \in Indexes, Age(j) PROVE Goal
  BY <1>2, <1>17 DEF Age
\* The mode is never switched.
<1>18. ASSUME SwitchToSync \/ \E w \in Workers : SwitchToAsync(w) PROVE FALSE
  BY <1>18 DEF SwitchToSync, SwitchToAsync, SteadyInv
<1>19. ASSUME EditSettings \/ UNCHANGED vars PROVE Goal
  BY <1>2, <1>19 DEF EditSettings, vars
<1> HIDE DEF Goal
<1>20. ASSUME NEW e \in Executors, ExecutorStep(e) PROVE Goal
  BY <1>14, <1>15, <1>16, <1>20 DEF ExecutorStep
<1>21. ASSUME Next PROVE Goal
  BY <1>4, <1>6, <1>7, <1>8, <1>9, <1>11, <1>12, <1>17, <1>18, <1>19, <1>20, <1>21 DEF Next
<1>22. Goal
  BY <1>19, <1>21
<1>23. QED
  BY <1>22 DEF Goal

\* A process that keeps its indexing mode never has two executors at work, whatever crashes:
\* what it has published as active is fresh, and what it has failed was its own.
THEOREM SteadyProcessStaysFresh == Steady /\ Spec => []ActiveIsFresh /\ FailureIsOwn
<1>1. Steady => (Spec => []OneExecutes)
  <2>1. Steady => (SteadyInv => OneExecutes)
    BY SteadyIsOne
  <2> HIDE DEF Steady
  <2>2. ASSUME Steady PROVE Spec => []OneExecutes
    <3>1. Init => SteadyInv
      BY <2>2, InitSteady
    <3>2. SteadyInv => OneExecutes
      BY <2>1, <2>2
    <3>3. QED
      BY <3>1, <3>2, SteadyKept, InvariantHolds, PTL DEF Spec
  <2>3. QED
    BY <2>2
<1>2. QED
  BY <1>1, ActiveStaysFresh, FailuresAreOwn, PTL

----------------------------------------------------------------------------
(***************************************************************************)
(* The caches of the knowledge graph, with any processes, searches and     *)
(* upserts.                                                                *)
(***************************************************************************)
CONSTANTS Clients, Searchers, Writers, ClientOf, Prewarmed, MaxWrites, MaxLosses, None
VARIABLES graph, meta, stored, revision, paths, answers, at, key, got, under, losses,
          covered, counted, sure, asof

G == INSTANCE GraphCache

\* Where a thread can be, where a search can be after its first look, and where a thread
\* holds a value of the graph.
Places == {"idle", "looking", "expanding", "fetching", "adopting", "loading",
           "keeping", "storing", "asking", "answered", "clearing", "counting",
           "taking over", "pruning", "warming", "dropping", "warming memory",
           "loading memory", "keeping memory"}
Searching == {"expanding", "fetching", "adopting", "loading", "keeping", "storing", "asking"}
Holding == {"adopting", "keeping", "keeping memory", "storing", "asking"}

\* What the type invariant says of the variables of the caches.
LEMMA CacheTypes ==
  ASSUME G!CacheAssumption, G!TypeOK
  PROVE  /\ MaxWrites \in Nat /\ graph \in Nat /\ meta \in Nat /\ meta \in G!Revisions
         /\ G!Revisions \subseteq Nat /\ G!Threads = Searchers \cup Writers
         /\ at \in [G!Threads -> Places] /\ key \in [G!Threads -> G!Revisions]
         /\ got \in [G!Threads -> G!Values] /\ under \in [G!Threads -> G!Revisions]
         /\ stored \in [G!Revisions -> G!Values] /\ revision \in [Clients -> G!Revisions]
         /\ paths \in [Clients -> [G!Revisions -> G!Values]]
         /\ answers \in [Clients -> [G!Revisions -> G!Values]]
         /\ covered \in [G!Revisions -> Nat] /\ asof \in [Searchers -> Nat]
         /\ \A t \in G!Threads : ClientOf[t] \in Clients
         /\ \A s \in Searchers : s \notin Writers
         /\ \A v \in G!Values : v \notin {None, G!Loose} => v \in Nat
         /\ None # G!Loose
<1>1. MaxWrites \in Nat /\ G!Revisions \subseteq Nat /\ 0..MaxWrites \subseteq Nat /\ None \notin Int
  BY DEF G!CacheAssumption, G!Revisions
<1>2. /\ graph \in 0..MaxWrites /\ meta \in G!Revisions /\ stored \in [G!Revisions -> G!Values]
      /\ revision \in [Clients -> G!Revisions]
      /\ paths \in [Clients -> [G!Revisions -> G!Values]]
      /\ answers \in [Clients -> [G!Revisions -> G!Values]]
      /\ at \in [G!Threads -> Places]
      /\ key \in [G!Threads -> G!Revisions] /\ got \in [G!Threads -> G!Values]
      /\ under \in [G!Threads -> G!Revisions]
      /\ covered \in [G!Revisions -> 0..MaxWrites] /\ asof \in [Searchers -> 0..MaxWrites]
  BY DEF G!TypeOK, Places
<1>3. covered \in [G!Revisions -> Nat] /\ asof \in [Searchers -> Nat]
  BY <1>1, <1>2
<1>4. /\ \A t \in G!Threads : ClientOf[t] \in Clients
      /\ \A s \in Searchers : s \notin Writers
  BY DEF G!CacheAssumption, G!Threads
<1>5. \A v \in G!Values : v \notin {None, G!Loose} => v \in Nat
  BY <1>1 DEF G!Values
<1>6. None # G!Loose
  BY <1>1 DEF G!Loose
<1>7. QED
  BY <1>1, <1>2, <1>3, <1>4, <1>5, <1>6 DEF G!Threads

\* What the bounds say of revisions and values.
LEMMA Basics ==
  ASSUME G!CacheAssumption
  PROVE  /\ 0 \in G!Revisions /\ 0 \in 0..MaxWrites /\ G!Revisions = 0..MaxWrites /\ MaxWrites \in Nat
         /\ None \in G!Values /\ G!Loose \in G!Values /\ 0..MaxWrites \subseteq G!Values /\ None # G!Loose
         /\ None \notin 0..MaxWrites /\ G!Loose \notin 0..MaxWrites
<1>1. MaxWrites \in Nat /\ None \notin Int
  BY DEF G!CacheAssumption
<1>2. 0 \in 0..MaxWrites /\ 0..MaxWrites \subseteq Int /\ -1 \notin 0..MaxWrites /\ -1 \in Int
  BY <1>1
<1>3. None # -1 /\ None \notin 0..MaxWrites
  BY <1>1, <1>2
<1>4. QED
  BY <1>1, <1>2, <1>3 DEF G!Revisions, G!Values, G!Loose

\* Onward takes a thread to the main query of its search, or to its rest.
LEMMA OnwardMoves ==
  ASSUME G!CacheAssumption, G!TypeOK, NEW t \in G!Threads, NEW v \in G!Values,
         NEW r \in G!Revisions,
         G!Onward(t, v, r)
  PROVE  /\ at' \in [G!Threads -> Places] /\ got' \in [G!Threads -> G!Values]
         /\ under' \in [G!Threads -> G!Revisions]
         /\ \A u \in G!Threads \ {t} : at'[u] = at[u] /\ got'[u] = got[u] /\ under'[u] = under[u]
         /\ t \in Searchers => at'[t] = "asking" /\ got'[t] = v /\ under'[t] = r
         /\ t \notin Searchers => at'[t] = "idle"
<1>1. 0 \in G!Revisions /\ None \in G!Values /\ "asking" \in Places /\ "idle" \in Places
  BY DEF G!Revisions, G!CacheAssumption, G!Values, Places
<1>2. CASE t \in Searchers
  <2>1. /\ at' = [at EXCEPT ![t] = "asking"] /\ got' = [got EXCEPT ![t] = v]
        /\ under' = [under EXCEPT ![t] = r]
    BY <1>2 DEF G!Onward, G!Goto
  <2>2. QED
    BY <1>1, <1>2, <2>1, CacheTypes
<1>3. CASE t \notin Searchers
  <2>1. /\ at' = [at EXCEPT ![t] = "idle"] /\ got' = [got EXCEPT ![t] = None]
        /\ under' = [under EXCEPT ![t] = 0]
    BY <1>3 DEF G!Onward, G!Goto
  <2>2. QED
    BY <1>1, <1>3, <2>1, CacheTypes
<1>4. QED
  BY <1>2, <1>3

\* A thread keeps what it holds, or something that may lack any write.
LEMMA KeptIsEither ==
  ASSUME G!CacheAssumption, G!TypeOK, NEW t \in G!Threads
  PROVE  /\ G!Kept(t) \in {got[t], G!Loose} /\ G!Kept(t) \in G!Values
         /\ G!Kept(t) # G!Loose => under[t] = revision[ClientOf[t]]
         /\ got[t] # None => G!Kept(t) # None
<1>1. got[t] \in G!Values /\ G!Loose \in G!Values /\ None # G!Loose
  BY CacheTypes DEF G!Values
<1>2. QED
  BY <1>1 DEF G!Kept, G!Sees

\* What the steps of an expansion have in common.
LEMMA ExpansionMoves ==
  ASSUME G!CacheAssumption, G!TypeOK, G!WaysApart, NEW t \in G!Threads, G!Step(t)
  PROVE  /\ UNCHANGED <<graph, meta, revision, answers, key, G!history, losses>>
         /\ at' \in [G!Threads -> Places] /\ got' \in [G!Threads -> G!Values]
         /\ under' \in [G!Threads -> G!Revisions]
         /\ \A u \in G!Threads \ {t} : at'[u] = at[u] /\ got'[u] = got[u] /\ under'[u] = under[u]
         /\ at[t] \in (Searching \ {"asking"}) \cup
                      {"warming", "warming memory", "loading memory", "keeping memory"}
         /\ t \in Searchers => at'[t] \in Searching
         /\ t \in Writers => at'[t] \in (Searching \ {"expanding", "asking"})
                                          \cup {"idle", "loading memory", "keeping memory"}
<1> USE CacheTypes
<1>0. /\ t \in Searchers => at[t] \in {"idle", "looking", "expanding", "fetching", "adopting",
                              "loading", "keeping", "storing", "asking", "answered"}
      /\ t \in Searchers <=> t \notin Writers
  BY DEF G!WaysApart
<1>1. CASE G!Expand(t)
  <2>1. at[t] \in {"expanding", "warming", "warming memory"}
        /\ UNCHANGED <<graph, meta, revision, answers, key, G!history, losses>>
    BY <1>1 DEF G!Expand, G!base, G!cache
  <2>2. paths[ClientOf[t]][revision[ClientOf[t]]] \in G!Values /\ revision[ClientOf[t]] \in G!Revisions
    OBVIOUS
  <2>3. CASE G!Onward(t, paths[ClientOf[t]][revision[ClientOf[t]]], revision[ClientOf[t]])
    BY <1>0, <2>1, <2>2, <2>3, OnwardMoves DEF Searching
  <2>4. CASE /\ G!Goto(t, IF at[t] = "warming memory" THEN "loading memory" ELSE "fetching")
             /\ UNCHANGED <<got, under>>
    BY <1>0, <2>1, <2>4 DEF Searching, G!Goto, Places
  <2>5. QED
    BY <1>1, <2>3, <2>4 DEF G!Expand
<1>2. CASE G!Fetch(t)
  <2>1. at[t] = "fetching" /\ UNCHANGED <<graph, meta, revision, answers, key, G!history, losses>>
    BY <1>2 DEF G!Fetch, G!base, G!cache
  <2>2. stored[revision[ClientOf[t]]] \in G!Values /\ revision[ClientOf[t]] \in G!Revisions
    OBVIOUS
  <2>3. /\ at' \in [G!Threads -> Places] /\ at'[t] \in {"adopting", "loading"}
        /\ \A u \in G!Threads \ {t} : at'[u] = at[u]
    BY <1>2 DEF G!Fetch, G!Goto, Places
  <2>4. /\ got' \in [G!Threads -> G!Values] /\ under' \in [G!Threads -> G!Revisions]
        /\ \A u \in G!Threads \ {t} : got'[u] = got[u] /\ under'[u] = under[u]
    BY <1>2, <2>2 DEF G!Fetch
  <2>5. QED
    BY <1>0, <2>1, <2>3, <2>4 DEF Searching
<1>3. CASE G!Adopt(t)
  <2>1. at[t] = "adopting" /\ UNCHANGED <<graph, meta, revision, answers, key, G!history, losses>>
        /\ G!Onward(t, G!Kept(t), under[t])
    BY <1>3 DEF G!Adopt, G!base
  <2>2. QED
    BY <1>0, <2>1, KeptIsEither, OnwardMoves DEF Searching
<1>4. CASE G!Load(t)
  <2>1. /\ at[t] \in {"loading", "loading memory"}
        /\ UNCHANGED <<graph, meta, revision, answers, key, G!history, losses>>
    BY <1>4 DEF G!Load, G!base, G!cache
  <2>2. PICK v \in G!Values : got' = [got EXCEPT ![t] = v]
    BY <1>4 DEF G!Load, G!Sees, G!Loose, G!Values, G!TypeOK
  <2>3. under' = [under EXCEPT ![t] = revision[ClientOf[t]]] /\ revision[ClientOf[t]] \in G!Revisions
    BY <1>4 DEF G!Load
  <2>4. at' = [at EXCEPT ![t] = IF at[t] = "loading" THEN "keeping" ELSE "keeping memory"]
    BY <1>4 DEF G!Load, G!Goto
  <2>5. QED
    BY <1>0, <2>1, <2>2, <2>3, <2>4 DEF Searching, Places
<1>5. CASE G!Keep(t)
  <2>1. /\ at[t] \in {"keeping", "keeping memory"}
        /\ UNCHANGED <<graph, meta, revision, answers, key, G!history, losses>>
    BY <1>5 DEF G!Keep, G!base
  <2>2. CASE at[t] = "keeping"
    <3>1. at' = [at EXCEPT ![t] = "storing"] /\ UNCHANGED <<got, under>>
      BY <1>5, <2>2 DEF G!Keep, G!Goto
    <3>2. QED
      BY <1>0, <2>1, <3>1 DEF Searching, Places
  <2>3. CASE at[t] # "keeping"
    <3>1. G!Onward(t, got[t], under[t])
      BY <1>5, <2>3 DEF G!Keep
    <3>2. QED
      BY <1>0, <2>1, <3>1, OnwardMoves DEF Searching
  <2>4. QED
    BY <2>2, <2>3
<1>6. CASE G!Store(t)
  <2>1. /\ at[t] = "storing" /\ UNCHANGED <<graph, meta, revision, answers, key, G!history, losses>>
        /\ G!Onward(t, got[t], under[t])
    BY <1>6 DEF G!Store, G!cache
  <2>2. QED
    BY <1>0, <2>1, OnwardMoves DEF Searching
<1>7. QED
  BY <1>1, <1>2, <1>3, <1>4, <1>5, <1>6 DEF G!Step

\* A restart takes some threads back to the start, and leaves the others.
LEMMA RestartResets ==
  ASSUME G!CacheAssumption, G!TypeOK, NEW c \in Clients, G!Restart(c)
  PROVE  /\ UNCHANGED <<graph, meta, stored, covered>>
         /\ revision' = [revision EXCEPT ![c] = meta] /\ counted' = counted \cup {c}
         /\ at' \in [G!Threads -> Places] /\ key' \in [G!Threads -> G!Revisions]
         /\ got' \in [G!Threads -> G!Values] /\ under' \in [G!Threads -> G!Revisions]
         /\ asof' \in [Searchers -> 0..MaxWrites] /\ sure' \subseteq sure
         /\ \A t \in G!Threads :
              \/ /\ at'[t] = "idle" /\ key'[t] = 0 /\ got'[t] = None /\ under'[t] = 0
                 /\ t \in Searchers => asof'[t] = 0
              \/ /\ at'[t] = at[t] /\ key'[t] = key[t] /\ got'[t] = got[t]
                 /\ under'[t] = under[t]
                 /\ t \in Searchers => asof'[t] = asof[t]
  <1> USE CacheTypes
  <1> DEFINE Own == {t \in G!Threads : ClientOf[t] = c}
  <1>1. /\ at' = [t \in G!Threads |-> IF t \in Own THEN "idle" ELSE at[t]]
        /\ key' = [t \in G!Threads |-> IF t \in Own THEN 0 ELSE key[t]]
        /\ got' = [t \in G!Threads |-> IF t \in Own THEN None ELSE got[t]]
        /\ under' = [t \in G!Threads |-> IF t \in Own THEN 0 ELSE under[t]]
        /\ asof' = [s \in Searchers |-> IF s \in Own THEN 0 ELSE asof[s]]
        /\ sure' = sure \ Own
    BY DEF G!Restart
  <1> HIDE DEF Own
  <1>2. 0 \in G!Revisions /\ "idle" \in Places /\ None \in G!Values
    BY Basics DEF Places
  <1>3. \A s \in Searchers : s \in G!Threads /\ asof[s] \in 0..MaxWrites
    BY DEF G!TypeOK
  <1>4. /\ at' \in [G!Threads -> Places] /\ key' \in [G!Threads -> G!Revisions]
        /\ got' \in [G!Threads -> G!Values] /\ under' \in [G!Threads -> G!Revisions]
    BY <1>1, <1>2
  <1>5. asof' \in [Searchers -> 0..MaxWrites]
    BY <1>1, <1>3
  <1>6. /\ UNCHANGED <<graph, meta, stored, covered>>
        /\ revision' = [revision EXCEPT ![c] = meta] /\ counted' = counted \cup {c}
    BY DEF G!Restart, G!base
  <1>7. QED
    BY <1>1, <1>3, <1>4, <1>5, <1>6

\* Searches and upserts stay on their ways.
LEMMA WaysKept ==
  ASSUME G!CacheAssumption, G!TypeOK, G!WaysApart, [G!Next]_G!vars
  PROVE  G!WaysApart'
<1> USE CacheTypes DEF G!WaysApart, Places
<1>1. ASSUME NEW t \in G!Threads, G!Step(t) PROVE G!WaysApart'
  BY <1>1, ExpansionMoves DEF Searching
<1>2. ASSUME NEW s \in Searchers, G!ReadRevision(s) \/ G!Look(s) \/ G!Ask(s) \/ G!Return(s)
      PROVE  G!WaysApart'
  <2>1. PICK p \in {"looking", "answered", "expanding", "idle"} : at' = [at EXCEPT ![s] = p]
    BY <1>2 DEF G!ReadRevision, G!Look, G!Ask, G!Return, G!Goto
  <2>2. QED
    BY <2>1
<1>3. ASSUME NEW w \in Writers, \/ G!Write(w) \/ G!ClearMemory(w) \/ G!Count(w) \/ G!TakeOver(w)
                               \/ G!Prune(w) \/ G!CountAlone(w) \/ G!Drop(w)
      PROVE  G!WaysApart'
  <2>1. PICK p \in {"clearing", "counting", "taking over", "pruning", "warming", "idle", "dropping",
                    "warming memory"} : at' = [at EXCEPT ![w] = p]
    BY <1>3 DEF G!Write, G!ClearMemory, G!Count, G!TakeOver, G!Prune, G!CountAlone, G!Drop,
       G!Goto
  <2>2. QED
    BY <2>1
<1>4. ASSUME NEW c \in Clients, G!Reconnect(c) PROVE G!WaysApart'
  BY <1>4 DEF G!Reconnect, G!threads
<1>5. ASSUME NEW c \in Clients, G!Restart(c) PROVE G!WaysApart'
  BY <1>5, RestartResets
<1>6. CASE UNCHANGED G!vars
  BY <1>6 DEF G!vars, G!threads
<1>7. QED
  BY <1>1, <1>2, <1>3, <1>4, <1>5, <1>6 DEF G!Next

\* What is not an expansion, by what it does to the thread.
LEMMA SearchMoves ==
  ASSUME G!CacheAssumption, G!TypeOK, NEW s \in Searchers,
         G!ReadRevision(s) \/ G!Look(s) \/ G!Ask(s) \/ G!Return(s)
  PROVE  /\ UNCHANGED <<G!base, covered, losses>> /\ s \in G!Threads
         /\ at' \in [G!Threads -> Places] /\ got' \in [G!Threads -> G!Values]
         /\ under' \in [G!Threads -> G!Revisions] /\ key' \in [G!Threads -> G!Revisions]
         /\ asof' \in [Searchers -> 0..MaxWrites]
         /\ \A u \in G!Threads \ {s} : /\ at'[u] = at[u] /\ got'[u] = got[u]
                                       /\ under'[u] = under[u] /\ key'[u] = key[u]
         /\ \A u \in Searchers \ {s} : asof'[u] = asof[u]
<1> USE CacheTypes
<1>a. /\ {"idle", "looking", "expanding", "answered"} \subseteq Places /\ s \in G!Threads
  BY DEF Places, G!Threads
<1>b. covered \in [G!Revisions -> 0..MaxWrites] /\ asof \in [Searchers -> 0..MaxWrites]
  BY DEF G!TypeOK
<1>0. /\ s \in G!Threads /\ 0 \in G!Revisions /\ 0 \in 0..MaxWrites /\ None \in G!Values /\ G!Loose \in G!Values
      /\ {"idle", "looking", "expanding", "answered"} \subseteq Places
      /\ covered \in [G!Revisions -> 0..MaxWrites] /\ asof \in [Searchers -> 0..MaxWrites]
  BY <1>a, <1>b, Basics
<1>1. CASE G!ReadRevision(s)
  <2>1. /\ UNCHANGED <<G!base, covered, losses, key>>
        /\ at' = [at EXCEPT ![s] = "looking"] /\ got' = [got EXCEPT ![s] = None]
    BY <1>1 DEF G!ReadRevision, G!Goto
  <2>2. PICK r \in G!Revisions, n \in 0..MaxWrites :
           under' = [under EXCEPT ![s] = r] /\ asof' = [asof EXCEPT ![s] = n]
    BY <1>0, <1>1 DEF G!ReadRevision
  <2>3. QED
    BY <1>0, <2>1, <2>2
<1>2. CASE G!Look(s)
  <2>1. /\ UNCHANGED <<G!base, covered, losses, asof>> /\ under' = [under EXCEPT ![s] = 0]
    BY <1>2 DEF G!Look
  <2>2. PICK r \in G!Revisions : key' = [key EXCEPT ![s] = r]
    BY <1>0, <1>2 DEF G!Look
  <2>3. answers' \in [Clients -> [G!Revisions -> G!Values]]
    <3>1. G!Empty \in [G!Revisions -> G!Values]
      BY <1>0 DEF G!Empty
    <3>2. answers' = [answers EXCEPT ![ClientOf[s]] = G!Empty] \/ answers' = answers
      BY <1>2 DEF G!Look, G!Clear
    <3>3. QED
      BY <3>1, <3>2
  <2>4. key'[s] \in G!Revisions /\ ClientOf[s] \in Clients
    BY <1>0, <2>2
  <2>5. PICK v \in G!Values, p \in {"answered", "expanding"} :
           got' = [got EXCEPT ![s] = v] /\ at' = [at EXCEPT ![s] = p]
    <3>1. CASE got' = [got EXCEPT ![s] = answers'[ClientOf[s]][key'[s]]]
               /\ at' = [at EXCEPT ![s] = "answered"]
      <4>1. answers'[ClientOf[s]][key'[s]] \in G!Values
        BY <2>3, <2>4
      <4>2. QED
        BY <3>1, <4>1
    <3>2. CASE got' = got /\ at' = [at EXCEPT ![s] = "expanding"]
      <4>1. got' = [got EXCEPT ![s] = got[s]] /\ got[s] \in G!Values
        BY <1>0, <3>2
      <4>2. QED
        BY <3>2, <4>1
    <3>3. key'[s] = IF under[s] > revision[ClientOf[s]] THEN under[s] ELSE revision[ClientOf[s]]
      BY <1>0, <1>2 DEF G!Look
    <3>4. QED
      BY <1>2, <3>1, <3>2, <3>3 DEF G!Look, G!Goto
  <2>6. QED
    BY <1>0, <2>1, <2>2, <2>5
<1>3. CASE G!Ask(s)
  <2>1. /\ UNCHANGED <<G!base, covered, losses, key, asof>>
        /\ at' = [at EXCEPT ![s] = "answered"] /\ under' = [under EXCEPT ![s] = 0]
    BY <1>3 DEF G!Ask, G!Goto, G!history
  <2>2. PICK v \in G!Values : got' = [got EXCEPT ![s] = v]
    BY <1>0, <1>3 DEF G!Ask, G!Sees
  <2>3. QED
    BY <1>0, <2>1, <2>2
<1>4. CASE G!Return(s)
  <2>1. /\ UNCHANGED <<G!base, covered, losses>>
        /\ at' = [at EXCEPT ![s] = "idle"] /\ got' = [got EXCEPT ![s] = None]
        /\ under' = [under EXCEPT ![s] = 0] /\ key' = [key EXCEPT ![s] = 0]
        /\ asof' = [asof EXCEPT ![s] = 0]
    BY <1>4 DEF G!Return, G!Goto
  <2>2. QED
    BY <1>0, <2>1
<1>5. QED
  BY <1>1, <1>2, <1>3, <1>4

\* An upsert leaves the searches alone.
LEMMA WriteMoves ==
  ASSUME G!CacheAssumption, G!TypeOK, NEW w \in Writers, meta < MaxWrites \/ ~G!Count(w),
         \/ G!Write(w) \/ G!ClearMemory(w) \/ G!Count(w) \/ G!TakeOver(w)
         \/ G!Prune(w) \/ G!CountAlone(w) \/ G!Drop(w)
  PROVE  /\ UNCHANGED <<key, got, asof, sure>> /\ w \in G!Threads
         /\ at' \in [G!Threads -> Places] /\ under' \in [G!Threads -> G!Revisions]
         /\ \A u \in G!Threads \ {w} : at'[u] = at[u] /\ under'[u] = under[u]
         /\ graph' \in 0..MaxWrites /\ meta' \in G!Revisions
         /\ G!Write(w) \/ graph' = graph
         /\ G!Count(w) \/ (meta' = meta /\ covered' = covered)
<1> USE CacheTypes
<1>0. w \in G!Threads /\ 0 \in G!Revisions /\ graph \in 0..MaxWrites /\ meta \in G!Revisions
  <2>1. graph \in 0..MaxWrites /\ meta \in G!Revisions
    BY DEF G!TypeOK
  <2>2. QED
    BY <2>1, Basics DEF G!Threads
<1>1. PICK p \in Places : at' = [at EXCEPT ![w] = p]
  BY DEF G!Write, G!ClearMemory, G!Count, G!TakeOver, G!Prune, G!CountAlone, G!Drop, G!Goto,
     Places
<1>2. UNCHANGED <<key, got, asof, sure>>
  BY DEF G!Write, G!ClearMemory, G!Count, G!TakeOver, G!Prune, G!CountAlone, G!Drop, G!history
<1>3. under' \in [G!Threads -> G!Revisions] /\ \A u \in G!Threads \ {w} : under'[u] = under[u]
  <2>1. PICK r \in G!Revisions : under' = [under EXCEPT ![w] = r] \/ under' = under
    <3>1. CASE G!Count(w)
      <4>1. under' = [under EXCEPT ![w] = meta + 1]
        BY <3>1 DEF G!Count
      <4>2. meta + 1 \in G!Revisions
        BY <1>0, <3>1, Basics
      <4>3. QED
        BY <4>1, <4>2
    <3>2. CASE G!Prune(w)
      BY <1>0, <3>2 DEF G!Prune
    <3>3. CASE ~G!Count(w) /\ ~G!Prune(w)
      BY <1>0, <3>3 DEF G!Write, G!ClearMemory, G!TakeOver, G!CountAlone, G!Drop
    <3>4. QED
      BY <3>1, <3>2, <3>3
  <2>2. QED
    BY <1>0, <2>1
<1>4. G!Write(w) \/ graph' = graph
  BY DEF G!ClearMemory, G!Count, G!TakeOver, G!Prune, G!CountAlone, G!Drop, G!base
<1>5. G!Count(w) \/ (meta' = meta /\ covered' = covered)
  BY DEF G!Write, G!ClearMemory, G!TakeOver, G!Prune, G!CountAlone, G!Drop, G!base, G!history
<1>6. graph' \in 0..MaxWrites
  <2>1. CASE G!Write(w)
    <3>1. graph' = graph + 1 /\ graph < MaxWrites
      BY <2>1 DEF G!Write
    <3>2. QED
      BY <1>0, <3>1, Basics
  <2>2. QED
    BY <1>0, <1>4, <2>1
<1>7. meta' \in G!Revisions
  <2>1. CASE G!Count(w)
    <3>1. meta' = meta + 1
      BY <2>1 DEF G!Count
    <3>2. QED
      BY <1>0, <2>1, <3>1, Basics
  <2>2. QED
    BY <1>0, <1>5, <2>1
<1>8. QED
  BY <1>0, <1>1, <1>2, <1>3, <1>4, <1>5, <1>6, <1>7

\* GraphCache means the same by the operators of FiniteSets.
LEMMA SameFinite == \A S : G!IsFiniteSet(S) <=> IsFiniteSet(S)
  BY DEF G!IsFiniteSet, IsFiniteSet

LEMMA SameCardinality == \A S : G!Cardinality(S) = Cardinality(S)
  BY DEF G!Cardinality, Cardinality

\* RevisionsGrow in these terms.
LEMMA GrowthIs ==
  /\ G!RevisionsGrow <=>
       /\ meta + Cardinality(G!Uncounted) <= graph
       /\ \A r \in G!Revisions : covered[r] <= graph /\ (r > meta => covered[r] = 0)
       /\ \A r, q \in 0..meta : r <= q => covered[r] <= covered[q]
  /\ G!RevisionsGrow' <=>
       /\ meta' + Cardinality(G!Uncounted') <= graph'
       /\ \A r \in G!Revisions : covered'[r] <= graph' /\ (r > meta' => covered'[r] = 0)
       /\ \A r, q \in 0..meta' : r <= q => covered'[r] <= covered'[q]
<1>1. G!Cardinality(G!Uncounted) = Cardinality(G!Uncounted)
  BY SameCardinality
<1>2. G!Cardinality(G!Uncounted') = Cardinality(G!Uncounted')
  BY SameCardinality
<1>3. QED
  BY <1>1, <1>2 DEF G!RevisionsGrow

\* Who has yet to count was not counted before.
LEMMA CountHasRoom ==
  ASSUME G!CacheAssumption, G!TypeOK, G!RevisionsGrow
  PROVE  /\ IsFiniteSet(G!Uncounted) /\ Cardinality(G!Uncounted) \in Nat /\ meta <= graph
         /\ \A w \in Writers : at[w] = "counting" => meta < graph
<1>1. IsFiniteSet(G!Uncounted)
  <2>1. IsFiniteSet(Writers) /\ G!Uncounted \subseteq Writers
    BY SameFinite DEF G!CacheAssumption, G!Uncounted
  <2>2. QED
    BY <2>1, FS_Subset
<1>2. Cardinality(G!Uncounted) \in Nat
  BY <1>1, FS_CardinalityType
<1>3. meta \in Nat /\ graph \in Nat /\ meta + Cardinality(G!Uncounted) <= graph
  BY CacheTypes, GrowthIs
<1>4. ASSUME NEW w \in Writers, at[w] = "counting" PROVE meta < graph
  <2>1. G!Uncounted # {}
    BY <1>4 DEF G!Uncounted
  <2>2. Cardinality(G!Uncounted) # 0
    BY <1>1, <2>1, FS_EmptySet
  <2>3. QED
    BY <1>2, <1>3, <2>2
<1>5. QED
  BY <1>1, <1>2, <1>3, <1>4

\* What a step of an expansion leaves in the caches.
LEMMA ExpansionKeeps ==
  ASSUME NEW t \in G!Threads, G!Step(t)
  PROVE  /\ \/ stored' = stored
            \/ /\ at[t] = "storing"
               /\ stored' = [stored EXCEPT ![revision[ClientOf[t]]] = G!Kept(t)]
         /\ \/ paths' = paths
            \/ /\ at[t] \in {"adopting", "keeping", "keeping memory"}
               /\ paths' = [paths EXCEPT ![ClientOf[t]][revision[ClientOf[t]]] = G!Kept(t)]
<1>1. CASE G!Expand(t)
  BY <1>1 DEF G!Expand, G!base, G!cache
<1>2. CASE G!Fetch(t)
  BY <1>2 DEF G!Fetch, G!base, G!cache
<1>3. CASE G!Adopt(t)
  BY <1>3 DEF G!Adopt, G!base
<1>4. CASE G!Load(t)
  BY <1>4 DEF G!Load, G!base, G!cache
<1>5. CASE G!Keep(t)
  BY <1>5 DEF G!Keep, G!base
<1>6. CASE G!Store(t)
  BY <1>6 DEF G!Store, G!cache
<1>7. QED
  BY <1>1, <1>2, <1>3, <1>4, <1>5, <1>6 DEF G!Step

\* What searches, writes and lost connections leave in the caches.
LEMMA CachesMove ==
  ASSUME G!CacheAssumption, G!TypeOK, G!RevisionsGrow, [G!Next]_G!vars
  PROVE  /\ stored' \in [G!Revisions -> G!Values]
         /\ paths' \in [Clients -> [G!Revisions -> G!Values]]
         /\ answers' \in [Clients -> [G!Revisions -> G!Values]]
<1>0. /\ G!Empty \in [G!Revisions -> G!Values] /\ stored \in [G!Revisions -> G!Values]
      /\ paths \in [Clients -> [G!Revisions -> G!Values]]
      /\ answers \in [Clients -> [G!Revisions -> G!Values]]
      /\ revision \in [Clients -> G!Revisions]
      /\ \A t \in G!Threads : ClientOf[t] \in Clients
  BY CacheTypes, Basics DEF G!Empty
<1>a. ASSUME NEW c \in Clients, G!Clear(c)
      PROVE  /\ paths' \in [Clients -> [G!Revisions -> G!Values]]
             /\ answers' \in [Clients -> [G!Revisions -> G!Values]]
  BY <1>0, <1>a DEF G!Clear
<1>1. ASSUME NEW t \in G!Threads, G!Step(t)
      PROVE  /\ stored' \in [G!Revisions -> G!Values]
             /\ paths' \in [Clients -> [G!Revisions -> G!Values]] /\ answers' = answers
  <2>1. G!Kept(t) \in G!Values /\ ClientOf[t] \in Clients /\ revision[ClientOf[t]] \in G!Revisions
    BY <1>0, KeptIsEither
  <2>2. stored' \in [G!Revisions -> G!Values]
    BY <1>0, <1>1, <2>1, ExpansionKeeps
  <2>3. paths' \in [Clients -> [G!Revisions -> G!Values]]
    <3>1. CASE paths' = paths
      BY <1>0, <3>1
    <3>2. CASE paths' = [paths EXCEPT ![ClientOf[t]][revision[ClientOf[t]]] = G!Kept(t)]
      <4>1. [paths[ClientOf[t]] EXCEPT ![revision[ClientOf[t]]] = G!Kept(t)] \in [G!Revisions -> G!Values]
        BY <1>0, <2>1
      <4>2. QED
        BY <1>0, <2>1, <3>2, <4>1
    <3>3. QED
      BY <1>1, <3>1, <3>2, ExpansionKeeps
  <2>4. answers' = answers
    BY <1>1 DEF G!Step, G!Expand, G!Fetch, G!Adopt, G!Load, G!Keep, G!Store, G!cache
  <2>5. QED
    BY <2>2, <2>3, <2>4
<1>2. ASSUME NEW s \in Searchers, G!ReadRevision(s) \/ G!Return(s)
      PROVE  UNCHANGED <<stored, paths, answers>>
  BY <1>2 DEF G!ReadRevision, G!Return, G!base, G!cache
<1>3. ASSUME NEW s \in Searchers, G!Look(s)
      PROVE  /\ stored' = stored
             /\ G!Clear(ClientOf[s]) \/ UNCHANGED <<paths, answers>>
  BY <1>3 DEF G!Look, G!base
<1>4. ASSUME NEW s \in Searchers, G!Ask(s)
      PROVE  UNCHANGED <<stored, paths>> /\ answers' \in [Clients -> [G!Revisions -> G!Values]]
  <2>1. s \in G!Threads /\ key[s] \in G!Revisions /\ got[s] \in G!Values /\ G!Loose \in G!Values
    <3>1. s \in G!Threads
      BY DEF G!Threads
    <3>2. QED
      BY <3>1, CacheTypes, Basics
  <2>2. PICK v \in G!Values : answers' = [answers EXCEPT ![ClientOf[s]][key[s]] = v]
    BY <1>4, <2>1 DEF G!Ask, G!Sees
  <2>3. [answers[ClientOf[s]] EXCEPT ![key[s]] = v] \in [G!Revisions -> G!Values]
    BY <1>0, <2>1
  <2>4. answers' \in [Clients -> [G!Revisions -> G!Values]]
    BY <1>0, <2>1, <2>2, <2>3
  <2>5. QED
    BY <1>4, <2>4 DEF G!Ask, G!base
<1>5. ASSUME NEW w \in Writers, \/ G!Write(w) \/ G!ClearMemory(w) \/ G!Count(w) \/ G!TakeOver(w)
                               \/ G!CountAlone(w)
      PROVE  stored' = stored /\ (G!Clear(ClientOf[w]) \/ UNCHANGED <<paths, answers>>)
  BY <1>5 DEF G!Write, G!ClearMemory, G!Count, G!TakeOver, G!CountAlone, G!base, G!cache
<1>6. ASSUME NEW w \in Writers, G!Prune(w) \/ G!Drop(w)
      PROVE  stored' \in [G!Revisions -> G!Values] /\ UNCHANGED <<paths, answers>>
  <2>1. \/ stored' \in {stored, G!Empty}
        \/ stored' = [r \in G!Revisions |-> IF r < under[w] THEN None ELSE stored[r]]
    BY <1>6 DEF G!Prune, G!Drop
  <2>2. None \in G!Values
    BY Basics
  <2>3. ASSUME stored' = [r \in G!Revisions |-> IF r < under[w] THEN None ELSE stored[r]]
        PROVE  stored' \in [G!Revisions -> G!Values]
    BY <1>0, <2>2, <2>3
  <2>4. UNCHANGED <<paths, answers>>
    BY <1>6 DEF G!Prune, G!Drop, G!cache
  <2>5. QED
    BY <1>0, <2>1, <2>3, <2>4
<1>7. ASSUME NEW c \in Clients, G!Reconnect(c) \/ G!Restart(c)
      PROVE  stored' = stored /\ G!Clear(c)
  <2>1. CASE G!Reconnect(c)
    BY <2>1 DEF G!Reconnect, G!base
  <2>2. CASE G!Restart(c)
    BY <2>2, Zenon DEF G!Restart, G!base
  <2>3. QED
    BY <1>7, <2>1, <2>2
<1>8. CASE UNCHANGED G!vars
  BY <1>0, <1>8 DEF G!vars, G!base, G!cache
<1>9. /\ \A s \in Searchers : ClientOf[s] \in Clients
      /\ \A w \in Writers : ClientOf[w] \in Clients
  BY <1>0 DEF G!Threads
<1> DEFINE Goal == /\ stored' \in [G!Revisions -> G!Values]
                   /\ paths' \in [Clients -> [G!Revisions -> G!Values]]
                   /\ answers' \in [Clients -> [G!Revisions -> G!Values]]
<1>10. ASSUME NEW t \in G!Threads, G!Step(t) PROVE Goal
  BY <1>0, <1>1, <1>10
<1>11. ASSUME NEW s \in Searchers, G!ReadRevision(s) \/ G!Look(s) \/ G!Ask(s) \/ G!Return(s) PROVE Goal
  BY <1>0, <1>a, <1>2, <1>3, <1>4, <1>9, <1>11
<1>12. ASSUME NEW w \in Writers, \/ G!Write(w) \/ G!ClearMemory(w) \/ G!Count(w) \/ G!TakeOver(w)
                                \/ G!Prune(w) \/ G!CountAlone(w) \/ G!Drop(w)
       PROVE  Goal
  BY <1>0, <1>a, <1>5, <1>6, <1>9, <1>12
<1>13. ASSUME NEW c \in Clients, G!Reconnect(c) \/ G!Restart(c) PROVE Goal
  BY <1>0, <1>a, <1>7, <1>13
<1> HIDE DEF Goal
<1>14. Goal
  BY <1>8, <1>10, <1>11, <1>12, <1>13 DEF G!Next, Goal
<1>15. QED
  BY <1>14 DEF Goal

\* The revisions, and the histories of them.
LEMMA RevisionsTyped ==
  ASSUME G!CacheAssumption, G!TypeOK, G!RevisionsGrow, G!RevisionsAreCounted, [G!Next]_G!vars
  PROVE  /\ graph' \in 0..MaxWrites /\ meta' \in G!Revisions
         /\ revision' \in [Clients -> G!Revisions]
         /\ covered' \in [G!Revisions -> 0..MaxWrites] /\ counted' \subseteq Clients
         /\ sure' \subseteq Searchers /\ losses' \in 0..MaxLosses
<1> DEFINE Goal == /\ graph' \in 0..MaxWrites /\ meta' \in G!Revisions
                   /\ revision' \in [Clients -> G!Revisions]
                   /\ covered' \in [G!Revisions -> 0..MaxWrites] /\ counted' \subseteq Clients
                   /\ sure' \subseteq Searchers /\ losses' \in 0..MaxLosses
<1>0. /\ graph \in 0..MaxWrites /\ meta \in G!Revisions /\ revision \in [Clients -> G!Revisions]
      /\ covered \in [G!Revisions -> 0..MaxWrites] /\ counted \subseteq Clients
      /\ sure \subseteq Searchers /\ losses \in 0..MaxLosses
      /\ under \in [G!Threads -> G!Revisions]
  BY DEF G!TypeOK
<1>a. /\ \A t \in G!Threads : ClientOf[t] \in Clients /\ under[t] \in G!Revisions
      /\ \A s \in Searchers : s \in G!Threads
      /\ \A w \in Writers : w \in G!Threads
  BY <1>0, CacheTypes
<1>b. ASSUME G!Lose PROVE losses' \in 0..MaxLosses
  BY <1>0, <1>b DEF G!Lose, G!CacheAssumption
<1>1. ASSUME NEW t \in G!Threads, G!Step(t) PROVE Goal
  <2>1. UNCHANGED <<graph, meta, revision, covered, counted, sure, losses>>
    BY <1>1 DEF G!Step, G!Expand, G!Fetch, G!Adopt, G!Load, G!Keep, G!Store, G!base, G!cache,
       G!history
  <2>2. QED
    BY <1>0, <2>1
<1>2. ASSUME NEW s \in Searchers, G!ReadRevision(s) \/ G!Ask(s) \/ G!Return(s) PROVE Goal
  <2>1. UNCHANGED <<graph, meta, revision, covered, counted, losses>> /\ sure' \subseteq sure
    BY <1>2 DEF G!ReadRevision, G!Ask, G!Return, G!base, G!cache, G!history
  <2>2. QED
    BY <1>0, <2>1
<1>3. ASSUME NEW s \in Searchers, G!Look(s) PROVE Goal
  <2>1. UNCHANGED <<graph, meta, covered, losses>>
    BY <1>3 DEF G!Look, G!base
  <2>2. /\ revision' = [revision EXCEPT ![ClientOf[s]] = under[s]] \/ revision' = revision
        /\ counted' \in {counted, counted \cup {ClientOf[s]}}
        /\ sure' \in {sure \cup {s}, sure \ {s}}
    <3>1. PICK r : /\ r = IF under[s] > revision[ClientOf[s]] THEN under[s] ELSE revision[ClientOf[s]]
                   /\ revision' = [revision EXCEPT ![ClientOf[s]] = r]
      BY <1>3 DEF G!Look
    <3>2. [revision EXCEPT ![ClientOf[s]] = revision[ClientOf[s]]] = revision
      BY <1>0
    <3>3. QED
      BY <1>3, <3>1, <3>2 DEF G!Look
  <2>3. QED
    BY <1>0, <1>a, <2>1, <2>2
<1>4. ASSUME NEW w \in Writers, G!Write(w) PROVE Goal
  <2>1. UNCHANGED <<meta, revision, covered, counted, sure, losses>> /\ graph' = graph + 1
        /\ graph < MaxWrites
    BY <1>4 DEF G!Write, G!cache, G!history
  <2>2. graph' \in 0..MaxWrites
    BY <1>0, <2>1, Basics
  <2>3. QED
    BY <1>0, <2>1, <2>2
<1>5. ASSUME NEW w \in Writers, G!Count(w) PROVE Goal
  <2>1. /\ UNCHANGED <<graph, revision, counted, sure, losses>> /\ meta' = meta + 1
        /\ covered' = [covered EXCEPT ![meta + 1] = graph] /\ at[w] = "counting"
    BY <1>5 DEF G!Count, G!cache
  <2>2. meta < graph
    BY <2>1, CountHasRoom
  <2>3. meta' \in G!Revisions
    <3>1. meta \in Nat /\ graph \in 0..MaxWrites /\ MaxWrites \in Nat /\ G!Revisions = 0..MaxWrites
      BY <1>0, Basics
    <3>2. QED
      BY <2>1, <2>2, <3>1
  <2>4. QED
    BY <1>0, <2>1, <2>3
<1>6. ASSUME NEW w \in Writers, G!ClearMemory(w) \/ G!Prune(w) \/ G!Drop(w) PROVE Goal
  <2>1. UNCHANGED <<graph, meta, revision, covered, counted, sure, losses>>
    BY <1>6 DEF G!ClearMemory, G!Prune, G!Drop, G!base, G!cache, G!history
  <2>2. QED
    BY <1>0, <2>1
<1>7. ASSUME NEW w \in Writers, G!TakeOver(w) PROVE Goal
  <2>1. UNCHANGED <<graph, meta, covered, sure, losses>>
        /\ revision' = [revision EXCEPT ![ClientOf[w]] = under[w]]
        /\ counted' = counted \cup {ClientOf[w]}
    BY <1>7 DEF G!TakeOver, G!base
  <2>2. QED
    BY <1>0, <1>a, <2>1
<1>8. ASSUME NEW w \in Writers, G!CountAlone(w) PROVE Goal
  <2>1. /\ UNCHANGED <<graph, meta, covered, sure>> /\ G!Lose
        /\ revision[ClientOf[w]] < MaxWrites
        /\ revision' = [revision EXCEPT ![ClientOf[w]] = revision[ClientOf[w]] + 1]
        /\ counted' = counted \ {ClientOf[w]}
    BY <1>8 DEF G!CountAlone, G!base
  <2>2. revision[ClientOf[w]] + 1 \in G!Revisions
    BY <1>0, <1>a, <2>1, Basics
  <2>3. QED
    BY <1>0, <1>b, <2>1, <2>2
<1>9. ASSUME NEW c \in Clients, G!Reconnect(c) PROVE Goal
  <2>1. /\ UNCHANGED <<graph, meta, covered, sure>> /\ G!Lose
        /\ \/ revision' = [revision EXCEPT ![c] = meta] /\ counted' = counted \cup {c}
           \/ UNCHANGED <<revision, counted>>
    BY <1>9 DEF G!Reconnect, G!base
  <2>2. QED
    BY <1>0, <1>b, <2>1
<1>10. ASSUME NEW c \in Clients, G!Restart(c) PROVE Goal
  <2>1. G!Lose
    BY <1>10 DEF G!Restart
  <2>2. QED
    BY <1>0, <1>b, <1>10, <2>1, RestartResets
<1>11. CASE UNCHANGED G!vars
  BY <1>0, <1>11 DEF G!vars, G!base, G!cache, G!history
<1> HIDE DEF Goal
<1>12. Goal
  BY <1>1, <1>2, <1>3, <1>4, <1>5, <1>6, <1>7, <1>8, <1>9, <1>10, <1>11 DEF G!Next, Goal
<1>13. QED
  BY <1>12 DEF Goal

\* What the threads hold.
LEMMA ThreadsTyped ==
  ASSUME G!CacheAssumption, G!TypeOK, G!RevisionsGrow, G!WaysApart, [G!Next]_G!vars
  PROVE  /\ at' \in [G!Threads -> Places] /\ key' \in [G!Threads -> G!Revisions]
         /\ got' \in [G!Threads -> G!Values] /\ under' \in [G!Threads -> G!Revisions]
         /\ asof' \in [Searchers -> 0..MaxWrites]
<1> DEFINE Goal == /\ at' \in [G!Threads -> Places] /\ key' \in [G!Threads -> G!Revisions]
                   /\ got' \in [G!Threads -> G!Values] /\ under' \in [G!Threads -> G!Revisions]
                   /\ asof' \in [Searchers -> 0..MaxWrites]
<1>0. /\ at \in [G!Threads -> Places] /\ key \in [G!Threads -> G!Revisions]
      /\ got \in [G!Threads -> G!Values] /\ under \in [G!Threads -> G!Revisions]
      /\ asof \in [Searchers -> 0..MaxWrites]
  BY DEF G!TypeOK, Places
<1>1. ASSUME NEW t \in G!Threads, G!Step(t) PROVE Goal
  BY <1>0, <1>1, ExpansionMoves DEF G!history
<1>2. ASSUME NEW s \in Searchers, G!ReadRevision(s) \/ G!Look(s) \/ G!Ask(s) \/ G!Return(s) PROVE Goal
  BY <1>2, SearchMoves
<1>3. ASSUME NEW w \in Writers, \/ G!Write(w) \/ G!ClearMemory(w) \/ G!Count(w) \/ G!TakeOver(w)
                               \/ G!Prune(w) \/ G!CountAlone(w) \/ G!Drop(w)
      PROVE  Goal
  <2>1. meta < MaxWrites \/ ~G!Count(w)
    <3>1. ASSUME G!Count(w) PROVE meta < MaxWrites
      <4>1. meta < graph
        BY <3>1, CountHasRoom DEF G!Count
      <4>2. graph \in 0..MaxWrites /\ meta \in Nat
        BY CacheTypes DEF G!TypeOK
      <4>3. QED
        BY <4>1, <4>2, Basics
    <3>2. QED
      BY <3>1
  <2>2. QED
    BY <1>0, <1>3, <2>1, WriteMoves
<1>4. ASSUME NEW c \in Clients, G!Reconnect(c) PROVE Goal
  BY <1>0, <1>4 DEF G!Reconnect, G!threads
<1>5. ASSUME NEW c \in Clients, G!Restart(c) PROVE Goal
  BY <1>5, RestartResets
<1>6. CASE UNCHANGED G!vars
  BY <1>0, <1>6 DEF G!vars, G!threads, G!history
<1> HIDE DEF Goal
<1>7. Goal
  BY <1>1, <1>2, <1>3, <1>4, <1>5, <1>6 DEF G!Next, Goal
<1>8. QED
  BY <1>7 DEF Goal

LEMMA TypeKept ==
  ASSUME G!CacheAssumption, G!TypeOK, G!RevisionsGrow, G!RevisionsAreCounted, G!WaysApart,
         [G!Next]_G!vars
  PROVE  G!TypeOK'
<1>1. QED
  BY CachesMove, RevisionsTyped, ThreadsTyped DEF G!TypeOK, Places

\* A step writes a new fact, counts the facts of a writer, or loses writers.
LEMMA UncountedMoves ==
  ASSUME G!CacheAssumption, G!TypeOK, G!WaysApart, [G!Next]_G!vars
  PROVE  \/ G!Uncounted' \subseteq G!Uncounted /\ UNCHANGED <<graph, meta, covered>>
         \/ \E w \in Writers \ G!Uncounted :
              /\ G!Uncounted' = G!Uncounted \cup {w} /\ graph' = graph + 1 /\ graph < MaxWrites
              /\ UNCHANGED <<meta, covered>>
         \/ \E w \in G!Uncounted :
              /\ G!Uncounted' = G!Uncounted \ {w} /\ meta' = meta + 1
              /\ covered' = [covered EXCEPT ![meta + 1] = graph] /\ graph' = graph
<1> DEFINE Same == G!Uncounted' \subseteq G!Uncounted /\ UNCHANGED <<graph, meta, covered>>
<1>0. /\ \A w \in Writers : w \in G!Threads
      /\ at \in [G!Threads -> Places]
      /\ \A s \in Searchers : s \notin Writers
  BY CacheTypes
<1>1. ASSUME NEW t \in G!Threads, G!Step(t) PROVE Same
  <2>1. UNCHANGED <<graph, meta, covered>>
    BY <1>1 DEF G!Step, G!Expand, G!Fetch, G!Adopt, G!Load, G!Keep, G!Store, G!base, G!cache,
       G!history
  <2>2. \A u \in Writers : at'[u] = at[u] \/ at'[u] \notin {"clearing", "counting"}
    BY <1>0, <1>1, ExpansionMoves DEF Searching
  <2>3. QED
    BY <2>1, <2>2 DEF G!Uncounted
<1>2. ASSUME NEW s \in Searchers, G!ReadRevision(s) \/ G!Look(s) \/ G!Ask(s) \/ G!Return(s) PROVE Same
  <2>1. \A u \in Writers : at'[u] = at[u]
    BY <1>0, <1>2, SearchMoves
  <2>2. UNCHANGED <<graph, meta, covered>>
    BY <1>2, SearchMoves DEF G!base
  <2>3. QED
    BY <2>1, <2>2 DEF G!Uncounted
<1>3. ASSUME NEW w \in Writers, G!Write(w)
      PROVE  /\ w \notin G!Uncounted /\ G!Uncounted' = G!Uncounted \cup {w} /\ graph' = graph + 1
             /\ graph < MaxWrites /\ UNCHANGED <<meta, covered>>
  <2>1. /\ graph' = graph + 1 /\ graph < MaxWrites /\ UNCHANGED <<meta, covered>>
        /\ at[w] = "idle" /\ at' = [at EXCEPT ![w] = "clearing"]
    BY <1>3 DEF G!Write, G!history, G!Goto
  <2>2. w \notin G!Uncounted /\ G!Uncounted' = G!Uncounted \cup {w}
    BY <1>0, <2>1 DEF G!Uncounted
  <2>3. QED
    BY <2>1, <2>2
<1>4. ASSUME NEW w \in Writers, G!Count(w)
      PROVE  /\ w \in G!Uncounted /\ G!Uncounted' = G!Uncounted \ {w} /\ meta' = meta + 1
             /\ covered' = [covered EXCEPT ![meta + 1] = graph] /\ graph' = graph
  <2>1. /\ meta' = meta + 1 /\ covered' = [covered EXCEPT ![meta + 1] = graph] /\ graph' = graph
        /\ at[w] = "counting" /\ at' = [at EXCEPT ![w] = "taking over"]
    BY <1>4 DEF G!Count, G!Goto
  <2>2. w \in G!Uncounted /\ G!Uncounted' = G!Uncounted \ {w}
    BY <1>0, <2>1 DEF G!Uncounted
  <2>3. QED
    BY <2>1, <2>2
<1>5. ASSUME NEW w \in Writers, \/ G!ClearMemory(w) \/ G!TakeOver(w) \/ G!Prune(w)
                               \/ G!CountAlone(w) \/ G!Drop(w)
      PROVE  Same
  <2>1. UNCHANGED <<graph, meta, covered>>
    BY <1>5 DEF G!ClearMemory, G!TakeOver, G!Prune, G!CountAlone, G!Drop, G!base, G!history
  <2>2. PICK p \in {"counting", "pruning", "warming", "idle", "dropping", "warming memory"} :
           at' = [at EXCEPT ![w] = p] /\ (p = "counting" => at[w] = "clearing")
    BY <1>5 DEF G!ClearMemory, G!TakeOver, G!Prune, G!CountAlone, G!Drop, G!Goto
  <2>3. QED
    BY <1>0, <2>1, <2>2 DEF G!Uncounted
<1>6. ASSUME NEW c \in Clients, G!Reconnect(c) PROVE Same
  BY <1>6 DEF G!Reconnect, G!base, G!threads, G!Uncounted
<1>7. ASSUME NEW c \in Clients, G!Restart(c) PROVE Same
  <2>1. \A u \in Writers : at'[u] = at[u] \/ at'[u] = "idle"
    BY <1>0, <1>7, RestartResets
  <2>2. QED
    BY <1>7, <2>1, RestartResets DEF G!Uncounted
<1>8. ASSUME UNCHANGED G!vars PROVE Same
  BY <1>8 DEF G!vars, G!base, G!threads, G!history, G!Uncounted
<1> HIDE DEF Same
<1>9. \/ Same
      \/ \E w \in Writers : G!Write(w)
      \/ \E w \in Writers : G!Count(w)
  <2>1. CASE G!Next
    BY <1>1, <1>2, <1>5, <1>6, <1>7, <2>1, Zenon DEF G!Next
  <2>2. QED
    BY <1>8, <2>1
<1>10. QED
  BY <1>3, <1>4, <1>9 DEF Same

\* A revision that is counted stands for no less than the one before.
LEMMA RevisionsGrowKept ==
  ASSUME G!CacheAssumption, G!TypeOK, G!RevisionsGrow, G!WaysApart, [G!Next]_G!vars
  PROVE  G!RevisionsGrow'
<1>0. /\ graph \in Nat /\ meta \in Nat /\ covered \in [G!Revisions -> Nat] /\ G!Revisions = 0..MaxWrites
      /\ MaxWrites \in Nat /\ graph <= MaxWrites
      /\ IsFiniteSet(G!Uncounted) /\ Cardinality(G!Uncounted) \in Nat /\ meta <= graph
  <2>1. graph \in 0..MaxWrites
    BY DEF G!TypeOK
  <2>2. /\ graph \in Nat /\ meta \in Nat /\ covered \in [G!Revisions -> Nat]
    BY CacheTypes
  <2>3. MaxWrites \in Nat /\ G!Revisions = 0..MaxWrites
    BY Basics
  <2>4. /\ IsFiniteSet(G!Uncounted) /\ Cardinality(G!Uncounted) \in Nat /\ meta <= graph
    BY CountHasRoom
  <2>5. QED
    BY <2>1, <2>2, <2>3, <2>4
<1>1. /\ meta + Cardinality(G!Uncounted) <= graph
      /\ \A r \in G!Revisions : covered[r] <= graph /\ (r > meta => covered[r] = 0)
      /\ \A r, q \in 0..meta : r <= q => covered[r] <= covered[q]
  BY GrowthIs
<1>2. CASE G!Uncounted' \subseteq G!Uncounted /\ UNCHANGED <<graph, meta, covered>>
  <2> DEFINE U == G!Uncounted'
  <2>1. Cardinality(U) \in Nat /\ Cardinality(U) <= Cardinality(G!Uncounted)
    BY <1>0, <1>2, FS_Subset, FS_CardinalityType
  <2>2. QED
    BY <1>0, <1>1, <1>2, <2>1, GrowthIs
<1>3. CASE \E w \in Writers \ G!Uncounted :
              /\ G!Uncounted' = G!Uncounted \cup {w} /\ graph' = graph + 1 /\ graph < MaxWrites
              /\ UNCHANGED <<meta, covered>>
  <2>1. PICK w \in Writers \ G!Uncounted :
              /\ G!Uncounted' = G!Uncounted \cup {w} /\ graph' = graph + 1 /\ graph < MaxWrites
              /\ UNCHANGED <<meta, covered>>
    BY <1>3
  <2>2. Cardinality(G!Uncounted \cup {w}) = Cardinality(G!Uncounted) + 1
    BY <1>0, FS_AddElement
  <2>3. Cardinality(G!Uncounted') = Cardinality(G!Uncounted) + 1
    BY <2>1, <2>2
  <2>4. \A r \in G!Revisions : covered'[r] <= graph' /\ (r > meta' => covered'[r] = 0)
    BY <1>0, <1>1, <2>1
  <2>5. meta' + Cardinality(G!Uncounted') <= graph'
    BY <1>0, <1>1, <2>1, <2>3
  <2>6. \A r, q \in 0..meta' : r <= q => covered'[r] <= covered'[q]
    BY <1>1, <2>1
  <2>7. QED
    BY <2>4, <2>5, <2>6, GrowthIs
<1>4. CASE \E w \in G!Uncounted :
              /\ G!Uncounted' = G!Uncounted \ {w} /\ meta' = meta + 1
              /\ covered' = [covered EXCEPT ![meta + 1] = graph] /\ graph' = graph
  <2>1. PICK w \in G!Uncounted :
              /\ G!Uncounted' = G!Uncounted \ {w} /\ meta' = meta + 1
              /\ covered' = [covered EXCEPT ![meta + 1] = graph] /\ graph' = graph
    BY <1>4
  <2>2. Cardinality(G!Uncounted \ {w}) = Cardinality(G!Uncounted) - 1
    BY <1>0, FS_RemoveElement
  <2>3. Cardinality(G!Uncounted') = Cardinality(G!Uncounted) - 1
    BY <2>1, <2>2
  <2>4. meta' + Cardinality(G!Uncounted') <= graph'
    BY <1>0, <1>1, <2>1, <2>3
  <2>5. G!Uncounted # {} /\ Cardinality(G!Uncounted) # 0
    BY <1>0, FS_EmptySet
  <2>6. meta < graph
    BY <1>0, <1>1, <2>5
  <2>7. \A r \in G!Revisions : covered'[r] = IF r = meta + 1 THEN graph ELSE covered[r]
    BY <1>0, <2>1
  <2>8. \A r \in G!Revisions : covered'[r] <= graph' /\ (r > meta' => covered'[r] = 0)
    BY <1>0, <1>1, <2>1, <2>7
  <2>9. ASSUME NEW r \in 0..meta', NEW q \in 0..meta', r <= q
        PROVE  covered'[r] <= covered'[q]
    <3>1. r \in G!Revisions /\ q \in G!Revisions
      BY <1>0, <2>1, <2>6
    <3>2. CASE q = meta + 1
      BY <1>0, <2>1, <2>7, <2>8, <3>1, <3>2
    <3>3. CASE q # meta + 1
      <4>1. r \in 0..meta /\ q \in 0..meta /\ r # meta + 1
        BY <1>0, <2>1, <2>9, <3>3
      <4>2. covered[r] <= covered[q]
        BY <1>1, <2>9, <4>1
      <4>3. QED
        BY <2>7, <3>1, <3>3, <4>1, <4>2
    <3>4. QED
      BY <3>2, <3>3
  <2>10. QED
    BY <2>4, <2>8, <2>9, GrowthIs
<1>5. QED
  BY <1>2, <1>3, <1>4, UncountedMoves

\* What changes the revisions of clients and the keys of searches.
LEMMA RevisionsAreCountedKept ==
  ASSUME G!CacheAssumption, G!TypeOK, G!RevisionsGrow, G!RevisionsAreCounted, G!WaysApart,
         [G!Next]_G!vars
  PROVE  G!RevisionsAreCounted'
<1>0. /\ revision \in [Clients -> G!Revisions] /\ under \in [G!Threads -> G!Revisions]
      /\ key \in [G!Threads -> G!Revisions] /\ at \in [G!Threads -> Places] /\ meta \in Nat
      /\ \A t \in G!Threads : ClientOf[t] \in Clients
      /\ counted \subseteq Clients /\ sure \subseteq Searchers
      /\ \A r \in G!Revisions : r \in Nat
      /\ \A s \in Searchers : s \in G!Threads /\ s \notin Writers
      /\ \A w \in Writers : w \in G!Threads
  BY CacheTypes DEF G!TypeOK
<1>m. meta' \in Nat /\ meta <= meta' /\ 0 <= meta'
  BY <1>0, UncountedMoves
<1>a. /\ \A c \in counted : revision[c] <= meta'
      /\ \A s \in sure : key[s] <= meta'
      /\ \A t \in G!Threads : at[t] \in {"looking", "taking over", "pruning"} => under[t] <= meta'
  <2>1. /\ \A c \in counted : revision[c] \in Nat /\ revision[c] <= meta
        /\ \A s \in sure : key[s] \in Nat /\ key[s] <= meta
        /\ \A t \in G!Threads : under[t] \in Nat
        /\ \A t \in G!Threads : at[t] \in {"looking", "taking over", "pruning"} => under[t] <= meta
    BY <1>0 DEF G!RevisionsAreCounted
  <2>2. ASSUME NEW n \in Nat, n <= meta PROVE n <= meta'
    BY <1>0, <1>m, <2>2
  <2>3. \A c \in counted : revision[c] <= meta'
    BY <2>1, <2>2
  <2>4. \A s \in sure : key[s] <= meta'
    BY <2>1, <2>2
  <2>5. \A t \in G!Threads : at[t] \in {"looking", "taking over", "pruning"} => under[t] <= meta'
    BY <2>1, <2>2
  <2>6. QED
    BY <2>3, <2>4, <2>5
<1> DEFINE A == \A c \in counted' : revision'[c] <= meta'
           B == \A s \in sure' : key'[s] <= meta'
           C == \A t \in G!Threads :
                  at'[t] \in {"looking", "taking over", "pruning"} => under'[t] <= meta'
<1>1. ASSUME NEW t \in G!Threads, G!Step(t) PROVE A /\ B /\ C
  <2>1. UNCHANGED <<revision, counted, sure, key, meta>>
    BY <1>1 DEF G!Step, G!Expand, G!Fetch, G!Adopt, G!Load, G!Keep, G!Store, G!base, G!cache,
       G!history
  <2>2. \A u \in G!Threads : at'[u] \in {"looking", "taking over", "pruning"} =>
           at'[u] = at[u] /\ under'[u] = under[u]
    BY <1>0, <1>1, ExpansionMoves DEF Searching, G!Threads
  <2>3. QED
    BY <1>a, <2>1, <2>2
<1>2. ASSUME NEW s \in Searchers, G!ReadRevision(s) PROVE A /\ B /\ C
  <2>1. /\ UNCHANGED <<revision, counted, sure, key, meta>> /\ at' = [at EXCEPT ![s] = "looking"]
        /\ under' = [under EXCEPT ![s] = meta] \/ under' = [under EXCEPT ![s] = 0]
    BY <1>2 DEF G!ReadRevision, G!base, G!cache, G!Goto
  <2>2. QED
    BY <1>0, <1>m, <1>a, <2>1
<1>3. ASSUME NEW s \in Searchers, G!Look(s) PROVE A /\ B /\ C
  <2> DEFINE c == ClientOf[s]
  <2>1. c \in Clients /\ at[s] = "looking" /\ under[s] <= meta' /\ meta' = meta
    BY <1>0, <1>3, <1>m, <1>a DEF G!Look, G!base
  <2>2. PICK r : /\ r = IF under[s] > revision[c] THEN under[s] ELSE revision[c]
                 /\ revision' = [revision EXCEPT ![c] = r] /\ key' = [key EXCEPT ![s] = r]
                 /\ counted' = IF under[s] > revision[c] THEN counted \cup {c} ELSE counted
                 /\ sure' = IF c \in counted' THEN sure \cup {s} ELSE sure \ {s}
    BY <1>3 DEF G!Look
  <2>3. PICK p \in {"answered", "expanding"} : at' = [at EXCEPT ![s] = p]
    BY <1>3 DEF G!Look, G!Goto
  <2>4. under' = [under EXCEPT ![s] = 0]
    BY <1>3 DEF G!Look
  <2>5. c \in counted' => r <= meta'
    BY <1>0, <1>m, <1>a, <2>1, <2>2
  <2>6. A
    <3>1. \A d \in counted' : d # c => d \in counted
      BY <2>2
    <3>2. revision'[c] = r /\ \A d \in Clients : d # c => revision'[d] = revision[d]
      BY <1>0, <2>1, <2>2
    <3>3. QED
      BY <1>0, <1>m, <1>a, <2>1, <2>5, <3>1, <3>2
  <2>7. B
    <3>1. s \in G!Threads /\ key'[s] = r /\ \A u \in Searchers : u # s => key'[u] = key[u]
      BY <1>0, <2>2
    <3>2. \A u \in sure' : u # s => u \in sure
      BY <2>2
    <3>3. s \in sure' => c \in counted'
      BY <2>2
    <3>4. QED
      BY <1>0, <1>m, <1>a, <2>1, <2>5, <3>1, <3>2, <3>3
  <2>8. C
    BY <1>0, <1>m, <1>a, <2>1, <2>3, <2>4
  <2>9. QED
    BY <2>6, <2>7, <2>8
<1>4. ASSUME NEW s \in Searchers, G!Ask(s) \/ G!Return(s) PROVE A /\ B /\ C
  <2>1. /\ UNCHANGED <<revision, counted, meta>> /\ under' = [under EXCEPT ![s] = 0]
        /\ at' = [at EXCEPT ![s] = "answered"] \/ at' = [at EXCEPT ![s] = "idle"]
        /\ sure' \subseteq sure
        /\ key' = key \/ key' = [key EXCEPT ![s] = 0]
    BY <1>4 DEF G!Ask, G!Return, G!base, G!cache, G!Goto, G!history
  <2>2. A /\ C
    BY <1>0, <1>m, <1>a, <2>1
  <2>3. B
    <3>1. \A u \in Searchers : key'[u] = key[u] \/ key'[u] = 0
      BY <1>0, <2>1
    <3>2. QED
      BY <1>0, <1>m, <1>a, <2>1, <3>1
  <2>4. QED
    BY <2>2, <2>3
<1>5. ASSUME NEW w \in Writers, G!Write(w) \/ G!ClearMemory(w) \/ G!Drop(w) PROVE A /\ B /\ C
  <2>1. /\ UNCHANGED <<revision, counted, sure, key, under, meta>>
        /\ \E p \in {"clearing", "counting", "warming memory", "idle"} : at' = [at EXCEPT ![w] = p]
    BY <1>5 DEF G!Write, G!ClearMemory, G!Drop, G!base, G!cache, G!history, G!Goto
  <2>2. QED
    BY <1>0, <1>m, <1>a, <2>1
<1>6. ASSUME NEW w \in Writers, G!Count(w) PROVE A /\ B /\ C
  <2>1. /\ UNCHANGED <<revision, counted, sure, key>> /\ meta' = meta + 1
        /\ at' = [at EXCEPT ![w] = "taking over"] /\ under' = [under EXCEPT ![w] = meta + 1]
    BY <1>6 DEF G!Count, G!cache, G!Goto
  <2>2. A /\ B
    BY <1>0, <1>m, <1>a, <2>1
  <2>3. C
    <3>1. \A t \in G!Threads : t # w => at'[t] = at[t] /\ under'[t] = under[t]
      BY <2>1, <1>0
    <3>2. under'[w] = meta'
      BY <1>0, <2>1
    <3>3. under'[w] <= meta'
      BY <1>m, <3>2
    <3>4. QED
      BY <1>a, <3>1, <3>3
  <2>4. QED
    BY <2>2, <2>3
<1>7. ASSUME NEW w \in Writers, G!TakeOver(w) PROVE A /\ B /\ C
  <2>1. /\ UNCHANGED <<sure, key, under, meta>> /\ at[w] = "taking over"
        /\ at' = [at EXCEPT ![w] = "pruning"]
        /\ revision' = [revision EXCEPT ![ClientOf[w]] = under[w]]
        /\ counted' = counted \cup {ClientOf[w]}
    BY <1>7 DEF G!TakeOver, G!base, G!Goto
  <2>2. A
    <3>1. \A c \in counted' : \/ c \in counted /\ revision'[c] = revision[c]
                              \/ revision'[c] = under[w]
      BY <1>0, <2>1
    <3>2. QED
      BY <1>0, <1>m, <1>a, <2>1, <3>1
  <2>3. B /\ C
    BY <1>0, <1>m, <1>a, <2>1
  <2>4. QED
    BY <2>2, <2>3
<1>8. ASSUME NEW w \in Writers, G!Prune(w) PROVE A /\ B /\ C
  <2>1. /\ UNCHANGED <<revision, counted, sure, key, meta>>
        /\ \E p \in {"warming", "idle"} : at' = [at EXCEPT ![w] = p]
        /\ under' = [under EXCEPT ![w] = 0]
    BY <1>8 DEF G!Prune, G!cache, G!history, G!Goto
  <2>2. QED
    BY <1>0, <1>m, <1>a, <2>1
<1>9. ASSUME NEW w \in Writers, G!CountAlone(w) PROVE A /\ B /\ C
  <2>1. /\ UNCHANGED <<sure, key, under, meta>> /\ at' = [at EXCEPT ![w] = "dropping"]
        /\ revision' = [revision EXCEPT ![ClientOf[w]] = revision[ClientOf[w]] + 1]
        /\ counted' = counted \ {ClientOf[w]}
    BY <1>9 DEF G!CountAlone, G!base, G!Goto
  <2>2. A
    <3>1. \A c \in counted' : c \in counted /\ revision'[c] = revision[c]
      BY <1>0, <2>1
    <3>2. QED
      BY <1>a, <2>1, <3>1
  <2>3. B /\ C
    BY <1>0, <1>m, <1>a, <2>1
  <2>4. QED
    BY <2>2, <2>3
<1>10. ASSUME NEW c \in Clients, G!Reconnect(c) PROVE A /\ B /\ C
  <2>1. /\ UNCHANGED <<sure, key, under, meta, at>>
        /\ \/ revision' = [revision EXCEPT ![c] = meta] /\ counted' = counted \cup {c}
           \/ UNCHANGED <<revision, counted>>
    BY <1>10 DEF G!Reconnect, G!base, G!threads
  <2>2. A
    BY <1>0, <1>m, <1>a, <2>1
  <2>3. B /\ C
    BY <1>0, <1>m, <1>a, <2>1
  <2>4. QED
    BY <2>2, <2>3
<1>11. ASSUME NEW c \in Clients, G!Restart(c) PROVE A /\ B /\ C
  <2>1. /\ meta' = meta /\ sure' \subseteq sure
        /\ revision' = [revision EXCEPT ![c] = meta] /\ counted' = counted \cup {c}
        /\ \A t \in G!Threads : \/ at'[t] = "idle" /\ key'[t] = 0
                                \/ at'[t] = at[t] /\ key'[t] = key[t] /\ under'[t] = under[t]
    BY <1>11, RestartResets
  <2>2. A
    <3>1. \A d \in counted' : \/ d \in counted /\ revision'[d] = revision[d]
                              \/ revision'[d] = meta
      BY <1>0, <2>1
    <3>2. QED
      BY <1>0, <1>m, <1>a, <2>1, <3>1
  <2>3. B
    <3>1. \A u \in sure' : u \in sure /\ (key'[u] = key[u] \/ key'[u] = 0)
      BY <1>0, <2>1
    <3>2. QED
      BY <1>0, <1>m, <1>a, <2>1, <3>1
  <2>4. C
    BY <1>0, <1>m, <1>a, <2>1
  <2>5. QED
    BY <2>2, <2>3, <2>4
<1>12. ASSUME UNCHANGED G!vars PROVE A /\ B /\ C
  <2>1. UNCHANGED <<revision, counted, sure, key, under, at, meta>>
    BY <1>12 DEF G!vars, G!base, G!cache, G!threads, G!history
  <2>2. QED
    BY <1>a, <2>1
<1> HIDE DEF A, B, C
<1>13. ASSUME G!Next PROVE A /\ B /\ C
  BY <1>1, <1>2, <1>3, <1>4, <1>5, <1>6, <1>7, <1>8, <1>9, <1>10, <1>11, <1>13, Zenon DEF G!Next
<1>14. QED
  BY <1>12, <1>13 DEF G!RevisionsAreCounted, A, B, C

\* What was counted stays as it was, and the next count stands for all there is.
LEMMA CoveredStays ==
  ASSUME G!CacheAssumption, G!TypeOK, G!RevisionsGrow, G!WaysApart, [G!Next]_G!vars
  PROVE  /\ meta' \in Nat /\ meta <= meta' /\ graph' \in Nat /\ graph <= graph'
         /\ \A r \in G!Revisions : r <= meta => covered'[r] = covered[r]
         /\ \A r \in G!Revisions : r <= meta' => r <= meta \/ covered'[r] = graph
<1>0. /\ graph \in Nat /\ meta \in Nat /\ covered \in [G!Revisions -> Nat]
      /\ \A r \in G!Revisions : r \in Nat
  BY CacheTypes
<1>1. CASE UNCHANGED <<graph, meta, covered>>
  BY <1>0, <1>1
<1>2. CASE graph' = graph + 1 /\ UNCHANGED <<meta, covered>>
  BY <1>0, <1>2
<1>3. CASE /\ meta' = meta + 1 /\ covered' = [covered EXCEPT ![meta + 1] = graph]
           /\ graph' = graph
  <2>1. meta' \in Nat /\ meta <= meta' /\ graph' \in Nat /\ graph <= graph'
    BY <1>0, <1>3
  <2>2. ASSUME NEW r \in G!Revisions, r <= meta PROVE covered'[r] = covered[r]
    BY <1>0, <1>3, <2>2
  <2>3. ASSUME NEW r \in G!Revisions, r <= meta' PROVE r <= meta \/ covered'[r] = graph
    <3>1. r <= meta \/ r = meta + 1
      BY <1>0, <1>3, <2>3
    <3>2. QED
      BY <1>0, <1>3, <3>1
  <2>4. QED
    BY <2>1, <2>2, <2>3
<1>4. QED
  BY <1>1, <1>2, <1>3, UncountedMoves

\* Exact, of a number of revisions and what they cover.
ExactOf(v, r, m, f) == v \notin {None, G!Loose} => r <= m /\ v >= f[r]

\* What is exact under a revision that was counted stays so.
LEMMA ExactStays ==
  ASSUME G!CacheAssumption, G!TypeOK, G!RevisionsGrow, G!WaysApart, [G!Next]_G!vars,
         NEW v, NEW r \in G!Revisions, ExactOf(v, r, meta, covered)
  PROVE  ExactOf(v, r, meta', covered')
<1>1. /\ meta \in Nat /\ meta' \in Nat /\ meta <= meta' /\ r \in Nat
      /\ r <= meta => covered'[r] = covered[r]
  BY CacheTypes, CoveredStays
<1>2. r <= meta => r <= meta'
  BY <1>1
<1>3. QED
  BY <1>1, <1>2 DEF ExactOf

\* Where the value comes from that a thread holds after a step of an expansion.
LEMMA ExpansionHolds ==
  ASSUME G!CacheAssumption, G!TypeOK, G!WaysApart, NEW t \in G!Threads, G!Step(t),
         at'[t] \in Holding
  PROVE  LET r == revision[ClientOf[t]]
         IN  \/ /\ at[t] \in {"keeping", "keeping memory", "storing"}
                /\ got'[t] = got[t] /\ under'[t] = under[t]
             \/ at[t] = "adopting" /\ got'[t] = G!Kept(t) /\ under'[t] = under[t]
             \/ /\ got'[t] \in {paths[ClientOf[t]][r], stored[r]} /\ got'[t] # None
                /\ under'[t] = r
             \/ got'[t] = G!Sees(graph, ClientOf[t] \in counted) /\ under'[t] = r
<1> DEFINE r == revision[ClientOf[t]]
<1>0. /\ got \in [G!Threads -> G!Values] /\ under \in [G!Threads -> G!Revisions] /\ r \in G!Revisions
      /\ at \in [G!Threads -> Places] /\ stored[r] \in G!Values /\ paths[ClientOf[t]][r] \in G!Values
  BY CacheTypes
<1>1. CASE G!Expand(t)
  <2>1. CASE paths[ClientOf[t]][r] # None /\ G!Onward(t, paths[ClientOf[t]][r], r)
    BY <1>0, <2>1, OnwardMoves DEF Holding
  <2>2. CASE G!Goto(t, IF at[t] = "warming memory" THEN "loading memory" ELSE "fetching")
    BY <1>0, <2>2 DEF G!Goto, Holding
  <2>3. QED
    BY <1>1, <2>1, <2>2 DEF G!Expand
<1>2. CASE G!Fetch(t)
  <2>1. CASE /\ stored[r] # None
             /\ got' = [got EXCEPT ![t] = stored[r]] /\ under' = [under EXCEPT ![t] = r]
    BY <1>0, <2>1
  <2>2. CASE G!Goto(t, "loading")
    BY <1>0, <2>2 DEF G!Goto, Holding
  <2>3. QED
    BY <1>2, <2>1, <2>2 DEF G!Fetch
<1>3. CASE G!Adopt(t)
  <2>1. at[t] = "adopting" /\ G!Onward(t, G!Kept(t), under[t])
    BY <1>3 DEF G!Adopt
  <2>2. QED
    BY <1>0, <2>1, KeptIsEither, OnwardMoves DEF Holding
<1>4. CASE G!Load(t)
  BY <1>0, <1>4 DEF G!Load
<1>5. CASE G!Keep(t)
  <2>1. CASE at[t] = "keeping"
    BY <1>5, <2>1 DEF G!Keep
  <2>2. CASE at[t] # "keeping"
    <3>1. at[t] = "keeping memory" /\ G!Onward(t, got[t], under[t])
      BY <1>5, <2>2 DEF G!Keep
    <3>2. QED
      BY <1>0, <3>1, OnwardMoves DEF Holding
  <2>3. QED
    BY <2>1, <2>2
<1>6. CASE G!Store(t)
  <2>1. at[t] = "storing" /\ G!Onward(t, got[t], under[t])
    BY <1>6 DEF G!Store
  <2>2. QED
    BY <1>0, <2>1, OnwardMoves DEF Holding
<1>7. QED
  BY <1>1, <1>2, <1>3, <1>4, <1>5, <1>6 DEF G!Step

\* All values are exact, of any state of the caches and the threads.
ExactHere(st, pa, an, a, g, u, m, f) ==
    /\ \A r \in G!Revisions :
          /\ ExactOf(st[r], r, m, f)
          /\ \A c \in Clients : ExactOf(pa[c][r], r, m, f) /\ ExactOf(an[c][r], r, m, f)
    /\ \A t \in G!Threads : a[t] \in Holding => g[t] # None /\ ExactOf(g[t], u[t], m, f)

\* ValuesAreExact in these terms.
LEMMA ValuesAre ==
  /\ G!ValuesAreExact <=> ExactHere(stored, paths, answers, at, got, under, meta, covered)
  /\ G!ValuesAreExact' <=> ExactHere(stored', paths', answers', at', got', under', meta', covered')
  BY DEF G!ValuesAreExact, G!Exact, ExactHere, ExactOf, Holding

\* Nothing is kept under a revision that stands for more than the value reflects.
LEMMA ValuesAreExactKept ==
  ASSUME G!CacheAssumption, G!TypeOK, G!RevisionsGrow, G!RevisionsAreCounted, G!ValuesAreExact,
         G!WaysApart,
         [G!Next]_G!vars
  PROVE  G!ValuesAreExact'
<1> DEFINE N(v, r) == ExactOf(v, r, meta', covered')
           S == \A r \in G!Revisions : N(stored'[r], r)
           P == \A c \in Clients : \A r \in G!Revisions : N(paths'[c][r], r)
           A == \A c \in Clients : \A r \in G!Revisions : N(answers'[c][r], r)
           T(t) == at'[t] \in Holding => got'[t] # None /\ N(got'[t], under'[t])
           Goal == S /\ P /\ A /\ \A t \in G!Threads : T(t)
<1>0. /\ revision \in [Clients -> G!Revisions] /\ under \in [G!Threads -> G!Revisions]
      /\ key \in [G!Threads -> G!Revisions] /\ at \in [G!Threads -> Places]
      /\ got \in [G!Threads -> G!Values] /\ stored \in [G!Revisions -> G!Values]
      /\ paths \in [Clients -> [G!Revisions -> G!Values]]
      /\ answers \in [Clients -> [G!Revisions -> G!Values]]
      /\ \A t \in G!Threads : ClientOf[t] \in Clients
      /\ \A s \in Searchers : s \in G!Threads
      /\ \A w \in Writers : w \in G!Threads
  BY CacheTypes
<1>e. \A r \in G!Revisions : G!Empty[r] = None
  BY DEF G!Empty
<1>n. \A r : N(None, r) /\ N(G!Loose, r)
  BY DEF ExactOf
<1>o. \A v : \A r \in G!Revisions : ExactOf(v, r, meta, covered) => N(v, r)
  BY ExactStays
<1>v. /\ \A r \in G!Revisions : ExactOf(stored[r], r, meta, covered)
      /\ \A c \in Clients : \A r \in G!Revisions :
           ExactOf(paths[c][r], r, meta, covered) /\ ExactOf(answers[c][r], r, meta, covered)
      /\ \A t \in G!Threads :
           at[t] \in Holding => got[t] # None /\ ExactOf(got[t], under[t], meta, covered)
  BY ValuesAre DEF ExactHere
<1>1. /\ \A r \in G!Revisions : N(stored[r], r)
      /\ \A c \in Clients : \A r \in G!Revisions : N(paths[c][r], r) /\ N(answers[c][r], r)
      /\ \A t \in G!Threads : at[t] \in Holding => got[t] # None /\ N(got[t], under[t])
  BY <1>0, <1>o, <1>v
<1> HIDE DEF N
<1>c. ASSUME NEW c \in Clients, G!Clear(c) PROVE P /\ A
  <2>1. /\ \A r \in G!Revisions : paths'[c][r] = None /\ answers'[c][r] = None
        /\ \A d \in Clients : d # c => paths'[d] = paths[d] /\ answers'[d] = answers[d]
    BY <1>0, <1>c, <1>e DEF G!Clear
  <2>2. QED
    BY <1>1, <1>n, <2>1
<1>s. UNCHANGED stored => S
  BY <1>1
<1>p. UNCHANGED paths => P
  BY <1>1
<1>a. UNCHANGED answers => A
  BY <1>1
<1>t. ASSUME NEW t \in G!Threads,
             \/ at'[t] \notin Holding
             \/ at'[t] = at[t] /\ got'[t] = got[t] /\ under'[t] = under[t]
      PROVE  T(t)
  BY <1>1, <1>t
<1>2. ASSUME NEW t \in G!Threads, G!Step(t) PROVE Goal
  <2> DEFINE c == ClientOf[t]
             r == revision[c]
  <2>0. c \in Clients /\ r \in G!Revisions /\ under[t] \in G!Revisions
    BY <1>0
  <2>1. at[t] \in Holding => N(G!Kept(t), r) /\ N(G!Kept(t), under[t]) /\ G!Kept(t) # None
    BY <1>1, <1>n, KeptIsEither
  <2>2. S
    <3>1. CASE stored' = stored
      BY <1>s, <3>1
    <3>2. CASE at[t] = "storing" /\ stored' = [stored EXCEPT ![r] = G!Kept(t)]
      <4>1. N(G!Kept(t), r)
        BY <2>1, <3>2 DEF Holding
      <4>2. \A q \in G!Revisions : stored'[q] = IF q = r THEN G!Kept(t) ELSE stored[q]
        BY <1>0, <3>2
      <4>3. QED
        BY <1>1, <4>1, <4>2
    <3>3. QED
      BY <1>2, <3>1, <3>2, ExpansionKeeps
  <2>3. P
    <3>1. CASE paths' = paths
      BY <1>p, <3>1
    <3>2. CASE /\ at[t] \in {"adopting", "keeping", "keeping memory"}
               /\ paths' = [paths EXCEPT ![c][r] = G!Kept(t)]
      <4>1. N(G!Kept(t), r)
        BY <2>1, <3>2 DEF Holding
      <4>2. \A d \in Clients : \A q \in G!Revisions :
               paths'[d][q] = IF d = c /\ q = r THEN G!Kept(t) ELSE paths[d][q]
        BY <1>0, <2>0, <3>2
      <4>3. QED
        BY <1>1, <4>1, <4>2
    <3>3. QED
      BY <1>2, <3>1, <3>2, ExpansionKeeps
  <2>4. A
    <3>1. answers' = answers
      BY <1>2 DEF G!Step, G!Expand, G!Fetch, G!Adopt, G!Load, G!Keep, G!Store, G!cache
    <3>2. QED
      BY <3>1, <1>a
  <2>5. T(t)
    <3>1. ASSUME at'[t] \in Holding PROVE got'[t] # None /\ N(got'[t], under'[t])
      <4>1. CASE /\ at[t] \in {"keeping", "keeping memory", "storing"}
                 /\ got'[t] = got[t] /\ under'[t] = under[t]
        BY <1>1, <4>1 DEF Holding
      <4>2. CASE at[t] = "adopting" /\ got'[t] = G!Kept(t) /\ under'[t] = under[t]
        BY <2>1, <4>2 DEF Holding
      <4>3. CASE /\ got'[t] \in {paths[c][r], stored[r]} /\ got'[t] # None /\ under'[t] = r
        BY <1>1, <2>0, <4>3
      <4>4. CASE got'[t] = G!Sees(graph, c \in counted) /\ under'[t] = r
        <5>1. CASE c \in counted
          <6>1. /\ graph \in Nat /\ None \notin Int /\ r <= meta /\ covered[r] <= graph
            BY <2>0, <5>1, CacheTypes DEF G!CacheAssumption, G!RevisionsAreCounted,
               G!RevisionsGrow
          <6>2. ExactOf(graph, r, meta, covered) /\ graph # None
            BY <6>1, <2>0, CacheTypes DEF ExactOf
          <6>3. QED
            BY <1>o, <2>0, <4>4, <5>1, <6>2 DEF G!Sees, N
        <5>2. CASE c \notin counted
          BY <1>n, <4>4, <5>2, Basics DEF G!Sees
        <5>3. QED
          BY <5>1, <5>2
      <4>5. QED
        BY <1>2, <3>1, <4>1, <4>2, <4>3, <4>4, ExpansionHolds
    <3>2. QED
      BY <3>1
  <2>6. \A u \in G!Threads : u # t => T(u)
    BY <1>2, <1>t, ExpansionMoves
  <2>7. QED
    BY <2>2, <2>3, <2>4, <2>5, <2>6
<1>3. ASSUME NEW s \in Searchers, G!ReadRevision(s) \/ G!Return(s) PROVE Goal
  <2>1. UNCHANGED <<stored, paths, answers>> /\ at'[s] \notin Holding
    BY <1>0, <1>3 DEF G!ReadRevision, G!Return, G!base, G!cache, G!Goto, Holding
  <2>2. \A u \in G!Threads : T(u)
    BY <1>3, <1>t, <2>1, SearchMoves
  <2>3. QED
    BY <1>s, <1>p, <1>a, <2>1, <2>2
<1>4. ASSUME NEW s \in Searchers, G!Look(s) PROVE Goal
  <2>1. /\ stored' = stored /\ at'[s] \notin Holding
        /\ G!Clear(ClientOf[s]) \/ UNCHANGED <<paths, answers>>
    BY <1>0, <1>4 DEF G!Look, G!base, G!Goto, Holding
  <2>2. \A u \in G!Threads : T(u)
    BY <1>4, <1>t, <2>1, SearchMoves
  <2>3. P /\ A
    BY <1>0, <1>c, <1>p, <1>a, <2>1
  <2>4. QED
    BY <1>s, <2>1, <2>2, <2>3
<1>5. ASSUME NEW s \in Searchers, G!Ask(s) PROVE Goal
  <2> DEFINE c == ClientOf[s]
             v == G!Sees(got[s], s \in sure /\ under[s] >= key[s])
  <2>1. /\ UNCHANGED <<stored, paths>> /\ at[s] = "asking"
        /\ answers' = [answers EXCEPT ![c][key[s]] = v] /\ at' = [at EXCEPT ![s] = "answered"]
    BY <1>5 DEF G!Ask, G!base, G!Goto
  <2>2. c \in Clients /\ key[s] \in G!Revisions /\ under[s] \in G!Revisions /\ s \in G!Threads
    BY <1>0
  <2>3. N(v, key[s])
    <3>1. CASE s \in sure /\ under[s] >= key[s]
      <4>1. ExactOf(got[s], under[s], meta, covered)
        BY <1>v, <2>1, <2>2 DEF Holding
      <4>2. CASE got[s] \in {None, G!Loose}
        BY <1>n, <3>1, <4>2 DEF G!Sees
      <4>3. CASE got[s] \notin {None, G!Loose}
        <5>1. under[s] <= meta /\ got[s] >= covered[under[s]]
          BY <4>1, <4>3 DEF ExactOf
        <5>2. /\ key[s] \in Nat /\ under[s] \in Nat /\ meta \in Nat /\ got[s] \in Nat
              /\ covered[key[s]] \in Nat /\ covered[under[s]] \in Nat
          BY <2>2, <4>3, CacheTypes
        <5>3. key[s] \in 0..meta /\ under[s] \in 0..meta /\ key[s] <= under[s]
          BY <3>1, <5>1, <5>2
        <5>4. covered[key[s]] <= covered[under[s]]
          BY <5>3 DEF G!RevisionsGrow
        <5>5. ExactOf(got[s], key[s], meta, covered)
          BY <5>1, <5>2, <5>3, <5>4 DEF ExactOf
        <5>6. QED
          BY <1>o, <2>2, <3>1, <5>5 DEF G!Sees, N
      <4>4. QED
        BY <4>2, <4>3
    <3>2. CASE ~(s \in sure /\ under[s] >= key[s])
      BY <1>n, <3>2 DEF G!Sees
    <3>3. QED
      BY <3>1, <3>2
  <2>4. A
    <3>1. \A d \in Clients : \A q \in G!Revisions :
             answers'[d][q] = IF d = c /\ q = key[s] THEN v ELSE answers[d][q]
      BY <1>0, <2>1, <2>2
    <3>2. QED
      BY <1>1, <2>3, <3>1
  <2>5. \A u \in G!Threads : T(u)
    <3>1. at'[s] \notin Holding
      BY <1>0, <2>1, <2>2 DEF Holding
    <3>2. QED
      BY <1>5, <1>t, <3>1, SearchMoves
  <2>6. QED
    BY <1>s, <1>p, <2>1, <2>4, <2>5
<1>6. ASSUME NEW w \in Writers, \/ G!Write(w) \/ G!ClearMemory(w) \/ G!Count(w) \/ G!TakeOver(w)
                               \/ G!Prune(w) \/ G!CountAlone(w) \/ G!Drop(w)
      PROVE  Goal
  <2>1. PICK p \in {"clearing", "counting", "taking over", "pruning", "warming", "idle", "dropping",
                    "warming memory"} : at' = [at EXCEPT ![w] = p]
    BY <1>6 DEF G!Write, G!ClearMemory, G!Count, G!TakeOver, G!Prune, G!CountAlone, G!Drop,
       G!Goto
  <2>2. /\ got' = got
        /\ under' = under \/ \E x : under' = [under EXCEPT ![w] = x]
    BY <1>6 DEF G!Write, G!ClearMemory, G!Count, G!TakeOver, G!Prune, G!CountAlone, G!Drop
  <2>3. \A u \in G!Threads : T(u)
    <3>1. w \in G!Threads /\ at'[w] \notin Holding
      BY <1>0, <2>1 DEF Holding
    <3>2. \A u \in G!Threads : u # w => at'[u] = at[u] /\ under'[u] = under[u] /\ got'[u] = got[u]
      BY <1>0, <2>1, <2>2
    <3>3. QED
      BY <1>t, <3>1, <3>2
  <2>4. G!Clear(ClientOf[w]) \/ UNCHANGED <<paths, answers>>
    BY <1>6 DEF G!Write, G!ClearMemory, G!Count, G!TakeOver, G!Prune, G!CountAlone, G!Drop,
       G!cache
  <2>5. P /\ A
    BY <1>0, <1>c, <1>p, <1>a, <2>4
  <2>6. S
    <3>1. \/ stored' \in {stored, G!Empty}
          \/ stored' = [r \in G!Revisions |-> IF r < under[w] THEN None ELSE stored[r]]
      BY <1>6 DEF G!Write, G!ClearMemory, G!Count, G!TakeOver, G!Prune, G!CountAlone, G!Drop,
         G!base
    <3>2. \A r \in G!Revisions : stored'[r] \in {None, stored[r]}
      BY <1>e, <3>1
    <3>3. QED
      BY <1>1, <1>n, <3>2
  <2>7. QED
    BY <2>3, <2>5, <2>6
<1>7. ASSUME NEW c \in Clients, G!Reconnect(c) PROVE Goal
  <2>1. stored' = stored /\ G!Clear(c) /\ UNCHANGED <<at, got, under>>
    BY <1>7 DEF G!Reconnect, G!base, G!threads
  <2>2. QED
    BY <1>c, <1>s, <1>t, <2>1
<1>8. ASSUME NEW c \in Clients, G!Restart(c) PROVE Goal
  <2>1. stored' = stored
    BY <1>8, RestartResets
  <2>2. G!Clear(c)
    BY <1>8 DEF G!Restart
  <2>3. \A u \in G!Threads : T(u)
    <3>1. \A u \in G!Threads : \/ at'[u] = "idle"
                               \/ at'[u] = at[u] /\ got'[u] = got[u] /\ under'[u] = under[u]
      BY <1>8, RestartResets
    <3>2. QED
      BY <1>t, <3>1 DEF Holding
  <2>4. QED
    BY <1>c, <1>s, <2>1, <2>2, <2>3
<1>9. ASSUME UNCHANGED G!vars PROVE Goal
  <2>1. UNCHANGED <<stored, paths, answers, at, got, under>>
    BY <1>9 DEF G!vars, G!base, G!cache, G!threads
  <2>2. QED
    BY <1>s, <1>p, <1>a, <1>t, <2>1
<1> HIDE DEF Goal
<1>10. ASSUME G!Next PROVE Goal
  BY <1>2, <1>3, <1>4, <1>5, <1>6, <1>7, <1>8, <1>10, Zenon DEF G!Next
<1>11. Goal
  BY <1>9, <1>10
<1>12. QED
  BY <1>11, ValuesAre DEF Goal, ExactHere, N

\* The key of a search is never older than what it has asked for.
LEMMA KeysAreCurrentKept ==
  ASSUME G!CacheAssumption, G!TypeOK, G!RevisionsGrow, G!RevisionsAreCounted, G!KeysAreCurrent,
         G!WaysApart,
         [G!Next]_G!vars
  PROVE  G!KeysAreCurrent'
<1> DEFINE K(s) ==
             /\ asof'[s] <= graph'
             /\ at'[s] = "looking" => asof'[s] <= covered'[under'[s]]
             /\ at'[s] \notin {"idle", "looking"} /\ key'[s] <= meta' =>
                  asof'[s] <= covered'[key'[s]]
           Goal == \A s \in Searchers : K(s)
<1>0. /\ under \in [G!Threads -> G!Revisions] /\ key \in [G!Threads -> G!Revisions]
      /\ at \in [G!Threads -> Places] /\ asof \in [Searchers -> Nat] /\ graph \in Nat
      /\ covered \in [G!Revisions -> Nat] /\ meta \in Nat /\ meta \in G!Revisions
      /\ revision \in [Clients -> G!Revisions]
      /\ \A t \in G!Threads : ClientOf[t] \in Clients
      /\ \A s \in Searchers : s \in G!Threads /\ s \notin Writers
      /\ \A r \in G!Revisions : r \in Nat
  BY CacheTypes
<1>m. /\ meta' \in Nat /\ meta <= meta' /\ graph' \in Nat /\ graph <= graph'
      /\ \A r \in G!Revisions : r <= meta => covered'[r] = covered[r]
      /\ \A r \in G!Revisions : r <= meta' => r <= meta \/ covered'[r] = graph
  BY CoveredStays
<1>k. ASSUME NEW s \in Searchers
      PROVE  /\ asof[s] <= graph /\ asof[s] <= graph'
             /\ at[s] = "looking" => under[s] <= meta /\ asof[s] <= covered'[under[s]]
             /\ at[s] \notin {"idle", "looking"} /\ key[s] <= meta' =>
                  asof[s] <= covered'[key[s]]
  <2>0. /\ asof[s] \in Nat /\ key[s] \in G!Revisions /\ under[s] \in G!Revisions /\ s \in G!Threads
        /\ key[s] \in Nat /\ under[s] \in Nat
    BY <1>0
  <2>1. asof[s] <= graph
    BY DEF G!KeysAreCurrent
  <2>2. asof[s] <= graph'
    BY <1>0, <1>m, <2>0, <2>1
  <2>3. ASSUME at[s] = "looking" PROVE under[s] <= meta /\ asof[s] <= covered'[under[s]]
    <3>1. under[s] <= meta /\ asof[s] <= covered[under[s]]
      BY <2>0, <2>3 DEF G!KeysAreCurrent, G!RevisionsAreCounted
    <3>2. QED
      BY <1>m, <2>0, <3>1
  <2>4. ASSUME at[s] \notin {"idle", "looking"}, key[s] <= meta'
        PROVE  asof[s] <= covered'[key[s]]
    <3>1. CASE key[s] <= meta
      <4>1. asof[s] <= covered[key[s]]
        BY <2>4, <3>1 DEF G!KeysAreCurrent
      <4>2. QED
        BY <1>m, <2>0, <3>1, <4>1
    <3>2. CASE covered'[key[s]] = graph
      BY <2>1, <3>2
    <3>3. QED
      BY <1>m, <2>0, <2>4, <3>1, <3>2
  <2>5. QED
    BY <2>1, <2>2, <2>3, <2>4
\* A search that keeps its key, or has come back.
<1>s. ASSUME NEW s \in Searchers,
             \/ /\ asof'[s] = asof[s] /\ key'[s] = key[s]
                /\ \/ at'[s] = at[s] /\ under'[s] = under[s]
                   \/ at[s] \notin {"idle", "looking"} /\ at'[s] # "looking"
             \/ at'[s] = "idle" /\ asof'[s] = 0
      PROVE  K(s)
  <2>1. CASE at'[s] = "idle" /\ asof'[s] = 0
    BY <1>m, <2>1
  <2>2. CASE /\ asof'[s] = asof[s] /\ key'[s] = key[s]
             /\ at'[s] = at[s] /\ under'[s] = under[s]
    BY <1>k, <2>2
  <2>3. CASE /\ asof'[s] = asof[s] /\ key'[s] = key[s]
             /\ at[s] \notin {"idle", "looking"} /\ at'[s] # "looking"
    BY <1>k, <2>3
  <2>4. QED
    BY <1>s, <2>1, <2>2, <2>3
<1>1. ASSUME NEW t \in G!Threads, G!Step(t) PROVE Goal
  <2>1. UNCHANGED <<key, asof>>
    BY <1>1, ExpansionMoves DEF G!history
  <2>2. ASSUME NEW s \in Searchers PROVE K(s)
    <3>1. CASE s = t
      <4>1. at'[s] \in Searching
        BY <1>1, <3>1, ExpansionMoves
      <4>2. at[s] \in (Searching \ {"asking"}) \cup
                      {"warming", "warming memory", "loading memory", "keeping memory"}
        BY <1>1, <3>1, ExpansionMoves
      <4>3. QED
        BY <1>s, <2>1, <4>1, <4>2 DEF Searching
    <3>2. CASE s # t
      <4>1. at'[s] = at[s] /\ under'[s] = under[s]
        BY <1>0, <1>1, <3>2, ExpansionMoves
      <4>2. QED
        BY <1>s, <2>1, <4>1
    <3>3. QED
      BY <3>1, <3>2
  <2>3. QED
    BY <2>2
<1>a. ASSUME NEW s \in Searchers, G!ReadRevision(s) \/ G!Look(s) \/ G!Ask(s) \/ G!Return(s), K(s)
      PROVE  Goal
  <2>1. ASSUME NEW u \in Searchers, u # s PROVE K(u)
    BY <1>0, <1>a, <1>s, <2>1, SearchMoves
  <2>2. QED
    BY <1>a, <2>1
<1>2. ASSUME NEW s \in Searchers, G!ReadRevision(s) PROVE Goal
  <2>1. /\ at'[s] = "looking" /\ UNCHANGED <<graph, meta, covered>>
        /\ \/ under'[s] = meta /\ asof'[s] = covered[meta]
           \/ under'[s] = 0 /\ asof'[s] = 0
    BY <1>0, <1>2 DEF G!ReadRevision, G!base, G!Goto
  <2>2. /\ covered[meta] \in Nat /\ covered[meta] <= graph
        /\ 0 \in G!Revisions /\ covered[0] \in Nat
    BY <1>0, Basics DEF G!RevisionsGrow
  <2>3. K(s)
    <3>1. asof'[s] <= graph' /\ asof'[s] <= covered'[under'[s]]
      BY <1>0, <2>1, <2>2
    <3>2. QED
      BY <2>1, <3>1
  <2>4. QED
    BY <1>2, <1>a, <2>3
<1>3. ASSUME NEW s \in Searchers, G!Look(s) PROVE Goal
  <2> DEFINE c == ClientOf[s]
  <2>1. /\ at[s] = "looking" /\ UNCHANGED <<graph, meta, covered, asof>>
        /\ key' = [key EXCEPT ![s] = IF under[s] > revision[c] THEN under[s] ELSE revision[c]]
    BY <1>3 DEF G!Look, G!base
  <2>2. /\ s \in G!Threads /\ under[s] \in G!Revisions /\ revision[c] \in G!Revisions
        /\ under[s] \in Nat /\ revision[c] \in Nat
    BY <1>0
  <2>3. /\ key'[s] \in G!Revisions /\ key'[s] \in Nat /\ under[s] <= key'[s]
    <3>1. key'[s] = IF under[s] > revision[c] THEN under[s] ELSE revision[c]
      BY <1>0, <2>1, <2>2
    <3>2. QED
      BY <2>2, <3>1
  <2>4. under[s] <= meta /\ asof[s] <= covered[under[s]] /\ asof[s] <= graph'
    BY <1>k, <2>1
  <2>5. ASSUME key'[s] <= meta' PROVE asof[s] <= covered[key'[s]]
    <3>1. under[s] \in 0..meta /\ key'[s] \in 0..meta
      BY <1>0, <2>1, <2>2, <2>3, <2>4, <2>5
    <3>2. covered[under[s]] <= covered[key'[s]]
      BY <2>3, <3>1 DEF G!RevisionsGrow
    <3>3. asof[s] \in Nat /\ covered[under[s]] \in Nat /\ covered[key'[s]] \in Nat
      BY <1>0, <2>2, <2>3
    <3>4. QED
      BY <2>4, <3>2, <3>3
  <2>6. at'[s] # "looking"
    BY <1>0, <1>3, <2>2 DEF G!Look, G!Goto
  <2>7. K(s)
    BY <2>1, <2>4, <2>5, <2>6
  <2>8. QED
    BY <1>3, <1>a, <2>7
<1>4. ASSUME NEW s \in Searchers, G!Ask(s) PROVE Goal
  <2>1. /\ at[s] = "asking" /\ at'[s] = "answered" /\ UNCHANGED <<key, asof>>
    BY <1>0, <1>4 DEF G!Ask, G!Goto, G!history
  <2>2. K(s)
    BY <1>s, <2>1
  <2>3. QED
    BY <1>4, <1>a, <2>2
<1>5. ASSUME NEW s \in Searchers, G!Return(s) PROVE Goal
  <2>1. at'[s] = "idle" /\ asof'[s] = 0
    BY <1>0, <1>5 DEF G!Return, G!Goto
  <2>2. K(s)
    BY <1>s, <2>1
  <2>3. QED
    BY <1>5, <1>a, <2>2
<1>6. ASSUME NEW w \in Writers, \/ G!Write(w) \/ G!ClearMemory(w) \/ G!Count(w) \/ G!TakeOver(w)
                               \/ G!Prune(w) \/ G!CountAlone(w) \/ G!Drop(w)
      PROVE  Goal
  <2>1. /\ UNCHANGED <<key, asof>>
        /\ \E p : at' = [at EXCEPT ![w] = p]
        /\ under' = under \/ \E x : under' = [under EXCEPT ![w] = x]
    BY <1>6 DEF G!Write, G!ClearMemory, G!Count, G!TakeOver, G!Prune, G!CountAlone, G!Drop,
       G!Goto, G!history
  <2>2. \A s \in Searchers : at'[s] = at[s] /\ under'[s] = under[s]
    BY <1>0, <2>1
  <2>3. QED
    BY <1>s, <2>1, <2>2
<1>7. ASSUME NEW c \in Clients, G!Reconnect(c) PROVE Goal
  <2>1. UNCHANGED <<key, asof, at, under>>
    BY <1>7 DEF G!Reconnect, G!threads
  <2>2. QED
    BY <1>s, <2>1
<1>8. ASSUME NEW c \in Clients, G!Restart(c) PROVE Goal
  <2>1. \A s \in Searchers :
           \/ at'[s] = "idle" /\ asof'[s] = 0
           \/ at'[s] = at[s] /\ key'[s] = key[s] /\ under'[s] = under[s] /\ asof'[s] = asof[s]
    BY <1>0, <1>8, RestartResets
  <2>2. QED
    BY <1>s, <2>1
<1>9. ASSUME UNCHANGED G!vars PROVE Goal
  <2>1. UNCHANGED <<key, asof, at, under>>
    BY <1>9 DEF G!vars, G!threads, G!history
  <2>2. QED
    BY <1>s, <2>1
<1> HIDE DEF Goal
<1>10. ASSUME G!Next PROVE Goal
  BY <1>1, <1>2, <1>3, <1>4, <1>5, <1>6, <1>7, <1>8, <1>10, Zenon DEF G!Next
<1>11. Goal
  BY <1>9, <1>10
<1>12. QED
  BY <1>11 DEF Goal, G!KeysAreCurrent

\* A search answers with a cached answer of its key, or with what it has asked.
LEMMA SearchSeesCountedKept ==
  ASSUME G!CacheAssumption, G!TypeOK, G!RevisionsGrow, G!RevisionsAreCounted, G!ValuesAreExact,
         G!KeysAreCurrent, G!WaysApart, G!SearchSeesCounted, [G!Next]_G!vars
  PROVE  G!SearchSeesCounted'
<1> DEFINE K(s) == at'[s] = "answered" /\ got'[s] # G!Loose => got'[s] >= asof'[s]
           Goal == \A s \in Searchers : K(s)
<1>0. /\ under \in [G!Threads -> G!Revisions] /\ key \in [G!Threads -> G!Revisions]
      /\ at \in [G!Threads -> Places] /\ asof \in [Searchers -> Nat] /\ got \in [G!Threads -> G!Values]
      /\ covered \in [G!Revisions -> Nat] /\ meta \in Nat
      /\ answers' \in [Clients -> [G!Revisions -> G!Values]]
      /\ \A t \in G!Threads : ClientOf[t] \in Clients
      /\ \A s \in Searchers : s \in G!Threads /\ s \notin Writers
      /\ \A r \in G!Revisions : r \in Nat
      /\ \A v \in G!Values : v \notin {None, G!Loose} => v \in Nat
  BY CacheTypes, CachesMove
<1>s. ASSUME NEW s \in Searchers,
             \/ at'[s] = at[s] /\ got'[s] = got[s] /\ asof'[s] = asof[s]
             \/ at'[s] # "answered"
      PROVE  K(s)
  BY <1>s DEF G!SearchSeesCounted
<1>1. ASSUME NEW t \in G!Threads, G!Step(t) PROVE Goal
  <2>1. asof' = asof
    BY <1>1, ExpansionMoves DEF G!history
  <2>2. ASSUME NEW s \in Searchers PROVE K(s)
    <3>1. CASE s = t
      <4>1. at'[s] \in Searching
        BY <1>1, <3>1, ExpansionMoves
      <4>2. QED
        BY <1>s, <4>1 DEF Searching
    <3>2. CASE s # t
      <4>1. at'[s] = at[s] /\ got'[s] = got[s]
        BY <1>0, <1>1, <3>2, ExpansionMoves
      <4>2. QED
        BY <1>s, <2>1, <4>1
    <3>3. QED
      BY <3>1, <3>2
  <2>3. QED
    BY <2>2
<1>a. ASSUME NEW s \in Searchers, G!ReadRevision(s) \/ G!Look(s) \/ G!Ask(s) \/ G!Return(s), K(s)
      PROVE  Goal
  <2>1. ASSUME NEW u \in Searchers, u # s PROVE K(u)
    BY <1>0, <1>a, <1>s, <2>1, SearchMoves
  <2>2. QED
    BY <1>a, <2>1
<1>2. ASSUME NEW s \in Searchers, G!ReadRevision(s) \/ G!Return(s) PROVE Goal
  <2>1. at'[s] # "answered"
    BY <1>0, <1>2 DEF G!ReadRevision, G!Return, G!Goto
  <2>2. K(s)
    BY <1>s, <2>1
  <2>3. QED
    BY <1>2, <1>a, <2>2
<1>3. ASSUME NEW s \in Searchers, G!Look(s) PROVE Goal
  <2> DEFINE c == ClientOf[s]
  <2>1. \/ at'[s] # "answered"
        \/ got'[s] = answers'[c][key'[s]] /\ answers'[c][key'[s]] # None
    <3>1. key'[s] = IF under[s] > revision[c] THEN under[s] ELSE revision[c]
      BY <1>0, <1>3 DEF G!Look
    <3>2. QED
      BY <1>0, <1>3, <3>1 DEF G!Look, G!Goto
  <2>2. K(s)
    <3>1. ASSUME at'[s] = "answered", got'[s] # G!Loose PROVE got'[s] >= asof'[s]
      <4>1. got'[s] = answers'[c][key'[s]] /\ got'[s] \notin {None, G!Loose}
        BY <2>1, <3>1
      <4>2. key' \in [G!Threads -> G!Revisions] /\ asof' \in [Searchers -> 0..MaxWrites]
        BY ThreadsTyped
      <4>3. /\ key'[s] \in G!Revisions /\ c \in Clients /\ got'[s] \in G!Values
            /\ asof'[s] \in Nat
        BY <1>0, <4>1, <4>2, Basics
      <4>4. G!ValuesAreExact' /\ G!KeysAreCurrent'
        BY ValuesAreExactKept, KeysAreCurrentKept
      <4>5. ExactOf(answers'[c][key'[s]], key'[s], meta', covered')
        BY <4>3, <4>4, ValuesAre DEF ExactHere
      <4>6. key'[s] <= meta' /\ got'[s] >= covered'[key'[s]]
        BY <4>1, <4>5 DEF ExactOf
      <4>7. asof'[s] <= covered'[key'[s]]
        BY <3>1, <4>4, <4>6 DEF G!KeysAreCurrent
      <4>8. covered' = covered
        BY <1>3 DEF G!Look
      <4>9. got'[s] \in Nat /\ covered'[key'[s]] \in Nat
        BY <1>0, <4>1, <4>3, <4>8
      <4>10. QED
        BY <4>3, <4>6, <4>7, <4>9
    <3>2. QED
      BY <3>1
  <2>3. QED
    BY <1>3, <1>a, <2>2
<1>4. ASSUME NEW s \in Searchers, G!Ask(s) PROVE Goal
  <2>1. /\ at[s] = "asking" /\ asof' = asof
        /\ got'[s] = G!Sees(got[s], s \in sure /\ under[s] >= key[s])
    BY <1>0, <1>4 DEF G!Ask, G!history
  <2>2. K(s)
    <3>1. ASSUME got'[s] # G!Loose PROVE got'[s] >= asof'[s]
      <4>1. got'[s] = got[s] /\ s \in sure /\ under[s] >= key[s] /\ got[s] # G!Loose
        BY <2>1, <3>1 DEF G!Sees
      <4>2. got[s] # None /\ ExactOf(got[s], under[s], meta, covered)
        BY <1>0, <2>1, ValuesAre DEF ExactHere, Holding
      <4>3. under[s] <= meta /\ got[s] >= covered[under[s]]
        BY <4>1, <4>2 DEF ExactOf
      <4>4. key[s] <= meta /\ asof[s] <= covered[key[s]]
        BY <2>1, <4>1 DEF G!RevisionsAreCounted, G!KeysAreCurrent
      <4>5. /\ key[s] \in Nat /\ under[s] \in Nat /\ got[s] \in Nat /\ asof[s] \in Nat
            /\ covered[key[s]] \in Nat /\ covered[under[s]] \in Nat
        BY <1>0, <4>1, <4>2
      <4>6. key[s] \in 0..meta /\ under[s] \in 0..meta /\ key[s] <= under[s]
        BY <1>0, <4>1, <4>3, <4>4, <4>5
      <4>7. covered[key[s]] <= covered[under[s]]
        BY <4>6 DEF G!RevisionsGrow
      <4>8. QED
        BY <2>1, <4>1, <4>3, <4>4, <4>5, <4>7
    <3>2. QED
      BY <3>1
  <2>3. QED
    BY <1>4, <1>a, <2>2
<1>5. ASSUME NEW w \in Writers, \/ G!Write(w) \/ G!ClearMemory(w) \/ G!Count(w) \/ G!TakeOver(w)
                               \/ G!Prune(w) \/ G!CountAlone(w) \/ G!Drop(w)
      PROVE  Goal
  <2>1. UNCHANGED <<got, asof>> /\ \E p : at' = [at EXCEPT ![w] = p]
    BY <1>5 DEF G!Write, G!ClearMemory, G!Count, G!TakeOver, G!Prune, G!CountAlone, G!Drop,
       G!Goto, G!history
  <2>2. \A s \in Searchers : at'[s] = at[s]
    BY <1>0, <2>1
  <2>3. QED
    BY <1>s, <2>1, <2>2
<1>6. ASSUME NEW c \in Clients, G!Reconnect(c) PROVE Goal
  <2>1. UNCHANGED <<asof, at, got>>
    BY <1>6 DEF G!Reconnect, G!threads
  <2>2. QED
    BY <1>s, <2>1
<1>7. ASSUME NEW c \in Clients, G!Restart(c) PROVE Goal
  <2>1. \A s \in Searchers :
           \/ at'[s] = "idle"
           \/ at'[s] = at[s] /\ got'[s] = got[s] /\ asof'[s] = asof[s]
    BY <1>0, <1>7, RestartResets
  <2>2. QED
    BY <1>s, <2>1
<1>8. ASSUME UNCHANGED G!vars PROVE Goal
  <2>1. UNCHANGED <<got, asof, at>>
    BY <1>8 DEF G!vars, G!threads, G!history
  <2>2. QED
    BY <1>s, <2>1
<1> HIDE DEF Goal
<1>9. ASSUME G!Next PROVE Goal
  BY <1>1, <1>2, <1>3, <1>4, <1>5, <1>6, <1>7, <1>9, Zenon DEF G!Next
<1>10. Goal
  BY <1>8, <1>9
<1>11. QED
  BY <1>10 DEF Goal, G!SearchSeesCounted

LEMMA InitHolds == G!CacheAssumption /\ G!Init => G!IInv
<1> SUFFICES ASSUME G!CacheAssumption, G!Init PROVE G!IInv
  OBVIOUS
<1>0. /\ 0 \in G!Revisions /\ 0 \in 0..MaxWrites /\ G!Empty \in [G!Revisions -> G!Values] /\ None \in G!Values
      /\ \A r \in G!Revisions : G!Empty[r] = None /\ r \in Nat
      /\ "idle" \in Places /\ MaxLosses \in Nat
      /\ Searchers \subseteq G!Threads /\ Writers \subseteq G!Threads
  BY Basics DEF G!Empty, Places, G!CacheAssumption, G!Threads
<1>1. /\ graph = 0 /\ meta = 0 /\ stored = G!Empty
      /\ revision = [c \in Clients |-> 0]
      /\ paths = [c \in Clients |-> G!Empty] /\ answers = [c \in Clients |-> G!Empty]
      /\ at = [t \in G!Threads |-> "idle"] /\ key = [t \in G!Threads |-> 0]
      /\ got = [t \in G!Threads |-> None] /\ under = [t \in G!Threads |-> 0]
      /\ covered = [r \in G!Revisions |-> 0] /\ counted = Clients /\ sure = {}
      /\ asof = [t \in Searchers |-> 0] /\ losses = 0
  BY DEF G!Init
<1>2. G!TypeOK
  <2>1. /\ graph \in 0..MaxWrites /\ meta \in G!Revisions /\ stored \in [G!Revisions -> G!Values]
        /\ revision \in [Clients -> G!Revisions]
        /\ paths \in [Clients -> [G!Revisions -> G!Values]]
        /\ answers \in [Clients -> [G!Revisions -> G!Values]]
    BY <1>0, <1>1
  <2>2. /\ at \in [G!Threads -> Places]
        /\ key \in [G!Threads -> G!Revisions] /\ got \in [G!Threads -> G!Values]
        /\ under \in [G!Threads -> G!Revisions]
    BY <1>0, <1>1
  <2>3. /\ covered \in [G!Revisions -> 0..MaxWrites] /\ counted \subseteq Clients
        /\ sure \subseteq Searchers /\ asof \in [Searchers -> 0..MaxWrites]
        /\ losses \in 0..MaxLosses
    BY <1>0, <1>1
  <2>4. QED
    BY <2>1, <2>2, <2>3 DEF G!TypeOK, Places
<1>3. G!RevisionsGrow
  <2>1. G!Uncounted = {}
    BY <1>0, <1>1 DEF G!Uncounted
  <2>2. Cardinality(G!Uncounted) = 0
    BY <2>1, FS_EmptySet
  <2>3. \A r \in G!Revisions : covered[r] = 0
    BY <1>1
  <2>4. \A r \in 0..meta : r \in G!Revisions
    BY <1>0, <1>1
  <2>5. QED
    BY <1>1, <2>2, <2>3, <2>4, GrowthIs
<1>4. G!RevisionsAreCounted
  BY <1>1 DEF G!RevisionsAreCounted
<1>5. G!ValuesAreExact
  BY <1>0, <1>1 DEF G!ValuesAreExact, G!Exact
<1>6. G!KeysAreCurrent /\ G!WaysApart /\ G!SearchSeesCounted
  BY <1>0, <1>1 DEF G!KeysAreCurrent, G!WaysApart, G!SearchSeesCounted
<1>7. QED
  BY <1>2, <1>3, <1>4, <1>5, <1>6 DEF G!IInv

LEMMA StepsKeepInvariant == G!CacheAssumption /\ G!IInv /\ [G!Next]_G!vars => G!IInv'
<1> SUFFICES ASSUME G!CacheAssumption, G!IInv, [G!Next]_G!vars PROVE G!IInv'
  OBVIOUS
<1>1. /\ G!TypeOK /\ G!RevisionsGrow /\ G!RevisionsAreCounted /\ G!ValuesAreExact
      /\ G!KeysAreCurrent /\ G!WaysApart /\ G!SearchSeesCounted
  BY DEF G!IInv
<1>2. QED
  BY <1>1, TypeKept, RevisionsGrowKept, RevisionsAreCountedKept, ValuesAreExactKept,
     KeysAreCurrentKept, WaysKept, SearchSeesCountedKept DEF G!IInv

\* What is exact is current.
LEMMA ExactIsCurrent == G!IInv => G!SearchesAreCurrent
  BY DEF G!IInv, G!SearchesAreCurrent, G!KeptIsCurrent, G!ValuesAreExact, G!Exact, G!Reflects

(* The inductive invariant of the caches holds for any processes, searches and upserts. *)
THEOREM CacheInvariantHolds == G!CacheAssumption /\ G!Spec => []G!IInv
<1>1. ASSUME G!CacheAssumption PROVE G!Spec => []G!IInv
  <2>1. G!Init => G!IInv
    BY <1>1, InitHolds
  <2>2. G!IInv /\ [G!Next]_G!vars => G!IInv'
    BY <1>1, StepsKeepInvariant
  <2>3. QED
    BY <2>1, <2>2, PTL DEF G!Spec
<1>2. QED
  BY <1>1

(* What is kept of the graph under a revision reflects the upserts that revision stands for,
   and a search sees what the graph had counted when it asked, whatever connections are lost
   and processes restarted (_cached_multi_hop_expansion_paths, _bump_graph_revision). *)
THEOREM SearchesStayCurrent == G!CacheAssumption /\ G!Spec => []G!SearchesAreCurrent
  BY CacheInvariantHolds, ExactIsCurrent, PTL

----------------------------------------------------------------------------
(***************************************************************************)
(* The vectors of a base, with any imports, models, sizes and crashes.     *)
(***************************************************************************)
CONSTANTS Models, DimsOf, Importers, Query, CacheMax, MaxChunks, MaxStamps, MaxDeaths
VARIABLES base, pieces, given, matrix, loaded, sidecar, about, backend, asking, deaths, behind,
          raced

V == INSTANCE VectorIndex WITH chunks <- pieces, kb <- base, next <- given, index <- loaded,
       file <- sidecar, meta <- about, request <- asking, crashes <- deaths,
       Searcher <- Query, MaxWrites <- MaxStamps, MaxCrashes <- MaxDeaths

Chunks == [id : 1 .. MaxChunks, model : Models]
Bases == [model : Models, dims : Nat, count : Nat, stamp : Nat]
VectorIndexes == [of : [count : Nat, dims : Nat, stamp : Nat], rows : SUBSET Chunks]
Importing == [at : {"embedding"}, model : Models, old : Nat \cup {None}]
Probing == [at : {"probing"}, model : Models, raced : BOOLEAN]
Querying == [at : {"embedding"}, model : Models]
Found == [at : {"found"}, found : SUBSET Nat, stored : SUBSET Nat, sure : BOOLEAN]

VectorTypeOK ==
    /\ base \in Bases \cup {None} /\ pieces \subseteq Chunks /\ IsFiniteSet(pieces) /\ given \in Nat \ {0}
    /\ loaded \in VectorIndexes \cup {None} /\ about \in VectorIndexes \cup {None}
    /\ sidecar \in (SUBSET Chunks) \cup {None}
    /\ behind \in BOOLEAN /\ raced \in BOOLEAN
    /\ asking = [q \in Importers \cup {V!Updater, Query} |-> asking[q]]
    /\ \A i \in Importers : asking[i] \in {V!Idle} \cup Importing
    /\ asking[V!Updater] \in {V!Idle} \cup Probing
    /\ asking[Query] \in {V!Idle} \cup Querying \cup Found

\* Without a base nothing is there; the counts of one are right unless a crash came between.
BaseHolds ==
    /\ base = None => pieces = {} /\ loaded = None /\ about = None
    /\ base # None => base.dims = DimsOf[base.model]
    /\ base # None /\ ~behind => base.count = Cardinality(pieces)

\* The matrix that is kept is that of the rows.
MatrixHolds == matrix = None \/ matrix = V!Matrix

\* An index no older than the base has its rows, unless a crash came between.
Right == {c \in pieces : DimsOf[c.model] = base.dims}
IndexIsOf(of, held) ==
    base # None =>
      /\ of.stamp <= base.stamp
      /\ of.stamp = base.stamp => of = V!Snapshot /\ (~behind => held = Right)
IndexesHold ==
    /\ loaded # None => IndexIsOf(loaded.of, loaded.rows)
    /\ about # None => sidecar # None /\ IndexIsOf(about.of, sidecar)

\* Vectors are of the base's model, and so are those that are on their way.
ModelsHold ==
    /\ base # None /\ ~raced =>
         /\ \A c \in pieces : c.model = base.model
         /\ \A i \in Importers : asking[i].at = "embedding" => asking[i].model = base.model
    /\ asking[V!Updater].at = "probing" /\ ~asking[V!Updater].raced => pieces = {}

VectorInv ==
    VectorTypeOK /\ BaseHolds /\ MatrixHolds /\ IndexesHold /\ ModelsHold /\ V!SearchFinds

LEMMA SameCount == \A S : V!Cardinality(S) = Cardinality(S)
  BY DEF V!Cardinality, Cardinality

\* Among rows there is one with the lowest id.
LEMMA FirstChunk ==
  ASSUME pieces \subseteq Chunks, pieces # {}
  PROVE  \E c \in pieces : \A d \in pieces : c.id <= d.id
<1> DEFINE Below == OpToRel(<, Nat)
           ids == {c.id : c \in pieces}
<1>1. IsWellFoundedOn(Below, Nat)
  BY NatLessThanWellFounded
<1>2. ids \subseteq Nat /\ ids # {}
  BY DEF Chunks
<1>3. PICK n \in ids : \A m \in ids : <<m, n>> \notin Below
  BY <1>1, <1>2, WFMin
<1>4. \A m \in ids : ~(m < n)
  <2>1. \A x, y \in Nat : x < y => <<x, y>> \in {s \in Nat \X Nat : s[1] < s[2]}
    OBVIOUS
  <2>2. Below = {s \in Nat \X Nat : s[1] < s[2]}
    BY Zenon DEF OpToRel
  <2> HIDE DEF Below
  <2>3. QED
    BY <1>2, <1>3, <2>1, <2>2
<1>5. \A m \in ids : n <= m
  <2> HIDE DEF ids
  <2>1. QED
    BY <1>2, <1>4
<1>6. QED
  BY <1>5

\* The matrix of rows of one length has them all.
LEMMA MatrixOfRows ==
  ASSUME pieces \subseteq Chunks
  PROVE  /\ V!Matrix.rows \subseteq pieces
         /\ \A n : (\A c \in pieces : DimsOf[c.model] = n) =>
              V!Matrix.rows = pieces /\ (pieces # {} => V!Matrix.dims = n)
<1>1. CASE pieces = {}
  BY <1>1 DEF V!Matrix
<1>2. CASE pieces # {}
  <2> DEFINE first == CHOOSE c \in pieces : \A d \in pieces : c.id <= d.id
  <2>1. first \in pieces
    BY <1>2, FirstChunk
  <2>2. V!Matrix = [dims |-> DimsOf[first.model],
                    rows |-> {c \in pieces : DimsOf[c.model] = DimsOf[first.model]}]
    BY <1>2 DEF V!Matrix
  <2> HIDE DEF first
  <2>3. QED
    BY <2>1, <2>2
<1>3. QED
  BY <1>1, <1>2

\* What a request does next.
LEMMA AskingTurns ==
  ASSUME V!VectorIndexAssumption, VectorTypeOK, NEW r, NEW y,
         r \in Importers \cup {V!Updater, Query}, V!Turns(r, y)
  PROVE  /\ asking' = [q \in Importers \cup {V!Updater, Query} |-> asking'[q]]
         /\ \A q \in Importers \cup {V!Updater, Query} : asking'[q] = IF q = r THEN y ELSE asking[q]
         /\ Query \notin Importers /\ V!Updater \notin Importers /\ V!Updater # Query
  BY DEF VectorTypeOK, V!Turns, V!VectorIndexAssumption, V!Updater

\* A step that leaves the store and its indexes alone.
LEMMA StoreStays ==
  ASSUME VectorInv, UNCHANGED <<base, pieces, loaded, about, sidecar, behind>>
  PROVE  BaseHolds' /\ IndexesHold' /\ (matrix' \in {matrix, None} => MatrixHolds')
<1>1. BaseHolds'
  BY DEF VectorInv, BaseHolds
<1>2. V!Snapshot' = V!Snapshot /\ Right' = Right /\ V!Matrix' = V!Matrix
  BY DEF V!Snapshot, Right, V!Matrix
<1>3. IndexesHold'
  BY <1>2 DEF VectorInv, IndexesHold, IndexIsOf
<1>4. matrix' \in {matrix, None} => MatrixHolds'
  BY <1>2 DEF VectorInv, MatrixHolds
<1>5. QED
  BY <1>1, <1>3, <1>4

\* A search that has not ended, or whose answer stays.
LEMMA AnswerStays ==
  ASSUME V!SearchFinds, asking'[Query] = asking[Query] \/ asking'[Query].at # "found"
  PROVE  V!SearchFinds'
  BY DEF V!SearchFinds

LEMMA InitVector == V!VectorIndexAssumption /\ V!Init => VectorInv
<1> SUFFICES ASSUME V!VectorIndexAssumption, V!Init PROVE VectorInv
  OBVIOUS
<1>1. PICK m \in Models : base = [model |-> m, dims |-> DimsOf[m], count |-> 0, stamp |-> 0]
  BY DEF V!Init
<1>2. /\ pieces = {} /\ given = 1 /\ matrix = None /\ loaded = None /\ sidecar = None /\ about = None
      /\ asking = [r \in Importers \cup {V!Updater, Query} |-> V!Idle]
      /\ behind = FALSE /\ raced = FALSE
  BY DEF V!Init
<1>3. \A r \in Importers \cup {V!Updater, Query} : asking[r] = V!Idle /\ asking[r].at = "idle"
  BY <1>2 DEF V!Idle
<1>4. IsFiniteSet({}) /\ Cardinality({}) = 0
  BY FS_EmptySet
<1>5. base \in Bases /\ base # None
  BY <1>1 DEF V!VectorIndexAssumption, Bases
<1>6. VectorTypeOK
  <2>1. pieces \subseteq Chunks /\ given \in Nat \ {0}
    BY <1>2
  <2>3. behind \in BOOLEAN /\ raced \in BOOLEAN
    BY <1>2, Zenon
  <2>4. IsFiniteSet(pieces)
    BY <1>2, <1>4, Zenon
  <2>2. /\ asking = [q \in Importers \cup {V!Updater, Query} |-> asking[q]]
        /\ \A q \in Importers \cup {V!Updater, Query} : asking[q] = V!Idle
    BY <1>2
  <2>5. QED
    BY <1>2, <1>5, <2>1, <2>2, <2>3, <2>4 DEF VectorTypeOK
<1>7. BaseHolds /\ MatrixHolds /\ IndexesHold
  BY <1>1, <1>2, <1>4, <1>5 DEF BaseHolds, MatrixHolds, IndexesHold
<1>8. ModelsHold /\ V!SearchFinds
  BY <1>2, <1>3 DEF ModelsHold, V!SearchFinds
<1>9. QED
  BY <1>6, <1>7, <1>8 DEF VectorInv

\* The requests begin.
LEMMA BeginningsKeep ==
  ASSUME V!VectorIndexAssumption, VectorInv,
         NEW i, NEW old, NEW m \in Models,
         \/ i \in Importers /\ V!ImportBegins(i, old)
         \/ V!UpdateBegins(m)
         \/ V!SearchBegins
  PROVE  VectorInv'
<1>1. VectorTypeOK /\ BaseHolds /\ ModelsHold /\ V!SearchFinds
  BY DEF VectorInv
<1>2. UNCHANGED <<base, pieces, given, matrix, loaded, about, sidecar, behind, raced>> /\ base # None
  BY DEF V!ImportBegins, V!UpdateBegins, V!SearchBegins, V!stored, V!cached, V!sidecar
<1>3. BaseHolds' /\ IndexesHold' /\ MatrixHolds'
  BY <1>2, StoreStays
<1>4. base \in Bases
  BY <1>1, <1>2 DEF VectorTypeOK
<1>5. CASE i \in Importers /\ V!ImportBegins(i, old)
  <2> DEFINE y == [at |-> "embedding", model |-> base.model, old |-> old]
  <2>1. V!Turns(i, y) /\ old \in Nat \cup {None}
    BY <1>1, <1>5 DEF V!ImportBegins, V!ChunkIds, VectorTypeOK, Chunks
  <2>2. y \in Importing /\ y.model = base.model
    BY <1>4, <2>1 DEF Importing, Bases
  <2> HIDE DEF y
  <2>3. /\ asking' = [q \in Importers \cup {V!Updater, Query} |-> asking'[q]]
        /\ \A q \in Importers \cup {V!Updater, Query} : asking'[q] = IF q = i THEN y ELSE asking[q]
        /\ i # Query /\ i # V!Updater
    BY <1>1, <1>5, <2>1, AskingTurns
  <2>4. VectorTypeOK'
    BY <1>1, <1>2, <2>2, <2>3 DEF VectorTypeOK
  <2>5. ModelsHold'
    BY <1>1, <1>2, <2>2, <2>3 DEF ModelsHold
  <2>6. V!SearchFinds'
    BY <1>1, <2>3, AnswerStays
  <2>7. QED
    BY <1>3, <2>4, <2>5, <2>6 DEF VectorInv
<1>6. CASE V!UpdateBegins(m)
  <2> DEFINE y == [at |-> "probing", model |-> m, raced |-> behind]
  <2>1. V!Turns(V!Updater, y) /\ base.count = 0
    BY <1>6 DEF V!UpdateBegins
  <2>2. y \in Probing /\ y.raced = behind
    BY <1>1 DEF Probing, VectorTypeOK
  <2> HIDE DEF y
  <2>3. /\ asking' = [q \in Importers \cup {V!Updater, Query} |-> asking'[q]]
        /\ \A q \in Importers \cup {V!Updater, Query} : asking'[q] = IF q = V!Updater THEN y ELSE asking[q]
        /\ V!Updater # Query /\ V!Updater \notin Importers
    BY <1>1, <2>1, AskingTurns
  <2>4. ~y.raced => pieces = {}
    BY <1>1, <1>2, <2>1, <2>2, FS_EmptySet DEF BaseHolds, VectorTypeOK
  <2>5. VectorTypeOK'
    BY <1>1, <1>2, <2>2, <2>3 DEF VectorTypeOK
  <2>6. ModelsHold'
    BY <1>1, <1>2, <2>3, <2>4 DEF ModelsHold
  <2>7. V!SearchFinds'
    BY <1>1, <2>3, AnswerStays
  <2>8. QED
    BY <1>3, <2>5, <2>6, <2>7 DEF VectorInv
<1>7. CASE V!SearchBegins
  <2> DEFINE y == [at |-> "embedding", model |-> base.model]
  <2>1. V!Turns(Query, y)
    BY <1>7 DEF V!SearchBegins
  <2>2. y \in Querying /\ y.at # "found"
    BY <1>4 DEF Querying, Bases
  <2> HIDE DEF y
  <2>3. /\ asking' = [q \in Importers \cup {V!Updater, Query} |-> asking'[q]]
        /\ \A q \in Importers \cup {V!Updater, Query} : asking'[q] = IF q = Query THEN y ELSE asking[q]
        /\ V!Updater # Query /\ Query \notin Importers
    BY <1>1, <2>1, AskingTurns
  <2>4. VectorTypeOK'
    BY <1>1, <1>2, <2>2, <2>3 DEF VectorTypeOK
  <2>5. ModelsHold'
    BY <1>1, <1>2, <2>3 DEF ModelsHold
  <2>6. V!SearchFinds'
    BY <1>1, <2>2, <2>3, AnswerStays
  <2>7. QED
    BY <1>3, <2>4, <2>5, <2>6 DEF VectorInv
<1>8. QED
  BY <1>5, <1>6, <1>7

\* A write of the chunks counts them, and no index that was there is of the base after it.
LEMMA WriteKeeps ==
  ASSUME V!VectorIndexAssumption, VectorInv, NEW set, set \subseteq Chunks, IsFiniteSet(set), base # None,
         V!Write(set)
  PROVE  /\ BaseHolds' /\ MatrixHolds' /\ IndexesHold'
         /\ base' \in Bases /\ base' # None /\ base'.model = base.model /\ pieces' = set
         /\ behind' = FALSE /\ UNCHANGED <<loaded, about, sidecar>>
<1>1. base \in Bases /\ BaseHolds /\ IndexesHold /\ VectorTypeOK
  BY DEF VectorInv, VectorTypeOK
<1>2. Cardinality(set) \in Nat
  BY FS_CardinalityType
<1>3. /\ base' = [base EXCEPT !.count = Cardinality(set), !.stamp = base.stamp + 1]
      /\ pieces' = set /\ matrix' = None /\ behind' = FALSE /\ UNCHANGED <<loaded, about, sidecar>>
  BY <1>1, SameCount DEF V!Write, V!Refreshed, V!sidecar, Bases
<1>4. /\ base' \in Bases /\ base'.model = base.model /\ base'.dims = base.dims
      /\ base'.count = Cardinality(set) /\ base'.stamp = base.stamp + 1 /\ base.stamp \in Nat
  <2>1. base \in [model : Models, dims : Nat, count : Nat, stamp : Nat] /\ base.stamp + 1 \in Nat
    BY <1>1 DEF Bases
  <2>2. base' = [base EXCEPT !.count = Cardinality(set), !.stamp = base.stamp + 1]
    BY <1>3
  <2>3. QED
    BY <1>2, <2>1, <2>2 DEF Bases
<1>5. base' # None
  BY <1>4 DEF V!VectorIndexAssumption, Bases
<1>6. BaseHolds'
  BY <1>1, <1>3, <1>4, <1>5 DEF BaseHolds
<1>7. \A of, held : of.stamp \in Nat /\ IndexIsOf(of, held) => IndexIsOf(of, held)'
  BY <1>4 DEF IndexIsOf
<1>8. IndexesHold'
  <2>1. loaded # None => loaded.of.stamp \in Nat
    BY <1>1 DEF VectorTypeOK, VectorIndexes
  <2>2. about # None => about.of.stamp \in Nat
    BY <1>1 DEF VectorTypeOK, VectorIndexes
  <2>3. QED
    BY <1>1, <1>3, <1>7, <2>1, <2>2 DEF IndexesHold
<1>9. MatrixHolds'
  BY <1>3 DEF MatrixHolds
<1>10. QED
  BY <1>3, <1>4, <1>5, <1>6, <1>8, <1>9

LEMMA ImportEndsKeeps ==
  ASSUME V!VectorIndexAssumption, VectorInv, NEW i \in Importers, V!ImportEnds(i)
  PROVE  VectorInv'
<1> DEFINE y == asking[i]
           set == {c \in pieces : c.id # y.old} \cup {[id |-> given, model |-> y.model]}
           gone == base = None \/ (y.old # None /\ y.old \notin V!ChunkIds(pieces))
<1>1. VectorTypeOK /\ BaseHolds /\ ModelsHold /\ V!SearchFinds
  BY DEF VectorInv
<1>2. /\ y.at = "embedding" /\ y \in Importing /\ UNCHANGED <<backend, deaths, raced>>
      /\ asking' = [asking EXCEPT ![i] = V!Idle,
                       ![V!Updater] = IF @.at = "probing" THEN [@ EXCEPT !.raced = TRUE] ELSE @]
  BY <1>1 DEF V!ImportEnds, VectorTypeOK, V!Idle
<1>3. /\ DOMAIN asking = Importers \cup {V!Updater, Query}
      /\ Query \notin Importers /\ V!Updater \notin Importers /\ V!Updater # Query
  BY <1>1 DEF VectorTypeOK, V!VectorIndexAssumption, V!Updater
<1>4. /\ asking' = [q \in Importers \cup {V!Updater, Query} |-> asking'[q]]
      /\ \A q \in Importers : asking'[q] = IF q = i THEN V!Idle ELSE asking[q]
      /\ asking'[Query] = asking[Query]
      /\ asking'[V!Updater] = IF asking[V!Updater].at = "probing"
                              THEN [asking[V!Updater] EXCEPT !.raced = TRUE] ELSE asking[V!Updater]
  <2>1. asking = [q \in Importers \cup {V!Updater, Query} |-> asking[q]]
    BY <1>1 DEF VectorTypeOK
  <2>2. QED
    BY <1>2, <1>3, <2>1
<1>5. /\ asking'[V!Updater] \in {V!Idle} \cup Probing
      /\ asking'[V!Updater].at = "probing" => asking'[V!Updater].raced
  <2>1. asking[V!Updater] = V!Idle => asking[V!Updater].at # "probing"
    BY DEF V!Idle
  <2>2. QED
    BY <1>1, <1>4, <2>1 DEF VectorTypeOK, Probing
<1>6. V!SearchFinds'
  BY <1>1, <1>4, AnswerStays
<1>7. V!Idle.at = "idle"
  BY DEF V!Idle
<1>8. CASE gone
  <2>1. UNCHANGED <<base, pieces, given, matrix, loaded, about, sidecar, behind>>
    BY <1>8 DEF V!ImportEnds, V!stored, V!cached, V!sidecar
  <2>2. BaseHolds' /\ IndexesHold' /\ MatrixHolds'
    BY <2>1, StoreStays
  <2>3. VectorTypeOK'
    BY <1>1, <1>2, <1>4, <1>5, <2>1 DEF VectorTypeOK
  <2>4. ModelsHold'
    BY <1>1, <1>2, <1>4, <1>5, <1>7, <2>1 DEF ModelsHold
  <2>5. QED
    BY <1>6, <2>2, <2>3, <2>4 DEF VectorInv
<1>9. CASE ~gone
  <2>1. base # None /\ given' = given + 1 /\ given <= MaxChunks /\ V!Write(set)
    BY <1>9 DEF V!ImportEnds
  <2>2. set \subseteq Chunks /\ IsFiniteSet(set)
    <3>1. {c \in pieces : c.id # y.old} \subseteq pieces
      OBVIOUS
    <3>2. IsFiniteSet({c \in pieces : c.id # y.old})
      BY <1>1, <3>1, FS_Subset DEF VectorTypeOK
    <3>3. IsFiniteSet(set)
      BY <3>2, FS_AddElement
    <3>4. [id |-> given, model |-> y.model] \in Chunks
      BY <1>1, <1>2, <2>1 DEF VectorTypeOK, Importing, Chunks, V!VectorIndexAssumption
    <3>5. QED
      BY <1>1, <3>1, <3>3, <3>4 DEF VectorTypeOK
  <2>3. ~raced => \A c \in set : c.model = base.model
    BY <1>1, <1>2, <2>1 DEF ModelsHold
  <2> HIDE DEF set
  <2>4. /\ BaseHolds' /\ MatrixHolds' /\ IndexesHold'
        /\ base' \in Bases /\ base' # None /\ base'.model = base.model /\ pieces' = set
        /\ behind' = FALSE /\ UNCHANGED <<loaded, about, sidecar>>
    BY <2>1, <2>2, WriteKeeps
  <2>5. given' \in Nat \ {0}
    BY <1>1, <2>1 DEF VectorTypeOK
  <2>6. VectorTypeOK'
    BY <1>1, <1>2, <1>4, <1>5, <2>2, <2>4, <2>5 DEF VectorTypeOK
  <2>7. ModelsHold'
    BY <1>1, <1>2, <1>4, <1>5, <1>7, <2>1, <2>3, <2>4 DEF ModelsHold
  <2>8. QED
    BY <1>6, <2>4, <2>6, <2>7 DEF VectorInv
<1>10. QED
  BY <1>8, <1>9

LEMMA UpdateEndsKeeps ==
  ASSUME V!VectorIndexAssumption, VectorInv, V!UpdateEnds
  PROVE  VectorInv'
<1> DEFINE y == asking[V!Updater]
<1>1. VectorTypeOK /\ BaseHolds /\ ModelsHold /\ IndexesHold /\ MatrixHolds /\ V!SearchFinds
  BY DEF VectorInv
<1>2. /\ y.at = "probing" /\ V!Turns(V!Updater, V!Idle)
      /\ UNCHANGED <<pieces, given, matrix, loaded, about, sidecar, behind>>
      /\ raced' = (raced \/ y.raced \/ \E i \in Importers : asking[i].at = "embedding")
      /\ base = None => base' = base
      /\ base # None => base' = [base EXCEPT !.model = y.model, !.dims = DimsOf[y.model],
                                             !.stamp = base.stamp + 1]
  BY DEF V!UpdateEnds, V!cached, V!sidecar
<1>3. y \in Probing
  <2>1. V!Idle.at # "probing"
    BY DEF V!Idle
  <2>2. QED
    BY <1>1, <1>2, <2>1 DEF VectorTypeOK
<1>4. /\ asking' = [q \in Importers \cup {V!Updater, Query} |-> asking'[q]]
      /\ \A q \in Importers \cup {V!Updater, Query} : asking'[q] = IF q = V!Updater THEN V!Idle ELSE asking[q]
      /\ V!Updater # Query /\ V!Updater \notin Importers
  BY <1>1, <1>2, AskingTurns
<1>5. V!SearchFinds'
  BY <1>1, <1>4, AnswerStays
<1>6. raced' \in BOOLEAN /\ V!Idle.at = "idle"
  BY <1>1, <1>2, <1>3 DEF VectorTypeOK, Probing, V!Idle
<1>7. CASE base = None
  <2>1. base' = base
    BY <1>2, <1>7
  <2>2. BaseHolds' /\ IndexesHold' /\ MatrixHolds'
    BY <1>2, <2>1, StoreStays
  <2>3. VectorTypeOK'
    BY <1>1, <1>2, <1>4, <1>6, <2>1 DEF VectorTypeOK
  <2>4. ModelsHold'
    BY <1>1, <1>2, <1>4, <1>6, <1>7, <2>1 DEF ModelsHold
  <2>5. QED
    BY <1>5, <2>2, <2>3, <2>4 DEF VectorInv
<1>8. CASE base # None
  <2>1. base \in Bases /\ y.model \in Models /\ DimsOf[y.model] \in Nat
    BY <1>1, <1>3, <1>8 DEF VectorTypeOK, V!VectorIndexAssumption, Probing
  <2>2. /\ base' \in Bases /\ base'.model = y.model /\ base'.dims = DimsOf[y.model]
        /\ base'.count = base.count /\ base'.stamp = base.stamp + 1 /\ base.stamp \in Nat
    <3> HIDE DEF y
    <3>1. base \in [model : Models, dims : Nat, count : Nat, stamp : Nat] /\ base.stamp + 1 \in Nat
      BY <2>1 DEF Bases
    <3>2. base' = [base EXCEPT !.model = y.model, !.dims = DimsOf[y.model], !.stamp = base.stamp + 1]
      BY <1>2, <1>8
    <3>3. QED
      BY <2>1, <3>1, <3>2 DEF Bases
  <2>3. base' # None
    BY <2>2 DEF V!VectorIndexAssumption, Bases
  <2>4. BaseHolds'
    BY <1>1, <1>2, <1>8, <2>2, <2>3 DEF BaseHolds
  <2>5. \A of, held : of.stamp \in Nat /\ IndexIsOf(of, held) => IndexIsOf(of, held)'
    BY <1>8, <2>2 DEF IndexIsOf
  <2>6. IndexesHold'
    <3>1. loaded # None => loaded.of.stamp \in Nat
      BY <1>1 DEF VectorTypeOK, VectorIndexes
    <3>2. about # None => about.of.stamp \in Nat
      BY <1>1 DEF VectorTypeOK, VectorIndexes
    <3>3. QED
      BY <1>1, <1>2, <2>5, <3>1, <3>2 DEF IndexesHold
  <2>7. MatrixHolds'
    BY <1>1, <1>2 DEF MatrixHolds, V!Matrix
  <2>8. VectorTypeOK'
    BY <1>1, <1>2, <1>4, <1>6, <2>2 DEF VectorTypeOK
  <2>9. ModelsHold'
    <3>1. ASSUME ~raced' PROVE pieces = {} /\ \A i \in Importers : asking[i].at # "embedding"
      BY <1>1, <1>2, <3>1 DEF ModelsHold
    <3>2. QED
      BY <1>2, <1>4, <1>6, <3>1 DEF ModelsHold
  <2>10. QED
    BY <1>5, <2>4, <2>6, <2>7, <2>8, <2>9 DEF VectorInv
<1>9. QED
  BY <1>7, <1>8

LEMMA DeletionsKeep ==
  ASSUME V!VectorIndexAssumption, VectorInv, NEW c, V!DeleteChunk(c) \/ V!DeleteBase \/ \E b : V!Configure(b)
  PROVE  VectorInv'
<1>1. VectorTypeOK /\ BaseHolds /\ ModelsHold /\ IndexesHold /\ MatrixHolds /\ V!SearchFinds
  BY DEF VectorInv
<1>2. UNCHANGED <<given, asking, raced>>
  BY DEF V!DeleteChunk, V!DeleteBase, V!Configure, V!stored, V!sidecar
<1>3. V!SearchFinds'
  BY <1>1, <1>2, AnswerStays
<1>4. CASE V!DeleteChunk(c)
  <2>1. base # None /\ V!Write(pieces \ {c})
    BY <1>4 DEF V!DeleteChunk, V!Room
  <2>2. pieces \ {c} \subseteq Chunks /\ IsFiniteSet(pieces \ {c})
    BY <1>1, FS_Subset DEF VectorTypeOK
  <2>3. /\ BaseHolds' /\ MatrixHolds' /\ IndexesHold'
        /\ base' \in Bases /\ base' # None /\ base'.model = base.model /\ pieces' = pieces \ {c}
        /\ behind' = FALSE /\ UNCHANGED <<loaded, about, sidecar>>
    BY <2>1, <2>2, WriteKeeps
  <2>4. VectorTypeOK'
    BY <1>1, <1>2, <2>2, <2>3 DEF VectorTypeOK
  <2>5. ModelsHold'
    BY <1>1, <1>2, <2>1, <2>3 DEF ModelsHold
  <2>6. QED
    BY <1>3, <2>3, <2>4, <2>5 DEF VectorInv
<1>5. CASE V!DeleteBase
  <2>1. /\ base' = None /\ pieces' = {} /\ matrix' = None /\ loaded' = None /\ sidecar' = None
        /\ about' = None /\ behind' = behind
    BY <1>5 DEF V!DeleteBase
  <2>2. VectorTypeOK'
    BY <1>1, <1>2, <2>1, FS_EmptySet DEF VectorTypeOK
  <2>3. BaseHolds' /\ MatrixHolds' /\ IndexesHold' /\ ModelsHold'
    BY <2>1 DEF BaseHolds, MatrixHolds, IndexesHold, ModelsHold
  <2>4. QED
    BY <1>3, <2>2, <2>3 DEF VectorInv
<1>6. CASE \E b : V!Configure(b)
  <2>1. loaded' = None /\ UNCHANGED <<base, pieces, matrix, about, sidecar, behind>>
    BY <1>6 DEF V!Configure, V!stored, V!sidecar
  <2>2. V!Snapshot' = V!Snapshot /\ Right' = Right /\ V!Matrix' = V!Matrix
    BY <2>1 DEF V!Snapshot, Right, V!Matrix
  <2>3. BaseHolds' /\ MatrixHolds' /\ IndexesHold'
    BY <1>1, <2>1, <2>2 DEF BaseHolds, MatrixHolds, IndexesHold, IndexIsOf
  <2>4. VectorTypeOK' /\ ModelsHold'
    BY <1>1, <1>2, <2>1 DEF VectorTypeOK, ModelsHold
  <2>5. QED
    BY <1>3, <2>3, <2>4 DEF VectorInv
<1>7. QED
  BY <1>4, <1>5, <1>6

\* A search that ends finds what is stored, if what it went by has all of it.
LEMMA FoundIsStored ==
  ASSUME V!VectorIndexAssumption, VectorInv, NEW set, V!Finds(set),
         UNCHANGED <<base, pieces, given, behind, raced>>,
         ~behind /\ ~raced /\ (base # None => base.model = asking[Query].model) => pieces \subseteq set
  PROVE  /\ V!SearchFinds' /\ ModelsHold'
         /\ asking' = [q \in Importers \cup {V!Updater, Query} |-> asking'[q]]
         /\ \A q \in Importers \cup {V!Updater} : asking'[q] = asking[q]
         /\ asking'[Query] \in Found
<1> DEFINE safe == /\ ~behind /\ ~raced
                   /\ base # None => base.model = asking[Query].model
           y == [at |-> "found", found |-> V!InStore(set), stored |-> V!ChunkIds(pieces), sure |-> safe]
<1>1. VectorTypeOK /\ ModelsHold
  BY DEF VectorInv
<1>2. V!Turns(Query, y)
  BY DEF V!Finds
<1>3. V!InStore(set) \subseteq V!ChunkIds(pieces) /\ V!ChunkIds(pieces) \subseteq Nat
  BY <1>1 DEF V!InStore, V!ChunkIds, VectorTypeOK, Chunks
<1>4. safe => V!InStore(set) = V!ChunkIds(pieces)
  BY DEF V!InStore, V!ChunkIds
<1>5. safe \in BOOLEAN
  OBVIOUS
<1> HIDE DEF safe
<1>6. /\ y \in Found /\ y.at = "found" /\ y.found \subseteq y.stored /\ (y.sure => y.found = y.stored)
  BY <1>3, <1>4, <1>5 DEF Found
<1> HIDE DEF y
<1>7. /\ asking' = [q \in Importers \cup {V!Updater, Query} |-> asking'[q]]
      /\ \A q \in Importers \cup {V!Updater, Query} : asking'[q] = IF q = Query THEN y ELSE asking[q]
      /\ Query \notin Importers /\ V!Updater # Query
  BY <1>1, <1>2, AskingTurns
<1>8. V!SearchFinds'
  BY <1>6, <1>7 DEF V!SearchFinds
<1>9. ModelsHold'
  BY <1>1, <1>7 DEF ModelsHold
<1>10. QED
  BY <1>6, <1>7, <1>8, <1>9

\* Where the vectors are known to be of the model that is searched with, they are all alike.
LEMMA AllAlike ==
  ASSUME VectorInv, ~raced, base # None => base.model = asking[Query].model
  PROVE  /\ \A c \in pieces : DimsOf[c.model] = DimsOf[asking[Query].model]
         /\ base = None => pieces = {}
         /\ base # None => base.dims = DimsOf[asking[Query].model]
  BY DEF VectorInv, ModelsHold, BaseHolds

LEMMA SearchExactlyKeeps ==
  ASSUME V!VectorIndexAssumption, VectorInv, V!SearchExactly
  PROVE  VectorInv'
<1> DEFINE used == IF matrix # None THEN matrix ELSE V!Matrix
           set == IF used.dims = DimsOf[asking[Query].model] THEN used.rows ELSE {}
<1>1. VectorTypeOK
  BY DEF VectorInv
<1>2. /\ matrix' = V!Kept(used) /\ V!Finds(set)
      /\ UNCHANGED <<base, pieces, given, loaded, about, sidecar, behind, raced>>
  BY DEF V!SearchExactly, V!stored, V!sidecar
<1>3. used = V!Matrix
  BY DEF VectorInv, MatrixHolds
<1>4. ~behind /\ ~raced /\ (base # None => base.model = asking[Query].model) => pieces \subseteq set
  <2> SUFFICES ASSUME ~raced, base # None => base.model = asking[Query].model
               PROVE  pieces \subseteq set
    OBVIOUS
  <2>1. \A c \in pieces : DimsOf[c.model] = DimsOf[asking[Query].model]
    BY AllAlike
  <2>2. V!Matrix.rows = pieces /\ (pieces # {} => V!Matrix.dims = DimsOf[asking[Query].model])
    BY <1>1, <2>1, MatrixOfRows DEF VectorTypeOK
  <2>3. QED
    BY <1>3, <2>2
<1> HIDE DEF set
<1>5. /\ V!SearchFinds' /\ ModelsHold'
      /\ asking' = [q \in Importers \cup {V!Updater, Query} |-> asking'[q]]
      /\ \A q \in Importers \cup {V!Updater} : asking'[q] = asking[q]
      /\ asking'[Query] \in Found
  BY <1>2, <1>4, FoundIsStored
<1>6. VectorTypeOK'
  BY <1>1, <1>2, <1>5 DEF VectorTypeOK
<1>7. BaseHolds' /\ IndexesHold'
  BY <1>2, StoreStays
<1>8. MatrixHolds'
  <2>1. matrix' \in {V!Matrix, None}
    BY <1>2, <1>3 DEF V!Kept
  <2>2. V!Matrix' = V!Matrix
    BY <1>2 DEF V!Matrix
  <2>3. QED
    BY <2>1, <2>2 DEF MatrixHolds
<1>9. QED
  BY <1>5, <1>6, <1>7, <1>8 DEF VectorInv

\* What _load_or_build_index returns is of the base as it is, and so are its rows.
LEMMA LoadedIsOf ==
  ASSUME V!VectorIndexAssumption, VectorInv
  PROVE  /\ V!Loaded \in VectorIndexes \cup {None}
         /\ V!Loaded # None => base # None /\ V!Loaded.of = V!Snapshot
                               /\ IndexIsOf(V!Loaded.of, V!Loaded.rows)
         /\ V!Loaded = None /\ base # None => Right = {}
         /\ V!Builds => V!Loaded # None /\ V!Loaded.rows # None
                        /\ (about # None => about.of # V!Snapshot)
<1>1. VectorTypeOK /\ BaseHolds /\ IndexesHold
  BY DEF VectorInv
<1>2. CASE base = None
  <2>1. V!Loaded = None
    BY <1>1, <1>2 DEF V!Loaded, V!Matches, BaseHolds
  <2>2. QED
    BY <1>2, <2>1 DEF V!Builds
<1>3. CASE base # None
  <2>1. base \in Bases
    BY <1>1, <1>3 DEF VectorTypeOK
  <2>2. /\ V!Snapshot = [count |-> base.count, dims |-> base.dims, stamp |-> base.stamp]
        /\ V!Snapshot \in [count : Nat, dims : Nat, stamp : Nat] /\ V!Snapshot.stamp = base.stamp
    BY <1>3, <2>1 DEF V!Snapshot, Bases
  <2>3. Right \subseteq Chunks
    BY <1>1 DEF VectorTypeOK, Right
  <2>4. V!Built = [of |-> V!Snapshot, rows |-> Right]
    BY DEF V!Built, Right
  <2>5. /\ V!Built \in VectorIndexes /\ V!Built.of = V!Snapshot /\ V!Built.rows = Right
        /\ IndexIsOf(V!Built.of, V!Built.rows)
    BY <2>1, <2>2, <2>3, <2>4 DEF VectorIndexes, IndexIsOf, Bases
  <2>6. V!Built # None
    BY <2>5 DEF V!VectorIndexAssumption, VectorIndexes, Chunks
  <2>7. CASE V!Matches(loaded)
    <3>1. V!Loaded = loaded /\ loaded # None /\ loaded.of = V!Snapshot
      BY <2>7 DEF V!Loaded, V!Matches
    <3>2. QED
      BY <1>1, <1>3, <2>7, <3>1 DEF VectorTypeOK, IndexesHold, V!Builds
  <2>8. CASE ~V!Matches(loaded) /\ V!Matches(about) /\ sidecar # None
    <3>1. V!Loaded = [about EXCEPT !.rows = sidecar] /\ about # None /\ about.of = V!Snapshot
      BY <2>8 DEF V!Loaded, V!Matches
    <3>2. about \in VectorIndexes /\ sidecar \in SUBSET Chunks
      BY <1>1, <2>8, <3>1 DEF VectorTypeOK
    <3>3. V!Loaded \in VectorIndexes /\ V!Loaded.of = V!Snapshot /\ V!Loaded.rows = sidecar
      BY <3>1, <3>2 DEF VectorIndexes
    <3>4. V!Loaded # None
      BY <3>3 DEF V!VectorIndexAssumption, VectorIndexes, Chunks
    <3>5. QED
      BY <1>1, <1>3, <2>8, <3>1, <3>3, <3>4 DEF IndexesHold, V!Builds
  <2>9. CASE ~V!Matches(loaded) /\ ~(V!Matches(about) /\ sidecar # None)
    <3>1. V!Loaded = IF V!Built.rows = {} THEN None ELSE V!Built
      BY <1>3, <2>9 DEF V!Loaded
    <3>2. about # None => about.of # V!Snapshot
      BY <1>1, <2>9 DEF IndexesHold, V!Matches
    <3>3. Right # None
      BY <2>3 DEF V!VectorIndexAssumption, Chunks
    <3>4. QED
      BY <1>3, <2>5, <2>6, <3>1, <3>2, <3>3 DEF V!Builds
  <2>10. QED
    BY <2>7, <2>8, <2>9
<1>4. QED
  BY <1>2, <1>3

LEMMA SearchIndexKeeps ==
  ASSUME V!VectorIndexAssumption, VectorInv, V!SearchIndex
  PROVE  VectorInv'
<1> DEFINE used == V!Loaded
           m == asking[Query].model
           set == IF used # None /\ used.of.dims = DimsOf[m] THEN used.rows ELSE {}
<1>1. VectorTypeOK /\ IndexesHold /\ BaseHolds /\ MatrixHolds
  BY DEF VectorInv
<1>2. /\ loaded' = IF used # None THEN used ELSE loaded
      /\ sidecar' = IF V!Builds THEN used.rows ELSE sidecar
      /\ about' = IF V!Builds THEN used ELSE about
      /\ V!Finds(set)
      /\ UNCHANGED <<base, pieces, given, matrix, behind, raced>>
  BY DEF V!SearchIndex, V!stored
<1>3. /\ used \in VectorIndexes \cup {None}
      /\ used # None => base # None /\ used.of = V!Snapshot /\ IndexIsOf(used.of, used.rows)
      /\ used = None /\ base # None => Right = {}
      /\ V!Builds => used # None /\ used.rows # None
  BY LoadedIsOf
<1> HIDE DEF used
<1>4. ~behind /\ ~raced /\ (base # None => base.model = m) => pieces \subseteq set
  <2> SUFFICES ASSUME ~behind, ~raced, base # None => base.model = m, pieces # {}
               PROVE  pieces \subseteq set
    OBVIOUS
  <2>1. /\ \A c \in pieces : DimsOf[c.model] = DimsOf[m]
        /\ base # None /\ base.dims = DimsOf[m]
    BY AllAlike
  <2>2. Right = pieces
    BY <2>1 DEF Right
  <2>3. used # None /\ used.of = V!Snapshot /\ IndexIsOf(used.of, used.rows)
    BY <1>3, <2>1, <2>2
  <2>4. V!Snapshot.stamp = base.stamp /\ V!Snapshot.dims = base.dims
    BY <2>1 DEF V!Snapshot
  <2>5. used.rows = pieces /\ used.of.dims = DimsOf[m]
    BY <2>1, <2>2, <2>3, <2>4 DEF IndexIsOf
  <2>6. QED
    BY <2>3, <2>5
<1> HIDE DEF set, m
<1>5. /\ V!SearchFinds' /\ ModelsHold'
      /\ asking' = [q \in Importers \cup {V!Updater, Query} |-> asking'[q]]
      /\ \A q \in Importers \cup {V!Updater} : asking'[q] = asking[q]
      /\ asking'[Query] \in Found
  BY <1>2, <1>4, FoundIsStored DEF m
<1>6. loaded' \in VectorIndexes \cup {None} /\ about' \in VectorIndexes \cup {None}
      /\ sidecar' \in (SUBSET Chunks) \cup {None}
  BY <1>1, <1>2, <1>3 DEF VectorTypeOK, VectorIndexes
<1>7. VectorTypeOK'
  BY <1>1, <1>2, <1>5, <1>6 DEF VectorTypeOK
<1>8. V!Snapshot' = V!Snapshot /\ Right' = Right /\ V!Matrix' = V!Matrix
  BY <1>2 DEF V!Snapshot, Right, V!Matrix
<1>9. MatrixHolds'
  BY <1>1, <1>2, <1>8 DEF MatrixHolds
<1>10. BaseHolds'
  <2>1. base = None => used = None /\ ~V!Builds
    BY <1>3
  <2>2. QED
    BY <1>1, <1>2, <2>1 DEF BaseHolds
<1>11. \A of, held : IndexIsOf(of, held) => IndexIsOf(of, held)'
  BY <1>2, <1>8 DEF IndexIsOf
<1>12. IndexesHold'
  <2>1. PICK l : l = loaded'
    OBVIOUS
  <2>2. PICK a : a = about'
    OBVIOUS
  <2>3. PICK f : f = sidecar'
    OBVIOUS
  <2>4. l # None => IndexIsOf(l.of, l.rows)
    BY <1>1, <1>2, <1>3, <2>1 DEF IndexesHold
  <2>5. a # None => f # None /\ IndexIsOf(a.of, f)
    BY <1>1, <1>2, <1>3, <2>2, <2>3 DEF IndexesHold
  <2>6. (l # None => IndexIsOf(l.of, l.rows)') /\ (a # None => f # None /\ IndexIsOf(a.of, f)')
    BY <1>11, <2>4, <2>5
  <2>7. QED
    BY <2>1, <2>2, <2>3, <2>6 DEF IndexesHold, IndexIsOf
<1>13. QED
  BY <1>5, <1>7, <1>9, <1>10, <1>12 DEF VectorInv

\* A crash that leaves the chunks of set, and no index of a base that has another file.
LEMMA CrashKeeps ==
  ASSUME V!VectorIndexAssumption, VectorInv, V!Dies, given' \in Nat \ {0},
         pieces' \subseteq Chunks, IsFiniteSet(pieces'), UNCHANGED <<base, about>>,
         base = None => pieces' = {}, base # None /\ ~raced => \A c \in pieces' : c.model = base.model,
         behind' \in BOOLEAN, ~behind' => pieces' = pieces /\ ~behind,
         \/ sidecar' = sidecar
         \/ sidecar' \in SUBSET Chunks /\ sidecar' # None /\ (about # None => about.of # V!Snapshot)
  PROVE  VectorInv'
<1>1. VectorTypeOK /\ BaseHolds /\ IndexesHold
  BY DEF VectorInv
<1>2. /\ matrix' = None /\ loaded' = None /\ raced' = raced
      /\ asking' = [r \in DOMAIN asking |-> V!Idle]
  BY DEF V!Dies
<1>3. /\ asking' = [q \in Importers \cup {V!Updater, Query} |-> asking'[q]]
      /\ \A q \in Importers \cup {V!Updater, Query} : asking'[q] = V!Idle /\ asking'[q].at = "idle"
  BY <1>1, <1>2 DEF VectorTypeOK, V!Idle
<1>4. VectorTypeOK'
  BY <1>1, <1>2, <1>3 DEF VectorTypeOK
<1>5. BaseHolds' /\ MatrixHolds'
  BY <1>1, <1>2 DEF BaseHolds, MatrixHolds
<1>6. ModelsHold' /\ V!SearchFinds'
  BY <1>2, <1>3 DEF ModelsHold, V!SearchFinds
<1>7. V!Snapshot' = V!Snapshot /\ (~behind' => Right' = Right)
  BY DEF V!Snapshot, Right
<1>8. about' # None => sidecar' # None /\ IndexIsOf(about.of, sidecar)'
  <2>1. CASE sidecar' = sidecar
    BY <1>1, <1>7, <2>1 DEF IndexesHold, IndexIsOf
  <2>2. CASE sidecar' # None /\ (about # None => about.of # V!Snapshot)
    BY <1>1, <1>7, <2>2 DEF IndexesHold, IndexIsOf
  <2>3. QED
    BY <2>1, <2>2
<1>9. IndexesHold'
  BY <1>2, <1>8 DEF IndexesHold
<1>10. QED
  BY <1>4, <1>5, <1>6, <1>9 DEF VectorInv

LEMMA CrashesKeep ==
  ASSUME V!VectorIndexAssumption, VectorInv, NEW c,
         \/ \E i \in Importers : V!CrashInImport(i)
         \/ V!CrashInDelete(c) \/ V!CrashInBuild \/ V!Crash
  PROVE  VectorInv'
<1>1. VectorTypeOK /\ BaseHolds /\ ModelsHold
  BY DEF VectorInv
<1>2. given \in Nat \ {0} /\ pieces \subseteq Chunks /\ IsFiniteSet(pieces) /\ behind \in BOOLEAN
  BY <1>1 DEF VectorTypeOK
<1>3. ASSUME NEW set, set \subseteq Chunks, IsFiniteSet(set), V!CrashInWrite(set), given' \in Nat \ {0},
             ~raced => \A d \in set : d.model = base.model
      PROVE  VectorInv'
  <2>1. /\ base # None /\ V!Dies /\ pieces' = set /\ behind' = TRUE
        /\ UNCHANGED <<base, about, sidecar>>
    BY <1>3 DEF V!CrashInWrite, V!sidecar
  <2>2. QED
    BY <1>3, <2>1, CrashKeeps
<1>4. ASSUME NEW i \in Importers, V!CrashInImport(i) PROVE VectorInv'
  <2> DEFINE y == asking[i]
             rest == {d \in pieces : d.id # y.old}
             new == [id |-> given, model |-> y.model]
  <2>1. /\ y.at = "embedding" /\ base # None /\ given' = given + 1 /\ given <= MaxChunks
        /\ V!CrashInWrite(rest) \/ V!CrashInWrite(rest \cup {new})
    BY <1>4 DEF V!CrashInImport
  <2>2. y \in Importing
    BY <1>1, <2>1 DEF VectorTypeOK, V!Idle
  <2>3. rest \subseteq pieces /\ IsFiniteSet(rest) /\ IsFiniteSet(rest \cup {new})
    <3>1. rest \subseteq pieces
      OBVIOUS
    <3>2. IsFiniteSet(rest)
      BY <1>2, <3>1, FS_Subset
    <3>3. QED
      BY <3>1, <3>2, FS_AddElement
  <2>4. new \in Chunks /\ (~raced => new.model = base.model)
    BY <1>1, <1>2, <2>1, <2>2 DEF Importing, Chunks, ModelsHold, V!VectorIndexAssumption
  <2>5. ~raced => \A d \in pieces : d.model = base.model
    BY <1>1, <2>1 DEF ModelsHold
  <2> HIDE DEF rest, new
  <2>6. given' \in Nat \ {0}
    BY <1>2, <2>1
  <2>7. CASE V!CrashInWrite(rest)
    BY <1>2, <1>3, <2>3, <2>5, <2>6, <2>7
  <2>8. CASE V!CrashInWrite(rest \cup {new})
    <3>1. rest \cup {new} \subseteq Chunks /\ (~raced => \A d \in rest \cup {new} : d.model = base.model)
      BY <1>2, <2>3, <2>4, <2>5
    <3>2. QED
      BY <1>3, <2>3, <2>6, <2>8, <3>1
  <2>9. QED
    BY <2>1, <2>7, <2>8
<1>5. CASE V!CrashInDelete(c)
  <2>1. V!CrashInWrite(pieces \ {c}) /\ given' = given
    BY <1>5 DEF V!CrashInDelete
  <2>2. base # None
    BY <2>1 DEF V!CrashInWrite
  <2>3. IsFiniteSet(pieces \ {c}) /\ pieces \ {c} \subseteq Chunks
    BY <1>2, FS_Subset
  <2>4. ~raced => \A d \in pieces \ {c} : d.model = base.model
    BY <1>1, <2>2 DEF ModelsHold
  <2>5. QED
    BY <1>2, <1>3, <2>1, <2>3, <2>4
<1>6. base = None => pieces = {}
  BY <1>1 DEF BaseHolds
<1>7. base # None /\ ~raced => \A d \in pieces : d.model = base.model
  BY <1>1 DEF ModelsHold
<1>8. CASE V!CrashInBuild
  <2>1. V!Builds /\ V!Dies /\ sidecar' = V!Loaded.rows /\ UNCHANGED <<base, pieces, given, about, behind>>
    BY <1>8 DEF V!CrashInBuild, V!stored
  <2>2. /\ V!Loaded \in VectorIndexes \cup {None}
        /\ V!Loaded # None /\ V!Loaded.rows # None /\ (about # None => about.of # V!Snapshot)
    BY <2>1, LoadedIsOf
  <2>3. sidecar' \in SUBSET Chunks /\ sidecar' # None
    BY <2>1, <2>2 DEF VectorIndexes
  <2>4. QED
    BY <1>2, <1>6, <1>7, <2>1, <2>2, <2>3, CrashKeeps
<1>9. CASE V!Crash
  <2>1. V!Dies /\ UNCHANGED <<base, pieces, given, about, sidecar, behind>>
    BY <1>9 DEF V!Crash, V!stored, V!sidecar
  <2>2. QED
    BY <1>2, <1>6, <1>7, <2>1, CrashKeeps
<1>10. QED
  BY <1>4, <1>5, <1>8, <1>9

LEMMA VectorKept == V!VectorIndexAssumption /\ VectorInv /\ [V!Next]_V!vars => VectorInv'
<1> SUFFICES ASSUME V!VectorIndexAssumption, VectorInv, [V!Next]_V!vars PROVE VectorInv'
  OBVIOUS
<1> DEFINE Goal == VectorInv'
<1>1. ASSUME NEW i \in Importers, NEW old, V!ImportBegins(i, old) PROVE Goal
  <2>1. base # None /\ base \in Bases \cup {None}
    BY <1>1 DEF V!ImportBegins, VectorInv, VectorTypeOK
  <2>2. PICK m \in Models : m = base.model
    BY <2>1 DEF Bases
  <2>3. QED
    BY <1>1, BeginningsKeep
<1>2. ASSUME NEW i \in Importers, V!ImportEnds(i) \/ V!CrashInImport(i) PROVE Goal
  BY <1>2, ImportEndsKeeps, CrashesKeep
<1>3. ASSUME NEW m \in Models, V!UpdateBegins(m) PROVE Goal
  BY <1>3, BeginningsKeep
<1>4. ASSUME V!UpdateEnds PROVE Goal
  BY <1>4, UpdateEndsKeeps
<1>5. ASSUME NEW c, V!DeleteChunk(c) \/ V!CrashInDelete(c) PROVE Goal
  BY <1>5, DeletionsKeep, CrashesKeep
<1>6. ASSUME V!DeleteBase \/ \E b : V!Configure(b) PROVE Goal
  BY <1>6, DeletionsKeep
<1>7. ASSUME V!SearchBegins PROVE Goal
  <2>1. base # None /\ base \in Bases \cup {None}
    BY <1>7 DEF V!SearchBegins, VectorInv, VectorTypeOK
  <2>2. PICK m \in Models : m = base.model
    BY <2>1 DEF Bases
  <2>3. QED
    BY <1>7, BeginningsKeep
<1>8. ASSUME V!SearchExactly \/ V!SearchIndex PROVE Goal
  BY <1>8, SearchExactlyKeeps, SearchIndexKeeps
<1>9. ASSUME V!CrashInBuild \/ V!Crash PROVE Goal
  BY <1>9, CrashesKeep
<1>10. ASSUME UNCHANGED V!vars PROVE Goal
  <2>1. UNCHANGED <<base, pieces, given, matrix, loaded, about, sidecar, asking, behind, raced>>
    BY <1>10 DEF V!vars, V!stored, V!cached, V!sidecar
  <2>2. BaseHolds' /\ IndexesHold' /\ MatrixHolds'
    BY <2>1, StoreStays
  <2>3. VectorTypeOK' /\ ModelsHold' /\ V!SearchFinds'
    BY <2>1 DEF VectorInv, VectorTypeOK, ModelsHold, V!SearchFinds
  <2>4. QED
    BY <2>2, <2>3 DEF VectorInv
<1> HIDE DEF Goal
<1>11. ASSUME V!Next PROVE Goal
  <2>1. \/ \E i \in Importers : \E old : V!ImportBegins(i, old)
        \/ \E i \in Importers : V!ImportEnds(i) \/ V!CrashInImport(i)
        \/ \E m \in Models : V!UpdateBegins(m)
        \/ V!UpdateEnds
        \/ \E c : V!DeleteChunk(c) \/ V!CrashInDelete(c)
        \/ V!DeleteBase \/ \E b : V!Configure(b)
        \/ V!SearchBegins
        \/ V!SearchExactly \/ V!SearchIndex
        \/ V!CrashInBuild \/ V!Crash
    BY <1>11 DEF V!Next
  <2>2. QED
    BY <1>1, <1>2, <1>3, <1>4, <1>5, <1>6, <1>7, <1>8, <1>9, <2>1
<1>12. Goal
  BY <1>10, <1>11
<1>13. QED
  BY <1>12 DEF Goal

(* The inductive invariant of the vectors holds for any imports, models and crashes. *)
THEOREM VectorInvariantHolds == V!VectorIndexAssumption /\ V!Spec => []VectorInv
<1>1. ASSUME V!VectorIndexAssumption PROVE V!Spec => []VectorInv
  <2>1. V!Init => VectorInv
    BY <1>1, InitVector
  <2>2. VectorInv /\ [V!Next]_V!vars => VectorInv'
    BY <1>1, VectorKept
  <2>3. QED
    BY <2>1, <2>2, PTL DEF V!Spec
<1>2. QED
  BY <1>1

(* A search never finds a chunk that is gone; unless a crash has left the counts of the base
   behind, or its model was changed under an import or the search, it finds every chunk that
   is there, by the matrix as by the HNSW index, from memory, from the sidecar files or built
   anew; and the vectors of a base are all of its model (_load_or_build_index,
   _vector_matrix_for_kb, update_knowledge_base). *)
THEOREM SearchesFindWhatIsStored ==
  V!VectorIndexAssumption /\ V!Spec => []V!SearchFinds /\ []V!EmbeddedAlike
<1>1. VectorInv => V!SearchFinds
  BY DEF VectorInv
<1>2. VectorInv => V!EmbeddedAlike
  BY DEF VectorInv, ModelsHold, V!EmbeddedAlike
<1>3. QED
  BY <1>1, <1>2, VectorInvariantHolds, PTL
=============================================================================

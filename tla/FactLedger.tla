----------------------------- MODULE FactLedger -----------------------------
(***************************************************************************)
(* What the knowledge graph knows about a subject and from whom            *)
(* (core/knowledge/extraction.py, core/knowledge/graph.py): a model names  *)
(* facts of a batch of chunks, the facts are written with their sources    *)
(* and their evidence, a fact of a slot that holds one value takes the     *)
(* place of the others, and a graph of an earlier version is carried over  *)
(* by two backfills when a client connects.  Every Cypher statement is one *)
(* transaction; an answer may be lost after it and the statement run again.*)
(* The scopes "exact" and "inferred" are one here: no rule tells them apart*)
(***************************************************************************)
EXTENDS FiniteSetsExt, Integers, Sequences

CONSTANTS Slot,      \* facts of one subject under one of _CURRENT_SINGLE_PREDICATES
          Plain,     \* other facts
          Sources,   \* ids of chunks
          Texts,     \* evidence
          Clients,   \* processes
          MaxItems, MaxWrites, MaxFailures, \* bounds
          None

VARIABLES
    edge,      \* FACT relations by fact_key
    nodes,     \* GraphFact
    links,     \* (:GraphSource)-[:SUPPORTS_FACT]->(:GraphFact), and exact_source
    evidence,  \* GraphEvidence
    marks,     \* completed backfills, in GraphMetadata
    client,    \* where each process is, and what it writes
    writes, failures,
    old,       \* what only the properties look at: facts of an earlier version ...
    told,      \* ... the evidence that was ever given ...
    under,     \* ... the sources each fact was ever given for ...
    lost       \* ... and the facts of the earlier version a write came upon too early

ghosts == <<old, told, under, lost>>
vars == <<edge, nodes, links, evidence, marks, client, writes, failures, ghosts>>

Facts == Slot \cup Plain
Scopes == {"legacy", "batch", "exact"}
Strongest(a, b) == IF "exact" \in {a, b} THEN "exact"
                   ELSE IF "batch" \in {a, b} THEN "batch" ELSE "legacy"

----------------------------------------------------------------------------
\* What is made of the answer of the model, a sequence of [fact, refs, text]: whose
\* fact it is, as far as its references say, ...
SourceProvenance(refs, batch) ==
    IF refs \cap batch # {} THEN [sources |-> refs \cap batch, scope |-> "exact"]
    ELSE IF Cardinality(batch) = 1 THEN [sources |-> batch, scope |-> "exact"]
    ELSE [sources |-> {}, scope |-> "batch"]

OrNobody(sources) == IF sources = {} THEN {None} ELSE sources

\* ... the evidence it gives, to each source or else to nobody in particular, ...
EvidenceItems(item, batch) ==
    LET p == SourceProvenance(item.refs, batch)
    IN {[fact |-> item.fact, source |-> s, text |-> item.text, exact |-> p.scope = "exact"]
            : s \in OrNobody(p.sources)}

\* ... and one row of each fact, merged of the items that name it.
Row(answer, fact, batch) ==
    LET named == {i \in DOMAIN answer : answer[i].fact = fact}
        p(i) == SourceProvenance(answer[i].refs, batch)
    IN [fact |-> fact, batch |-> batch,
        sources |-> UNION {p(i).sources : i \in named},
        scope |-> IF \E i \in named : p(i).scope = "exact" THEN "exact" ELSE "batch",
        items |-> UNION {EvidenceItems(answer[i], batch) : i \in named}]

\* The answers of the model about a batch, which its references stay within: another
\* reference counts as none.
Answers(batch) ==
    UNION {[1..n -> [fact : Facts, refs : SUBSET batch, text : Texts]] : n \in 1..MaxItems}

\* The facts of a batch that are written: of a slot, the last that was named first.
Written(answer) ==
    LET first(f) == Min({i \in DOMAIN answer : answer[i].fact = f})
        named == {answer[i].fact : i \in DOMAIN answer}
    IN {f \in named : f \in Slot => \A g \in named \cap Slot : first(g) <= first(f)}

RowsOf(answer, batch) == {Row(answer, f, batch) : f \in Written(answer)}

----------------------------------------------------------------------------
NoEdge == [status |-> "active", slot |-> FALSE, by |-> None, first |-> None, sources |-> {},
           retrieval |-> {}, batch |-> {}, scope |-> "legacy", text |-> None, mentions |-> 0]
NoLinks == [s \in Sources |-> "none"]

\* Facts as earlier versions left them: with source_id or source_ids, with what the
\* batch was and what it was worth, with evidence or none; no slot, no status.
LegacyEdges == {e \in [status : {"active"}, slot : {FALSE}, by : {None},
                       first : Sources \cup {None}, sources : SUBSET Sources, retrieval : {{}},
                       batch : SUBSET Sources, scope : Scopes, text : Texts \cup {None},
                       mentions : {0}] :
                   /\ e.first # None => e.sources \in {{}, Sources} /\ e.batch = {}
                   /\ e.scope = "batch" <=> e.batch # {}
                   /\ e.scope = "exact" => e.sources # {}}

\* The sources under which an edge of the earlier version is to be found.
LegacySources(e) ==
    IF e.retrieval # {} THEN e.retrieval
    ELSE IF e.sources # {} THEN e.sources
    ELSE IF e.batch # {} /\ e.scope = "batch" THEN e.batch
    ELSE {e.first} \ {None}

Of(f, ledger) == {e \in ledger : e.fact = f}
Strong(rows) == {e.source : e \in {x \in rows : x.exact /\ x.source # None}}

\* An edge another row of its slot takes the place of.
Superseded(e, f, rows) ==
    e # None /\ e.status = "active" /\ \E w \in rows : f \in Slot /\ w.fact \in Slot /\ w.fact # f

\* The ledger after the evidence of some rows: a text that is known from the source is
\* found again.
Recorded(ledger, items) ==
    LET same(e, i) == e.fact = i.fact /\ e.source = i.source /\ e.text = i.text
    IN {[e EXCEPT !.exact = @ \/ \E i \in items : same(e, i) /\ i.exact] : e \in ledger}
           \cup {i \in items : \A e \in ledger : ~same(e, i)}

\* The edge after a row of its own, with the ledger as it is then.
Merged(e, w, ledger) ==
    LET sources == e.sources \cup w.sources
        batch == e.batch \cup w.batch
        rows == Of(w.fact, ledger)
    IN [status |-> "active", slot |-> w.fact \in Slot, by |-> None,
        first |-> None,
        sources |-> sources \cup Strong(rows),
        retrieval |-> e.retrieval \cup sources \cup batch, batch |-> batch,
        scope |-> Strongest(e.scope, w.scope), text |-> None, mentions |-> Cardinality(rows)]

\* Fault: only the sources of the row are linked.
LinkedNow(l, e, w) ==
    [s \in Sources |-> IF s \in w.sources THEN "exact" ELSE IF s \in w.batch THEN "weak" ELSE l[s]]
\* The links of a fact after a row: all its sources, as firmly as they are its own.
Linked(l, e, w) ==
    LET sources == e.sources \cup w.sources
    IN [s \in Sources |-> IF s \in sources THEN "exact"
                          ELSE IF s \in e.retrieval \cup e.batch \cup w.batch THEN "weak"
                          ELSE l[s]]

Claims(items) == {<<i.fact, i.source, i.text>> : i \in items}

\* upsert_facts: the rows of one batch, in one transaction.
Upserted(rows) ==
    LET row(f) == CHOOSE w \in rows : w.fact = f
        at(f) == IF edge[f] = None THEN NoEdge ELSE edge[f]
        mine == {w.fact : w \in rows}
        ledger == Recorded(evidence, UNION {w.items : w \in rows})
    IN /\ edge' = [f \in Facts |->
                      IF f \in mine THEN Merged(at(f), row(f), ledger)
                      ELSE IF Superseded(edge[f], f, rows)
                      THEN [edge[f] EXCEPT !.status = "superseded", !.slot = TRUE,
                                !.by = CHOOSE g \in mine : g \in Slot]
                      ELSE edge[f]]
       /\ nodes' = nodes \cup mine
       /\ links' = [f \in Facts |-> IF f \in mine THEN Linked(links[f], at(f), row(f)) ELSE links[f]]
       /\ evidence' = ledger
       /\ UNCHANGED old
       /\ told' = told \cup UNION {Claims(w.items) : w \in rows}
       /\ under' = [f \in Facts |-> IF f \in mine THEN under[f] \cup row(f).sources \cup row(f).batch
                                    ELSE under[f]]
       /\ lost' = [text |-> lost.text \cup {f \in mine : at(f).text # None},
                   source |-> lost.source \cup
                       {f \in mine : at(f).sources = {} /\ at(f).first # None /\ f \notin nodes}]

----------------------------------------------------------------------------
Known == {f \in Facts : edge[f] # None}

\* _source_projection_summary_is_complete: by counting.
SummaryIsComplete ==
    LET expected(f) == LET e == edge[f] IN
            IF e.retrieval # {} THEN Cardinality(e.retrieval)
            ELSE IF e.scope = "batch" /\ e.batch # {} THEN Cardinality(e.batch)
            ELSE IF e.sources # {} THEN Cardinality(e.sources)
            ELSE IF e.first # None THEN 1 ELSE 0
        actual(f) == Cardinality({s \in Sources : links[f][s] # "none"})
    IN /\ nodes = Known
       /\ MapThenSumSet(actual, nodes) >= MapThenSumSet(expected, Known)

\* _ensure_source_projection_backfill: every fact gets its node and its links.
Projected(f) ==
    LET e == edge[f]
    IN [s \in Sources |-> IF s \notin LegacySources(e) THEN links[f][s]
                          ELSE IF e.scope = "exact" /\ s \in e.sources THEN "exact" ELSE "weak"]

\* The sources an edge of an earlier version names as its own.
Own(e) == IF e.scope = "batch" THEN {}
          ELSE IF e.sources # {} THEN e.sources ELSE {e.first} \ {None}

\* _ensure_evidence_ledger_backfill: the evidence of a fact that has none in the ledger,
\* of each of its own sources or else of nobody in particular, ...
Carried(f, e) ==
    {[fact |-> f, source |-> s, text |-> e.text, exact |-> e.scope = "exact" /\ s # None]
        : s \in OrNobody(Own(e))}

\* ... and what the edge makes of the ledger.
Weighed(f, ledger) ==
    LET e == edge[f]
        rows == Of(f, ledger)
    IN [e EXCEPT !.sources = IF Strong(rows) # {} THEN Strong(rows) ELSE @,
                 !.retrieval = LegacySources(e),
                 !.text = None, !.mentions = Cardinality(rows)]

----------------------------------------------------------------------------
Keeps(c, place) == client' = [client EXCEPT ![c].at = place]
Fails == failures < MaxFailures /\ failures' = failures + 1
Graph == <<edge, nodes, links, evidence, ghosts>>

\* ensure_constraints: the marks are read, the graph is looked through.
LooksAtProjection(c) ==
    /\ client[c].at \in {"off", "lost"}
    /\ client' = [client EXCEPT ![c].at =
           IF "projection" \in marks THEN "projected" ELSE IF SummaryIsComplete THEN "marking"
           ELSE "projecting"]
    /\ UNCHANGED <<Graph, marks, writes, failures>>

Projects(c) ==
    /\ client[c].at = "projecting" /\ Keeps(c, "marking")
    /\ nodes' = nodes \cup Known
    /\ links' = [f \in Facts |-> IF f \in Known THEN Projected(f) ELSE links[f]]
    /\ UNCHANGED <<edge, evidence, ghosts, marks, writes, failures>>

MarksProjection(c) ==
    /\ client[c].at = "marking" /\ Keeps(c, "projected")
    /\ marks' = marks \cup {"projection"}
    /\ UNCHANGED <<Graph, writes, failures>>

LooksAtLedger(c) ==
    /\ client[c].at = "projected"
    /\ Keeps(c, IF "ledger" \in marks THEN "connected" ELSE "carrying")
    /\ UNCHANGED <<Graph, marks, writes, failures>>

CarriesOver(c) ==
    /\ client[c].at = "carrying" /\ Keeps(c, "noting")
    /\ LET owned == {f \in Known : edge[f].text # None \/ Of(f, evidence) # {}}
           ledger == evidence \cup UNION {Carried(f, edge[f]) : f \in {g \in owned : Of(g, evidence) = {}}}
       IN /\ nodes' = nodes \cup owned
          /\ evidence' = ledger
          /\ edge' = [f \in Facts |-> IF f \in owned THEN Weighed(f, ledger) ELSE edge[f]]
    /\ UNCHANGED <<links, ghosts, marks, writes, failures>>

NotesLedger(c) ==
    /\ client[c].at = "noting" /\ Keeps(c, "connected")
    /\ marks' = marks \cup {"ledger"}
    /\ UNCHANGED <<Graph, writes, failures>>

\* A backfill or its mark fails, or takes longer than the database allows: it is left
\* for the next start.
Skips(c) ==
    /\ client[c].at \in {"projecting", "marking", "carrying", "noting"} /\ Fails
    /\ Keeps(c, IF client[c].at \in {"projecting", "marking"} THEN "projected" ELSE "connected")
    /\ UNCHANGED <<Graph, marks, writes>>

\* The connection is there: rows whose answer was lost are written again.
Connects(c) ==
    /\ client[c].at = "connected"
    /\ IF client[c].rows = {} THEN UNCHANGED Graph ELSE Upserted(client[c].rows)
    /\ client' = [client EXCEPT ![c] = [at |-> "ready", rows |-> {}]]
    /\ UNCHANGED <<marks, writes, failures>>

\* A batch is written, and the answer arrives or is lost with the connection, before
\* the rows were written or after.
Writes(c) ==
    /\ client[c].at = "ready" /\ writes < MaxWrites /\ writes' = writes + 1
    /\ \E batch \in SUBSET Sources \ {{}} : \E answer \in Answers(batch) :
           \/ Upserted(RowsOf(answer, batch)) /\ UNCHANGED <<client, failures>>
           \/ /\ Fails
              /\ client' = [client EXCEPT ![c] = [at |-> "lost", rows |-> RowsOf(answer, batch)]]
              /\ Upserted(RowsOf(answer, batch)) \/ UNCHANGED Graph
    /\ UNCHANGED marks

\* The process dies, or the connection is configured anew.
Restarts(c) ==
    /\ client[c].at # "off" /\ Fails
    /\ client' = [client EXCEPT ![c] = [at |-> "off", rows |-> {}]]
    /\ UNCHANGED <<Graph, marks, writes>>

Init ==
    /\ edge \in [Facts -> {None} \cup LegacyEdges]
    /\ nodes = {} /\ evidence = {} /\ marks = {}
    /\ links = [f \in Facts |-> NoLinks]
    /\ client = [c \in Clients |-> [at |-> "off", rows |-> {}]]
    /\ writes = 0 /\ failures = 0
    /\ old = Known
    /\ told = UNION {{<<f, s, edge[f].text>> : s \in OrNobody(Own(edge[f]))}
                        : f \in {g \in Known : edge[g].text # None}}
    /\ under = [f \in Facts |-> IF f \in Known THEN LegacySources(edge[f]) ELSE {}]
    /\ lost = [text |-> {}, source |-> {}]

Next == \E c \in Clients :
    \/ LooksAtProjection(c) \/ Projects(c) \/ MarksProjection(c)
    \/ LooksAtLedger(c) \/ CarriesOver(c) \/ NotesLedger(c)
    \/ Skips(c) \/ Connects(c) \/ Writes(c) \/ Restarts(c)

----------------------------------------------------------------------------
\* Once a fact of this version is in a slot, one fact of the slot is current and what it
\* replaced leads to it, however writes, repeated writes and processes follow one another
\* (upsert_facts).
OneIsCurrent ==
    LET current == {f \in Slot \cap Known : edge[f].status = "active"}
        after[n \in 0..Cardinality(Slot)] ==
            IF n = 0 THEN [f \in Slot |-> f]
            ELSE [f \in Slot |-> LET g == after[n - 1][f]
                                 IN IF g \in current THEN g ELSE edge[g].by]
    IN (\E f \in Slot \cap Known : edge[f].slot) =>
           /\ Cardinality(current) = 1
           /\ \A f \in Slot \cap Known : after[Cardinality(Slot)][f] \in current

\* A fact is found under every source it was ever given for, once the projection is
\* marked, except where a write came between a backfill that failed and the next; and
\* a fact of this version ranks as a source's own by evidence from there.
FoundBySource ==
    \A f \in Known, s \in Sources :
        /\ "projection" \in marks /\ f \notin lost.source /\ s \in under[f] => links[f][s] # "none"
        /\ f \notin old => (links[f][s] = "exact" <=> s \in Strong(Of(f, evidence)))

\* No evidence is forgotten or counted twice: what was told is in the ledger or will be,
\* with the same exception.
EvidenceIsKept ==
    /\ \A t \in told : \/ t \in Claims(evidence) \/ t[1] \in lost.text
                       \/ "ledger" \notin marks /\ edge[t[1]].text = t[3]
    /\ Cardinality(Claims(evidence)) = Cardinality(evidence)
    /\ \A f \in Known : edge[f].text = None => edge[f].mentions = Cardinality(Of(f, evidence))
=============================================================================

------------------------------ MODULE EvidenceLedger ------------------------------
(* The evidence of one research turn (src/core/research/evidence.py), the      *)
(* searches that fill it, the bridge they cross from their threads to the      *)
(* event loop (services.py), and the report that cites it (report.py).         *)
(*                                                                             *)
(* Branches search in threads of their own, and one tool outside the turn      *)
(* shares the bridge.  A search registers its future, waits for it, and adds   *)
(* every hit to the ledger: the lock covers the ledger only, the change is     *)
(* told after it.  The report is checked, cut and given its list of sources    *)
(* in steps, while searches that outlive the synthesis still add.              *)
(*                                                                             *)
(* Hits are given: their wording, urls and hashes are left out, a source       *)
(* stands for what fingerprint two hits share.  A graph search may name        *)
(* citations of chunks to start from, which only changes what it finds.  The   *)
(* kinds never mismatch a citation's letter: that check is left out.           *)
EXTENDS Integers, FiniteSets, Sequences, TLC

CONSTANTS
    None,
    Branches,   \* the threads that search
    OwnerOf,    \* the turn, or the tool, a branch's calls belong to
    Turn,       \* the owner whose ledger this is
    Answers,    \* for every kind, what its searches may return: sequences of hits
    Citations,  \* what a report may cite, known or not
    MaxCalls,   \* bound: searches of a branch
    MaxCancels  \* bound: cancellations

Kinds == {"rag", "graph", "web"}
Strength == [discovery |-> 0, derived |-> 1, full |-> 2]
Owners == {OwnerOf[b] : b \in Branches}
Hits == UNION {{a[i] : i \in DOMAIN a} : a \in UNION {Answers[k] : k \in Kinds}}

EvidenceAssumption ==
    /\ OwnerOf \in [Branches -> Owners] /\ Turn \in Owners
    /\ \A h \in Hits : h.strength \in DOMAIN Strength /\ h.kind \in Kinds

VARIABLES
    items,      \* what was found, by source
    call,       \* what a branch's search is at
    calls,      \* how often a branch has searched
    future,     \* the coroutine of a branch's latest call
    pending,    \* the registered calls: <<branch, number>>
    cancelling, \* the calls a cancellation has found and not yet reached
    cancels, stopped, \* how many there were, and the calls that waited for them
    announced,  \* the citations told as new, with how often
    report

Idle == [step |-> "idle", kind |-> "rag", hits |-> <<>>, tell |-> None]
NoReport == [step |-> "none", form |-> "chat", body |-> {}, tail |-> {}, listed |-> {}]

evidenceVars == <<items, call, calls, future, pending, cancelling, cancels, stopped,
                  announced, report>>

Init ==
    /\ items = <<>> /\ announced = <<>>
    /\ call = [b \in Branches |-> Idle] /\ calls = [b \in Branches |-> 0]
    /\ future = [b \in Branches |-> None] /\ pending = {}
    /\ cancelling = {} /\ cancels = 0 /\ stopped = {}
    /\ report = NoReport

-----------------------------------------------------------------------------
(* The ledger.                                                                *)

Larger(a, b) == IF a > b THEN a ELSE b
Found(kind) == {s \in DOMAIN items : items[s].id[1] = kind}
Known(id) == \E s \in DOMAIN items : items[s].id = id
Item(id) == items[CHOOSE s \in DOMAIN items : items[s].id = id]

\* A source's first hit takes the next number of its kind.
Created(h) ==
    [id |-> <<h.kind, Cardinality(Found(h.kind)) + 1>>, refs |-> h.refs,
     score |-> h.score, strength |-> h.strength, size |-> h.size]

\* Fault: the latest hit decides how strong a source is.
MergedLatest(item, h) ==
    [item EXCEPT !.refs = @ \union h.refs, !.score = Larger(@, h.score),
                 !.strength = h.strength, !.size = h.size]

\* Fault: the latest score stands.
MergedScore(item, h) ==
    LET stronger == Strength[h.strength] >= Strength[item.strength]
    IN  [item EXCEPT !.refs = @ \union h.refs, !.score = h.score,
                     !.strength = IF stronger THEN h.strength ELSE @,
                     !.size = IF stronger THEN h.size ELSE Larger(@, h.size)]

\* Another hit of a known source: nothing of it gets weaker.  A weaker hit with a
\* longer excerpt replaces the excerpt alone.
Merged(item, h) ==
    LET stronger == Strength[h.strength] >= Strength[item.strength]
    IN  [item EXCEPT !.refs = @ \union h.refs, !.score = Larger(@, h.score),
                     !.strength = IF stronger THEN h.strength ELSE @,
                     !.size = IF stronger THEN h.size ELSE Larger(@, h.size)]

\* The next hit of a search joins the ledger, under its lock.  A search outside a
\* turn has no ledger: its hits are only numbered.
Add(b) ==
    /\ call[b].step = "adding" /\ call[b].tell = None /\ call[b].hits # <<>>
    /\ LET h == Head(call[b].hits)
           new == h.source \notin DOMAIN items
           item == IF new THEN Created(h) ELSE Merged(items[h.source], h)
       IN  /\ items' = (h.source :> item) @@ items
           /\ call' = [call EXCEPT ![b].hits = Tail(@), ![b].tell = <<item.id, new>>]
    /\ UNCHANGED <<calls, future, pending, cancelling, cancels, stopped, announced, report>>

\* The change is told once the lock is free: another branch may be quicker with an
\* update of what is told as new here.
Tell(b) ==
    /\ call[b].tell # None
    /\ LET id == call[b].tell[1]
       IN  announced' = IF call[b].tell[2]
                        THEN (id :> (IF id \in DOMAIN announced THEN announced[id] + 1 ELSE 1))
                             @@ announced
                        ELSE announced
    /\ call' = [call EXCEPT ![b].tell = None]
    /\ UNCHANGED <<items, calls, future, pending, cancelling, cancels, stopped, report>>

SearchEnds(b) ==
    /\ call[b].step = "adding" /\ call[b].tell = None /\ call[b].hits = <<>>
    /\ call' = [call EXCEPT ![b] = Idle]
    /\ UNCHANGED <<items, calls, future, pending, cancelling, cancels, stopped, announced, report>>

-----------------------------------------------------------------------------
(* The searches and the bridge.                                               *)

\* A tool of the turn asks the budget: nothing is searched once the synthesis began.
Reserved(b) == OwnerOf[b] = Turn => report.step = "none"

\* The search of the web reads its answer itself (WebRequest), the others wait for
\* a coroutine.  The coroutine starts and is registered under one lock.
Search(b) ==
    /\ call[b].step = "idle" /\ calls[b] < MaxCalls /\ Reserved(b)
    /\ calls' = [calls EXCEPT ![b] = @ + 1]
    /\ \/ /\ \E kind \in {"rag", "graph"} :
                call' = [call EXCEPT ![b] = [Idle EXCEPT !.step = "waiting", !.kind = kind]]
          /\ future' = [future EXCEPT ![b] = "running"]
          /\ pending' = pending \union {<<b, calls'[b]>>}
       \/ /\ OwnerOf[b] = Turn
          /\ \E a \in Answers["web"] :
                call' = [call EXCEPT ![b] = [Idle EXCEPT !.step = "adding", !.kind = "web", !.hits = a]]
          /\ UNCHANGED <<future, pending>>
    /\ UNCHANGED <<items, cancelling, cancels, stopped, announced, report>>

\* The coroutine ends on the loop: with hits, or with a failure.
Serve(b) ==
    /\ future[b] = "running"
    /\ \/ /\ \E a \in Answers[call[b].kind] : call' = [call EXCEPT ![b].hits = a]
          /\ future' = [future EXCEPT ![b] = "done"]
       \/ future' = [future EXCEPT ![b] = "failed"] /\ UNCHANGED call
    /\ UNCHANGED <<items, calls, pending, cancelling, cancels, stopped, announced, report>>

\* The thread has the result.  A failed or cancelled search is answered as
\* unavailable, and every way out takes the call off the register.
Returned(b, hits) ==
    /\ call' = [call EXCEPT ![b] = IF OwnerOf[b] = Turn
                                   THEN [@ EXCEPT !.step = "adding", !.hits = hits] ELSE Idle]
    /\ future' = [future EXCEPT ![b] = None]
    /\ pending' = pending \ {<<b, calls[b]>>}

Return(b) ==
    /\ call[b].step = "waiting" /\ future[b] # "running"
    /\ Returned(b, IF future[b] = "done" THEN call[b].hits ELSE <<>>)
    /\ UNCHANGED <<items, calls, cancelling, cancels, stopped, announced, report>>

\* Fault: a search that timed out leaves its coroutine running.
TimeOutLeaving(b) ==
    /\ call[b].step = "waiting"
    /\ call' = [call EXCEPT ![b] = Idle]
    /\ pending' = pending \ {<<b, calls[b]>>}
    /\ UNCHANGED <<items, calls, future, cancelling, cancels, stopped, announced, report>>

\* The wait is limited by the time left for searching: the coroutine is cancelled, and
\* an answer that came too late is dropped.
TimeOut(b) ==
    /\ call[b].step = "waiting"
    /\ Returned(b, <<>>)
    /\ UNCHANGED <<items, calls, cancelling, cancels, stopped, announced, report>>

\* Fault: whatever is registered is cancelled.
OwnedAny(owner) == pending

\* The registered calls of an owner; of everybody when the stage shuts down (None).
Owned(owner) == {c \in pending : owner \in {None, OwnerOf[c[1]]}}

\* The register is read under its lock, the futures are cancelled after it.
Cancel ==
    /\ cancelling = {} /\ cancels < MaxCancels
    /\ \E owner \in Owners \union {None} :
          /\ cancelling' = Owned(owner)
          /\ stopped' = stopped \union {<<b, calls[b]>> : b \in {c \in Branches :
                            call[c].step = "waiting" /\ owner \in {None, OwnerOf[c]}}}
    /\ cancels' = cancels + 1
    /\ UNCHANGED <<items, call, calls, future, pending, announced, report>>

\* Fault: what the branch is calling now is cancelled.
CancelCurrent(c) ==
    /\ c \in cancelling
    /\ cancelling' = cancelling \ {c}
    /\ future' = IF future[c[1]] = "running"
                 THEN [future EXCEPT ![c[1]] = "cancelled"] ELSE future
    /\ UNCHANGED <<items, call, calls, pending, cancels, stopped, announced, report>>

\* A call that has ended meanwhile is not another one of the same branch.
CancelCall(c) ==
    /\ c \in cancelling
    /\ cancelling' = cancelling \ {c}
    /\ future' = IF calls[c[1]] = c[2] /\ future[c[1]] = "running"
                 THEN [future EXCEPT ![c[1]] = "cancelled"] ELSE future
    /\ UNCHANGED <<items, call, calls, pending, cancels, stopped, announced, report>>

-----------------------------------------------------------------------------
(* The report.                                                                *)

Discovered(id) == Known(id) /\ id[1] = "web" /\ Item(id).strength = "discovery"
Usable(ids) == {id \in ids : Known(id) /\ ~Discovered(id)}
Valid(ids) == ids # {} /\ ids = Usable(ids)

StepsTo(step, body, tail, listed) ==
    /\ report' = [report EXCEPT !.step = step, !.body = body, !.tail = tail, !.listed = listed]
    /\ UNCHANGED <<items, call, calls, future, pending, cancelling, cancels, stopped, announced>>

\* The model's text cites what it likes, before and after a heading of sources.  An
\* export, as text or JSON, is checked strictly first.  What a chat's answer cites after
\* the heading is cut with it.
Write ==
    /\ report.step = "none"
    /\ \E form \in {"chat", "text", "json"}, body, tail \in SUBSET Citations :
          /\ form = "chat" => tail = {}
          /\ report' = [step |-> "written", form |-> form, body |-> body, tail |-> tail,
                         listed |-> {}]
    /\ UNCHANGED <<items, call, calls, future, pending, cancelling, cancels, stopped, announced>>

Strict ==
    /\ report.step = "written" /\ report.form # "chat"
    /\ IF ~Valid(report.body \union report.tail)
       THEN StepsTo("rejected", {}, {}, {})
       ELSE StepsTo("strict", report.body, report.tail, {})

\* A JSON report lists what the strict check found, its text is not touched.
ListJson ==
    /\ report.step = "strict" /\ report.form = "json"
    /\ StepsTo("done", report.body \union report.tail, {}, report.body \union report.tail)

\* Fault: what was only discovered stays in the text.
CleanUnknown ==
    /\ report.step = (IF report.form = "chat" THEN "written" ELSE "strict")
    /\ report.form # "json"
    /\ StepsTo("cut", {id \in report.body : Known(id)}, {}, {})

\* What is unknown or only discovered is removed, and the text is cut at its own
\* heading of sources.
Clean ==
    /\ report.step = (IF report.form = "chat" THEN "written" ELSE "strict")
    /\ report.form # "json"
    /\ StepsTo("cut", Usable(report.body), {}, {})

\* The list of sources is that of the citations left, looked up again.
Catalog ==
    /\ report.step = "cut"
    /\ StepsTo("listed", report.body, {}, {id \in report.body : Known(id)})

\* The finished text is checked once more; only an export is held to it.
Finish ==
    /\ report.step = "listed"
    /\ IF report.form = "text" /\ ~Valid(report.body \union report.listed)
       THEN StepsTo("rejected", {}, {}, {})
       ELSE StepsTo("done", report.body, {}, report.listed)

Next ==
    \/ \E b \in Branches : Search(b) \/ Serve(b) \/ Return(b) \/ TimeOut(b) \/ Add(b) \/ Tell(b)
                           \/ SearchEnds(b)
    \/ Cancel \/ \E c \in cancelling : CancelCall(c)
    \/ Write \/ Strict \/ ListJson \/ Clean \/ Catalog \/ Finish

-----------------------------------------------------------------------------
(* Properties.                                                                *)

\* Two sources never share a citation, and the citations of a kind have no gaps
\* (evidence.py, _add).
OneCitationEach ==
    /\ \A s, t \in DOMAIN items : s # t => items[s].id # items[t].id
    /\ \A k \in Kinds : {items[s].id[2] : s \in Found(k)} = 1 .. Cardinality(Found(k))

\* A citation is told as new once, by the branch that created it (evidence.py, _add).
ToldOnce ==
    \A s \in DOMAIN items :
        LET telling == {b \in Branches : call[b].tell = <<items[s].id, TRUE>>}
            told == IF items[s].id \in DOMAIN announced THEN announced[items[s].id] ELSE 0
        IN  told + Cardinality(telling) = 1

\* A report that was handed out lists what its text cites, and all of it is evidence that
\* was more than discovered, although searches go on adding while it is checked, cut and
\* listed (report.py, finalize_chat_report; tools/research.py).
ReportIsTrue ==
    report.step = "done" =>
        /\ report.listed = report.body
        /\ report.body = Usable(report.body)
        /\ report.form # "chat" => report.body # {}

\* The register holds the calls that wait, nothing runs for a call that has ended, and a
\* call is only cancelled by what was cancelled while it waited, with its own owner (services.py, _run, cancel_pending).
BridgeIsClean ==
    /\ pending = {<<b, calls[b]>> : b \in {c \in Branches : call[c].step = "waiting"}}
    /\ \A b \in Branches : future[b] # None => call[b].step = "waiting"
    /\ \A b \in Branches : future[b] = "cancelled" => <<b, calls[b]>> \in stopped

EvidenceHolds == OneCitationEach /\ ToldOnce /\ ReportIsTrue /\ BridgeIsClean

\* Evidence never weakens: a citation stays with its source, keeps every place it was seen
\* in, and its score and strength only rise (evidence.py, _add).
EvidenceGrows ==
    \A s \in DOMAIN items :
        /\ s \in DOMAIN items' /\ items'[s].id = items[s].id
        /\ items[s].refs \subseteq items'[s].refs /\ items'[s].score >= items[s].score
        /\ Strength[items'[s].strength] >= Strength[items[s].strength]
=============================================================================

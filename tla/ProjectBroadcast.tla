-------------------------- MODULE ProjectBroadcast --------------------------
(* How the pages of the studio follow its project (dashboard/music.py): every  *)
(* change is broadcast as a patch against the last snapshot that was broadcast *)
(* or read, a page applies a patch only to the revision it was made for and    *)
(* reads the whole project otherwise, and a page's save names the revision it  *)
(* was made on.  Handlers suspend between the save, each send and remembering  *)
(* the snapshot, so changes, broadcasts and answers overlap.                   *)
EXTENDS Integers, Sequences, SequencesExt, FiniteSetsExt

CONSTANTS
    None,     \* no project yet
    Pages,    \* the open pages of the studio
    Editors,  \* handlers that change the project for somebody else (tools, imports)
    Projects, \* the projects there can be: sequences of tracks [id, value]
    MaxSaves  \* bound: changes of the project

\* The revision is a digest of the project: projects are their own revisions.
VARIABLES
    store,     \* the project on disk (save_project, update_project)
    snapshot,  \* _project_broadcast_snapshot and its revision
    clients,   \* _ws_clients
    task,      \* the handlers of editors and of the pages' own calls
    line,      \* the messages on the way to each page
    page,      \* projectRevision and project of each page
    reload,    \* pages that have to read the project
    saves,     \* changes so far
    overtaken, \* auxiliary: the last change met other handlers between their steps
    unseen     \* auxiliary: a page has replaced a project it had not shown

broadcastVars == <<store, snapshot, clients, task, line, page, reload, saves, overtaken,
                   unseen>>

Idle == [at |-> "idle", kind |-> None, song |-> None, base |-> None, patch |-> None,
         left |-> {}]

Init ==
    /\ store \in Projects
    /\ snapshot = None
    /\ clients = Pages
    /\ task = [t \in Pages \cup Editors |-> Idle]
    /\ line = [p \in Pages |-> <<>>]
    /\ page = [p \in Pages |-> None]
    /\ reload = Pages
    /\ saves = 0
    /\ overtaken = FALSE /\ unseen = FALSE

----------------------------------------------------------------------------
(* The patch *)

Ids(project) == [i \in DOMAIN project |-> project[i].id]
Track(project, id) == CHOOSE track \in ToSet(project) : track.id = id

\* The matching blocks of two lists: the longest, the first of these in either list,
\* and what matches before and behind it.
RECURSIVE SharedIds(_, _)
SharedIds(a, b) ==
    LET blocks == {<<k, i, j>> \in (1 .. Len(a)) \X (1 .. Len(a)) \X (1 .. Len(b)) :
                      /\ i + k - 1 <= Len(a) /\ j + k - 1 <= Len(b)
                      /\ SubSeq(a, i, i + k - 1) = SubSeq(b, j, j + k - 1)}
        best == CHOOSE x \in blocks : \A y \in blocks :
                   \/ x[1] > y[1]
                   \/ x[1] = y[1] /\ (x[2] < y[2] \/ (x[2] = y[2] /\ x[3] <= y[3]))
    IN  IF blocks = {} THEN <<>>
        ELSE SharedIds(SubSeq(a, 1, best[2] - 1), SubSeq(b, 1, best[3] - 1))
             \o SubSeq(a, best[2], best[2] + best[1] - 1)
             \o SharedIds(SubSeq(a, best[2] + best[1], Len(a)),
                          SubSeq(b, best[3] + best[1], Len(b)))

Op(op, index, value) == [op |-> op, index |-> index, value |-> value]

\* Fault: the tracks that stay are not compared.
PatchOfMembers(old, new) ==
    LET shared == ToSet(Ids(old)) \cap ToSet(Ids(new))
        gone == SelectSeq([i \in DOMAIN old |-> i], LAMBDA i : old[i].id \notin shared)
        come == SelectSeq([i \in DOMAIN new |-> i], LAMBDA i : new[i].id \notin shared)
    IN  [i \in DOMAIN gone |-> Op("remove", Reverse(gone)[i], None)]
        \o [i \in DOMAIN come |-> Op("add", come[i], new[come[i]])]

\* Removals from behind, additions from the front, then the tracks that changed; a list
\* that would not come out in its order is replaced.
Patch(old, new) ==
    LET shared == ToSet(SharedIds(Ids(old), Ids(new)))
        gone == SelectSeq([i \in DOMAIN old |-> i], LAMBDA i : old[i].id \notin shared)
        come == SelectSeq([i \in DOMAIN new |-> i], LAMBDA i : new[i].id \notin shared)
        changed == SelectSeq([i \in DOMAIN new |-> i],
                      LAMBDA i : new[i].id \in shared /\ Track(old, new[i].id) # new[i])
        between == FoldLeft(LAMBDA ids, i : InsertAt(ids, i, new[i].id),
                      SelectSeq(Ids(old), LAMBDA id : id \in shared), come)
    IN  IF between # Ids(new) THEN <<Op("all", 0, new)>>
        ELSE [i \in DOMAIN gone |-> Op("remove", Reverse(gone)[i], None)]
             \o [i \in DOMAIN come |-> Op("add", come[i], new[come[i]])]
             \o [i \in DOMAIN changed |-> Op("replace", changed[i], new[changed[i]])]

\* Whether an operation hits a place of the list (arrayIndex), and what it makes of it.
Fits(project, op) ==
    op.op = "all" \/ op.index \in 1 .. (IF op.op = "add" THEN Len(project) + 1
                                                         ELSE Len(project))

Changed(project, op) ==
    CASE op.op = "all" -> op.value
      [] op.op = "remove" -> RemoveAt(project, op.index)
      [] op.op = "add" -> InsertAt(project, op.index, op.value)
      [] op.op = "replace" -> [project EXCEPT ![op.index] = op.value]

\* The project a page makes of a patch, None when an operation raises.
Applied(project, patch) ==
    FoldLeft(LAMBDA result, op :
                IF result = None \/ ~Fits(result, op) THEN None ELSE Changed(result, op),
             project, patch)

----------------------------------------------------------------------------
(* The handlers of the dashboard *)

\* A change overtakes handlers that have saved or read and are not through.
Store(t, project) ==
    /\ saves < MaxSaves
    /\ saves' = saves + 1
    /\ store' = project
    /\ overtaken' = (\E u \in DOMAIN task \ {t} : task[u].at \notin {"idle", "asked"})
    /\ unseen' = (unseen \/ (t \in Pages /\ task[t].base # store))
    /\ task' = [task EXCEPT ![t].at = "saved", ![t].song = project]

Edit(e) ==
    /\ task[e].at = "idle"
    /\ \E project \in Projects \ {store} : Store(e, project)
    /\ UNCHANGED <<snapshot, clients, line, page, reload>>

\* A page reads the project, or saves what it shows with a change of its own.
AskRead(p) ==
    /\ p \in reload /\ task[p].at = "idle"
    /\ task' = [task EXCEPT ![p] = [Idle EXCEPT !.at = "asked", !.kind = "read"]]
    /\ reload' = reload \ {p}
    /\ UNCHANGED <<store, snapshot, clients, line, page, saves, overtaken, unseen>>

AskSave(p) ==
    /\ page[p] # None /\ task[p].at = "idle" /\ saves < MaxSaves
    /\ \E project \in Projects \ {page[p]} :
          task' = [task EXCEPT ![p] = [Idle EXCEPT !.at = "asked", !.kind = "save",
                                                   !.song = project, !.base = page[p]]]
    /\ UNCHANGED <<store, snapshot, clients, line, page, reload, saves, overtaken, unseen>>

\* Fault: the revision a save names is not looked at.
ServeAnySave(p) ==
    /\ task[p].at = "asked" /\ task[p].kind = "save"
    /\ Store(p, task[p].song)
    /\ UNCHANGED <<snapshot, clients, line, page, reload>>

\* A save made on another revision is refused and answered with the project there is.
ServeSave(p) ==
    /\ task[p].at = "asked" /\ task[p].kind = "save"
    /\ \/ /\ task[p].base = store
          /\ Store(p, task[p].song)
       \/ /\ task[p].base # store
          /\ task' = [task EXCEPT ![p].at = "answered", ![p].song = store]
          /\ UNCHANGED <<store, saves, overtaken, unseen>>
    /\ UNCHANGED <<snapshot, clients, line, page, reload>>

ServeRead(p) ==
    /\ task[p].at = "asked" /\ task[p].kind = "read"
    /\ task' = [task EXCEPT ![p].at = "read", ![p].song = store]
    /\ UNCHANGED <<store, snapshot, clients, line, page, reload, saves, overtaken, unseen>>

\* A read is remembered as if it had been broadcast.
RememberRead(p) ==
    /\ task[p].at = "read"
    /\ snapshot' = task[p].song
    /\ task' = [task EXCEPT ![p].at = "answered"]
    /\ UNCHANGED <<store, clients, line, page, reload, saves, overtaken, unseen>>

\* A handler that syncs reads the project again before it broadcasts; a page's save does.
Reload(t) ==
    /\ task[t].at = "saved"
    /\ task' = [task EXCEPT ![t].at = "loaded", ![t].song = store]
    /\ UNCHANGED <<store, snapshot, clients, line, page, reload, saves, overtaken, unseen>>

Loaded(t) == task[t].at = "loaded" \/ (t \in Editors /\ task[t].at = "saved")

\* Fault: the patch is taken from the project on disk, the base from the broadcasts.
BeginFromDisk(t) ==
    /\ Loaded(t)
    /\ task' = [task EXCEPT ![t].at = "sending", ![t].base = snapshot,
                            ![t].patch = IF snapshot = None THEN None
                                         ELSE Patch(snapshot, store),
                            ![t].left = clients]
    /\ UNCHANGED <<store, snapshot, clients, line, page, reload, saves, overtaken, unseen>>

Begin(t) ==
    /\ Loaded(t)
    /\ task' = [task EXCEPT ![t].at = "sending", ![t].base = snapshot,
                            ![t].patch = IF snapshot = None THEN None
                                         ELSE Patch(snapshot, task[t].song),
                            ![t].left = clients]
    /\ UNCHANGED <<store, snapshot, clients, line, page, reload, saves, overtaken, unseen>>

\* The clients are sent to in turn; one that is gone raises and is passed over.
Send(t, p) ==
    /\ task[t].at = "sending" /\ p \in task[t].left
    /\ task' = [task EXCEPT ![t].left = @ \ {p}]
    /\ line' = IF p \notin clients THEN line
               ELSE [line EXCEPT ![p] = Append(@, [base |-> task[t].base,
                        patch |-> task[t].patch, revision |-> task[t].song])]
    /\ UNCHANGED <<store, snapshot, clients, page, reload, saves, overtaken, unseen>>

Remember(t) ==
    /\ task[t].at = "sending" /\ task[t].left = {}
    /\ snapshot' = task[t].song
    /\ task' = [task EXCEPT ![t] =
                   IF t \in Pages THEN [Idle EXCEPT !.at = "answered", !.song = task[t].song]
                                  ELSE Idle]
    /\ UNCHANGED <<store, clients, line, page, reload, saves, overtaken, unseen>>

----------------------------------------------------------------------------
(* The pages *)

\* Fault: a patch for another revision is ignored.
MergeKnown(p, message) ==
    IF page[p] = None \/ message.patch = None THEN
        reload' = reload \cup {p} /\ UNCHANGED page
    ELSE IF page[p] # message.base THEN
        UNCHANGED <<page, reload>>
    ELSE
        /\ page' = [page EXCEPT ![p] = Applied(page[p], message.patch)]
        /\ UNCHANGED reload

\* handleProjectBroadcast: nothing to do, a reload, or the patch (mergeProjectBroadcast).
Merge(p, message) ==
    IF page[p] # None /\ page[p] = message.revision THEN
        UNCHANGED <<page, reload>>
    ELSE IF \/ message.patch = None \/ message.base = None
            \/ page[p] = None \/ page[p] # message.base
            \/ Applied(page[p], message.patch) = None THEN
        reload' = reload \cup {p} /\ UNCHANGED page
    ELSE
        /\ page' = [page EXCEPT ![p] = Applied(page[p], message.patch)]
        /\ UNCHANGED reload

Receive(p) ==
    /\ line[p] # <<>>
    /\ Merge(p, Head(line[p]))
    /\ line' = [line EXCEPT ![p] = Tail(@)]
    /\ UNCHANGED <<store, snapshot, clients, task, saves, overtaken, unseen>>

\* setProjectFromResponse: the answer of a call replaces what the page shows.
Answer(p) ==
    /\ task[p].at = "answered"
    /\ page' = [page EXCEPT ![p] = task[p].song]
    /\ task' = [task EXCEPT ![p] = Idle]
    /\ UNCHANGED <<store, snapshot, clients, line, reload, saves, overtaken, unseen>>

\* The socket of a page closes; what was on its way is lost.
Disconnect(p) ==
    /\ p \in clients
    /\ clients' = clients \ {p}
    /\ line' = [line EXCEPT ![p] = <<>>]
    /\ UNCHANGED <<store, snapshot, task, page, reload, saves, overtaken, unseen>>

Next ==
    \/ \E e \in Editors : Edit(e)
    \/ \E p \in Pages : \/ AskRead(p) \/ AskSave(p) \/ ServeSave(p) \/ ServeRead(p)
                        \/ RememberRead(p) \/ Receive(p) \/ Answer(p) \/ Disconnect(p)
    \/ \E t \in DOMAIN task : Reload(t) \/ Begin(t) \/ Remember(t) \/ \E p \in Pages : Send(t, p)

Spec == Init /\ [][Next]_broadcastVars

----------------------------------------------------------------------------
(* The properties *)

Quiet == /\ \A t \in DOMAIN task : task[t].at = "idle"
         /\ \A p \in Pages : line[p] = <<>>
         /\ reload = {}

TypeOK ==
    /\ store \in Projects /\ snapshot \in Projects \cup {None}
    /\ clients \subseteq Pages /\ reload \subseteq Pages
    /\ \A t \in DOMAIN task :
          task[t].at \in {"idle", "asked", "read", "saved", "loaded", "sending", "answered"}

\* A page never shows a mixture: a patch turns the revision it names as its base into
\* exactly the project that was broadcast (_json_patch, applyProjectPatch).
PatchesAreExact ==
    \A t \in DOMAIN task :
       task[t].at = "sending" /\ task[t].patch # None =>
           Applied(task[t].base, task[t].patch) = task[t].song

\* Whatever overlapped before, a change that overlaps nothing brings every page that is
\* still connected up to the project on disk (_broadcast_project, mergeProjectBroadcast).
PagesCatchUp ==
    Quiet /\ ~overtaken => \A p \in clients : page[p] = store

\* A page's save replaces the project the page had shown, never one it had not seen
\* (_save_project_with_base_revision).
SavesReplaceWhatWasSeen == ~unseen

\* What the pages show and save is right, whatever overlaps (music.py, server.py).
BroadcastHolds == PatchesAreExact /\ PagesCatchUp /\ SavesReplaceWhatWasSeen
=============================================================================

------------------------------ MODULE StudioSync ------------------------------
(***************************************************************************)
(* How the studio carries a project over to the audio host                 *)
(* (_sync_project_to_host in dashboard/music.py, host_projection.py, and   *)
(* the routes of atri-engine's session.rs).  A sync sends what the cache   *)
(* says has changed, one command at a time; there is no lock around it, so *)
(* the syncs of several handlers interleave at every command.  A command   *)
(* may fail or time out, the handler may be cancelled with its client, and *)
(* the host may stop and start again.  What a reply stands for is HostIpc's*)
(* matter: here every reply is the one of its command.                     *)
(***************************************************************************)
EXTENDS Integers, FiniteSetsExt, Functions, Sequences

CONSTANTS Syncers,     \* handlers that edit and sync
          Order,       \* the tracks, as the project lists them
          Docs,        \* the projects the user goes through
          Empty,       \* the first of them
          MaxEdits, MaxFaults, MaxRestarts, MaxHostIds, \* bounds
          None

Tracks == {Order[i] : i \in DOMAIN Order}
HostIds == 1..MaxHostIds
Attributes == <<"kind", "route", "mix">> \* in the order of their commands

VARIABLES
    project, ids, \* the saved project, and its host_track_ids
    running, session, routes, next, \* the host: Session::routes, next_route_id
    cache, cacheSession, \* _host_sync_fingerprints of each generation
    generation,   \* the one that is current
    sync,         \* what each handler is doing
    edits, faults,
    doubts        \* history: entries of the cache nobody could keep true

saved == <<project, ids>>
host == <<running, session, routes, next>>
memory == <<cache, cacheSession, generation>>
vars == <<saved, host, memory, sync, edits, faults, doubts>>

Nothing == [k \in HostIds \X {"kind", "route", "mix"} |-> None]
Idle == [at |-> "idle"]
Syncing(s) == sync[s].at \notin {"idle", "begin"}
AtCommand(s) == sync[s].at \in {"status", "remove", "add", "send"}

\* master_bus and output_bus_id name a bus by its project id, the host by its own.
Projection(y, t, a) ==
    CASE a = "kind" -> y.doc[t].kind
      [] a = "route" -> IF y.doc[t].out = None THEN None ELSE y.ids[y.doc[t].out]
      [] a = "mix" -> y.doc[t].mix

----------------------------------------------------------------------------
(* The host. *)

\* The outputs one reaches from a route.
Reaches(from, id) ==
    LET hop[n \in 0..MaxHostIds] ==
            IF n = 0 THEN from
            ELSE LET r == hop[n - 1]
                 IN  IF r = None \/ r = id \/ routes[r] = None THEN r ELSE routes[r].out
    IN  hop[MaxHostIds] = id

Accepts(id, a, v) ==
    /\ routes[id] # None
    /\ (a = "route" /\ v # None) =>
        /\ routes[v] # None
        /\ routes[v].kind = "bus"
        /\ ~Reaches(v, id)

\* The command of the kind carries no output, and so takes the output away.
Carried(id, a, v) ==
    CASE a = "kind" -> [routes EXCEPT ![id] = [@ EXCEPT !.kind = v, !.out = None]]
      [] a = "route" -> [routes EXCEPT ![id] = [@ EXCEPT !.out = v]]
      [] a = "mix" -> [routes EXCEPT ![id] = [@ EXCEPT !.mix = v]]

Removed(id) ==
    [i \in HostIds |-> CASE i = id -> None
                         [] i # id /\ routes[i] # None /\ routes[i].out = id ->
                                [routes[i] EXCEPT !.out = None]
                         [] OTHER -> routes[i]]
Added == [routes EXCEPT ![next] = [kind |-> "track", out |-> None, mix |-> None]]
Present == {i \in HostIds : routes[i] # None}

----------------------------------------------------------------------------
(* One sync. *)

\* The commands of all tracks, one attribute after the other.  One is sent unless the
\* cache has its fingerprint, and in any case for a track that was added.
Attribute(i) == Attributes[((i - 1) \div Len(Order)) + 1]
Track(i) == Order[((i - 1) % Len(Order)) + 1]

(* Fault: routes are left to the cache after a kind was sent. *)
NeededByCache(y, c, i) ==
    /\ Track(i) \in y.routed
    /\ \/ Track(i) \in y.forced
       \/ c[<<y.ids[Track(i)], Attribute(i)>>] # <<Projection(y, Track(i), Attribute(i))>>

\* Routes are sent in any case when a kind was.
Needed(y, c, i) ==
    LET a == Attribute(i)
        t == Track(i)
    IN  /\ t \in y.routed
        /\ \/ t \in y.forced
           \/ a = "route" /\ y.kinds
           \/ c[<<y.ids[t], a>>] # <<Projection(y, t, a)>>

Send(y) == \* the command the sync is at
    LET a == Attribute(y.n)
        t == Track(y.n)
    IN  [id |-> y.ids[t], attribute |-> a, value |-> Projection(y, t, a)]

\* On to the next command that is needed, without an await in between.
Onward(y, c, from) ==
    LET left == {i \in from..(3 * Len(Order)) : Needed(y, c, i)}
    IN  IF left = {} THEN [y EXCEPT !.at = "commit"]
        ELSE [y EXCEPT !.at = "send", !.n = Min(left)]

WithoutTrack(c, id) == [k \in DOMAIN c |-> IF k[1] = id THEN None ELSE c[k]]

\* On to the next track the host does not have; the cache forgets its old id.
OnwardTracks(y, c, from) ==
    LET present(i) == y.doc[Order[i]] # None
        known(i) == y.ids[Order[i]] \in y.seen
        missing == {i \in from..Len(Order) : present(i) /\ ~known(i)}
        first == IF missing = {} THEN Len(Order) + 1 ELSE Min(missing)
        routed == y.routed \cup {Order[i] : i \in {j \in from..(first - 1) : present(j)}}
    IN  IF missing = {}
        THEN [sync |-> Onward([y EXCEPT !.routed = routed], c, 1), cache |-> c]
        ELSE [sync |-> [y EXCEPT !.at = "add", !.n = first, !.routed = routed],
              cache |-> IF y.ids[Order[first]] = None THEN c
                        ELSE WithoutTrack(c, y.ids[Order[first]])]

\* The state after a step of s that leaves it with y and its cache with c.
Continue(s, y, c) ==
    /\ sync' = [sync EXCEPT ![s] = y]
    /\ cache' = [cache EXCEPT ![sync[s].dict] = c]
    /\ UNCHANGED <<cacheSession, generation, saved, edits, running, session>>

Mine(s) == cache[sync[s].dict]
Current(s) == sync[s].dict = generation
Fault == faults < MaxFaults /\ faults' = faults + 1
Fine == UNCHANGED faults

----------------------------------------------------------------------------
Init ==
    /\ project = Empty /\ ids = [t \in Tracks |-> None]
    /\ running = FALSE /\ session = 0 /\ routes = [i \in HostIds |-> None] /\ next = 1
    /\ cache = [g \in 0..MaxRestarts |-> Nothing]
    /\ cacheSession = [g \in 0..MaxRestarts |-> None] /\ generation = 0
    /\ sync = [s \in Syncers |-> Idle]
    /\ edits = 0 /\ faults = 0 /\ doubts = {}

\* A handler saves a project, or reads it, before it syncs.
Edit(s, d) ==
    /\ sync[s].at = "idle" /\ edits < MaxEdits /\ d # project
    /\ project' = d
    /\ ids' = [t \in Tracks |-> IF d[t] # None /\ project[t] # None THEN ids[t] ELSE None]
    /\ sync' = [sync EXCEPT ![s] = [at |-> "begin", doc |-> d, ids |-> ids']]
    /\ edits' = edits + 1
    /\ UNCHANGED <<host, memory, faults, doubts>>

Load(s) ==
    /\ sync[s].at = "idle"
    /\ sync' = [sync EXCEPT ![s] = [at |-> "begin", doc |-> project, ids |-> ids]]
    /\ UNCHANGED <<saved, host, memory, edits, faults, doubts>>

\* Without a host the caches of all sessions are dropped; a sync under way keeps its own.
BeginWithoutHost(s) ==
    /\ sync[s].at = "begin" /\ ~running
    /\ generation < MaxRestarts \/ cacheSession[generation] = None
    /\ generation' = IF cacheSession[generation] = None THEN generation ELSE generation + 1
    /\ doubts' = {}
    /\ sync' = [sync EXCEPT ![s] = Idle]
    /\ UNCHANGED <<saved, host, cache, cacheSession, edits, faults>>

\* A cache of another session is emptied in place.
Begin(s) ==
    LET known == cacheSession[generation] = session
        alone == \A o \in Syncers : ~Syncing(o)
        y == [at |-> "compare", dict |-> generation, doc |-> sync[s].doc, ids |-> sync[s].ids,
              seen |-> {}, stale |-> {}, n |-> 1, routed |-> {}, forced |-> {},
              kinds |-> FALSE, changed |-> FALSE, cleared |-> {}, clean |-> alone]
    IN  /\ sync[s].at = "begin" /\ running
        /\ cache' = IF known THEN cache ELSE [cache EXCEPT ![generation] = Nothing]
        /\ cacheSession' = [cacheSession EXCEPT ![generation] = session]
        /\ doubts' = IF known THEN doubts ELSE {}
        /\ sync' = [o \in Syncers |-> CASE o = s -> y
                                        [] o # s /\ Syncing(o) -> [sync[o] EXCEPT !.clean = FALSE]
                                        [] OTHER -> sync[o]]
        /\ UNCHANGED <<saved, host, generation, edits, faults>>

\* _project_differs_from_saved_project, in a thread.
Compare(s) ==
    /\ sync[s].at = "compare"
    /\ sync' = [sync EXCEPT ![s].at = "status",
                            ![s].changed = sync[s].doc # project \/ sync[s].ids # ids]
    /\ UNCHANGED <<saved, host, memory, edits, faults, doubts>>

\* A status that does not come lists no tracks: all of them are added again.
Status(s, fails) ==
    LET y == sync[s]
        seen == IF fails THEN {} ELSE Present
        own == {y.ids[t] : t \in {u \in Tracks : y.doc[u] # None}}
        z == [y EXCEPT !.seen = seen, !.stale = seen \ own, !.clean = @ /\ ~fails]
        on == OnwardTracks(z, Mine(s), 1)
    IN  /\ y.at = "status" /\ running
        /\ IF fails THEN Fault ELSE Fine
        /\ IF z.stale = {} THEN Continue(s, on.sync, on.cache)
                           ELSE Continue(s, [z EXCEPT !.at = "remove"], Mine(s))
        /\ UNCHANGED <<routes, next, doubts>>

\* Tracks of the host that the project does not name are removed.
RemoveStale(s, fails, done) ==
    LET y == sync[s]
        id == Min(y.stale)
        ok == ~fails /\ routes[id] # None
        c == IF ok THEN WithoutTrack(Mine(s), id) ELSE Mine(s)
        z == [y EXCEPT !.stale = @ \ {id}, !.seen = IF ok THEN @ \ {id} ELSE @,
                       !.clean = @ /\ ok]
        on == OnwardTracks(z, c, 1)
    IN  /\ y.at = "remove" /\ running
        /\ done \/ fails
        /\ IF fails THEN Fault ELSE Fine
        /\ routes' = IF done /\ routes[id] # None THEN Removed(id) ELSE routes
        /\ IF z.stale = {} THEN Continue(s, on.sync, on.cache) ELSE Continue(s, z, c)
        /\ UNCHANGED <<next, doubts>>

\* A track whose addition has failed is left out of the rest of this sync.
AddTrack(s, fails, done) ==
    LET y == sync[s]
        t == Order[y.n]
        z == IF fails THEN [y EXCEPT !.clean = FALSE]
             ELSE [y EXCEPT !.ids = [@ EXCEPT ![t] = next], !.seen = @ \cup {next},
                            !.forced = @ \cup {t}, !.routed = @ \cup {t}, !.changed = TRUE]
        on == OnwardTracks(z, Mine(s), y.n + 1)
    IN  /\ y.at = "add" /\ running /\ next \in HostIds
        /\ done \/ fails
        /\ IF fails THEN Fault ELSE Fine
        /\ IF done THEN routes' = Added /\ next' = next + 1 ELSE UNCHANGED <<routes, next>>
        /\ Continue(s, on.sync, on.cache)
        /\ UNCHANGED doubts

\* _send_changed_host_command: the entry is set when a reply came, dropped when an
\* error did.  What a sync of an older generation does is not in the current cache.
SendChanged(s, fails, done) ==
    LET y == sync[s]
        m == Send(y)
        key == <<m.id, m.attribute>>
        does == done /\ Accepts(m.id, m.attribute, m.value)
        ok == does /\ ~fails
        c == [Mine(s) EXCEPT ![key] = IF ok THEN <<m.value>> ELSE None]
        z == [y EXCEPT !.kinds = @ \/ m.attribute = "kind",
                       !.cleared = CASE m.attribute = "kind" -> @ \cup {m.id}
                                     [] m.attribute = "route" -> @ \ {m.id}
                                     [] OTHER -> @,
                       !.clean = @ /\ ok]
    IN  /\ y.at = "send" /\ running
        /\ done \/ fails
        /\ IF fails THEN Fault ELSE Fine
        /\ routes' = IF does THEN Carried(m.id, m.attribute, m.value) ELSE routes
        /\ Continue(s, Onward(z, c, y.n + 1), c)
        /\ doubts' = CASE Current(s) -> doubts \ {key}
                       [] ~Current(s) /\ does -> doubts \cup ({m.id} \X {m.attribute, "route"})
                       [] OTHER -> doubts
        /\ UNCHANGED next

\* _commit_host_sync_project: the track ids go into the project as it is by now.
Commit(s) ==
    LET y == sync[s]
    IN  /\ y.at = "commit"
        /\ ids' = [t \in Tracks |-> IF y.changed /\ project[t] # None /\ y.doc[t] # None
                                    THEN y.ids[t] ELSE ids[t]]
        /\ sync' = [sync EXCEPT ![s] = Idle]
        /\ UNCHANGED <<project, host, memory, edits, faults, doubts>>

----------------------------------------------------------------------------
(* What cuts a sync short. *)

\* Outputs it took away and has not sent again, and the command it was waiting for.
Doubtful(y, sent) ==
    {<<id, "route">> : id \in y.cleared}
    \cup IF sent THEN {<<Send(y).id, Send(y).attribute>>, <<Send(y).id, "route">>} ELSE {}

\* The client leaves, and Quart cancels the handler: the host may have the command.
Cancel(s, done) ==
    LET y == sync[s]
        m == Send(y)
        does == done /\ y.at = "send" /\ Accepts(m.id, m.attribute, m.value)
    IN  /\ AtCommand(s) /\ running /\ Fault
        /\ done => y.at # "status" /\ (y.at = "add" => next \in HostIds)
        /\ routes' = CASE does -> Carried(m.id, m.attribute, m.value)
                       [] done /\ y.at = "remove" /\ routes[Min(y.stale)] # None ->
                              Removed(Min(y.stale))
                       [] done /\ y.at = "add" -> Added
                       [] OTHER -> routes
        /\ next' = IF done /\ y.at = "add" THEN next + 1 ELSE next
        /\ doubts' = doubts \cup Doubtful(y, does)
        /\ sync' = [sync EXCEPT ![s] = Idle]
        /\ UNCHANGED <<saved, running, session, memory, edits>>

\* send_command raises when the host is gone.
Raise(s) ==
    /\ AtCommand(s) /\ ~running
    /\ doubts' = doubts \cup Doubtful(sync[s], FALSE)
    /\ sync' = [sync EXCEPT ![s] = Idle]
    /\ UNCHANGED <<saved, host, memory, edits, faults>>

HostStops ==
    /\ running
    /\ running' = FALSE
    /\ routes' = [i \in HostIds |-> None] /\ next' = 1
    /\ sync' = [s \in Syncers |->
                   IF Syncing(s) THEN [sync[s] EXCEPT !.clean = FALSE] ELSE sync[s]]
    /\ UNCHANGED <<saved, session, memory, edits, faults, doubts>>

HostStarts ==
    /\ ~running /\ session <= MaxRestarts
    /\ running' = TRUE /\ session' = session + 1
    /\ UNCHANGED <<saved, routes, next, memory, sync, edits, faults, doubts>>

----------------------------------------------------------------------------
Next ==
    \/ \E s \in Syncers, d \in Docs : Edit(s, d)
    \/ \E s \in Syncers : Load(s)
    \/ \E s \in Syncers : BeginWithoutHost(s)
    \/ \E s \in Syncers : Begin(s)
    \/ \E s \in Syncers : Compare(s)
    \/ \E s \in Syncers, fails \in BOOLEAN : Status(s, fails)
    \/ \E s \in Syncers, fails, done \in BOOLEAN : RemoveStale(s, fails, done)
    \/ \E s \in Syncers, fails, done \in BOOLEAN : AddTrack(s, fails, done)
    \/ \E s \in Syncers, fails, done \in BOOLEAN : SendChanged(s, fails, done)
    \/ \E s \in Syncers : Commit(s)
    \/ \E s \in Syncers, done \in BOOLEAN : Cancel(s, done)
    \/ \E s \in Syncers : Raise(s)
    \/ HostStops
    \/ HostStarts

Spec == Init /\ [][Next]_vars

----------------------------------------------------------------------------
TypeOK ==
    LET routing == [kind : {"track", "bus"}, out : HostIds \cup {None}, mix : STRING \cup {None}]
        known == [Tracks -> HostIds \cup {None}]
    IN  /\ project \in Docs /\ ids \in known
        /\ running \in BOOLEAN /\ session \in 0..(MaxRestarts + 1)
        /\ \A i \in HostIds : routes[i] = None \/ routes[i] \in routing
        /\ next \in 1..(MaxHostIds + 1)
        /\ generation \in DOMAIN cache /\ DOMAIN cacheSession = DOMAIN cache
        /\ edits \in 0..MaxEdits /\ faults \in 0..MaxFaults
        /\ doubts \subseteq DOMAIN Nothing
        /\ \A s \in Syncers :
            /\ sync[s].at \in {"idle", "begin", "compare", "status", "remove", "add", "send",
                              "commit"}
            /\ sync[s].at # "idle" => sync[s].doc \in Docs /\ sync[s].ids \in known
            /\ Syncing(s) => /\ sync[s].dict \in 0..generation
                            /\ sync[s].stale \cup sync[s].seen \subseteq HostIds
                            /\ sync[s].forced \subseteq sync[s].routed
                            /\ sync[s].cleared \subseteq HostIds

\* Whatever syncs overlapped, failed or were cancelled before, a sync that runs alone
\* and gets no error leaves on the host the tracks of its project and no other, with
\* the kind, the outputs and the mix the project gives them - but for the entries of
\* the cache that a sync cut short could no longer correct, and where an id that was
\* saved in an earlier session of the host is now another track's.
SyncedHostIsCurrent ==
    \A s \in Syncers : (sync[s].at = "commit" /\ sync[s].clean) =>
        LET y == sync[s]
            present == {t \in Tracks : y.doc[t] # None}
        IN  IsInjective([t \in present |-> y.ids[t]]) =>
            /\ Present = {y.ids[t] : t \in present}
            /\ \A t \in present :
                LET r == routes[y.ids[t]]
                    sure(a) == <<y.ids[t], a>> \notin doubts
                IN  /\ sure("kind") => r.kind = y.doc[t].kind
                    /\ sure("route") => r.out = Projection(y, t, "route")
                    /\ sure("mix") => r.mix = y.doc[t].mix
=============================================================================

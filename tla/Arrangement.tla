------------------------------ MODULE Arrangement ------------------------------
(***************************************************************************)
(* The tracks of a studio project: track_operations.py and                 *)
(* automation_operations.py, what normalize_project (project_model.py,     *)
(* track_model.py) makes of the list each time it is saved, and the        *)
(* handlers of dashboard/music.py that take several steps.  Clips, points  *)
(* and sounds are left out; the tracks, their numbers, types, slots and    *)
(* routes are what matters here.                                           *)
(***************************************************************************)
EXTENDS Integers, FiniteSetsExt, SequencesExt

CONSTANTS Types,    \* of "instrument", "bus", "audio", "automation", those in use
          Inserts,  \* slots a plugin may be inserted in
          HostIds,  \* numbers the audio host may give its tracks
          MaxId, MaxSends, \* bounds on the numbers of tracks, on the sends of one
          None

Numbers == 1..MaxId
Slots == {"instrument"} \cup Inserts

VARIABLES
    tracks, \* project["tracks"]
    job     \* a request that works in two steps, and the track it has created

vars == <<tracks, job>>

Idle == [at |-> "idle"]
TrackIds(list) == {list[i].id : i \in DOMAIN list}
Buses(list) == {list[i].id : i \in {k \in DOMAIN list : list[k].type = "bus"}}
OutputOf(list, n) ==
    LET i == SelectInSeq(list, LAMBDA t : t.id = n) IN IF i = 0 THEN None ELSE list[i].out

----------------------------------------------------------------------------
(* normalize_project. *)

\* A number that is taken gives way to the next free one.
NumberedBy(list, t) ==
    LET free == {n \in t.id..(t.id + Len(list)) : n \notin TrackIds(list)}
    IN  Append(list, [t EXCEPT !.id = Min(free)])
Numbered(list) == FoldLeft(NumberedBy, <<>>, list)

\* What a track keeps, by its type.
SlotsFor(type, slots) ==
    CASE type = "instrument" -> slots \cup {"instrument"}
      [] type = "bus" -> slots \ {"instrument"}
      [] OTHER -> {}

Typed(t) ==
    IF t.type = "automation"
    THEN [t EXCEPT !.host = None, !.sends = <<>>, !.slots = {}]
    ELSE [t EXCEPT !.slots = SlotsFor(t.type, t.slots), !.target = None]

\* _repair_output_bus_routing: an output leads to another track, a bus ...
PointedAtBuses(list) ==
    [i \in DOMAIN list |->
        IF list[i].out \in Buses(list) \ {list[i].id} THEN list[i]
        ELSE [list[i] EXCEPT !.out = None]]

\* ... and what runs into a circle of outputs loses its own.
RunsInCircle(list, n) ==
    LET hop[k \in 0..Len(list)] ==
            IF k = 0 THEN n
            ELSE IF hop[k - 1] = None THEN None ELSE OutputOf(list, hop[k - 1])
    IN  hop[Len(list)] # None
OutputsRepaired(list) ==
    LET led == PointedAtBuses(list)
    IN  [i \in DOMAIN led |->
            IF RunsInCircle(led, led[i].id) THEN [led[i] EXCEPT !.out = None] ELSE led[i]]

\* Fault: one hop is looked at.
ReachesInOneHop(edges, from, to) == from = to \/ <<from, to>> \in edges

\* _route_reaches, over the outputs and the sends that have been let through.
Outputs(list) == {<<list[i].id, list[i].out>> : i \in {k \in DOMAIN list : list[k].out # None}}
RouteReaches(edges, from, to) ==
    LET reached[k \in Nat] ==
            IF k = 0 THEN {from}
            ELSE reached[k - 1] \cup {e[2] : e \in {d \in edges : d[1] \in reached[k - 1]}}
    IN  to \in reached[Cardinality(edges)]

\* _repair_track_sends: in the order of the tracks, those that would close a circle go.
SendsRepaired(list) ==
    LET wanted == FlattenSeq([i \in DOMAIN list |->
                      [j \in DOMAIN list[i].sends |-> <<list[i].id, list[i].sends[j]>>]])
        Let(kept, e) ==
            IF /\ e[2] \in Buses(list) \ {e[1]}
               /\ ~RouteReaches(Outputs(list) \cup kept, e[2], e[1])
            THEN kept \cup {e} ELSE kept
        kept == FoldLeft(Let, {}, wanted)
    IN  [i \in DOMAIN list |->
            [list[i] EXCEPT !.sends = SelectSeq(@, LAMBDA b : <<list[i].id, b>> \in kept)]]

NormalizeTracks(list) ==
    SendsRepaired(OutputsRepaired([i \in DOMAIN list |-> Typed(Numbered(list)[i])]))

----------------------------------------------------------------------------
(* The operations: under the lock of the project they read it, change it,   *)
(* and save its normal form.                                                 *)

\* find_track: the number of the project first, then that of the host.
Named(n) == {i \in DOMAIN tracks : tracks[i].id = n}
HostNamed(n) == {i \in DOMAIN tracks : tracks[i].host = n}
FindTrack(n) ==
    IF Named(n) # {} THEN Min(Named(n))
    ELSE IF HostNamed(n) # {} THEN Min(HostNamed(n)) ELSE 0

Save(list) == tracks' = NormalizeTracks(list)

NextId == Max({0} \cup TrackIds(tracks)) + 1

NewTrack(type, target) ==
    [id |-> NextId, host |-> None, type |-> type, out |-> None, sends |-> <<>>,
     slots |-> SlotsFor(type, {}), target |-> target]

Targets == Numbers \cup {None}
SendLists == UNION {{s \in [1..k -> Numbers] : IsInjective(s)} : k \in 0..MaxSends}

\* POST /studio/tracks: create_track, and update_track where routes are given.
CreateTrack(type, out, sends) ==
    /\ job = Idle /\ NextId \in Numbers
    /\ Save(Append(tracks, NewTrack(type, IF type = "automation" THEN 1 ELSE None)))
    /\ IF out = None /\ sends = <<>> THEN UNCHANGED job
       ELSE job' = [at |-> "routing", id |-> NextId, out |-> out, sends |-> sends]

Routed(i, out, sends) == [tracks EXCEPT ![i] = [@ EXCEPT !.out = out, !.sends = sends]]
RouteCreated ==
    /\ job.at = "routing"
    /\ LET i == FindTrack(job.id)
       IN  IF i = 0 THEN UNCHANGED tracks ELSE Save(Routed(i, job.out, job.sends))
    /\ job' = Idle

\* _finish_audio_import: import_audio_clip, a sync, and back if the host refused it.
ImportAudioClip ==
    /\ "audio" \in Types
    /\ job = Idle /\ NextId \in Numbers
    /\ Save(Append(tracks, NewTrack("audio", None)))
    /\ job' = [at |-> "importing", id |-> NextId]

\* delete_track, of the last track refused.
Without(list, n) ==
    LET cut(t) == [t EXCEPT !.out = IF @ = n THEN None ELSE @, !.sends = Remove(@, n)]
        left == SelectSeq(list, LAMBDA t : t.id # n)
    IN  [i \in DOMAIN left |-> cut(left[i])]
Deletion(n) ==
    LET i == FindTrack(n)
    IN  IF i = 0 \/ Len(tracks) <= 1 THEN UNCHANGED tracks ELSE Save(Without(tracks, tracks[i].id))

DeleteTrack(n) == Deletion(n) /\ UNCHANGED job

ImportEnds ==
    /\ job.at = "importing"
    /\ UNCHANGED tracks \/ Deletion(job.id)
    /\ job' = Idle

\* update_track: any of routes, sends and type at once.
UpdateTrack(n, out, sends, type) ==
    /\ FindTrack(n) # 0
    /\ LET t == tracks[FindTrack(n)]
           slots == IF type = t.type THEN t.slots
                    ELSE IF type = "audio" THEN {}
                    ELSE SlotsFor(IF type = "bus" THEN "bus" ELSE "instrument", t.slots)
       IN  Save([tracks EXCEPT ![FindTrack(n)] =
                    [t EXCEPT !.out = out, !.sends = sends, !.type = type, !.slots = slots,
                              !.target = IF type = t.type THEN @ ELSE 1]])
    /\ UNCHANGED job

\* set_track_plugin: an insert; the instrument of an instrument track is always there.
SetTrackPlugin(n, slot) ==
    /\ FindTrack(n) # 0
    /\ tracks[FindTrack(n)].type \in {"instrument", "bus"}
    /\ Save([tracks EXCEPT ![FindTrack(n)].slots = @ \cup {slot}])
    /\ UNCHANGED job

\* automation_write without a track, and of one; automation_retarget.
WriteAutomation(target) ==
    /\ "automation" \in Types /\ NextId \in Numbers
    /\ Save(Append(tracks, NewTrack("automation", target)))
    /\ UNCHANGED job

RetargetAutomation(n, target) ==
    /\ FindTrack(n) # 0
    /\ tracks[FindTrack(n)].type = "automation"
    /\ Save([tracks EXCEPT ![FindTrack(n)].target = target])
    /\ UNCHANGED job

\* _merge_host_sync_metadata: a sync that ends tells the number a track has in the host.
MergeHostSync(n, h) ==
    /\ Named(n) # {}
    /\ Save([tracks EXCEPT ![FindTrack(n)].host = h])
    /\ UNCHANGED job

----------------------------------------------------------------------------
Starter(n) == [id |-> n, host |-> None, type |-> "instrument", out |-> None, sends |-> <<>>,
               slots |-> {"instrument"}, target |-> None]
Init == tracks = <<Starter(1), Starter(2)>> /\ job = Idle

Kept(n, field) == tracks[FindTrack(n)][field]
Next ==
    \/ \E type \in Types, out \in Targets : CreateTrack(type, out, <<>>)
    \/ \E type \in Types, sends \in SendLists : CreateTrack(type, None, sends)
    \/ RouteCreated
    \/ ImportAudioClip \/ ImportEnds
    \/ \E n \in Numbers \cup HostIds :
         /\ FindTrack(n) # 0
         /\ \/ DeleteTrack(n)
            \/ \E out \in Targets : UpdateTrack(n, out, Kept(n, "sends"), Kept(n, "type"))
            \/ \E sends \in SendLists : UpdateTrack(n, Kept(n, "out"), sends, Kept(n, "type"))
            \/ \E type \in Types, out \in Targets :
                 UpdateTrack(n, out, Kept(n, "sends"), type)
            \/ \E slot \in Inserts : SetTrackPlugin(n, slot)
            \/ \E target \in Targets : RetargetAutomation(n, target)
            \/ \E h \in HostIds : MergeHostSync(n, h)
    \/ \E target \in Targets : WriteAutomation(target)

Spec == Init /\ [][Next]_vars

----------------------------------------------------------------------------
Track == [id : Numbers, host : HostIds \cup {None}, type : Types, out : Targets,
          sends : SendLists, slots : SUBSET Slots, target : Targets]
TypeOK ==
    /\ \A i \in DOMAIN tracks : tracks[i] \in Track
    /\ \/ job = Idle
       \/ job \in [at : {"routing"}, id : Numbers, out : Targets, sends : SendLists]
       \/ job \in [at : {"importing"}, id : Numbers]

Routes == Outputs(tracks) \cup {<<tracks[i].id, tracks[i].sends[j]>> :
                                  <<i, j>> \in {p \in (1..MaxId) \X (1..MaxId) :
                                      p[1] <= Len(tracks) /\ p[2] <= Len(tracks[p[1]].sends)}}

\* Whatever has been edited, no two tracks share a number, sound flows to buses and
\* never in a circle, and what is saved is its own normal form: it reads back as it
\* was written (normalize_project), so its revision stays.
RoutingIsSound ==
    /\ \A i, j \in DOMAIN tracks : tracks[i].id = tracks[j].id => i = j
    /\ \A r \in Routes : r[2] \in Buses(tracks)
    /\ \E rank \in [Numbers -> Numbers] : \A r \in Routes : rank[r[1]] < rank[r[2]]
    /\ NormalizeTracks(tracks) = tracks

\* A step works on one track: of the others, none changes its number and none is
\* changed but for the routes that are cut; and an import that is taken back takes
\* back what it brought, or nothing of what it brought is left (track_operations.py,
\* _finish_audio_import).
Content(list, n) ==
    LET t == list[SelectInSeq(list, LAMBDA u : u.id = n)]
    IN  [t EXCEPT !.out = None, !.sends = <<>>]
EditsStayLocal ==
    LET before == TrackIds(tracks)
        after == TrackIds(tracks')
        touched == {n \in before \cap after : Content(tracks, n) # Content(tracks', n)}
    IN  /\ Cardinality(SymDiff(before, after) \cup touched) <= 1
        /\ /\ job.at = "importing" /\ job' = Idle /\ before # after
           => job.id \in before \ after \/ job.id \notin before
=============================================================================

------------------------------ MODULE StudioExport ------------------------------
(* What the studio writes out of a project (dashboard/music.py): the audio    *)
(* host renders a mixdown or one file per track, which may be encoded and     *)
(* packed; MIDI and DAWproject files are written from the project itself.     *)
(* Everything about the host is awaited, so edits, syncs of other requests    *)
(* and the end of the host come in between.  A plugin in a DAW (an instance   *)
(* of the bridge) tells what is selected there for some seconds, asks for an  *)
(* export, and later reads the latest one that was made for it.               *)
EXTENDS Integers, FiniteSets, Sequences

CONSTANTS
    Tracks,       \* the numbers tracks may have
    Instances,    \* instances of the bridge
    Exports,      \* the exports asked for
    Formats,      \* the formats and modes they may have
    Modes,
    Global,       \* the name of the file all instances share
    None,
    MaxEdits,     \* edits of the project
    MaxSyncs,     \* syncs of other requests, and starts of the host
    MaxAge,       \* steps of time a selection is good for
    MaxContexts   \* selections kept

\* The file all instances share is of none of them, no export is none.
ExportAssumption == /\ IsFiniteSet(Tracks) /\ IsFiniteSet(Instances) /\ MaxContexts \in Nat
                    /\ Global \notin Instances /\ None \notin Exports

VARIABLES
    project,  \* the states of the saved project, oldest first: sets of tracks
    bound,    \* the tracks of the saved project that have a number of the host
    host,     \* None, or the state of the project the host plays; 0 = nothing
    syncs,    \* syncs and starts so far
    contexts, \* per instance: None, or the tracks selected there, and since when
    export,   \* per export: how far it is
    disk,     \* the files in the export directory
    latest,   \* per name: the export the file tells of, None if there is no file
    finished  \* the exports of instances, in the order they were finished

vars == <<project, bound, host, syncs, contexts, export, disk, latest, finished>>

Failed == [at |-> "failed"]
\* The tracks of the nth state; the host starts without any.
TracksAt(n) == IF n = 0 THEN {} ELSE project[n]
Saved == Len(project)
Unfinished(e) == export[e].at \in {"syncing", "rendering", "encoding", "noting"}

File(e, kind, t) == [of |-> e, kind |-> kind, track |-> t]
\* One file holds the export: the archive of the stems, the mixdown, the MIDI file.
Product(e) ==
    File(e, IF export[e].mode = "stems" THEN "zip" ELSE export[e].format, None)

Init ==
    /\ project = <<Tracks>> /\ bound = {} /\ host = 0 /\ syncs = 0
    /\ contexts = [i \in Instances |-> None]
    /\ export = [e \in Exports |-> [at |-> "unasked"]]
    /\ disk = {} /\ latest = [n \in Instances \cup {Global} |-> None] /\ finished = <<>>

\* Tracks are added and deleted; a track keeps at least one.
Edit(tracks) ==
    /\ Saved <= MaxEdits /\ tracks # {}
    /\ project' = Append(project, tracks) /\ bound' = bound \cap tracks
    /\ UNCHANGED <<host, syncs, contexts, export, disk, latest, finished>>

\* What an export renders may no longer be what it brought to the host.
Overtaken == [e \in Exports |->
    IF export[e].at \in {"rendering", "encoding"} THEN [export[e] EXCEPT !.overtaken = TRUE]
    ELSE export[e]]

\* Fault: a host that has something is taken to have everything.
TakeOnce(n) ==
    /\ host' = IF host = 0 THEN n ELSE host
    /\ bound' = bound \cup (TracksAt(n) \cap TracksAt(Saved))
\* The host takes the state n of the project, and the saved project the host's numbers.
Take(n) == host' = n /\ bound' = bound \cup (TracksAt(n) \cap TracksAt(Saved))

\* Another request brings the state it has loaded to the host, be it old by now.
SyncElsewhere(n) ==
    /\ syncs < MaxSyncs /\ host # None /\ syncs' = syncs + 1
    /\ n \in 1..Saved /\ Take(n) /\ export' = Overtaken
    /\ UNCHANGED <<project, contexts, disk, latest, finished>>

HostStops ==
    /\ host # None /\ host' = None
    /\ UNCHANGED <<project, bound, syncs, contexts, export, disk, latest, finished>>
HostStarts ==
    /\ host = None /\ syncs < MaxSyncs /\ syncs' = syncs + 1
    /\ host' = 0 /\ export' = Overtaken
    /\ UNCHANGED <<project, bound, contexts, disk, latest, finished>>

(* ------------------------------ Selections ------------------------------- *)
Expired(context) == context # None /\ context.age >= MaxAge
\* record_bridge_host_context drops what is expired and, beyond the limit, the oldest.
Pruned(kept) == [i \in Instances |-> IF Expired(kept[i]) THEN None ELSE kept[i]]
Trimmed(kept) ==
    LET there == {i \in Instances : kept[i] # None}
    IN  {[i \in Instances |-> IF i = oldest THEN None ELSE kept[i]] :
            oldest \in {i \in there : Cardinality(there) > MaxContexts
                            /\ \A j \in there : kept[j].age <= kept[i].age}}
        \cup (IF Cardinality(there) > MaxContexts THEN {} ELSE {kept})

Record(i, tracks) ==
    /\ contexts' \in Trimmed([Pruned(contexts) EXCEPT ![i] = [tracks |-> tracks, age |-> 0]])
    /\ UNCHANGED <<project, bound, host, syncs, export, disk, latest, finished>>
Tick ==
    /\ \E i \in Instances : contexts[i] # None /\ ~Expired(contexts[i])
    /\ contexts' = [i \in Instances |->
            IF contexts[i] = None \/ Expired(contexts[i]) THEN contexts[i]
            ELSE [contexts[i] EXCEPT !.age = @ + 1]]
    /\ UNCHANGED <<project, bound, host, syncs, export, disk, latest, finished>>

\* What the instance said last, unless it is expired: then it is forgotten.
Selected(i) == IF i = None \/ contexts[i] = None \/ Expired(contexts[i]) THEN {}
               ELSE contexts[i].tracks
Looked(i) == IF i = None THEN contexts
             ELSE [contexts EXCEPT ![i] = IF Expired(@) THEN None ELSE @]

(* -------------------------------- Exports -------------------------------- *)
\* The tracks an export is about: those it names, which fail it when one is missing;
\* else the selection of its instance as far as it is in the project; else all.
Chosen(asked, selected, tracks) ==
    IF asked # {} THEN (IF asked \subseteq tracks THEN asked ELSE {})
    ELSE IF selected \cap tracks # {} THEN selected \cap tracks ELSE tracks

Request(e, mode, format, of, asked) ==
    [at |-> "syncing", mode |-> mode, format |-> format, of |-> of, asked |-> asked,
     selected |-> Selected(of), loaded |-> Saved, tracks |-> {}, named |-> FALSE, left |-> {},
     parts |-> {}, part |-> None, overtaken |-> FALSE]

\* An export for an instance is remembered before its handler lets anything else run.
After(e) == IF export[e].of = None THEN "done" ELSE "noting"

MidiFiles(e) == {File(e, "midi", None), File(e, "manifest", None)}
DawprojectFiles(e) == {File(e, "dawproject", None)}
\* MIDI and DAWproject files are written in one go, with the saved project as it is.
Write(e, format, of, asked) ==
    LET request == Request(e, "mixdown", format, of, asked)
        tracks == Chosen(asked, request.selected, TracksAt(Saved))
    IN  /\ export[e].at = "unasked" /\ format \in {"midi", "dawproject"}
        /\ contexts' = Looked(of)
        /\ IF tracks = {} THEN /\ export' = [export EXCEPT ![e] = Failed]
                               /\ UNCHANGED disk
           ELSE /\ export' = [export EXCEPT ![e] = [request EXCEPT
                        !.at = IF of = None THEN "done" ELSE "noting", !.tracks = tracks,
                        !.parts = {[track |-> t, of |-> Saved] : t \in tracks}]]
                /\ disk' = disk \cup (IF format = "midi" THEN MidiFiles(e) ELSE DawprojectFiles(e))
        /\ UNCHANGED <<project, bound, host, syncs, latest, finished>>

\* Audio needs the host: the project is loaded, the selection read, the sync awaited.
Begin(e, mode, format, of, asked) ==
    /\ export[e].at = "unasked" /\ format \in {"wav", "flac"}
    /\ IF host = None
       THEN export' = [export EXCEPT ![e] = Failed] /\ UNCHANGED contexts
       ELSE /\ export' = [export EXCEPT ![e] = Request(e, mode, format, of, asked)]
            /\ contexts' = Looked(of)
    /\ UNCHANGED <<project, bound, host, syncs, disk, latest, finished>>

\* Every track to be rendered must have a number of the host.
Exportable(tracks) == tracks # {} /\ tracks \subseteq bound'

\* The host has what was loaded.  Which tracks are meant is settled with the project as
\* it is saved now; each must have a number of the host.  The archive is opened.
Synced(e) ==
    LET tracks == Chosen(export[e].asked, export[e].selected, TracksAt(Saved))
    IN  /\ export[e].at = "syncing"
        /\ IF host = None THEN export' = [export EXCEPT ![e] = Failed]
                         /\ UNCHANGED <<bound, host, disk>>
           ELSE /\ Take(export[e].loaded)
                /\ IF ~Exportable(tracks)
                   THEN export' = [Overtaken EXCEPT ![e] = Failed] /\ UNCHANGED disk
                   ELSE /\ export' = [Overtaken EXCEPT ![e] = [@ EXCEPT !.at = "rendering",
                                !.tracks = tracks, !.left = tracks,
                                !.named = tracks # TracksAt(Saved) \/ export[e].asked # {}]]
                        /\ disk' = disk \cup (IF export[e].mode = "stems" THEN {Product(e)} ELSE {})
        /\ UNCHANGED <<project, syncs, contexts, latest, finished>>

\* The tracks of the file that comes next: all of them, or the next one of the stems.
NextTracks(e) == IF export[e].mode = "stems" THEN {{t} : t \in export[e].left}
                 ELSE {export[e].tracks}
Name(e, tracks) == IF export[e].mode = "stems" THEN CHOOSE t \in tracks : TRUE ELSE None

\* A file is there: it goes into the archive and is deleted, or it is the mixdown; after
\* the last one the export is done, and remembered for the instance it is of.
Keep(e, tracks, shown, files) ==
    LET left == export[e].left \ tracks
        parts == export[e].parts \cup {[track |-> t, of |-> shown] : t \in tracks}
        file == File(e, export[e].format, Name(e, tracks))
    IN  /\ export' = [export EXCEPT ![e] = [@ EXCEPT
                !.at = IF left = {} THEN After(e) ELSE "rendering",
                !.left = left, !.parts = parts, !.part = None]]
        /\ disk' = IF export[e].mode = "stems" THEN files \ {file} ELSE files \cup {file}

\* The host renders the tracks to a wav file, if it has them; a mixdown of the whole
\* project names no track, so it is of whatever the host has.
Render(e, tracks) ==
    /\ export[e].at = "rendering" /\ tracks \in NextTracks(e)
    /\ IF \/ host = None
          \/ (export[e].mode = "stems" \/ export[e].named) /\ ~(tracks \subseteq TracksAt(host))
       THEN export' = [export EXCEPT ![e] = Failed] /\ UNCHANGED disk
       ELSE IF export[e].format = "wav" THEN Keep(e, tracks, host, disk)
       ELSE /\ export' = [export EXCEPT ![e] = [@ EXCEPT !.at = "encoding",
                                                        !.part = [tracks |-> tracks, of |-> host]]]
            /\ disk' = disk \cup {File(e, "wav", Name(e, tracks))}
    /\ UNCHANGED <<project, bound, host, syncs, contexts, latest, finished>>

\* ffmpeg has written the file, and the wav is deleted; when it fails the wav stays.
Encode(e, succeeds) ==
    LET part == export[e].part
    IN  /\ export[e].at = "encoding"
        /\ IF succeeds
           THEN Keep(e, part.tracks, part.of, disk \ {File(e, "wav", Name(e, part.tracks))})
           ELSE export' = [export EXCEPT ![e] = Failed] /\ UNCHANGED disk
        /\ UNCHANGED <<project, bound, host, syncs, contexts, latest, finished>>

\* _remember_bridge_export writes the file of all instances, then the one of its instance.
NoteGlobal(e) ==
    /\ export[e].at = "noting" /\ latest[Global] # e
    /\ latest' = [latest EXCEPT ![Global] = e] /\ finished' = Append(finished, e)
    /\ UNCHANGED <<project, bound, host, syncs, contexts, export, disk>>
NoteOwn(e) ==
    /\ export[e].at = "noting" /\ latest[Global] = e
    /\ latest' = [latest EXCEPT ![export[e].of] = e]
    /\ export' = [export EXCEPT ![e].at = "done"]
    /\ UNCHANGED <<project, bound, host, syncs, contexts, disk, finished>>

\* With the program, the host ends, and selections and exports are gone; files stay.
Crash ==
    /\ \E e \in Exports : Unfinished(e)
    /\ contexts' = [i \in Instances |-> None] /\ host' = None
    /\ export' = [e \in Exports |->
            IF export[e].at = "noting" THEN [export[e] EXCEPT !.at = "cut"]
            ELSE IF Unfinished(e) THEN Failed ELSE export[e]]
    /\ UNCHANGED <<project, bound, syncs, disk, latest, finished>>

Next ==
    IF \E e \in Exports : export[e].at = "noting"
    THEN (\E e \in Exports : NoteGlobal(e) \/ NoteOwn(e)) \/ Crash
    ELSE \/ \E tracks \in SUBSET Tracks : Edit(tracks)
         \/ \E n \in 1..Saved : SyncElsewhere(n)
         \/ HostStops \/ HostStarts \/ Tick \/ Crash
         \/ \E i \in Instances, t \in Tracks : Record(i, {t})
         \/ \E e \in Exports, of \in Instances \cup {None}, asked \in {{}} \cup {{t} : t \in Tracks} :
                \/ \E format \in Formats : Write(e, format, of, asked)
                \/ \E mode \in Modes, format \in Formats :
                        Begin(e, mode, format, of, asked)
         \/ \E e \in Exports : Synced(e)
         \/ \E e \in Exports, tracks \in SUBSET Tracks : Render(e, tracks)
         \/ \E e \in Exports, succeeds \in BOOLEAN : Encode(e, succeeds)

Spec == Init /\ [][Next]_vars

(* ------------------------------ Properties ------------------------------- *)
Done(e) == export[e].at \in {"noting", "done"}
\* A finished export has one part for each of its tracks and no other, is there as one
\* file, and has left no part of it behind (_perform_stems_export, _perform_mixdown_export).
ExportsAreWhole == \A e \in Exports : Done(e) =>
    /\ {p.track : p \in export[e].parts} = export[e].tracks
    /\ Cardinality(export[e].parts) = Cardinality(export[e].tracks)
    /\ {f \in disk : f.of = e /\ f.kind # "manifest"} = {Product(e)}
\* Unless another request has brought something to the host or started it meanwhile, an
\* export shows the project as it was when it was asked for (_studio_export_payload).
ExportsShowTheProject == \A e \in Exports : Done(e) /\ ~export[e].overtaken =>
    \A p \in export[e].parts : p.of = export[e].loaded
\* What an export names is never rendered as something the host does not have.
NamedTracksAreThere == \A e \in Exports : Done(e) /\ export[e].named =>
    \A p \in export[e].parts : p.track \in TracksAt(p.of)
\* An instance reads the newest export made for it, never another's, and its file exists;
\* only a crash just before the file of the instance is written leaves the one before
\* (_remember_bridge_export, _load_latest_bridge_export).
\* The file is believed only if the export it tells of is still there.
Latest(n) == IF latest[n] # None /\ Product(latest[n]) \in disk THEN latest[n] ELSE None
\* The places in `finished` of what is done for an instance.
Mine(i) == {k \in DOMAIN finished : export[finished[k]].at = "done" /\ export[finished[k]].of = i}
LatestIsOwn ==
    /\ \A i \in Instances :
            \/ Mine(i) = {} /\ Latest(i) = None
            \/ \E k \in Mine(i) : Latest(i) = finished[k] /\ \A j \in Mine(i) : j <= k
    /\ Latest(Global) = IF finished = <<>> THEN None ELSE finished[Len(finished)]
\* A selection is used only as long as it is good, and no more are kept than the limit
\* (bridge_host_context_for_instance, record_bridge_host_context).
ContextsAreFew == Cardinality({i \in Instances : contexts[i] # None}) <= MaxContexts
ExportsHold == ExportsAreWhole /\ ExportsShowTheProject /\ NamedTracksAreThere
               /\ LatestIsOwn /\ ContextsAreFew
=============================================================================

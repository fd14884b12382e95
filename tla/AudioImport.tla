------------------------------ MODULE AudioImport ------------------------------
(* Audio files brought into a project (dashboard/music.py): the file is saved,*)
(* a track with one clip of it is added, and the host is told.  If the host   *)
(* cannot read a file, the import is taken back: file and track are deleted.  *)
(* The host is told clip by clip, each awaited, so imports, deletions and     *)
(* restarts of the host come in between.                                      *)
EXTENDS Integers, FiniteSets, FiniteSetsExt, Functions

CONSTANTS
    Imports,      \* the imports; also the names of their files, which are unique
    MaxNumber,    \* the highest number a track may have
    None,         \* the clip of a track that has no audio
    MaxDeletes,   \* tracks deleted by the user, and projects replaced
    MaxRestarts   \* ends of the host, timeouts of it

\* There is a number for the first track, and no audio is not an import.
AudioAssumption == MaxNumber \in Nat \ {0} /\ None \notin Imports
Numbers == 1..MaxNumber

VARIABLES
    bad,     \* the files the host cannot read
    tracks,  \* the tracks of the saved project, by number: the file of the clip
    files,   \* the files on disk
    running, \* does the host run
    heard,   \* by number of a track: the clip the host has accepted for it
    import,  \* per import: how far it is
    deletes, restarts

vars == <<bad, tracks, files, running, heard, import, deletes, restarts>>

Idle == [at |-> "waiting", track |-> None, left |-> <<>>, refused |-> FALSE]
Without(f, S) == Restrict(f, DOMAIN f \ S)
With(f, t, file) == [u \in DOMAIN f \cup {t} |-> IF u = t THEN file ELSE f[u]]
\* A new project has one track.
NewTracks == [t \in {1} |-> None]

Init ==
    /\ bad \in SUBSET Imports /\ tracks = NewTracks /\ files = {} /\ running \in BOOLEAN
    /\ heard = <<>> /\ import = [c \in Imports |-> Idle] /\ deletes = 0 /\ restarts = 0

\* A sync sends the clips of the project it was given, track by track; what the host
\* has for tracks that are not in it is gone.  Without a host there is nothing to send.
Told(call, project, syncing, otherwise) ==
    [call EXCEPT !.at = IF running THEN syncing ELSE otherwise,
                 !.left = IF running THEN project ELSE <<>>]
Known(project) == IF running THEN Restrict(heard, DOMAIN heard \cap DOMAIN project) ELSE <<>>

\* The upload may end early or be empty; then its file is deleted.
Upload(c) ==
    /\ import[c].at = "waiting" /\ files' = files \cup {c}
    /\ import' = [import EXCEPT ![c].at = "uploading"]
    /\ UNCHANGED <<bad, tracks, running, heard, deletes, restarts>>
UploadFails(c) ==
    /\ import[c].at = "uploading" /\ files' = files \ {c}
    /\ import' = [import EXCEPT ![c].at = "failed"]
    /\ UNCHANGED <<bad, tracks, running, heard, deletes, restarts>>

\* import_audio_clip gives the new track the number after the highest.
NextNumber == Max(DOMAIN tracks) + 1
AddClip(c) ==
    /\ import[c].at = "uploading" /\ NextNumber \in Numbers
    /\ tracks' = With(tracks, NextNumber, c)
    /\ import' = [import EXCEPT ![c] =
            [Told(@, tracks', "syncing", "kept") EXCEPT !.track = NextNumber]]
    /\ heard' = Known(tracks')
    /\ UNCHANGED <<bad, files, running, deletes, restarts>>

Readable(file) == file = None \/ (file \in files /\ file \notin bad)
\* One track of the project the sync was given: what the host has accepted before is
\* not sent again; what it refuses is remembered as not sent, and as an error.
Send(c, answers) ==
    LET t == Min(DOMAIN import[c].left)
        file == import[c].left[t]
        sent == ~(t \in DOMAIN heard /\ heard[t] = file)
        refuses == sent /\ answers /\ ~Readable(file)
    IN  /\ import[c].at \in {"syncing", "resyncing"} /\ running /\ import[c].left # <<>>
        /\ heard' = IF ~sent THEN heard
                    ELSE IF refuses \/ ~answers THEN Without(heard, {t}) ELSE With(heard, t, file)
        /\ import' = [import EXCEPT ![c] = [@ EXCEPT !.left = Without(import[c].left, {t}),
                                                      !.refused = import[c].refused \/ refuses]]
        /\ answers \/ restarts < MaxRestarts
        /\ restarts' = IF answers THEN restarts ELSE restarts + 1
        /\ UNCHANGED <<bad, tracks, files, running, deletes>>

\* delete_track keeps the last track.
Deleted(t) == IF t \in DOMAIN tracks /\ Cardinality(DOMAIN tracks) > 1 THEN Without(tracks, {t})
              ELSE tracks

\* Fault: an import that is taken back leaves its track.
FinishKeepingTrack(c) ==
    /\ import[c].at = "syncing" /\ import[c].left = <<>>
    /\ import' = [import EXCEPT ![c].at = IF import[c].refused THEN "rejected" ELSE "kept"]
    /\ files' = IF import[c].refused THEN files \ {c} ELSE files
    /\ UNCHANGED <<bad, tracks, running, heard, deletes, restarts>>
\* The sync has answered: a refusal of any clip takes the import back, file and track,
\* by the number it got; another sync follows if a track was deleted.
Finish(c) ==
    /\ import[c].at = "syncing" /\ import[c].left = <<>>
    /\ IF ~import[c].refused
       THEN import' = [import EXCEPT ![c].at = "kept"] /\ UNCHANGED <<tracks, files, heard>>
       ELSE /\ files' = files \ {c} /\ tracks' = Deleted(import[c].track)
            /\ IF tracks' = tracks
               THEN import' = [import EXCEPT ![c].at = "rejected"] /\ UNCHANGED heard
               ELSE /\ import' = [import EXCEPT
                            ![c] = Told(@, tracks', "resyncing", "rejected")]
                    /\ heard' = Known(tracks')
    /\ UNCHANGED <<bad, running, deletes, restarts>>
FinishResync(c) ==
    /\ import[c].at = "resyncing" /\ import[c].left = <<>>
    /\ import' = [import EXCEPT ![c].at = "rejected"]
    /\ UNCHANGED <<bad, tracks, files, running, heard, deletes, restarts>>

\* A command to a host that has ended raises: the handler ends, all it did stays.
Raise(c) ==
    /\ import[c].at \in {"syncing", "resyncing"} /\ ~running
    /\ import' = [import EXCEPT ![c] = [@ EXCEPT !.left = <<>>,
                        !.at = IF import[c].at = "syncing" THEN "kept" ELSE "rejected"]]
    /\ UNCHANGED <<bad, tracks, files, running, heard, deletes, restarts>>

\* The user deletes a track (its file stays), or replaces the project by another one.
Delete(t) ==
    /\ deletes < MaxDeletes /\ deletes' = deletes + 1 /\ tracks' = Deleted(t)
    /\ tracks' # tracks
    /\ UNCHANGED <<bad, files, running, heard, import, restarts>>
OpenProject ==
    /\ deletes < MaxDeletes /\ deletes' = deletes + 1 /\ tracks' = NewTracks
    /\ UNCHANGED <<bad, files, running, heard, import, restarts>>

HostEnds ==
    /\ running /\ restarts < MaxRestarts /\ restarts' = restarts + 1 /\ running' = FALSE
    /\ UNCHANGED <<bad, tracks, files, heard, import, deletes>>
HostStarts ==
    /\ ~running /\ running' = TRUE /\ heard' = <<>>
    /\ UNCHANGED <<bad, tracks, files, import, deletes, restarts>>

Next ==
    \/ \E c \in Imports : Upload(c) \/ UploadFails(c) \/ AddClip(c) \/ Finish(c) \/ FinishResync(c)
                          \/ Raise(c) \/ Send(c, TRUE) \/ Send(c, FALSE)
    \/ \E t \in Numbers : Delete(t)
    \/ OpenProject \/ HostEnds \/ HostStarts

Spec == Init /\ [][Next]_vars

(* ------------------------------ Properties ------------------------------- *)
Clips == {c \in Imports : \E t \in DOMAIN tracks : tracks[t] = c}
\* An import that was taken back has no file, and no clip either; only the last track of a
\* project cannot be deleted, and it becomes that by deletions (_finish_audio_import, delete_track).
RejectedImportsAreGone == \A c \in Imports :
    import[c].at \in {"resyncing", "rejected"} =>
        c \notin files /\ (c \in Clips => deletes > 0)
\* Every other clip has its file.
ClipsHaveFiles == \A c \in Clips : c \in files \/ import[c].at \in {"resyncing", "rejected"}
\* Nothing is taken back as long as the host can read every file.
OnlyRefusalsReject == \A c \in Imports : import[c].at \in {"resyncing", "rejected"} => bad # {}
\* What the host has for a track is a file it could read.
HeardIsReadable == \A t \in DOMAIN heard : heard[t] \notin bad
ImportsHold == RejectedImportsAreGone /\ ClipsHaveFiles /\ OnlyRefusalsReject /\ HeardIsReadable
=============================================================================

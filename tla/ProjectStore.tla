----------------------------- MODULE ProjectStore -----------------------------
(***************************************************************************)
(* core/music/project_repository.py and the saves of dashboard/music.py:   *)
(* one file for each project, an index file that names the active one, and *)
(* a lock file that threads and processes take for the length of a call.   *)
(* A file is replaced in one step (atomic_write_text); a process may die   *)
(* between two files, and the operating system then frees its lock.        *)
(***************************************************************************)
EXTENDS FiniteSets

CONSTANTS Clients,  \* threads and processes that use the repository
          Ids,      \* project archive ids
          Bodies,   \* what a musician edits in a project
          Hosts,    \* the host_track_ids a host sync writes into it
          Initial,  \* the legacy project.json, or default_project()
          Missing,  \* no such file
          NoId,     \* the index names nothing
          Unseen,   \* a client that has not read yet
          Nobody    \* the lock is free

Docs == [body : Bodies, host : Hosts]
Calls == {"load", "save", "check", "merge", "copy", "open"}

ASSUME StoreAssumption ==
    /\ Initial \in Docs
    /\ Missing \notin Docs /\ Unseen \notin Docs
    /\ NoId \notin Ids /\ Nobody \notin Clients

VARIABLES
    archives, \* the document in each project file
    index,    \* the id in project_index.json
    lock,     \* who holds _project_storage_lock
    at,       \* where each client is in its call
    call,     \* what it calls
    payload,  \* the document it is to write
    target,   \* the archive id it made up
    seen,     \* the document its last call returned
    reply     \* how its last call ended

files == <<archives, index>>
request == <<call, payload, target>>
known == <<seen, reply>>
vars == <<files, lock, at, request, known>>

\* The index names a file that is there.
HasActive == index # NoId /\ archives[index] # Missing

\* The document a load would return now.
Current == IF HasActive THEN archives[index] ELSE Initial

\* A uuid no project has.
Fresh(i) == archives[i] = Missing /\ i # index

Init ==
    /\ archives = [i \in Ids |-> Missing] /\ index = NoId
    /\ lock = Nobody
    /\ at = [c \in Clients |-> "idle"]
    /\ call = [c \in Clients |-> "load"]
    /\ payload = [c \in Clients |-> Initial]
    /\ target = [c \in Clients |-> NoId]
    /\ seen = [c \in Clients |-> Unseen]
    /\ reply = [c \in Clients |-> "none"]

Goto(c, s) == at' = [at EXCEPT ![c] = s]
Reading(c) == at[c] = "reading"

\* The call is over: its local variables and, if c has it, the lock are gone.
End(c, d, r) ==
    /\ seen' = [seen EXCEPT ![c] = d]
    /\ reply' = [reply EXCEPT ![c] = r]
    /\ call' = [call EXCEPT ![c] = "load"]
    /\ payload' = [payload EXCEPT ![c] = Initial]
    /\ target' = [target EXCEPT ![c] = NoId]
    /\ Goto(c, "idle")
Return(c, d, r) == End(c, d, r) /\ lock' = Nobody

----------------------------------------------------------------------------
(* Fault: the lock of another client is not waited for. *)
BeginUnlocked(c, o, d) ==
    /\ at[c] = "idle"
    /\ o \in {"load", "open"} => d = Initial
    /\ o = "check" => seen[c] # Unseen
    /\ lock' = c
    /\ call' = [call EXCEPT ![c] = o]
    /\ payload' = [payload EXCEPT ![c] = d]
    /\ Goto(c, "reading")
    /\ UNCHANGED <<files, target, known>>

\* A call takes the lock: load_project, save_project, update_project with a base
\* revision or with a merge, save_project_as_archive, set_active_project_archive.
Begin(c, o, d) ==
    /\ at[c] = "idle" /\ lock = Nobody
    /\ o \in {"load", "open"} => d = Initial
    /\ o = "check" => seen[c] # Unseen
    /\ lock' = c
    /\ call' = [call EXCEPT ![c] = o]
    /\ payload' = [payload EXCEPT ![c] = d]
    /\ Goto(c, "reading")
    /\ UNCHANGED <<files, target, known>>

\* Without an active project, whoever has to read one first makes one of the
\* legacy file or the default: the archive, then the index.
AdoptArchive(c, i) ==
    /\ Reading(c) /\ call[c] \in {"load", "check", "merge"}
    /\ ~HasActive /\ Fresh(i)
    /\ archives' = [archives EXCEPT ![i] = Initial]
    /\ target' = [target EXCEPT ![c] = i]
    /\ Goto(c, "adopting")
    /\ UNCHANGED <<index, lock, call, payload, known>>

AdoptIndex(c) ==
    /\ at[c] = "adopting"
    /\ index' = target[c]
    /\ Goto(c, "reading")
    /\ UNCHANGED <<archives, lock, request, known>>

Load(c) ==
    /\ Reading(c) /\ call[c] = "load" /\ HasActive
    /\ Return(c, Current, "loaded")
    /\ UNCHANGED files

\* _save_project_with_base_revision: the revision of the document that is there
\* must be the one the client was given.
CheckRevision(c) ==
    /\ Reading(c) /\ call[c] = "check" /\ HasActive
    /\ Current = seen[c]
    /\ Goto(c, "writing")
    /\ UNCHANGED <<files, lock, request, known>>

Conflict(c) ==
    /\ Reading(c) /\ call[c] = "check" /\ HasActive
    /\ Current # seen[c]
    /\ Return(c, Current, "conflict")
    /\ UNCHANGED files

(* Fault: the synced project is written as it is. *)
MergeWhole(c) ==
    /\ Reading(c) /\ call[c] = "merge" /\ HasActive
    /\ Goto(c, "writing")
    /\ UNCHANGED <<files, lock, request, known>>

\* _merge_host_sync_metadata: only the host's track ids are taken over.
MergeMetadata(c) ==
    /\ Reading(c) /\ call[c] = "merge" /\ HasActive
    /\ payload' = [payload EXCEPT ![c] =
                     [body |-> Current.body, host |-> payload[c].host]]
    /\ Goto(c, "writing")
    /\ UNCHANGED <<files, lock, call, target, known>>

\* save_project writes the active archive; without one the index is given a new
\* id before there is a file of that name.
SaveActive(c) ==
    /\ Reading(c) /\ call[c] = "save" /\ HasActive
    /\ Goto(c, "writing")
    /\ UNCHANGED <<files, lock, request, known>>

CreateIndex(c, i) ==
    /\ Reading(c) /\ call[c] = "save"
    /\ ~HasActive /\ Fresh(i)
    /\ index' = i
    /\ Goto(c, "writing")
    /\ UNCHANGED <<archives, lock, request, known>>

WriteArchive(c) ==
    /\ at[c] = "writing"
    /\ archives' = [archives EXCEPT ![index] = payload[c]]
    /\ Return(c, payload[c], CASE call[c] = "save"  -> "saved"
                               [] call[c] = "check" -> "checked"
                               [] OTHER             -> "merged")
    /\ UNCHANGED index

(* Fault: the index names the copy before the copy is written. *)
CopyIndexFirst(c, i) ==
    /\ Reading(c) /\ call[c] = "copy" /\ Fresh(i)
    /\ index' = i
    /\ target' = [target EXCEPT ![c] = i]
    /\ Goto(c, "writing")
    /\ UNCHANGED <<archives, lock, call, payload, known>>

\* save_project_as_archive: the archive, then the index, if it is to be active.
CopyArchive(c, i) ==
    /\ Reading(c) /\ call[c] = "copy" /\ Fresh(i)
    /\ archives' = [archives EXCEPT ![i] = payload[c]]
    /\ target' = [target EXCEPT ![c] = i]
    /\ Goto(c, "copied")
    /\ UNCHANGED <<index, lock, call, payload, known>>

CopyIndex(c) ==
    /\ at[c] = "copied"
    /\ index' = target[c]
    /\ Return(c, payload[c], "opened")
    /\ UNCHANGED archives

Open(c, i) ==
    /\ Reading(c) /\ call[c] = "open" /\ archives[i] # Missing
    /\ index' = i
    /\ Return(c, archives[i], "opened")
    /\ UNCHANGED archives

\* The process of c dies at whatever point; a call that raises (no such project,
\* a full disk) ends the same way.
Crash(c) ==
    /\ End(c, Unseen, "none")
    /\ lock' = IF lock = c THEN Nobody ELSE lock
    /\ UNCHANGED files

Step(c) ==
    \/ \E i \in Ids : \/ AdoptArchive(c, i) \/ CreateIndex(c, i)
                      \/ CopyArchive(c, i) \/ Open(c, i)
    \/ AdoptIndex(c) \/ Load(c) \/ CheckRevision(c) \/ Conflict(c)
    \/ MergeMetadata(c) \/ SaveActive(c) \/ WriteArchive(c) \/ CopyIndex(c)

Next ==
    \E c \in Clients :
        \/ \E o \in Calls, d \in Docs : Begin(c, o, d)
        \/ Step(c)
        \/ Crash(c)

Spec == Init /\ [][Next]_vars

----------------------------------------------------------------------------
(***************************************************************************)
(* Properties.                                                             *)
(***************************************************************************)
\* The types of the variables.
TypeOK ==
    /\ archives \in [Ids -> Docs \cup {Missing}] /\ index \in Ids \cup {NoId}
    /\ lock \in Clients \cup {Nobody}
    /\ at \in [Clients -> {"idle", "reading", "adopting", "writing", "copied"}]
    /\ call \in [Clients -> Calls]
    /\ payload \in [Clients -> Docs]
    /\ target \in [Clients -> Ids \cup {NoId}]
    /\ seen \in [Clients -> Docs \cup {Unseen}]
    /\ reply \in [Clients -> {"none", "loaded", "conflict", "saved", "checked", "merged",
                              "opened"}]

\* Once the index names a project file it always does: no crash between two files
\* makes the studio fall back to the initial document and lose what was saved.
NeverForgotten == [][HasActive => HasActive']_vars

\* What a call decided on is still so when it writes: the revision it checked is
\* the active document's, and a merge carries the edits that are there.
DecisionHolds ==
    \A c \in Clients : at[c] = "writing" =>
        /\ call[c] = "check" => seen[c] = Current
        /\ call[c] = "merge" => payload[c].body = Current.body

(***************************************************************************)
(* The inductive invariant behind them.                                    *)
(***************************************************************************)
\* Whoever is in a call holds the lock, and what it has written so far is there:
\* an archive that is adopted or copied waits for its index entry, an index
\* entry that is to be saved under waits, perhaps, for its archive.
StationHolds(c) ==
    /\ at[c] # "idle" => lock = c
    /\ at[c] = "adopting" =>
        target[c] \in Ids /\ archives[target[c]] = Initial /\ ~HasActive
    /\ at[c] = "copied" => target[c] \in Ids /\ archives[target[c]] = payload[c]
    /\ at[c] = "writing" =>
        /\ index \in Ids /\ call[c] \in {"save", "check", "merge"}
        /\ call[c] # "save" => HasActive

IInv == TypeOK /\ DecisionHolds /\ \A c \in Clients : StationHolds(c)

\* The repository implements the library: calls are atomic, through crashes
\* between its files.
Library == INSTANCE ProjectLibrary
             WITH projects <- archives, active <- IF HasActive THEN index ELSE NoId
Implements == Library!Spec
=============================================================================

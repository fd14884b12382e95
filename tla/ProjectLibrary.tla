---------------------------- MODULE ProjectLibrary ----------------------------
(***************************************************************************)
(* What the Music Studio's project storage (core/music/project_repository) *)
(* promises its clients: a library of projects one of which is active.     *)
(* Every call takes effect at one moment or, if its process dies, not at   *)
(* all; a save that was checked replaces just the document its caller has  *)
(* seen, and a merge keeps what others wrote.                              *)
(***************************************************************************)
CONSTANTS Clients, Ids, Bodies, Hosts, \* who calls; project ids; contents
          Initial,                     \* the document before there is a project
          Missing, NoId, Unseen        \* no document, no id, nothing read yet

Docs == [body : Bodies, host : Hosts]

VARIABLES projects, \* the documents of the library
          active,   \* the active project, NoId when there is none yet
          seen,     \* the document each client was given last
          reply     \* how its last call ended

Current == IF active = NoId THEN Initial ELSE projects[active]

Init ==
    /\ projects = [i \in Ids |-> Missing] /\ active = NoId
    /\ seen = [c \in Clients |-> Unseen]
    /\ reply = [c \in Clients |-> "none"]

Return(c, d, r) ==
    seen' = [seen EXCEPT ![c] = d] /\ reply' = [reply EXCEPT ![c] = r]

\* c is given the active document: a load, or a save refused for a conflict.
Look(c, r) ==
    /\ r = "conflict" => seen[c] # Current
    /\ Return(c, Current, r)
    /\ UNCHANGED <<projects, active>>

\* The active document becomes d, under its id or a new one.
Replace(d) ==
    \/ /\ active # NoId /\ UNCHANGED active
       /\ projects' = [projects EXCEPT ![active] = d]
    \/ \E i \in Ids :
        /\ active = NoId /\ projects[i] = Missing /\ active' = i
        /\ projects' = [projects EXCEPT ![i] = d]

Save(c, d) == Replace(d) /\ Return(c, d, "saved")
SaveChecked(c, d) == seen[c] = Current /\ Replace(d) /\ Return(c, d, "checked")
Merge(c, h) ==
    LET d == [body |-> Current.body, host |-> h]
    IN  Replace(d) /\ Return(c, d, "merged")

\* A document is added to the library; nothing else changes.
Add(i, d) ==
    /\ projects[i] = Missing
    /\ projects' = [projects EXCEPT ![i] = d]
    /\ UNCHANGED <<active, seen, reply>>

\* The first project is made of the initial document.
Adopt(i) ==
    /\ active = NoId /\ projects[i] = Initial /\ active' = i
    /\ UNCHANGED <<projects, seen, reply>>

Open(c, i) ==
    /\ projects[i] # Missing /\ active' = i
    /\ Return(c, projects[i], "opened")
    /\ UNCHANGED projects

\* c's process dies: what it knew is gone, what is in the library is not.
Forget(c) == Return(c, Unseen, "none") /\ UNCHANGED <<projects, active>>

Next ==
    \/ \E c \in Clients :
        \/ \E r \in {"loaded", "conflict"} : Look(c, r)
        \/ \E d \in Docs : Save(c, d) \/ SaveChecked(c, d)
        \/ \E h \in Hosts : Merge(c, h)
        \/ \E i \in Ids : Open(c, i)
        \/ Forget(c)
    \/ \E i \in Ids : (\E d \in Docs : Add(i, d)) \/ Adopt(i)

Spec == Init /\ [][Next]_<<projects, active, seen, reply>>
=============================================================================

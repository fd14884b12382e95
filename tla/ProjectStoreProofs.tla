-------------------------- MODULE ProjectStoreProofs --------------------------
(***************************************************************************)
(* What holds of ProjectStore for any clients, projects and documents: its *)
(* invariants, that the active project is never lost, and that it          *)
(* implements ProjectLibrary; of the files an AudioImport brings in; of    *)
(* the plugins a PluginState has in its slots; and of what a StudioExport  *)
(* writes.                                                                 *)
(***************************************************************************)
EXTENDS ProjectStore, Integers, Sequences, FiniteSetTheorems, WellFoundedInduction, TLAPS

\* The initial state satisfies the inductive invariant.
LEMMA InitInvariant == Init => IInv
  BY StoreAssumption DEF Init, IInv, TypeOK, DecisionHolds, StationHolds, Calls

\* Every step keeps the types.
LEMMA TypesKept == TypeOK /\ [Next]_vars => TypeOK'
<1> SUFFICES ASSUME TypeOK, [Next]_vars PROVE TypeOK'
  OBVIOUS
<1> USE StoreAssumption DEF TypeOK, Calls
<1>1. ASSUME NEW c \in Clients, NEW o \in Calls, NEW d \in Docs, Begin(c, o, d)
      PROVE  TypeOK'
  BY <1>1 DEF Begin, Goto, files, known
<1>2. ASSUME NEW c \in Clients, NEW i \in Ids, AdoptArchive(c, i)
      PROVE  TypeOK'
  BY <1>2 DEF AdoptArchive, Goto, known
<1>3. ASSUME NEW c \in Clients, NEW i \in Ids, CreateIndex(c, i)
      PROVE  TypeOK'
  BY <1>3 DEF CreateIndex, Goto, request, known
<1>4. ASSUME NEW c \in Clients, NEW i \in Ids, CopyArchive(c, i)
      PROVE  TypeOK'
  BY <1>4 DEF CopyArchive, Goto, known
<1>5. ASSUME NEW c \in Clients, NEW i \in Ids, Open(c, i)
      PROVE  TypeOK'
  BY <1>5 DEF Open, Return, End, Goto
<1>6. ASSUME NEW c \in Clients, AdoptIndex(c)
      PROVE  TypeOK'
  BY <1>6 DEF AdoptIndex, Goto, request, known
<1>7. ASSUME NEW c \in Clients, Load(c) \/ Conflict(c)
      PROVE  TypeOK'
  <2>1. Current \in Docs
    BY DEF Current, HasActive
  <2>2. QED
    BY <1>7, <2>1 DEF Load, Conflict, Return, End, Goto, files
<1>8. ASSUME NEW c \in Clients, CheckRevision(c) \/ SaveActive(c)
      PROVE  TypeOK'
  BY <1>8 DEF CheckRevision, SaveActive, Goto, files, request, known
<1>9. ASSUME NEW c \in Clients, MergeMetadata(c)
      PROVE  TypeOK'
  <2>1. Current \in Docs
    BY DEF Current, HasActive
  <2>2. [body |-> Current.body, host |-> payload[c].host] \in Docs
    BY <2>1 DEF Docs
  <2>3. QED
    BY <1>9, <2>2 DEF MergeMetadata, Goto, files, known
<1>10. ASSUME NEW c \in Clients, WriteArchive(c)
       PROVE  TypeOK'
  BY <1>10 DEF WriteArchive, Return, End, Goto
<1>11. ASSUME NEW c \in Clients, CopyIndex(c)
       PROVE  TypeOK'
  BY <1>11 DEF CopyIndex, Return, End, Goto
<1>12. ASSUME NEW c \in Clients, Crash(c)
       PROVE  TypeOK'
  BY <1>12 DEF Crash, End, Goto, files
<1>13. CASE UNCHANGED vars
  BY <1>13 DEF vars, files, request, known
<1>14. QED
  BY <1>1, <1>2, <1>3, <1>4, <1>5, <1>6, <1>7, <1>8, <1>9, <1>10, <1>11, <1>12, <1>13
     DEF Next, Step

\* Every step keeps what the stations say and what a call has decided: only the
\* holder of the lock moves, so nobody else is between two steps of a call.
LEMMA StationsKept ==
    ASSUME IInv, [Next]_vars, NEW q \in Clients
    PROVE  /\ StationHolds(q)'
           /\ (at[q] = "writing" =>
                /\ call[q] = "check" => seen[q] = Current
                /\ call[q] = "merge" => payload[q].body = Current.body)'
<1> DEFINE Decided == at[q] = "writing" =>
                        /\ call[q] = "check" => seen[q] = Current
                        /\ call[q] = "merge" => payload[q].body = Current.body
<1> USE StoreAssumption DEF IInv, TypeOK, DecisionHolds, StationHolds, Current, HasActive
<1>1. ASSUME NEW c \in Clients, NEW o \in Calls, NEW d \in Docs, Begin(c, o, d)
      PROVE  StationHolds(q)' /\ Decided'
  BY <1>1 DEF Begin, Goto, files, known
<1>2. ASSUME NEW c \in Clients, NEW i \in Ids, AdoptArchive(c, i)
      PROVE  StationHolds(q)' /\ Decided'
  BY <1>2 DEF AdoptArchive, Reading, Fresh, Goto, known
<1>3. ASSUME NEW c \in Clients, NEW i \in Ids, CreateIndex(c, i)
      PROVE  StationHolds(q)' /\ Decided'
  BY <1>3 DEF CreateIndex, Reading, Fresh, Goto, request, known
<1>4. ASSUME NEW c \in Clients, NEW i \in Ids, CopyArchive(c, i)
      PROVE  StationHolds(q)' /\ Decided'
  BY <1>4 DEF CopyArchive, Reading, Fresh, Goto, known
<1>5. ASSUME NEW c \in Clients, NEW i \in Ids, Open(c, i)
      PROVE  StationHolds(q)' /\ Decided'
  BY <1>5 DEF Open, Reading, Return, End, Goto
<1>6. ASSUME NEW c \in Clients, AdoptIndex(c)
      PROVE  StationHolds(q)' /\ Decided'
  BY <1>6 DEF AdoptIndex, Goto, request, known
<1>7. ASSUME NEW c \in Clients, Load(c) \/ Conflict(c)
      PROVE  StationHolds(q)' /\ Decided'
  BY <1>7 DEF Load, Conflict, Reading, Return, End, Goto, files
<1>8. ASSUME NEW c \in Clients, CheckRevision(c) \/ SaveActive(c)
      PROVE  StationHolds(q)' /\ Decided'
  BY <1>8 DEF CheckRevision, SaveActive, Reading, Goto, files, request, known
<1>9. ASSUME NEW c \in Clients, MergeMetadata(c)
      PROVE  StationHolds(q)' /\ Decided'
  BY <1>9 DEF MergeMetadata, Reading, Goto, files, known
<1>10. ASSUME NEW c \in Clients, WriteArchive(c)
       PROVE  StationHolds(q)' /\ Decided'
  BY <1>10 DEF WriteArchive, Return, End, Goto
<1>11. ASSUME NEW c \in Clients, CopyIndex(c)
       PROVE  StationHolds(q)' /\ Decided'
  BY <1>11 DEF CopyIndex, Return, End, Goto
<1>12. ASSUME NEW c \in Clients, Crash(c)
       PROVE  StationHolds(q)' /\ Decided'
  BY <1>12 DEF Crash, End, Goto, files
<1>13. CASE UNCHANGED vars
  BY <1>13 DEF vars, files, request, known
<1>14. QED
  BY <1>1, <1>2, <1>3, <1>4, <1>5, <1>6, <1>7, <1>8, <1>9, <1>10, <1>11, <1>12, <1>13
     DEF Next, Step

LEMMA InvariantKept == IInv /\ [Next]_vars => IInv'
  BY TypesKept, StationsKept DEF IInv, DecisionHolds

\* The inductive invariant holds of every behaviour.
THEOREM InvariantHolds == Spec => []IInv
  BY InitInvariant, InvariantKept, PTL DEF Spec

\* The files, lock, calls and replies of the repository keep their types.
THEOREM TypesAreKept == Spec => []TypeOK
<1>1. IInv => TypeOK
  BY DEF IInv
<1>2. QED
  BY <1>1, InvariantHolds, PTL

\* What a call decided on is still so when it writes (update_project and
\* _save_project_with_base_revision under the lock).
THEOREM DecisionsHold == Spec => []DecisionHolds
<1>1. IInv => DecisionHolds
  BY DEF IInv
<1>2. QED
  BY <1>1, InvariantHolds, PTL

----------------------------------------------------------------------------
(***************************************************************************)
(* The active project is never lost.                                       *)
(***************************************************************************)
\* An index entry is written after its archive, and archives stay.
LEMMA ActiveStays == IInv /\ [Next]_vars => (HasActive => HasActive')
<1> SUFFICES ASSUME IInv, [Next]_vars, HasActive PROVE HasActive'
  OBVIOUS
<1> USE StoreAssumption DEF IInv, TypeOK, StationHolds, HasActive
<1>1. ASSUME NEW c \in Clients, NEW o \in Calls, NEW d \in Docs, Begin(c, o, d)
      PROVE  HasActive'
  BY <1>1 DEF Begin, files
<1>2. ASSUME NEW c \in Clients, NEW i \in Ids,
             AdoptArchive(c, i) \/ CreateIndex(c, i) \/ CopyArchive(c, i) \/ Open(c, i)
      PROVE  HasActive'
  BY <1>2 DEF AdoptArchive, CreateIndex, CopyArchive, Open
<1>3. ASSUME NEW c \in Clients, AdoptIndex(c) \/ CopyIndex(c)
      PROVE  HasActive'
  BY <1>3 DEF AdoptIndex, CopyIndex
<1>4. ASSUME NEW c \in Clients,
             Load(c) \/ Conflict(c) \/ CheckRevision(c) \/ MergeMetadata(c) \/ SaveActive(c)
             \/ Crash(c)
      PROVE  HasActive'
  BY <1>4 DEF Load, Conflict, CheckRevision, MergeMetadata, SaveActive, Crash, files
<1>5. ASSUME NEW c \in Clients, WriteArchive(c)
      PROVE  HasActive'
  BY <1>5 DEF WriteArchive
<1>6. CASE UNCHANGED vars
  BY <1>6 DEF vars, files
<1>7. QED
  BY <1>1, <1>2, <1>3, <1>4, <1>5, <1>6 DEF Next, Step

\* No crash between an archive and the index makes the studio fall back to the
\* initial document (project_repository, every writer).
THEOREM ProjectIsNeverForgotten == Spec => NeverForgotten
<1>1. IInv /\ [Next]_vars => [HasActive => HasActive']_vars
  BY ActiveStays
<1>2. QED
  BY <1>1, InvariantHolds, PTL DEF Spec, NeverForgotten

----------------------------------------------------------------------------
(***************************************************************************)
(* The repository implements the library.  A step of the repository is a   *)
(* call of the library that takes effect, or it is invisible.              *)
(***************************************************************************)
LEMMA SameDocument == Library!Current = Current
  BY StoreAssumption DEF Library!Current, Current, HasActive

LEMMA InitMaps == Init => Library!Init
  BY StoreAssumption DEF Init, Library!Init, HasActive

LibraryVars == <<archives, IF HasActive THEN index ELSE NoId, seen, reply>>

\* The save of a project is a save, a checked save or a merge of the library.
LEMMA WriteMaps ==
    ASSUME IInv, NEW c \in Clients, WriteArchive(c)
    PROVE  Library!Next
<1> USE StoreAssumption
<1>1. index \in Ids /\ payload[c] \in Docs /\ index' = index
  BY DEF WriteArchive, IInv, StationHolds, TypeOK
<1>2. archives' = [archives EXCEPT ![index] = payload[c]] /\ HasActive'
  BY <1>1 DEF WriteArchive, HasActive, IInv, TypeOK
<1>3. Library!Replace(payload[c])
  BY <1>1, <1>2 DEF Library!Replace, HasActive
<1>4. CASE call[c] = "save"
  <2>1. Library!Return(c, payload[c], "saved")
    BY <1>4 DEF WriteArchive, Return, End, Library!Return
  <2>2. QED
    BY <1>1, <1>3, <2>1 DEF Library!Next, Library!Save, Docs, Library!Docs
<1>5. CASE call[c] = "check"
  <2>1. Library!Return(c, payload[c], "checked")
    BY <1>5 DEF WriteArchive, Return, End, Library!Return
  <2>2. seen[c] = Library!Current
    BY <1>5, SameDocument DEF IInv, DecisionHolds, WriteArchive
  <2>3. QED
    BY <1>1, <1>3, <2>1, <2>2 DEF Library!Next, Library!SaveChecked, Docs, Library!Docs
<1>6. CASE call[c] = "merge"
  <2>1. Library!Return(c, payload[c], "merged")
    BY <1>6 DEF WriteArchive, Return, End, Library!Return
  <2>2. payload[c].body = Library!Current.body
    BY <1>6, SameDocument DEF IInv, DecisionHolds, WriteArchive
  <2>3. PICK h \in Hosts : payload[c] = [body |-> Library!Current.body, host |-> h]
    BY <1>1, <2>2 DEF Docs
  <2>4. Library!Merge(c, h)
    BY <1>3, <2>1, <2>3 DEF Library!Merge
  <2>5. QED
    BY <2>4 DEF Library!Next
<1>7. QED
  BY <1>4, <1>5, <1>6 DEF WriteArchive, IInv, StationHolds

\* Every step of the repository is a step of the library or changes nothing in it.
LEMMA StepMaps == IInv /\ [Next]_vars => Library!Next \/ UNCHANGED LibraryVars
<1> SUFFICES ASSUME IInv, [Next]_vars PROVE Library!Next \/ UNCHANGED LibraryVars
  OBVIOUS
<1> USE StoreAssumption DEF IInv, TypeOK, LibraryVars
<1>1. ASSUME NEW c \in Clients, NEW o \in Calls, NEW d \in Docs, Begin(c, o, d)
      PROVE  UNCHANGED LibraryVars
  BY <1>1 DEF Begin, files, known, HasActive
<1>2. ASSUME NEW c \in Clients, NEW i \in Ids, AdoptArchive(c, i)
      PROVE  Library!Next
  <2>1. Library!Add(i, Initial)
    BY <1>2 DEF AdoptArchive, Fresh, Library!Add, HasActive, known
  <2>2. QED
    BY <2>1 DEF Library!Next, Docs, Library!Docs
<1>3. ASSUME NEW c \in Clients, NEW i \in Ids, CopyArchive(c, i)
      PROVE  Library!Next
  <2>1. Library!Add(i, payload[c])
    BY <1>3 DEF CopyArchive, Fresh, Library!Add, HasActive, known
  <2>2. payload[c] \in Docs
    OBVIOUS
  <2>3. QED
    BY <2>1, <2>2 DEF Library!Next, Docs, Library!Docs
<1>4. ASSUME NEW c \in Clients, NEW i \in Ids, CreateIndex(c, i)
      PROVE  UNCHANGED LibraryVars
  BY <1>4 DEF CreateIndex, Fresh, HasActive, known
<1>5. ASSUME NEW c \in Clients, NEW i \in Ids, Open(c, i)
      PROVE  Library!Next
  <2>1. Library!Open(c, i)
    BY <1>5 DEF Open, Library!Open, Return, End, Library!Return, HasActive
  <2>2. QED
    BY <2>1 DEF Library!Next
<1>6. ASSUME NEW c \in Clients, AdoptIndex(c)
      PROVE  Library!Next
  <2>1. target[c] \in Ids /\ Library!Adopt(target[c])
    BY <1>6 DEF AdoptIndex, StationHolds, Library!Adopt, HasActive, known
  <2>2. QED
    BY <2>1 DEF Library!Next
<1>7. ASSUME NEW c \in Clients, CopyIndex(c)
      PROVE  Library!Next
  <2>1. target[c] \in Ids /\ archives[target[c]] = payload[c] /\ payload[c] # Missing
    BY <1>7 DEF CopyIndex, StationHolds
  <2>2. Library!Open(c, target[c])
    BY <1>7, <2>1 DEF CopyIndex, Library!Open, Return, End, Library!Return, HasActive
  <2>3. QED
    BY <2>1, <2>2 DEF Library!Next
<1>8. ASSUME NEW c \in Clients, Load(c)
      PROVE  Library!Next
  <2>1. Library!Look(c, "loaded")
    BY <1>8, SameDocument DEF Load, Library!Look, Return, End, Library!Return, HasActive, files
  <2>2. QED
    BY <2>1 DEF Library!Next
<1>9. ASSUME NEW c \in Clients, Conflict(c)
      PROVE  Library!Next
  <2>1. Library!Look(c, "conflict")
    BY <1>9, SameDocument
       DEF Conflict, Library!Look, Return, End, Library!Return, HasActive, files
  <2>2. QED
    BY <2>1 DEF Library!Next
<1>10. ASSUME NEW c \in Clients, CheckRevision(c) \/ MergeMetadata(c) \/ SaveActive(c)
       PROVE  UNCHANGED LibraryVars
  BY <1>10 DEF CheckRevision, MergeMetadata, SaveActive, HasActive, files, known
<1>11. ASSUME NEW c \in Clients, WriteArchive(c)
       PROVE  Library!Next
  BY <1>11, WriteMaps
<1>12. ASSUME NEW c \in Clients, Crash(c)
       PROVE  Library!Next
  <2>1. Library!Forget(c)
    BY <1>12 DEF Crash, End, Library!Forget, Library!Return, HasActive, files
  <2>2. QED
    BY <2>1 DEF Library!Next
<1>13. CASE UNCHANGED vars
  BY <1>13 DEF vars, files, known, HasActive
<1>14. QED
  BY <1>1, <1>2, <1>3, <1>4, <1>5, <1>6, <1>7, <1>8, <1>9, <1>10, <1>11, <1>12, <1>13
     DEF Next, Step

\* Calls of the repository are atomic, through crashes between its files: it
\* implements ProjectLibrary.
THEOREM RepositoryImplementsLibrary == Spec => Implements
<1>1. IInv /\ [Next]_vars => [Library!Next]_LibraryVars
  BY StepMaps
<1>2. QED
  BY <1>1, InitMaps, InvariantHolds, PTL DEF Spec, Implements, Library!Spec, LibraryVars

(***************************************************************************)
(* Audio files brought into a project, for any imports and tracks.         *)
(***************************************************************************)
CONSTANTS Imports, MaxNumber, None, MaxDeletes, MaxRestarts
VARIABLES clipOf, uploads, bad, running, heard, import, deletes, restarts

A == INSTANCE AudioImport WITH tracks <- clipOf, files <- uploads

\* An import that has its track, and one that was taken back.
Handled == {"syncing", "resyncing", "kept", "rejected"}
Back == {"resyncing", "rejected"}

\* A clip is none, or of an import that has its track, whose file is there or was taken back.
Sound(f) == /\ f \in Imports \cup {None}
            /\ f # None => /\ import[f].at \in Handled
                           /\ f \in uploads \/ import[f].at \in Back

\* Clips by the numbers of tracks; what an import is doing.
Tracks == UNION {[S -> Imports \cup {None}] : S \in SUBSET A!Numbers}
MaybeNumbers == A!Numbers \cup {None}
Steps == {"waiting", "uploading", "failed", "syncing", "resyncing", "kept", "rejected"}
Turns == [at : Steps, track : MaybeNumbers, left : Tracks, refused : BOOLEAN]

ImportTypes ==
    /\ import \in [Imports -> Turns] /\ clipOf \in Tracks /\ DOMAIN clipOf # {}
    /\ deletes \in Nat /\ bad \subseteq Imports
TracksSound == \A t \in DOMAIN clipOf : Sound(clipOf[t])
LeftSound == \A c \in Imports : \A t \in DOMAIN import[c].left : Sound(import[c].left[t])
FilesHold == \A c \in Imports :
    /\ import[c].at \in Back \/ import[c].refused => bad # {}
    /\ import[c].at \in Back => c \notin uploads
    /\ import[c].at = "uploading" => c \in uploads

\* Until the user deletes a track, the first one is there without audio, and an import has
\* no track but the one it got.
OwnTracks == deletes = 0 =>
    /\ 1 \in DOMAIN clipOf /\ clipOf[1] = None
    /\ \A c \in Imports : import[c].at \in Handled => import[c].track \in Nat /\ import[c].track > 1
    /\ \A t \in DOMAIN clipOf : clipOf[t] # None => /\ import[clipOf[t]].track = t
                                                    /\ import[clipOf[t]].at \notin Back

AudioInv == /\ ImportTypes /\ TracksSound /\ LeftSound /\ FilesHold /\ OwnTracks
            /\ A!HeardIsReadable

\* Among natural numbers there is a lowest one.
LEMMA LowestNatural ==
  ASSUME NEW S, S \subseteq Nat, S # {}
  PROVE  \E m \in S : \A k \in S : m <= k
<1> DEFINE Below == OpToRel(<, Nat)
<1>1. IsWellFoundedOn(Below, Nat)
  BY NatLessThanWellFounded
<1>2. PICK m \in S : \A k \in S : <<k, m>> \notin Below
  BY <1>1, WFMin
<1>3. \A x, y \in Nat : x < y => <<x, y>> \in {s \in Nat \X Nat : s[1] < s[2]}
  OBVIOUS
<1>4. Below = {s \in Nat \X Nat : s[1] < s[2]}
  BY Zenon DEF OpToRel
<1> HIDE DEF Below
<1>5. \A k \in S : ~(k < m)
  BY <1>2, <1>3, <1>4
<1>6. QED
  BY <1>5

\* A set of track numbers has a lowest and a highest one.
LEMMA LowestNumber ==
  ASSUME A!AudioAssumption, NEW S, S \subseteq A!Numbers, S # {}
  PROVE  A!Min(S) \in S
<1>1. S \subseteq Nat
  BY DEF A!AudioAssumption, A!Numbers
<1>2. PICK m \in S : \A k \in S : m <= k
  BY <1>1, LowestNatural
<1>3. QED
  BY <1>2 DEF A!Min

LEMMA HighestNumber ==
  ASSUME A!AudioAssumption, NEW S, S \subseteq A!Numbers, S # {}
  PROVE  A!Max(S) \in S /\ \A t \in S : t <= A!Max(S)
<1>1. PICK n \in Nat : A!Numbers = 1..n
  BY DEF A!AudioAssumption, A!Numbers
<1> DEFINE rest == {n - t : t \in S}
<1>2. rest \subseteq Nat /\ rest # {}
  <2>1. \A t \in S : n - t \in Nat
    BY <1>1
  <2>2. PICK t \in S : TRUE
    OBVIOUS
  <2>3. QED
    BY <2>1, <2>2
<1> HIDE DEF rest
<1>3. PICK m \in rest : \A k \in rest : m <= k
  BY <1>2, LowestNatural
<1>4. PICK h \in S : m = n - h
  BY DEF rest
<1>5. \A t \in S : n - t \in rest
  BY DEF rest
<1>6. \A t \in S : h >= t
  BY <1>1, <1>2, <1>3, <1>4, <1>5
<1>7. A!Max(S) \in S /\ \A t \in S : A!Max(S) >= t
  BY <1>6 DEF A!Max
<1>8. QED
  BY <1>1, <1>7

\* What the tracks of a project are, and how they are made.
LEMMA TracksAre ==
  ASSUME NEW f
  PROVE  f \in Tracks <=> /\ f = [t \in DOMAIN f |-> f[t]] /\ DOMAIN f \subseteq A!Numbers
                          /\ \A t \in DOMAIN f : f[t] \in Imports \cup {None}
<1>1. f \in Tracks => /\ f = [t \in DOMAIN f |-> f[t]] /\ DOMAIN f \subseteq A!Numbers
                      /\ \A t \in DOMAIN f : f[t] \in Imports \cup {None}
  BY DEF Tracks
<1>2. ASSUME f = [t \in DOMAIN f |-> f[t]], DOMAIN f \subseteq A!Numbers,
             \A t \in DOMAIN f : f[t] \in Imports \cup {None}
      PROVE  f \in Tracks
  <2>1. f \in [DOMAIN f -> Imports \cup {None}]
    BY <1>2
  <2>2. QED
    BY <1>2, <2>1 DEF Tracks
<1>3. QED
  BY <1>1, <1>2

LEMMA TracksMade ==
  ASSUME A!AudioAssumption
  PROVE  /\ <<>> \in Tracks /\ A!NewTracks \in Tracks
         /\ \A f \in Tracks : \A n \in A!Numbers : \A c \in Imports : A!With(f, n, c) \in Tracks
         /\ \A f \in Tracks : \A S : A!Without(f, S) \in Tracks
<1>1. <<>> \in Tracks
  <2>1. <<>> \in [{} -> Imports \cup {None}] /\ {} \subseteq A!Numbers
    OBVIOUS
  <2>2. QED
    BY <2>1 DEF Tracks
<1>2. A!NewTracks \in Tracks
  <2>1. 1 \in A!Numbers
    BY DEF A!AudioAssumption, A!Numbers
  <2>2. /\ A!NewTracks = [t \in DOMAIN A!NewTracks |-> A!NewTracks[t]] /\ DOMAIN A!NewTracks \subseteq A!Numbers
        /\ \A t \in DOMAIN A!NewTracks : A!NewTracks[t] \in Imports \cup {None}
    BY <2>1 DEF A!NewTracks
  <2>3. QED
    BY <2>2, TracksAre
<1>3. ASSUME NEW f \in Tracks, NEW n \in A!Numbers, NEW c \in Imports PROVE A!With(f, n, c) \in Tracks
  <2>1. DOMAIN f \subseteq A!Numbers /\ \A t \in DOMAIN f : f[t] \in Imports \cup {None}
    BY TracksAre
  <2>2. PICK g : g = A!With(f, n, c)
    OBVIOUS
  <2>3. g = [t \in DOMAIN g |-> g[t]] /\ DOMAIN g \subseteq A!Numbers
    BY <2>1, <2>2 DEF A!With
  <2>4. \A t \in DOMAIN g : g[t] \in Imports \cup {None}
    BY <2>1, <2>2 DEF A!With
  <2>5. QED
    BY <2>2, <2>3, <2>4, TracksAre
<1>4. ASSUME NEW f \in Tracks, NEW S PROVE A!Without(f, S) \in Tracks
  <2>1. DOMAIN f \subseteq A!Numbers /\ \A t \in DOMAIN f : f[t] \in Imports \cup {None}
    BY TracksAre
  <2>2. PICK g : g = A!Without(f, S)
    OBVIOUS
  <2>3. g = [t \in DOMAIN g |-> g[t]] /\ DOMAIN g \subseteq A!Numbers
    BY <2>1, <2>2 DEF A!Without, A!Restrict
  <2>4. \A t \in DOMAIN g : g[t] \in Imports \cup {None}
    BY <2>1, <2>2 DEF A!Without, A!Restrict
  <2>5. QED
    BY <2>2, <2>3, <2>4, TracksAre
<1>5. QED
  BY <1>1, <1>2, <1>3, <1>4

LEMMA TracksAreFinite ==
  ASSUME A!AudioAssumption, ImportTypes
  PROVE  /\ IsFiniteSet(DOMAIN clipOf) /\ Cardinality(DOMAIN clipOf) \in Nat
         /\ A!Cardinality(DOMAIN clipOf) = Cardinality(DOMAIN clipOf)
<1>1. PICK n \in Nat : A!Numbers = 1..n
  BY DEF A!AudioAssumption, A!Numbers
<1>2. IsFiniteSet(A!Numbers)
  BY <1>1, FS_Interval
<1>3. IsFiniteSet(DOMAIN clipOf)
  BY <1>2, FS_Subset, TracksAre DEF ImportTypes
<1>4. A!Cardinality(DOMAIN clipOf) = Cardinality(DOMAIN clipOf)
  BY DEF A!Cardinality, Cardinality
<1>5. QED
  BY <1>3, <1>4, FS_CardinalityType

\* A project of two tracks can lose one.
LEMMA OneOfTwoGoes ==
  ASSUME A!AudioAssumption, ImportTypes, NEW t \in DOMAIN clipOf, NEW o \in DOMAIN clipOf, t # o
  PROVE  A!Cardinality(DOMAIN clipOf) > 1
<1>1. /\ IsFiniteSet(DOMAIN clipOf) /\ Cardinality(DOMAIN clipOf) \in Nat
      /\ A!Cardinality(DOMAIN clipOf) = Cardinality(DOMAIN clipOf)
  BY TracksAreFinite
<1>2. /\ IsFiniteSet(DOMAIN clipOf \ {t})
      /\ Cardinality(DOMAIN clipOf \ {t}) = Cardinality(DOMAIN clipOf) - 1
  BY <1>1, FS_RemoveElement
<1>3. Cardinality(DOMAIN clipOf \ {t}) # 0
  BY <1>2, FS_EmptySet
<1>4. Cardinality(DOMAIN clipOf \ {t}) \in Nat
  BY <1>2, FS_CardinalityType
<1>5. QED
  BY <1>1, <1>2, <1>3, <1>4

\* A track is deleted, or the project stays as it is.
LEMMA DeletedTracks ==
  ASSUME NEW t
  PROVE  /\ DOMAIN A!Deleted(t) \subseteq DOMAIN clipOf
         /\ \A u \in DOMAIN A!Deleted(t) : A!Deleted(t)[u] = clipOf[u]
         /\ \/ A!Deleted(t) = clipOf
            \/ DOMAIN A!Deleted(t) = DOMAIN clipOf \ {t}
         /\ t \in DOMAIN clipOf /\ A!Cardinality(DOMAIN clipOf) > 1
              => DOMAIN A!Deleted(t) = DOMAIN clipOf \ {t}
  BY DEF A!Deleted, A!Without, A!Restrict

LEMMA InitAudio == A!AudioAssumption /\ A!Init => AudioInv
<1> SUFFICES ASSUME A!AudioAssumption, A!Init PROVE AudioInv
  OBVIOUS
<1>1. /\ clipOf = A!NewTracks /\ bad \subseteq Imports /\ uploads = {} /\ heard = <<>> /\ deletes = 0
      /\ import = [c \in Imports |-> A!Idle]
  BY DEF A!Init
<1>2. \A c \in Imports : /\ import[c] = A!Idle /\ import[c].at = "waiting"
                         /\ import[c].left = <<>> /\ import[c].refused = FALSE
  BY <1>1 DEF A!Idle
<1>3. DOMAIN clipOf = {1} /\ clipOf[1] = None /\ 1 \in A!Numbers
  BY <1>1 DEF A!NewTracks, A!AudioAssumption, A!Numbers
<1>4. ImportTypes
  <2>1. A!Idle \in Turns
    <3>1. PICK none \in Tracks : none = <<>>
      BY TracksMade
    <3>2. PICK number \in MaybeNumbers : number = None
      BY DEF MaybeNumbers
    <3>3. [at |-> "waiting", track |-> number, left |-> none, refused |-> FALSE] \in Turns
      BY <3>1, <3>2 DEF Turns, Steps
    <3>4. QED
      BY <3>1, <3>2, <3>3 DEF A!Idle
  <2>2. QED
    BY <1>1, <1>3, <2>1, TracksMade DEF ImportTypes
<1>5. TracksSound /\ LeftSound /\ FilesHold
  BY <1>2, <1>3 DEF TracksSound, LeftSound, FilesHold, Sound, Back
<1>6. OwnTracks
  BY <1>2, <1>3 DEF OwnTracks, Handled
<1>7. A!HeardIsReadable
  BY <1>1 DEF A!HeardIsReadable
<1>8. QED
  BY <1>4, <1>5, <1>6, <1>7 DEF AudioInv

\* A clip stays sound as long as no import goes back to before its track and no file goes
\* but that of one taken back.
LEMMA SoundStays ==
  ASSUME \A d \in Imports :
           /\ import[d].at \in Handled => import'[d].at \in Handled
           /\ import[d].at \in Back => import'[d].at \in Back
           /\ import[d].at \in Handled /\ d \in uploads => d \in uploads' \/ import'[d].at \in Back
  PROVE  \A f : Sound(f) => Sound(f)'
  BY DEF Sound

\* What one import does keeps the invariant, but for the tracks that are its own.
LEMMA ImportMoves ==
  ASSUME AudioInv, NEW c \in Imports, NEW y, import' = [import EXCEPT ![c] = y],
         bad' = bad, deletes' = deletes, c # None,
         y \in Turns, clipOf' \in Tracks, DOMAIN clipOf' # {},
         import[c].at \in Handled => y.at \in Handled,
         import[c].at \in Back => y.at \in Back,
         \A d \in Imports : d # c => (d \in uploads' <=> d \in uploads),
         import[c].at \in Handled /\ c \in uploads => c \in uploads' \/ y.at \in Back,
         y.at \in Back => c \notin uploads', y.at = "uploading" => c \in uploads',
         y.at \in Back \/ y.refused => bad # {},
         \A t \in DOMAIN y.left :
           Sound(y.left[t]) \/ (y.left[t] = c /\ y.at \in Handled /\ c \in uploads'),
         \A t \in DOMAIN clipOf' :
           Sound(clipOf'[t]) \/ (clipOf'[t] = c /\ y.at \in Handled /\ c \in uploads'),
         A!HeardIsReadable', OwnTracks'
  PROVE  AudioInv'
<1>1. ImportTypes /\ LeftSound /\ FilesHold
  BY DEF AudioInv
<1>2. \A d \in Imports : import'[d] = IF d = c THEN y ELSE import[d]
  BY <1>1 DEF ImportTypes
<1>3. ImportTypes'
  BY <1>1, <1>2 DEF ImportTypes
<1>4. \A f : Sound(f) => Sound(f)'
  BY <1>2, SoundStays
<1>5. y.at \in Handled /\ c \in uploads' => Sound(c)'
  BY <1>2 DEF Sound
<1>6. TracksSound'
  <2>1. PICK tracks : tracks = clipOf'
    OBVIOUS
  <2>2. \A t \in DOMAIN tracks : Sound(tracks[t])'
    BY <1>4, <1>5, <2>1
  <2>3. QED
    BY <2>1, <2>2 DEF TracksSound
<1>7. LeftSound'
  <2>1. \A t \in DOMAIN y.left : Sound(y.left[t])'
    BY <1>4, <1>5
  <2>2. \A d \in Imports : \A t \in DOMAIN import[d].left : Sound(import[d].left[t])
    BY <1>1 DEF LeftSound
  <2>3. PICK old : old = import
    OBVIOUS
  <2>4. \A d \in Imports : \A t \in DOMAIN old[d].left : Sound(old[d].left[t])'
    BY <1>4, <2>2, <2>3
  <2>5. PICK new : new = import'
    OBVIOUS
  <2>6. \A d \in Imports : \A t \in DOMAIN new[d].left : Sound(new[d].left[t])'
    BY <1>2, <2>1, <2>3, <2>4, <2>5
  <2>7. QED
    BY <2>5, <2>6 DEF LeftSound
<1>8. FilesHold'
  BY <1>1, <1>2 DEF FilesHold
<1>9. QED
  BY <1>3, <1>6, <1>7, <1>8 DEF AudioInv

\* Where the tracks stay, an import that keeps its number keeps what is its own.
LEMMA TracksStay ==
  ASSUME ImportTypes, OwnTracks, NEW c \in Imports, NEW y, import' = [import EXCEPT ![c] = y],
         UNCHANGED <<clipOf, deletes>>, y.track = import[c].track,
         y.at \in Handled => import[c].at \in Handled,
         y.at \in Back => import[c].at \in Back
  PROVE  OwnTracks' /\ clipOf' \in Tracks /\ DOMAIN clipOf' # {}
<1>1. \A d : d \in Imports => import'[d] = IF d = c THEN y ELSE import[d]
  BY DEF ImportTypes
<1>2. \A t \in DOMAIN clipOf : clipOf[t] # None => clipOf[t] \in Imports
  BY TracksAre DEF ImportTypes
<1>3. OwnTracks'
  BY <1>1, <1>2 DEF OwnTracks
<1>4. QED
  BY <1>3 DEF ImportTypes

LEMMA UploadKeeps ==
  ASSUME A!AudioAssumption, AudioInv, NEW c \in Imports, A!Upload(c) \/ A!UploadFails(c)
  PROVE  AudioInv'
<1>1. ImportTypes /\ OwnTracks /\ TracksSound /\ LeftSound /\ FilesHold /\ A!HeardIsReadable
  BY DEF AudioInv
<1> DEFINE a == IF A!Upload(c) THEN "uploading" ELSE "failed"
<1>2. PICK y : y = [import[c] EXCEPT !.at = a]
  OBVIOUS
<1>2a. import' = [import EXCEPT ![c] = y]
  BY <1>1, <1>2 DEF A!Upload, A!UploadFails, ImportTypes
<1>3. /\ import' = [import EXCEPT ![c] = y] /\ import[c].at \in {"waiting", "uploading"}
      /\ uploads' = IF A!Upload(c) THEN uploads \cup {c} ELSE uploads \ {c}
      /\ UNCHANGED <<bad, clipOf, running, heard, deletes, restarts>>
  BY <1>1, <1>2a DEF A!Upload, A!UploadFails, ImportTypes
<1>4. /\ y \in Turns
      /\ y.refused = import[c].refused /\ y.left = import[c].left /\ y.track = import[c].track
      /\ y.at = (IF A!Upload(c) THEN "uploading" ELSE "failed")
      /\ y.left \in Tracks
  <2>1. PICK r \in Turns : r = import[c]
    BY <1>1 DEF ImportTypes
  <2>2. a \in Steps
    BY DEF Steps
  <2>3. /\ y \in Turns /\ y.at = (IF A!Upload(c) THEN "uploading" ELSE "failed")
        /\ y.track = r.track /\ y.left = r.left /\ y.refused = r.refused
    <3> HIDE DEF a
    <3>1. y = [r EXCEPT !.at = a]
      BY <1>2, <2>1, Zenon
    <3>2. y \in Turns /\ y.at = a /\ y.track = r.track /\ y.left = r.left /\ y.refused = r.refused
      <4>1. r \in Turns /\ a \in Steps
        BY <2>1, <2>2
      <4>2. QED
        BY <4>1, <3>1 DEF Turns
    <3>3. QED
      BY <3>2 DEF a
  <2>4. y.left \in Tracks
    BY <2>3 DEF Turns
  <2>5. QED
    BY <2>1, <2>3, <2>4
<1>5. /\ import[c].at \notin Handled /\ import[c].at \notin Back
      /\ y.at \notin Handled /\ y.at \notin Back
  BY <1>3, <1>4 DEF Handled, Back
<1>6. /\ OwnTracks' /\ A!HeardIsReadable'
      /\ clipOf' \in Tracks /\ DOMAIN clipOf' # {}
  BY <1>1, <1>3, <1>4, <1>5, TracksStay DEF A!HeardIsReadable
<1>7. /\ \A t \in DOMAIN y.left : Sound(y.left[t])
      /\ \A t \in DOMAIN clipOf' : Sound(clipOf'[t])
      /\ y.refused => bad # {}
  BY <1>1, <1>3, <1>4 DEF LeftSound, TracksSound, FilesHold
<1>8. /\ c # None /\ (y.at = "uploading" => c \in uploads')
      /\ \A d \in Imports : d # c => (d \in uploads' <=> d \in uploads)
  BY <1>3, <1>4 DEF A!AudioAssumption
<1>9. QED
  BY <1>3, <1>4, <1>5, <1>6, <1>7, <1>8, ImportMoves

LEMMA AddClipKeeps ==
  ASSUME A!AudioAssumption, AudioInv, NEW c \in Imports, A!AddClip(c)
  PROVE  AudioInv'
<1>1. ImportTypes /\ OwnTracks /\ TracksSound /\ LeftSound /\ FilesHold /\ A!HeardIsReadable
  BY DEF AudioInv
<1>2. /\ import[c].at = "uploading" /\ A!NextNumber \in A!Numbers
      /\ clipOf' = A!With(clipOf, A!NextNumber, c) /\ heard' = A!Known(clipOf')
      /\ UNCHANGED <<bad, uploads, deletes>>
  BY DEF A!AddClip
<1>3. PICK y : y = [A!Told(import[c], clipOf', "syncing", "kept") EXCEPT !.track = A!NextNumber]
  OBVIOUS
<1>4. import' = [import EXCEPT ![c] = y]
  BY <1>1, <1>3 DEF A!AddClip, ImportTypes
<1>5. PICK new : new = clipOf'
  OBVIOUS
<1>6. /\ y \in Turns
      /\ y.at \in {"syncing", "kept"} /\ y.track = A!NextNumber /\ y.refused = import[c].refused
      /\ y.left = new \/ y.left = <<>>
  <2>1. new \in Tracks /\ <<>> \in Tracks
    BY <1>1, <1>2, <1>5, TracksMade DEF ImportTypes
  <2>2. PICK r \in Turns : r = import[c]
    BY <1>1 DEF ImportTypes
  <2>3. PICK a \in {"syncing", "kept"} : a = IF running THEN "syncing" ELSE "kept"
    OBVIOUS
  <2>4. PICK l \in Tracks : l = (IF running THEN new ELSE <<>>) /\ (l = new \/ l = <<>>)
    BY <2>1
  <2>5. y = [[r EXCEPT !.at = a, !.left = l] EXCEPT !.track = A!NextNumber]
    BY <1>3, <1>5, <2>2, <2>3, <2>4 DEF A!Told
  <2>5a. a \in Steps
    BY <2>3 DEF Steps
  <2>6. y \in Turns /\ y.at = a /\ y.track = A!NextNumber /\ y.left = l /\ y.refused = r.refused
    <3>1. r \in Turns /\ a \in Steps /\ l \in Tracks /\ A!NextNumber \in A!Numbers
      BY <1>2, <2>2, <2>4, <2>5a
    <3>2. QED
      BY <3>1, <2>5 DEF Turns, MaybeNumbers
  <2>7. QED
    BY <2>2, <2>4, <2>6
<1>7. PICK n \in Nat : A!Numbers = 1..n
  BY DEF A!AudioAssumption, A!Numbers
<1>8. /\ A!NextNumber \in Nat /\ A!NextNumber \notin DOMAIN clipOf
      /\ 1 \in DOMAIN clipOf => A!NextNumber > 1
  BY <1>1, <1>7, HighestNumber, TracksAre DEF ImportTypes, A!NextNumber
<1>9. /\ DOMAIN new = DOMAIN clipOf \cup {A!NextNumber} /\ new[A!NextNumber] = c
      /\ \A t \in DOMAIN clipOf : new[t] = clipOf[t]
  BY <1>2, <1>5, <1>8 DEF A!With
<1>10. c # None /\ y.at \in Handled /\ y.at \notin Back /\ import[c].at \notin Handled
       /\ import[c].at \notin Back
  BY <1>2, <1>6 DEF Handled, Back, A!AudioAssumption
<1>11. OwnTracks'
  <2> SUFFICES ASSUME deletes' = 0 PROVE OwnTracks'
    BY DEF OwnTracks
  <2>1. /\ 1 \in DOMAIN clipOf /\ clipOf[1] = None
        /\ \A d \in Imports : import[d].at \in Handled => import[d].track \in Nat /\ import[d].track > 1
        /\ \A t \in DOMAIN clipOf : clipOf[t] # None => /\ import[clipOf[t]].track = t
                                                        /\ import[clipOf[t]].at \notin Back
    BY <1>1, <1>2 DEF OwnTracks
  <2>2. \A d : d \in Imports => import'[d] = IF d = c THEN y ELSE import[d]
    BY <1>1, <1>4 DEF ImportTypes
  <2>3. \A t \in DOMAIN clipOf : clipOf[t] # None => clipOf[t] \in Imports /\ clipOf[t] # c
    BY <1>1, <1>10 DEF TracksSound, Sound
  <2>4. 1 \in DOMAIN new /\ new[1] = None
    BY <1>9, <2>1
  <2>5. \A d \in Imports : import'[d].at \in Handled => import'[d].track \in Nat /\ import'[d].track > 1
    BY <1>6, <1>8, <2>1, <2>2
  <2>6. \A t \in DOMAIN new : new[t] # None => import'[new[t]].track = t /\ import'[new[t]].at \notin Back
    BY <1>6, <1>9, <1>10, <2>1, <2>2, <2>3
  <2>7. QED
    BY <1>5, <2>4, <2>5, <2>6 DEF OwnTracks
<1>12. A!HeardIsReadable'
  BY <1>1, <1>2 DEF A!HeardIsReadable, A!Known, A!Restrict
<1>13. /\ \A t \in DOMAIN new : Sound(new[t]) \/ new[t] = c
       /\ \A t \in DOMAIN y.left : Sound(y.left[t]) \/ y.left[t] = c
       /\ c \in uploads' /\ new \in Tracks /\ DOMAIN new # {} /\ y.left \in Tracks
  <2>1. \A t \in DOMAIN new : Sound(new[t]) \/ new[t] = c
    BY <1>1, <1>9 DEF TracksSound
  <2>2. \A t \in DOMAIN y.left : Sound(y.left[t]) \/ y.left[t] = c
    BY <1>6, <2>1
  <2>3. c \in uploads'
    BY <1>1, <1>2 DEF FilesHold
  <2>4. new \in Tracks /\ DOMAIN new # {}
    BY <1>1, <1>2, <1>5, <1>9, TracksMade DEF ImportTypes
  <2>5. QED
    BY <1>6, <2>1, <2>2, <2>3, <2>4 DEF Turns
<1>14. (y.refused => bad # {}) /\ y.at # "uploading"
  BY <1>1, <1>6 DEF ImportTypes, FilesHold
<1>15. QED
  BY <1>2, <1>4, <1>5, <1>6, <1>10, <1>11, <1>12, <1>13, <1>14, ImportMoves

LEMMA SendKeeps ==
  ASSUME A!AudioAssumption, AudioInv, NEW c \in Imports, NEW answers \in BOOLEAN, A!Send(c, answers)
  PROVE  AudioInv'
<1> DEFINE t == A!Min(DOMAIN import[c].left)
           file == import[c].left[t]
           sent == ~(t \in DOMAIN heard /\ heard[t] = file)
           refuses == sent /\ answers /\ ~A!Readable(file)
<1>1. ImportTypes /\ OwnTracks /\ TracksSound /\ LeftSound /\ FilesHold /\ A!HeardIsReadable
  BY DEF AudioInv
<1>2. /\ heard' = IF ~sent THEN heard
                  ELSE IF refuses \/ ~answers THEN A!Without(heard, {t}) ELSE A!With(heard, t, file)
      /\ import[c].at \in {"syncing", "resyncing"}
      /\ UNCHANGED <<bad, clipOf, uploads, deletes>>
  BY DEF A!Send
<1>3. PICK y : y = [import[c] EXCEPT !.left = A!Without(@, {t}), !.refused = @ \/ refuses]
  OBVIOUS
<1>4. import' = [import EXCEPT ![c] = y]
  BY <1>1, <1>3 DEF A!Send, ImportTypes
<1>5. refuses \in BOOLEAN
  OBVIOUS
<1>6. PICK why \in BOOLEAN : why = refuses
  BY <1>5
<1>7. /\ y \in Turns
      /\ y.at = import[c].at /\ y.track = import[c].track
      /\ y.refused = (import[c].refused \/ why)
      /\ y.left = A!Without(import[c].left, {t})
  <2> HIDE DEF t, refuses
  <2>1. QED
    BY <1>1, <1>3, <1>6, TracksMade DEF ImportTypes, Turns
<1>8. \A u \in DOMAIN y.left : u \in DOMAIN import[c].left /\ y.left[u] = import[c].left[u]
  BY <1>7 DEF A!Without, A!Restrict
<1>9. t \in DOMAIN import[c].left
  <2>1. PICK f : f = import[c].left
    OBVIOUS
  <2>2. f # <<>> /\ f \in Tracks
    BY <1>1, <2>1 DEF A!Send, ImportTypes, Turns
  <2>3. DOMAIN f # {}
    BY <2>2, TracksAre
  <2>4. QED
    BY <2>1, <2>2, <2>3, LowestNumber, TracksAre
<1>10. y.at \in Back \/ y.refused => bad # {}
  <2> SUFFICES ASSUME refuses PROVE bad # {}
    BY <1>1, <1>6, <1>7 DEF FilesHold
  <2>1. file # None /\ (file \notin uploads \/ file \in bad)
    BY DEF A!Readable
  <2>2. CASE file \in bad
    BY <2>2
  <2>3. CASE file \notin uploads
    <3>1. Sound(file)
      BY <1>1, <1>9 DEF LeftSound
    <3>2. file \in Imports /\ import[file].at \in Back
      BY <2>1, <2>3, <3>1 DEF Sound
    <3>3. QED
      BY <1>1, <3>2 DEF FilesHold
  <2>4. QED
    BY <2>1, <2>2, <2>3
<1>11. A!HeardIsReadable'
  <2>1. sent /\ ~refuses /\ answers => file \notin bad
    <3>1. file = None => file \notin bad
      BY <1>1 DEF ImportTypes, A!AudioAssumption
    <3>2. QED
      BY <3>1 DEF A!Readable
  <2>2. QED
    BY <1>1, <1>2, <2>1 DEF A!HeardIsReadable, A!With, A!Without, A!Restrict
<1>12. /\ OwnTracks' /\ clipOf' \in Tracks /\ DOMAIN clipOf' # {}
  BY <1>1, <1>2, <1>4, <1>7, TracksStay
<1>13. /\ \A u \in DOMAIN y.left : Sound(y.left[u])
       /\ \A u \in DOMAIN clipOf' : Sound(clipOf'[u])
       /\ y.at \in Back => c \notin uploads'
  BY <1>1, <1>2, <1>7, <1>8 DEF LeftSound, TracksSound, FilesHold
<1>14. y.left \in Tracks
  BY <1>7 DEF Turns
<1>15. c # None /\ y.at # "uploading"
  BY <1>1, <1>2, <1>6, <1>7 DEF ImportTypes, A!AudioAssumption
<1> HIDE DEF t, file, sent, refuses
<1>16. QED
  BY <1>2, <1>4, <1>7, <1>10, <1>11, <1>12, <1>13, <1>14, <1>15, ImportMoves

\* The sync has answered, or the host has gone.
LEMMA EndKeeps ==
  ASSUME A!AudioAssumption, AudioInv, NEW c \in Imports, A!FinishResync(c) \/ A!Raise(c)
  PROVE  AudioInv'
<1>1. ImportTypes /\ OwnTracks /\ TracksSound /\ LeftSound /\ FilesHold /\ A!HeardIsReadable
  BY DEF AudioInv
<1> DEFINE a == IF import[c].at = "syncing" THEN "kept" ELSE "rejected"
<1>2. PICK y : y = [import[c] EXCEPT !.at = a, !.left = <<>>]
  OBVIOUS
<1>3. /\ import[c].at \in {"syncing", "resyncing"}
      /\ UNCHANGED <<bad, clipOf, uploads, heard, deletes>>
  BY DEF A!FinishResync, A!Raise
<1>4. import' = [import EXCEPT ![c] = y]
  <2>1. CASE A!Raise(c)
    BY <1>1, <1>2, <2>1 DEF A!Raise, ImportTypes
  <2>2. CASE A!FinishResync(c)
    BY <1>1, <1>2, <2>2 DEF A!FinishResync, ImportTypes
  <2>3. QED
    BY <2>1, <2>2
<1>5. /\ y \in Turns
      /\ y.at = (IF import[c].at = "syncing" THEN "kept" ELSE "rejected")
      /\ y.track = import[c].track /\ y.left = <<>>
      /\ y.refused = import[c].refused
  <2>1. PICK r \in Turns : r = import[c]
    BY <1>1 DEF ImportTypes
  <2>2. <<>> \in Tracks /\ a \in Steps
    BY TracksMade DEF Steps
  <2> HIDE DEF a
  <2>3. y = [r EXCEPT !.at = a, !.left = <<>>]
    BY <1>2, <2>1, Zenon
  <2>4. y \in Turns /\ y.at = a /\ y.track = r.track /\ y.left = <<>> /\ y.refused = r.refused
    <3>1. r \in Turns /\ a \in Steps /\ <<>> \in Tracks
      BY <2>1, <2>2
    <3>2. QED
      BY <3>1, <2>3 DEF Turns
  <2>5. QED
    BY <2>1, <2>4 DEF a
<1>6. /\ y.at \in Handled /\ import[c].at \in Handled /\ (y.at \in Back <=> import[c].at \in Back)
      /\ y.at # "uploading"
  BY <1>3, <1>5 DEF Handled, Back
<1>7. /\ OwnTracks' /\ A!HeardIsReadable' /\ clipOf' \in Tracks /\ DOMAIN clipOf' # {}
  BY <1>1, <1>3, <1>4, <1>5, <1>6, TracksStay DEF A!HeardIsReadable
<1>8. /\ y.left \in Tracks /\ DOMAIN y.left = {}
      /\ \A t \in DOMAIN clipOf' : Sound(clipOf'[t])
      /\ y.at \in Back => c \notin uploads'
      /\ y.at \in Back \/ y.refused => bad # {}
  <2>1. y.left \in Tracks /\ DOMAIN y.left = {}
    BY <1>5, TracksMade
  <2>2. \A t \in DOMAIN clipOf' : Sound(clipOf'[t])
    BY <1>1, <1>3 DEF TracksSound
  <2>3. (y.at \in Back => c \notin uploads') /\ (y.at \in Back \/ y.refused => bad # {})
    BY <1>1, <1>3, <1>5, <1>6 DEF FilesHold
  <2>4. QED
    BY <2>1, <2>2, <2>3
<1>9. c # None
  BY DEF A!AudioAssumption
<1>10. QED
  BY <1>3, <1>4, <1>5, <1>6, <1>7, <1>8, <1>9, ImportMoves

LEMMA FinishKeeps ==
  ASSUME A!AudioAssumption, AudioInv, NEW c \in Imports, A!Finish(c)
  PROVE  AudioInv'
<1>1. ImportTypes /\ OwnTracks /\ TracksSound /\ LeftSound /\ FilesHold /\ A!HeardIsReadable
  BY DEF AudioInv
<1>2. import[c].at = "syncing" /\ UNCHANGED <<bad, deletes>>
  BY DEF A!Finish
<1>3. c # None /\ import[c].at \in Handled /\ import[c].at \notin Back /\ <<>> \in Tracks
  BY <1>2, TracksMade DEF A!AudioAssumption, Handled, Back
<1>4. CASE ~import[c].refused
  <2>1. PICK y : y = [import[c] EXCEPT !.at = "kept"]
    OBVIOUS
  <2>2. import' = [import EXCEPT ![c] = y] /\ UNCHANGED <<clipOf, uploads, heard>>
    BY <1>1, <1>4, <2>1 DEF A!Finish, ImportTypes
  <2>3. /\ y \in Turns
        /\ y.at = "kept" /\ y.track = import[c].track /\ y.left = import[c].left
        /\ y.refused = import[c].refused /\ y.left \in Tracks
    <3>1. PICK r \in Turns : r = import[c]
      BY <1>1 DEF ImportTypes
    <3>1a. "kept" \in Steps
      BY DEF Steps
    <3>2. y \in Turns /\ y.at = "kept" /\ y.track = r.track /\ y.left = r.left /\ y.refused = r.refused
      <4>1. y = [r EXCEPT !.at = "kept"]
        BY <2>1, <3>1, Zenon
      <4>2. QED
        <5>1. r \in Turns /\ "kept" \in Steps
          BY <3>1, <3>1a
        <5>2. QED
          BY <5>1, <4>1 DEF Turns
    <3>3. y.left \in Tracks
      BY <3>2 DEF Turns
    <3>4. QED
      BY <3>1, <3>2, <3>3
  <2>4. y.at \in Handled /\ y.at \notin Back /\ y.at # "uploading"
    BY <2>3 DEF Handled, Back
  <2>5. OwnTracks' /\ A!HeardIsReadable' /\ clipOf' \in Tracks /\ DOMAIN clipOf' # {}
    BY <1>1, <1>2, <1>3, <2>2, <2>3, <2>4, TracksStay DEF A!HeardIsReadable
  <2>6. /\ \A t \in DOMAIN y.left : Sound(y.left[t])
        /\ \A t \in DOMAIN clipOf' : Sound(clipOf'[t])
        /\ y.refused => bad # {}
    BY <1>1, <2>2, <2>3 DEF LeftSound, TracksSound, FilesHold
  <2>7. QED
    BY <1>2, <1>3, <2>2, <2>3, <2>4, <2>5, <2>6, ImportMoves
<1>5. CASE import[c].refused
  <2>1. uploads' = uploads \ {c} /\ clipOf' = A!Deleted(import[c].track) /\ bad # {}
    BY <1>1, <1>5 DEF A!Finish, FilesHold
  <2>2. PICK y : y = IF clipOf' = clipOf THEN [import[c] EXCEPT !.at = "rejected"]
                     ELSE A!Told(import[c], clipOf', "resyncing", "rejected")
    OBVIOUS
  <2>3. import' = [import EXCEPT ![c] = y] /\ (heard' = heard \/ heard' = A!Known(clipOf'))
    BY <1>1, <1>5, <2>2 DEF A!Finish, ImportTypes
  <2>4. PICK new : new = clipOf'
    OBVIOUS
  <2>5. /\ DOMAIN new \subseteq DOMAIN clipOf /\ \A t \in DOMAIN new : new[t] = clipOf[t]
        /\ new = clipOf \/ DOMAIN new = DOMAIN clipOf \ {import[c].track}
        /\ new \in Tracks
        /\ import[c].track \in DOMAIN clipOf /\ A!Cardinality(DOMAIN clipOf) > 1
             => DOMAIN new = DOMAIN clipOf \ {import[c].track}
    BY <1>1, <2>1, <2>4, DeletedTracks, TracksMade DEF ImportTypes, A!Deleted
  <2>6. /\ y \in Turns
        /\ y.at \in Back /\ y.track = import[c].track
        /\ y.left = import[c].left \/ y.left = new \/ y.left = <<>>
        /\ y.refused = import[c].refused
    <3>1. PICK r \in Turns : r = import[c]
      BY <1>1 DEF ImportTypes
    <3>2. CASE clipOf' = clipOf
      <4>1. y \in Turns /\ y.at = "rejected" /\ y.track = r.track /\ y.left = r.left /\ y.refused = r.refused
        <5>1. y = [r EXCEPT !.at = "rejected"]
          BY <2>2, <3>1, <3>2, Zenon
        <5>2. "rejected" \in Steps
          BY DEF Steps
        <5>3. QED
          <6>1. r \in Turns /\ "rejected" \in Steps
            BY <3>1, <5>2
          <6>2. QED
            BY <6>1, <5>1 DEF Turns
      <4>2. QED
        BY <3>1, <4>1 DEF Back
    <3>3. CASE clipOf' # clipOf
      <4>1. PICK a \in {"resyncing", "rejected"} : a = (IF running THEN "resyncing" ELSE "rejected") /\ a \in Back
        BY DEF Back
      <4>2. PICK l \in Tracks : l = (IF running THEN new ELSE <<>>) /\ (l = new \/ l = <<>>)
        BY <1>3, <2>5
      <4>3. y = [r EXCEPT !.at = a, !.left = l] /\ a \in Steps
        BY <2>2, <2>4, <3>1, <3>3, <4>1, <4>2 DEF A!Told, Steps
      <4>4. y \in Turns /\ y.at = a /\ y.track = r.track /\ y.left = l /\ y.refused = r.refused
        <5>1. r \in Turns /\ a \in Steps /\ l \in Tracks
          BY <3>1, <4>2, <4>3
        <5>2. QED
          BY <5>1, <4>3 DEF Turns
      <4>5. QED
        BY <3>1, <4>1, <4>2, <4>4
    <3>4. QED
      BY <3>2, <3>3
  <2>7. y.at \in Handled /\ y.at # "uploading"
    BY <2>6 DEF Handled, Back
  <2>8. A!HeardIsReadable'
    BY <1>1, <1>2, <2>3 DEF A!HeardIsReadable, A!Known, A!Restrict
  <2>9. \A d \in Imports : import'[d] = IF d = c THEN y ELSE import[d]
    BY <1>1, <2>3 DEF ImportTypes
  <2>10. OwnTracks'
    <3> SUFFICES ASSUME deletes' = 0 PROVE OwnTracks'
      BY DEF OwnTracks
    <3>1. /\ 1 \in DOMAIN clipOf /\ clipOf[1] = None
          /\ \A d \in Imports : import[d].at \in Handled => import[d].track \in Nat /\ import[d].track > 1
          /\ \A t \in DOMAIN clipOf : clipOf[t] # None => /\ import[clipOf[t]].track = t
                                                          /\ import[clipOf[t]].at \notin Back
      BY <1>1, <1>2 DEF OwnTracks
    <3>2. import[c].track \in Nat /\ import[c].track > 1
      BY <1>3, <3>1
    <3>3. import[c].track \in DOMAIN clipOf => DOMAIN new = DOMAIN clipOf \ {import[c].track}
      BY <1>1, <2>5, <3>1, <3>2, OneOfTwoGoes
    <3>4. 1 \in DOMAIN new /\ new[1] = None
      BY <2>5, <3>1, <3>2
    <3>5. \A d \in Imports : import'[d].at \in Handled => import'[d].track \in Nat /\ import'[d].track > 1
      BY <2>6, <2>9, <3>1, <3>2
    <3>6. \A t \in DOMAIN new : new[t] # None => new[t] \in Imports /\ new[t] # c
      BY <1>1, <2>5, <3>1, <3>3 DEF TracksSound, Sound
    <3>7. \A t \in DOMAIN new : new[t] # None => import'[new[t]].track = t /\ import'[new[t]].at \notin Back
      BY <2>5, <2>9, <3>1, <3>6
    <3>8. QED
      BY <2>4, <3>4, <3>5, <3>7 DEF OwnTracks
  <2>11. DOMAIN new # {}
    <3>1. CASE new = clipOf
      BY <1>1, <3>1 DEF ImportTypes
    <3>2. CASE new # clipOf
      <4>1. A!Cardinality(DOMAIN clipOf) > 1 /\ DOMAIN new = DOMAIN clipOf \ {import[c].track}
        BY <2>1, <2>4, <2>5, <3>2 DEF A!Deleted
      <4>2. IsFiniteSet(DOMAIN clipOf) /\ A!Cardinality(DOMAIN clipOf) = Cardinality(DOMAIN clipOf)
        BY <1>1, TracksAreFinite
      <4>3. \A t : DOMAIN clipOf # {t}
        <5>1. \A t : Cardinality({t}) = 1
          BY FS_Singleton
        <5>2. QED
          BY <4>1, <4>2, <5>1
      <4>4. QED
        BY <1>1, <4>1, <4>3 DEF ImportTypes
    <3>3. QED
      BY <3>1, <3>2
  <2>12. \A t \in DOMAIN new : Sound(new[t])
    BY <1>1, <2>5 DEF TracksSound
  <2>13. y.left \in Tracks /\ \A t \in DOMAIN y.left : Sound(y.left[t])
    <3>1. import[c].left \in Tracks /\ \A t \in DOMAIN import[c].left : Sound(import[c].left[t])
      BY <1>1 DEF ImportTypes, LeftSound, Turns
    <3>2. QED
      BY <1>3, <2>5, <2>6, <2>12, <3>1
  <2>14. QED
    BY <1>2, <1>3, <2>1, <2>3, <2>4, <2>5, <2>6, <2>7, <2>8, <2>10, <2>11, <2>12, <2>13, ImportMoves
<1>6. QED
  BY <1>4, <1>5

\* The user deletes a track or replaces the project.
LEMMA UserKeeps ==
  ASSUME A!AudioAssumption, AudioInv, (\E t \in A!Numbers : A!Delete(t)) \/ A!OpenProject
  PROVE  AudioInv'
<1>1. ImportTypes /\ TracksSound /\ LeftSound /\ FilesHold /\ A!HeardIsReadable
  BY DEF AudioInv
<1>2. PICK new : new = clipOf'
  OBVIOUS
<1>3. deletes' = deletes + 1 /\ UNCHANGED <<bad, uploads, running, heard, import>>
  BY DEF A!Delete, A!OpenProject
<1>4. new \in Tracks /\ DOMAIN new # {} /\ \A t \in DOMAIN new : Sound(new[t])
  <2>1. CASE A!OpenProject
    <3>1. new = A!NewTracks /\ 1 \in A!Numbers
      BY <1>2, <2>1 DEF A!OpenProject, A!AudioAssumption, A!Numbers
    <3>2. QED
      BY <3>1, TracksMade DEF A!NewTracks, Sound
  <2>2. CASE \E t \in A!Numbers : A!Delete(t)
    <3>1. PICK t \in A!Numbers : clipOf' = A!Deleted(t) /\ clipOf' # clipOf
      BY <2>2 DEF A!Delete
    <3>2. /\ new \in Tracks /\ DOMAIN new = DOMAIN clipOf \ {t}
          /\ \A u \in DOMAIN new : u \in DOMAIN clipOf /\ new[u] = clipOf[u]
      BY <1>1, <1>2, <3>1, DeletedTracks, TracksMade DEF ImportTypes, A!Deleted
    <3>3. A!Cardinality(DOMAIN clipOf) > 1
      BY <3>1 DEF A!Deleted
    <3>4. IsFiniteSet(DOMAIN clipOf) /\ A!Cardinality(DOMAIN clipOf) = Cardinality(DOMAIN clipOf)
      BY <1>1, TracksAreFinite
    <3>5. DOMAIN clipOf # {t}
      BY <3>3, <3>4, FS_Singleton
    <3>6. QED
      BY <1>1, <3>2, <3>5 DEF ImportTypes, TracksSound
  <2>3. QED
    BY <2>1, <2>2
<1>5. ImportTypes'
  BY <1>1, <1>2, <1>3, <1>4 DEF ImportTypes
<1>6. \A f : Sound(f) => Sound(f)'
  BY <1>3 DEF Sound
<1>7. TracksSound'
  BY <1>2, <1>4, <1>6 DEF TracksSound
<1>8. LeftSound' /\ FilesHold' /\ A!HeardIsReadable'
  BY <1>1, <1>3 DEF LeftSound, Sound, FilesHold, A!HeardIsReadable
<1>9. OwnTracks'
  BY <1>1, <1>3 DEF OwnTracks, ImportTypes
<1>10. QED
  BY <1>5, <1>7, <1>8, <1>9 DEF AudioInv

LEMMA AudioKept == A!AudioAssumption /\ AudioInv /\ [A!Next]_A!vars => AudioInv'
<1> SUFFICES ASSUME A!AudioAssumption, AudioInv, [A!Next]_A!vars PROVE AudioInv'
  OBVIOUS
<1>1. CASE A!HostEnds \/ A!HostStarts \/ UNCHANGED A!vars
  <2>1. UNCHANGED <<bad, clipOf, uploads, import, deletes>> /\ (heard' = heard \/ heard' = <<>>)
    BY <1>1 DEF A!HostEnds, A!HostStarts, A!vars
  <2>2. ImportTypes' /\ TracksSound' /\ LeftSound' /\ FilesHold' /\ OwnTracks'
    BY <2>1 DEF AudioInv, ImportTypes, TracksSound, LeftSound, Sound, FilesHold, OwnTracks
  <2>3. A!HeardIsReadable'
    BY <2>1 DEF AudioInv, A!HeardIsReadable
  <2>4. QED
    BY <2>2, <2>3 DEF AudioInv
<1>2. CASE (\E t \in A!Numbers : A!Delete(t)) \/ A!OpenProject
  BY <1>2, UserKeeps
<1>3. CASE \E c \in Imports : \/ A!Upload(c) \/ A!UploadFails(c) \/ A!AddClip(c) \/ A!Finish(c)
                              \/ A!FinishResync(c) \/ A!Raise(c) \/ A!Send(c, TRUE) \/ A!Send(c, FALSE)
  BY <1>3, UploadKeeps, AddClipKeeps, FinishKeeps, EndKeeps, SendKeeps
<1>4. QED
  BY <1>1, <1>2, <1>3 DEF A!Next

LEMMA InvariantHoldsImports ==
  ASSUME A!AudioAssumption, AudioInv
  PROVE  A!ImportsHold
<1>1. A!RejectedImportsAreGone
  <2> SUFFICES ASSUME NEW c \in Imports, import[c].at \in Back
               PROVE  c \notin uploads /\ (c \in A!Clips => deletes > 0)
    BY DEF A!RejectedImportsAreGone, Back
  <2>1. c \notin uploads /\ deletes \in Nat /\ c # None
    BY DEF AudioInv, FilesHold, ImportTypes, A!AudioAssumption
  <2>2. ASSUME c \in A!Clips, deletes = 0 PROVE FALSE
    <3>1. PICK t \in DOMAIN clipOf : clipOf[t] = c
      BY <2>2 DEF A!Clips
    <3>2. QED
      BY <2>1, <2>2, <3>1 DEF AudioInv, OwnTracks
  <2>3. QED
    BY <2>1, <2>2
<1>2. A!ClipsHaveFiles
  <2> SUFFICES ASSUME NEW c \in A!Clips PROVE c \in uploads \/ import[c].at \in Back
    BY DEF A!ClipsHaveFiles, Back
  <2>1. PICK t \in DOMAIN clipOf : clipOf[t] = c
    BY DEF A!Clips
  <2>2. Sound(c) /\ c # None
    BY <2>1 DEF AudioInv, TracksSound, A!Clips, A!AudioAssumption
  <2>3. QED
    BY <2>2 DEF Sound
<1>3. A!OnlyRefusalsReject
  BY DEF AudioInv, FilesHold, A!OnlyRefusalsReject, Back
<1>4. QED
  BY <1>1, <1>2, <1>3 DEF A!ImportsHold, AudioInv

(* The inductive invariant of the imports holds for any files, tracks and ends of the host. *)
THEOREM AudioInvariantHolds == A!AudioAssumption /\ A!Spec => []AudioInv
<1>1. ASSUME A!AudioAssumption PROVE A!Spec => []AudioInv
  <2>1. A!Init => AudioInv
    BY <1>1, InitAudio
  <2>2. AudioInv /\ [A!Next]_A!vars => AudioInv'
    BY <1>1, AudioKept
  <2>3. QED
    BY <2>1, <2>2, PTL DEF A!Spec
<1>2. QED
  BY <1>1

(* An import that the host refused leaves neither file nor clip, every other clip has its file,
   nothing is taken back while the host can read every file, and the host has no clip it could
   not read: whatever imports, deletions and ends of the host overlap (_finish_audio_import,
   _sync_project_to_host, delete_track). *)
THEOREM ImportsStayWhole == A!AudioAssumption /\ A!Spec => []A!ImportsHold
<1>1. ASSUME A!AudioAssumption PROVE A!Spec => []A!ImportsHold
  <2>1. AudioInv => A!ImportsHold
    BY <1>1, InvariantHoldsImports
  <2>2. A!Spec => []AudioInv
    BY <1>1, AudioInvariantHolds
  <2>3. QED
    BY <2>1, <2>2, PTL
<1>2. QED
  BY <1>1

(***************************************************************************)
(* The plugins of a track (PluginState): the saved project, the host, and  *)
(* the requests that ask the host for one slot after the other.            *)
(***************************************************************************)
CONSTANTS Handlers, Slots, Plugins, MaxTurns, MaxChanges, MaxStops, MaxFails
VARIABLES slots, processors, alive, queue, requests, turns, changes, stops, fails, chosen, answered

P == INSTANCE PluginState WITH saved <- slots, host <- processors, running <- alive,
                               call <- requests

\* What the project has in a slot, what the host answers, what a request is at.
MaybePlugins == Plugins \cup {None}
MaybeStates == P!States \cup {None}
Saves == [Slots -> [plugin : MaybePlugins, state : MaybeStates]]
Answers == [state : MaybeStates]
MaybeAnswers == Answers \cup {None}
Places == {"capturing", "setting", "loading", "restoring"}
Aims == {"plugin", "parameter", "sync", "stop", "start"}
Works == [at : Places, next : Aims, slot : Slots, reply : MaybeAnswers, target : Slots,
          plugin : MaybePlugins, copy : Saves, left : SUBSET Slots, value : 0..MaxTurns]

\* The command a request waits for.
Waits(c) == c.at \in Places /\ c.reply = None
CommandOf(c) ==
    CASE c.at = "capturing" -> P!Get(c.slot)
      [] c.at = "setting" -> [name |-> "set", slot |-> c.slot, value |-> c.value]
      [] c.at = "loading" -> P!Load(c.slot, IF c.next = "start" THEN c.copy[c.slot].plugin ELSE c.plugin)
      [] c.at = "restoring" -> P!Restore(c.slot, c.copy[c.slot].state)
Entries == [of : Handlers, command : {CommandOf(c) : c \in Works}]

SlotTypes ==
    /\ slots \in Saves /\ processors \in [Slots -> MaybeStates] /\ alive \in BOOLEAN
    /\ requests \in [Handlers -> Works \cup {P!Idle}] /\ queue \in Seq(Entries)
    /\ turns \in 0..MaxTurns /\ stops \in Nat /\ fails \in Nat
    /\ chosen \in [Slots -> MaybePlugins] /\ answered \in [Slots -> 0..MaxTurns]

\* The queue has the commands of those who wait, one each, and the host runs.
Queued ==
    /\ \A i \in DOMAIN queue : /\ queue[i].of \in Handlers /\ Waits(requests[queue[i].of])
                               /\ queue[i].command = CommandOf(requests[queue[i].of])
    /\ \A i, j \in DOMAIN queue : queue[i].of = queue[j].of => i = j
    /\ \A h \in Handlers : Waits(requests[h]) => \E i \in DOMAIN queue : queue[i].of = h
    /\ queue # <<>> => alive
\* What a request is at depends on what it is for.
WorkFits(c) ==
    /\ c.at = "setting" => c.next = "parameter" /\ c.slot = c.target /\ c.target \in c.left
    /\ c.at = "loading" => c.next \in {"plugin", "start"}
    /\ c.at = "loading" /\ c.next = "plugin" => c.slot = c.target
    /\ c.at = "restoring" => /\ c.next = "start" /\ c.copy[c.slot].state # None
                             /\ c.copy[c.slot].plugin # None
    /\ c.at = "capturing" => c.next # "start"
WorksFit == \A h \in Handlers : WorkFits(requests[h])

\* While the host runs on, the last load for a slot that waits is of the plugin chosen for it.
Loads(i, s) == queue[i].command.name = "load" /\ queue[i].command.slot = s
Has(s) == slots[s].plugin = IF processors[s] = None THEN None ELSE processors[s].plugin
LoadsHold == fails = 0 /\ stops = 0 =>
    /\ alive /\ \A h \in Handlers : requests[h].at \in Places => requests[h].next # "start"
    /\ \A s \in Slots :
        /\ \A i \in DOMAIN queue : Loads(i, s) /\ (\A j \in DOMAIN queue : j > i => ~Loads(j, s))
              => queue[i].command.plugin = slots[s].plugin
        /\ (\A i \in DOMAIN queue : ~Loads(i, s)) => Has(s)

\* A state is of the plugin of its slot, and no older than what was answered.
Fits(s, state) == state # None => state.plugin = slots[s].plugin
Newer(s, state) == answered[s] > 0 => state # None /\ state.value >= answered[s]
Keeps(s) == Has(s) /\ Newer(s, processors[s])
SavedHolds == \A s \in Slots :
    Fits(s, slots[s].state) /\ Newer(s, slots[s].state) /\ answered[s] <= turns

\* Where one request at a time is: the host has the slots it need not wait for, the copy
\* has states that may be saved, and the value that was set is in the host and then captured.
Captured(c) == c.copy[c.target].state # None /\ c.copy[c.target].state.value >= c.value
AnsweredFor(c) == /\ c.slot = c.target
                  /\ c.reply # None => c.reply.state # None /\ c.reply.state.value >= c.value
Steady(c) == c.at \in {"idle", "capturing", "setting"} => \A s \in Slots : Keeps(s)
Changing(c) == c.at = "loading" /\ c.next = "plugin" =>
    /\ \A s \in Slots \ {c.slot} : Keeps(s)
    /\ c.plugin = slots[c.slot].plugin /\ answered[c.slot] = 0
    /\ c.reply # None => Has(c.slot)
Starting(c) == c.at \in {"loading", "restoring"} /\ c.next = "start" =>
    /\ c.copy = slots /\ \A s \in Slots \ (c.left \cup {c.slot}) : Keeps(s)
    /\ c.at = "restoring" \/ c.reply # None => Has(c.slot)
    /\ c.at = "restoring" /\ c.reply # None => Keeps(c.slot)
Sounding(c) ==
    (c.at = "capturing" \/ (c.at = "setting" /\ c.reply # None)) /\ c.next = "parameter" =>
        processors[c.target] # None /\ processors[c.target].value >= c.value
HostFits(c) == alive => Steady(c) /\ Changing(c) /\ Starting(c) /\ Sounding(c)
CopyFits(c) == c.at \in {"capturing", "setting"} =>
    /\ \A s \in Slots : Fits(s, c.copy[s].state) /\ Newer(s, c.copy[s].state)
    /\ c.at = "capturing" /\ c.reply # None =>
            Fits(c.slot, c.reply.state) /\ (c.reply.state # None => Newer(c.slot, c.reply.state))
    /\ c.next = "parameter" =>
        /\ slots[c.target].plugin # None
        /\ c.value <= turns /\ \A s \in Slots : answered[s] <= c.value
        /\ c.at = "capturing" => c.target \in c.left \/ AnsweredFor(c) \/ (c.slot # c.target /\ Captured(c))
AloneHolds == P!Alone /\ fails = 0 =>
    SavedHolds /\ \A h \in Handlers : HostFits(requests[h]) /\ CopyFits(requests[h])

PluginInv == SlotTypes /\ Queued /\ WorksFit /\ LoadsHold /\ AloneHolds /\ P!ChosenPluginsStay

\* What the records are made of.
LEMMA NoneIsApart ==
  ASSUME P!PluginAssumption
  PROVE  /\ \A x \in P!States : x # None /\ x.plugin \in Plugins /\ x.plugin # None /\ x.value \in 0..MaxTurns
         /\ \A x \in Answers : x # None /\ x.state \in MaybeStates
         /\ None \notin Plugins /\ MaxTurns \in Nat /\ 0 \in Slots /\ Slots \subseteq Nat
  BY DEF P!PluginAssumption, P!States, Answers, MaybeStates

LEMMA WorkFields ==
  ASSUME NEW c \in Works
  PROVE  /\ c.at \in Places /\ c.next \in Aims /\ c.slot \in Slots /\ c.reply \in MaybeAnswers
         /\ c.target \in Slots /\ c.plugin \in MaybePlugins /\ c.copy \in Saves
         /\ c.left \subseteq Slots /\ c.value \in 0..MaxTurns
  BY DEF Works

LEMMA SaveFields ==
  ASSUME NEW f \in Saves, NEW s \in Slots
  PROVE  f[s].plugin \in MaybePlugins /\ f[s].state \in MaybeStates
  BY DEF Saves

LEMMA IdleFields == P!Idle.at = "idle" /\ ~Waits(P!Idle) /\ WorkFits(P!Idle)
  BY DEF P!Idle, Waits, WorkFits, Places

\* A request asks, goes on to another slot, is answered, notes the answer.
Asks(c, s) == [c EXCEPT !.slot = s, !.reply = None]
WithLeft(c, s) == [c EXCEPT !.left = @ \ {s}]
Replied(c, x) == [c EXCEPT !.reply = x]
Put(c, place) == [c EXCEPT !.at = place]
NotedBy(c) == [c EXCEPT !.copy[c.slot].state = IF c.reply.state = None THEN @ ELSE c.reply.state]
Same(c, y) == y.next = c.next /\ y.target = c.target /\ y.plugin = c.plugin /\ y.value = c.value

LEMMA AsksIs ==
  ASSUME NEW c \in Works, NEW s \in Slots
  PROVE  /\ Asks(c, s) \in Works /\ Same(c, Asks(c, s)) /\ Asks(c, s).at = c.at /\ Asks(c, s).slot = s
         /\ Asks(c, s).reply = None /\ Asks(c, s).copy = c.copy /\ Asks(c, s).left = c.left
  BY DEF Works, Asks, Same, MaybeAnswers

LEMMA WithLeftIs ==
  ASSUME NEW c \in Works, NEW s
  PROVE  LET y == WithLeft(c, s) IN
         /\ y \in Works /\ Same(c, y) /\ y.at = c.at /\ y.slot = c.slot
         /\ y.reply = c.reply /\ y.copy = c.copy /\ y.left = c.left \ {s}
  BY DEF Works, WithLeft, Same

LEMMA RepliedIs ==
  ASSUME NEW c \in Works, NEW x \in Answers
  PROVE  LET y == Replied(c, x) IN
         /\ y \in Works /\ Same(c, y) /\ y.at = c.at /\ y.slot = c.slot
         /\ y.reply = x /\ y.copy = c.copy /\ y.left = c.left
  BY DEF Works, Replied, Same, MaybeAnswers

LEMMA PutIs ==
  ASSUME NEW c \in Works, NEW place \in Places
  PROVE  LET y == Put(c, place) IN
         /\ y \in Works /\ Same(c, y) /\ y.at = place /\ y.slot = c.slot
         /\ y.reply = c.reply /\ y.copy = c.copy /\ y.left = c.left
  BY DEF Works, Put, Same

LEMMA NotedIs ==
  ASSUME P!PluginAssumption, NEW c \in Works, c.reply # None
  PROVE  LET y == NotedBy(c) IN
         /\ y \in Works /\ Same(c, y) /\ y.at = c.at /\ y.slot = c.slot
         /\ y.reply = c.reply /\ y.left = c.left
         /\ \A s \in Slots : /\ y.copy[s].plugin = c.copy[s].plugin
                             /\ y.copy[s].state = IF s = c.slot /\ c.reply.state # None THEN c.reply.state
                                                  ELSE c.copy[s].state
<1>1. c.reply \in Answers /\ c.reply.state \in MaybeStates
  BY WorkFields, NoneIsApart DEF MaybeAnswers
<1>2. QED
  BY <1>1 DEF Works, NotedBy, Same, Saves

\* A request asks the host; without a host it ends.
Asked(h, y) ==
    /\ alive' => /\ requests' = [requests EXCEPT ![h] = y]
                 /\ queue' = Append(queue, [of |-> h, command |-> CommandOf(y)])
    /\ ~alive' => requests' = [requests EXCEPT ![h] = P!Idle] /\ queue' = queue
Ended(h) == requests' = [requests EXCEPT ![h] = P!Idle] /\ queue' = queue

LEMMA SendIs ==
  ASSUME NEW h, NEW c, NEW command, NEW s, P!Send(h, c, command, s), command = CommandOf(Asks(c, s)), alive'
  PROVE  Asked(h, Asks(c, s))
<1>1. requests' = [requests EXCEPT ![h] = Asks(c, s)]
  BY Zenon DEF P!Send, Asks
<1>2. queue' = Append(queue, [of |-> h, command |-> CommandOf(Asks(c, s))])
  BY Zenon DEF P!Send
<1>3. QED
  BY <1>1, <1>2 DEF Asked

LEMMA AskedIs ==
  ASSUME NEW h, NEW c, NEW command, NEW s, P!Ask(h, c, command, s), command = CommandOf(Asks(c, s)), alive' = alive
  PROVE  Asked(h, Asks(c, s))
<1>1. CASE alive
  <2>1. P!Send(h, c, command, s)
    BY <1>1 DEF P!Ask
  <2>2. QED
    BY <1>1, <2>1, SendIs
<1>2. CASE ~alive
  BY <1>2 DEF P!Ask, Asked
<1>3. QED
  BY <1>1, <1>2

\* Who did not wait, asks: its command is the last in the queue.
LEMMA AskedKeeps ==
  ASSUME P!PluginAssumption, SlotTypes, Queued, WorksFit, NEW h \in Handlers, ~Waits(requests[h]),
         NEW y \in Works, y.reply = None, WorkFits(y), Asked(h, y), alive => alive', alive' \in BOOLEAN
  PROVE  /\ requests' \in [Handlers -> Works \cup {P!Idle}] /\ queue' \in Seq(Entries)
         /\ Queued' /\ WorksFit'
<1>1. CASE alive'
  <2>1. /\ requests' = [requests EXCEPT ![h] = y]
        /\ queue' = Append(queue, [of |-> h, command |-> CommandOf(y)])
    BY <1>1 DEF Asked
  <2>2. \A g \in Handlers : requests'[g] = IF g = h THEN y ELSE requests[g]
    BY <2>1 DEF SlotTypes
  <2>3. Waits(y) /\ CommandOf(y) \in {CommandOf(c) : c \in Works}
    BY WorkFields DEF Waits
  <2>4. [of |-> h, command |-> CommandOf(y)] \in Entries
    BY <2>3 DEF Entries
  <2>5. queue \in Seq(Entries) /\ Len(queue) \in Nat /\ DOMAIN queue = 1..Len(queue)
    BY DEF SlotTypes
  <2>6. /\ queue' \in Seq(Entries) /\ DOMAIN queue' = 1..(Len(queue) + 1)
        /\ \A i \in DOMAIN queue : queue'[i] = queue[i]
        /\ queue'[Len(queue) + 1].of = h /\ queue'[Len(queue) + 1].command = CommandOf(y)
    BY <2>1, <2>4, <2>5
  <2>7. requests' \in [Handlers -> Works \cup {P!Idle}]
    BY <2>1 DEF SlotTypes
  <2>8. \A i \in DOMAIN queue : queue[i].of # h
    BY DEF Queued
  <2>9. PICK new : new = queue'
    OBVIOUS
  <2>10. PICK all : all = requests'
    OBVIOUS
  <2>11. \A i \in DOMAIN new : /\ new[i].of \in Handlers /\ Waits(all[new[i].of])
                               /\ new[i].command = CommandOf(all[new[i].of])
    BY <2>2, <2>3, <2>5, <2>6, <2>8, <2>9, <2>10 DEF Queued
  <2>12. \A i, j \in DOMAIN new : new[i].of = new[j].of => i = j
    BY <2>5, <2>6, <2>8, <2>9 DEF Queued
  <2>13. ASSUME NEW g \in Handlers, Waits(all[g]) PROVE \E i \in DOMAIN new : new[i].of = g
    <3>1. CASE g = h
      BY <2>5, <2>6, <2>9, <3>1
    <3>2. CASE g # h
      <4>1. PICK i \in DOMAIN queue : queue[i].of = g
        BY <2>2, <2>10, <2>13, <3>2 DEF Queued
      <4>2. QED
        BY <2>5, <2>6, <2>9, <4>1
    <3>3. QED
      BY <3>1, <3>2
  <2>14. Queued'
    BY <1>1, <2>9, <2>10, <2>11, <2>12, <2>13 DEF Queued
  <2>15. WorksFit'
    BY <2>2 DEF WorksFit
  <2>16. QED
    BY <2>6, <2>7, <2>14, <2>15
<1>2. CASE ~alive'
  <2>1. requests' = [requests EXCEPT ![h] = P!Idle] /\ queue' = queue /\ queue = <<>>
    BY <1>2 DEF Asked, Queued
  <2>2. \A g \in Handlers : requests'[g] = IF g = h THEN P!Idle ELSE requests[g]
    BY <2>1 DEF SlotTypes
  <2>3. requests' \in [Handlers -> Works \cup {P!Idle}] /\ queue' \in Seq(Entries)
    BY <2>1 DEF SlotTypes
  <2>4. WorksFit'
    BY <2>2, IdleFields DEF WorksFit
  <2>5. Queued'
    BY <2>1, <2>2, IdleFields DEF Queued
  <2>6. QED
    BY <2>3, <2>4, <2>5
<1>3. QED
  BY <1>1, <1>2 DEF SlotTypes

LEMMA EndedKeeps ==
  ASSUME SlotTypes, Queued, WorksFit, NEW h \in Handlers, ~Waits(requests[h]), Ended(h), alive' = alive
  PROVE  /\ requests' \in [Handlers -> Works \cup {P!Idle}] /\ queue' \in Seq(Entries)
         /\ Queued' /\ WorksFit'
<1>1. \A g \in Handlers : requests'[g] = IF g = h THEN P!Idle ELSE requests[g]
  BY DEF SlotTypes, Ended
<1>2. requests' \in [Handlers -> Works \cup {P!Idle}] /\ queue' \in Seq(Entries)
  BY DEF SlotTypes, Ended
<1>3. \A i \in DOMAIN queue : queue[i].of # h
  BY DEF Queued
<1>4. PICK all : all = requests'
  OBVIOUS
<1>5. /\ \A i \in DOMAIN queue : /\ queue[i].of \in Handlers /\ Waits(all[queue[i].of])
                                 /\ queue[i].command = CommandOf(all[queue[i].of])
      /\ \A g \in Handlers : Waits(all[g]) => \E i \in DOMAIN queue : queue[i].of = g
  BY <1>1, <1>3, <1>4, IdleFields DEF Queued
<1>6. Queued'
  BY <1>4, <1>5 DEF Queued, Ended
<1>7. WorksFit'
  BY <1>1, IdleFields DEF WorksFit
<1>8. QED
  BY <1>2, <1>6, <1>7

\* The host ends: who waits, ends.
LEMMA DownKeeps ==
  ASSUME SlotTypes, Queued, WorksFit, NEW all \in [Handlers -> Works \cup {P!Idle}],
         \A g \in Handlers : all[g] = P!Idle \/ (all[g] = requests[g] /\ ~Waits(requests[g])),
         requests' = all, queue' = <<>>
  PROVE  /\ requests' \in [Handlers -> Works \cup {P!Idle}] /\ queue' \in Seq(Entries)
         /\ Queued' /\ WorksFit'
<1>1. WorksFit'
  BY IdleFields DEF WorksFit
<1>2. \A g \in Handlers : ~Waits(all[g])
  BY IdleFields
<1>3. Queued'
  BY <1>2 DEF Queued
<1>4. QED
  BY <1>1, <1>3

LEMMA RaisedIs ==
  ASSUME SlotTypes
  PROVE  /\ P!Raised \in [Handlers -> Works \cup {P!Idle}]
         /\ \A g \in Handlers : \/ P!Raised[g] = P!Idle
                                \/ P!Raised[g] = requests[g] /\ ~Waits(requests[g])
<1>1. \A g \in Handlers : requests[g] \in Works \cup {P!Idle}
  BY DEF SlotTypes
<1>2. \A g \in Handlers : P!Raised[g] = IF requests[g] # P!Idle /\ requests[g].reply = None THEN P!Idle ELSE requests[g]
  BY DEF P!Raised
<1>3. P!Raised \in [Handlers -> Works \cup {P!Idle}]
  BY <1>1 DEF P!Raised
<1>4. QED
  BY <1>2, <1>3, IdleFields DEF Waits

\* The host executes the first command: its request has the answer.
LEMMA ExecutedKeeps ==
  ASSUME P!PluginAssumption, SlotTypes, Queued, WorksFit, NEW succeeds \in BOOLEAN, P!Execute(succeeds)
  PROVE  \E h \in Handlers, c \in Works, x \in Answers :
           /\ c = requests[h] /\ Waits(c) /\ queue # <<>> /\ queue[1].of = h /\ P!Command = CommandOf(c)
           /\ x = [state |-> processors[P!Command.slot]] /\ x.state = processors[P!Command.slot]
           /\ P!Command.slot = c.slot
           /\ requests' = [requests EXCEPT ![h] = Replied(c, x)] /\ queue' = Tail(queue)
           /\ requests' \in [Handlers -> Works \cup {P!Idle}] /\ queue' \in Seq(Entries)
           /\ Queued' /\ WorksFit'
<1>1. queue # <<>> /\ queue \in Seq(Entries) /\ queue' = Tail(queue) /\ alive' = alive
  BY DEF P!Execute, SlotTypes
<1>2. /\ Len(queue) \in Nat \ {0} /\ DOMAIN queue = 1..Len(queue) /\ Head(queue) = queue[1]
      /\ queue' \in Seq(Entries) /\ DOMAIN queue' = 1..(Len(queue) - 1)
      /\ \A i \in 1..(Len(queue) - 1) : queue'[i] = queue[i + 1]
  BY <1>1
<1>3. PICK h \in Handlers : h = queue[1].of /\ Waits(requests[h]) /\ queue[1].command = CommandOf(requests[h])
  BY <1>2 DEF Queued
<1>4. PICK c \in Works : c = requests[h]
  BY <1>3, IdleFields DEF SlotTypes
<1>5. P!Command = CommandOf(c) /\ CommandOf(c).slot = c.slot /\ c.slot \in Slots
  BY <1>2, <1>3, <1>4, WorkFields DEF P!Command, CommandOf, P!Get, P!Load, P!Restore, Places
<1>6. PICK x \in Answers : x = [state |-> processors[c.slot]] /\ x.state = processors[c.slot]
  <2>1. PICK p \in MaybeStates : p = processors[c.slot]
    BY <1>5 DEF SlotTypes
  <2>2. [state |-> p] \in Answers
    BY <2>1 DEF Answers
  <2>3. QED
    BY <2>1, <2>2
<1>7. requests' = [requests EXCEPT ![h] = Replied(c, x)]
  <2>1. requests' = [requests EXCEPT ![h].reply = x]
    BY <1>2, <1>3, <1>5, <1>6 DEF P!Execute
  <2>2. QED
    BY <1>4, <2>1, Zenon DEF Replied
<1>8. PICK y \in Works : /\ y = Replied(c, x) /\ Same(c, y) /\ y.at = c.at /\ y.slot = c.slot /\ y.reply = x
                         /\ y.copy = c.copy /\ y.left = c.left
  BY RepliedIs
<1>9. \A g \in Handlers : requests'[g] = IF g = h THEN y ELSE requests[g]
  BY <1>7, <1>8 DEF SlotTypes
<1>10. requests' \in [Handlers -> Works \cup {P!Idle}]
  BY <1>7, <1>8 DEF SlotTypes
<1>11. ~Waits(y)
  BY <1>8, NoneIsApart DEF Waits
<1>12. WorkFits(y)
  BY <1>4, <1>8 DEF WorksFit, WorkFits, Same
<1>13. WorksFit'
  BY <1>9, <1>12 DEF WorksFit
<1>14. Queued'
  <2>1. PICK new : new = queue'
    OBVIOUS
  <2>2. PICK all : all = requests'
    OBVIOUS
  <2>3. \A i \in DOMAIN new : i + 1 \in DOMAIN queue /\ new[i] = queue[i + 1] /\ queue[i + 1].of # h
    BY <1>2, <1>3, <2>1 DEF Queued
  <2>4. \A i \in DOMAIN new : /\ new[i].of \in Handlers /\ Waits(all[new[i].of])
                              /\ new[i].command = CommandOf(all[new[i].of])
    BY <1>9, <2>2, <2>3 DEF Queued
  <2>5. \A i, j \in DOMAIN new : new[i].of = new[j].of => i = j
    BY <1>2, <2>1, <2>3 DEF Queued
  <2>6. ASSUME NEW g \in Handlers, Waits(all[g]) PROVE \E i \in DOMAIN new : new[i].of = g
    <3>1. g # h /\ Waits(requests[g])
      BY <1>9, <1>11, <2>2, <2>6
    <3>2. PICK i \in DOMAIN queue : queue[i].of = g
      BY <3>1 DEF Queued
    <3>3. i # 1
      BY <1>3, <3>1, <3>2
    <3>4. i - 1 \in DOMAIN new /\ new[i - 1] = queue[i]
      BY <1>2, <2>1, <3>2, <3>3
    <3>5. QED
      BY <3>2, <3>4
  <2>7. alive'
    BY <1>1 DEF Queued
  <2>8. QED
    BY <2>1, <2>2, <2>4, <2>5, <2>6, <2>7 DEF Queued
<1>15. QED
  BY <1>1, <1>2, <1>3, <1>4, <1>5, <1>6, <1>7, <1>8, <1>10, <1>13, <1>14

\* One request at a time is the only one.
LEMMA AloneIs ==
  ASSUME P!PluginAssumption, P!Alone, NEW h \in Handlers
  PROVE  \A g \in Handlers : g = h
<1>1. P!Cardinality(Handlers) = Cardinality(Handlers)
  BY DEF P!Cardinality, Cardinality
<1>2. IsFiniteSet(Handlers)
  BY DEF P!PluginAssumption, P!IsFiniteSet, IsFiniteSet
<1>3. PICK x : Handlers = {x}
  BY <1>1, <1>2, FS_Singleton DEF P!Alone
<1>4. QED
  BY <1>3

LEMMA AloneMoves ==
  ASSUME P!PluginAssumption, SlotTypes, NEW h \in Handlers, NEW y, requests' = [requests EXCEPT ![h] = y],
         P!Alone /\ fails' = 0 => SavedHolds' /\ HostFits(y)' /\ CopyFits(y)'
  PROVE  AloneHolds'
<1> SUFFICES ASSUME P!Alone, fails' = 0
             PROVE  SavedHolds' /\ \A g \in Handlers : HostFits(requests[g])' /\ CopyFits(requests[g])'
  BY DEF AloneHolds, P!Alone
<1>1. requests'[h] = y /\ \A g \in Handlers : g = h
  BY AloneIs DEF SlotTypes
<1>2. PICK all : all = requests'
  OBVIOUS
<1>3. \A g \in Handlers : all[g] = y
  BY <1>1, <1>2
<1>4. \A g \in Handlers : HostFits(all[g])' /\ CopyFits(all[g])'
  BY <1>3
<1>5. QED
  BY <1>2, <1>4

LEMMA IdleFits ==
  /\ CopyFits(P!Idle)
  /\ HostFits(P!Idle) <=> (alive => \A s \in Slots : Keeps(s))
  BY IdleFields DEF CopyFits, HostFits, Steady, Changing, Starting, Sounding

\* What the only request is at, while nothing has failed.
LEMMA AloneHas ==
  ASSUME PluginInv, NEW h \in Handlers, P!Alone, fails = 0
  PROVE  SavedHolds /\ HostFits(requests[h]) /\ CopyFits(requests[h])
  BY DEF PluginInv, AloneHolds

\* What is queued behind the loads does not disturb them.
LEMMA LoadsStay ==
  ASSUME SlotTypes, LoadsHold, NEW h \in Handlers, NEW y, requests' = [requests EXCEPT ![h] = y],
         \/ queue' = queue
         \/ \E e : queue' = Append(queue, e) /\ e.command.name # "load",
         fails' = 0 /\ stops' = 0 => /\ fails = 0 /\ stops = 0 /\ alive'
                                     /\ (y.at \in Places => y.next # "start"),
         \A s \in Slots : slots'[s].plugin = slots[s].plugin /\ (Has(s) => Has(s)')
  PROVE  LoadsHold'
<1> SUFFICES ASSUME fails' = 0, stops' = 0 PROVE LoadsHold'
  BY DEF LoadsHold
<1>1. alive' /\ \A g \in Handlers : requests[g].at \in Places => requests[g].next # "start"
  BY DEF LoadsHold
<1>2. \A g \in Handlers : requests'[g] = IF g = h THEN y ELSE requests[g]
  BY DEF SlotTypes
<1>3. \A g \in Handlers : requests'[g].at \in Places => requests'[g].next # "start"
  BY <1>1, <1>2
<1>4. PICK new : new = queue'
  OBVIOUS
<1> DEFINE L(i, s) == new[i].command.name = "load" /\ new[i].command.slot = s
<1>5. /\ DOMAIN queue \subseteq DOMAIN new /\ \A i \in DOMAIN queue : new[i] = queue[i]
      /\ \A i \in DOMAIN new : i \in DOMAIN queue \/ new[i].command.name # "load"
  <2>1. queue \in Seq(Entries)
    BY DEF SlotTypes
  <2>2. CASE queue' = queue
    BY <1>4, <2>2
  <2>3. CASE \E e : queue' = Append(queue, e) /\ e.command.name # "load"
    <3>1. PICK e : queue' = Append(queue, e) /\ e.command.name # "load"
      BY <2>3
    <3>2. DOMAIN new = 1..(Len(queue) + 1) /\ new[Len(queue) + 1] = e /\ \A i \in 1..Len(queue) : new[i] = queue[i]
      BY <1>4, <2>1, <3>1
    <3>3. QED
      BY <2>1, <3>1, <3>2
  <2>4. QED
    BY <2>2, <2>3
<1>6. ASSUME NEW s \in Slots
      PROVE  /\ \A i \in DOMAIN new : L(i, s) /\ (\A j \in DOMAIN new : j > i => ~L(j, s))
                   => new[i].command.plugin = slots'[s].plugin
             /\ (\A i \in DOMAIN new : ~L(i, s)) => Has(s)'
  <2>1. \A i \in DOMAIN new : L(i, s) => i \in DOMAIN queue /\ Loads(i, s)
    BY <1>5 DEF Loads
  <2>2. \A i \in DOMAIN queue : Loads(i, s) => L(i, s)
    BY <1>5 DEF Loads
  <2>3. ASSUME NEW i \in DOMAIN new, L(i, s), \A j \in DOMAIN new : j > i => ~L(j, s)
        PROVE  new[i].command.plugin = slots'[s].plugin
    <3>1. i \in DOMAIN queue /\ Loads(i, s) /\ \A j \in DOMAIN queue : j > i => ~Loads(j, s)
      BY <1>5, <2>1, <2>2, <2>3
    <3>2. queue[i].command.plugin = slots[s].plugin
      BY <3>1 DEF LoadsHold
    <3>3. QED
      BY <1>5, <3>1, <3>2
  <2>4. ASSUME \A i \in DOMAIN new : ~L(i, s) PROVE Has(s)'
    <3>1. \A i \in DOMAIN queue : ~Loads(i, s)
      BY <1>5, <2>2, <2>4
    <3>2. QED
      BY <3>1 DEF LoadsHold
  <2>5. QED
    BY <2>3, <2>4
<1>7. QED
  BY <1>1, <1>3, <1>4, <1>6 DEF LoadsHold, Loads

\* The states of a copy are saved.
LEMMA MergedIs ==
  ASSUME P!PluginAssumption, SlotTypes, NEW copy \in Saves
  PROVE  /\ P!Merged(copy) \in Saves
         /\ \A s \in Slots :
              /\ P!Merged(copy)[s].plugin = slots[s].plugin
              /\ P!Merged(copy)[s].state = IF copy[s].state # None /\ slots[s].plugin # None
                                           THEN copy[s].state ELSE slots[s].state
<1>1. slots \in Saves
  BY DEF SlotTypes
<1>2. P!Merged(copy) = [s \in Slots |-> IF copy[s].state # None /\ slots[s].plugin # None
                                        THEN [slots[s] EXCEPT !.state = copy[s].state] ELSE slots[s]]
  BY DEF P!Merged
<1>3. QED
  BY <1>1, <1>2 DEF Saves

\* A request goes on to the next slot.
LEMMA LowestSlot ==
  ASSUME P!PluginAssumption, NEW S, S \subseteq Slots, S # {}
  PROVE  P!Min(S) \in S
<1>1. PICK m \in S : \A k \in S : m <= k
  BY LowestNatural, NoneIsApart
<1>2. QED
  BY <1>1 DEF P!Min

LEMMA GoOnIs ==
  ASSUME P!PluginAssumption, NEW h, NEW c \in Works, c.at = "capturing", c.left # {}, P!GoOn(h, c), alive' = alive
  PROVE  \E y \in Works : /\ Asked(h, y) /\ Same(c, y) /\ y.at = "capturing" /\ y.slot \in c.left
                          /\ y.reply = None /\ y.copy = c.copy /\ y.left = c.left \ {y.slot}
<1>1. PICK s \in Slots : s = P!Min(c.left) /\ s \in c.left
  BY LowestSlot, WorkFields
<1>2. PICK d \in Works : /\ d = WithLeft(c, s) /\ Same(c, d) /\ d.at = c.at /\ d.slot = c.slot
                         /\ d.reply = c.reply /\ d.copy = c.copy /\ d.left = c.left \ {s}
  BY WithLeftIs
<1>3. PICK y \in Works : /\ y = Asks(d, s) /\ Same(d, y) /\ y.at = d.at /\ y.slot = s /\ y.reply = None
                         /\ y.copy = d.copy /\ y.left = d.left
  BY AsksIs
<1>4. P!Get(s) = CommandOf(y)
  BY <1>2, <1>3 DEF CommandOf
<1>5. P!Ask(h, d, P!Get(s), s)
  <2>1. d = [c EXCEPT !.left = @ \ {s}]
    BY <1>2, Zenon DEF WithLeft
  <2>2. QED
    BY <1>1, <2>1, Zenon DEF P!GoOn
<1>6. Asked(h, y)
  BY <1>3, <1>4, <1>5, AskedIs
<1>7. Same(c, y)
  BY <1>2, <1>3 DEF Same
<1>8. QED
  BY <1>1, <1>2, <1>3, <1>6, <1>7

\* A copy whose states may be saved, and a host that has what was set.
GoodCopy(c) ==
    /\ \A s \in Slots : Fits(s, c.copy[s].state) /\ Newer(s, c.copy[s].state)
    /\ c.next = "parameter" =>
        /\ slots[c.target].plugin # None
        /\ c.value <= turns /\ \A s \in Slots : answered[s] <= c.value
        /\ c.target \in c.left \/ Captured(c)
GoodHost(c) == alive =>
    /\ \A s \in Slots : Keeps(s)
    /\ c.next = "parameter" => processors[c.target] # None /\ processors[c.target].value >= c.value
Others == <<slots, processors, alive, turns, stops, fails, chosen, answered>>

LEMMA GoOnKeeps ==
  ASSUME P!PluginAssumption, PluginInv, NEW h \in Handlers, ~Waits(requests[h]), UNCHANGED Others,
         NEW c \in Works, c.at = "capturing", c.next # "start", c.left # {}, P!GoOn(h, c),
         P!Alone /\ fails = 0 => GoodCopy(c) /\ GoodHost(c)
  PROVE  PluginInv'
<1>1. SlotTypes /\ Queued /\ WorksFit /\ LoadsHold /\ AloneHolds /\ P!ChosenPluginsStay
  BY DEF PluginInv
<1>2. PICK y \in Works : /\ Asked(h, y) /\ Same(c, y) /\ y.at = "capturing" /\ y.slot \in c.left
                         /\ y.reply = None /\ y.copy = c.copy /\ y.left = c.left \ {y.slot}
  BY GoOnIs DEF Others
<1>3. WorkFits(y) /\ y.next = c.next /\ y.target = c.target /\ y.value = c.value
  BY <1>2 DEF WorkFits, Same
<1>4. /\ requests' \in [Handlers -> Works \cup {P!Idle}] /\ queue' \in Seq(Entries)
      /\ Queued' /\ WorksFit'
  BY <1>1, <1>2, <1>3, AskedKeeps DEF SlotTypes, Others
<1>5. SlotTypes'
  BY <1>1, <1>4 DEF SlotTypes, Others
<1>6. P!ChosenPluginsStay'
  BY <1>1 DEF P!ChosenPluginsStay, Others
<1>7. CommandOf(y).name # "load"
  BY <1>2 DEF CommandOf, P!Get
<1>8. PICK z : z = IF alive THEN y ELSE P!Idle
  OBVIOUS
<1>9. requests' = [requests EXCEPT ![h] = z] /\ (queue' = queue \/ queue' = Append(queue, [of |-> h, command |-> CommandOf(y)]))
  BY <1>2, <1>8 DEF Asked, Others
<1>10. LoadsHold'
  <2>1. \/ queue' = queue
        \/ \E e : queue' = Append(queue, e) /\ e.command.name # "load"
    BY <1>7, <1>9
  <2>2. z.at \in Places => z.next # "start"
    BY <1>3, <1>8, IdleFields DEF Places
  <2>3. fails' = 0 /\ stops' = 0 => fails = 0 /\ stops = 0 /\ alive'
    BY <1>1 DEF LoadsHold, Others
  <2>4. \A s \in Slots : slots'[s].plugin = slots[s].plugin /\ (Has(s) => Has(s)')
    BY DEF Others, Has
  <2>5. QED
    BY <1>1, <1>9, <2>1, <2>2, <2>3, <2>4, LoadsStay
<1>11. P!Alone /\ fails' = 0 => SavedHolds' /\ HostFits(z)' /\ CopyFits(z)'
  <2> SUFFICES ASSUME P!Alone, fails' = 0 PROVE SavedHolds' /\ HostFits(z)' /\ CopyFits(z)'
    OBVIOUS
  <2>1. SavedHolds /\ GoodCopy(c) /\ GoodHost(c)
    BY AloneHas DEF Others
  <2>2. SavedHolds'
    BY <2>1 DEF SavedHolds, Fits, Newer, Others
  <2>3. HostFits(y)
    BY <1>2, <1>3, <2>1 DEF HostFits, GoodHost, Steady, Changing, Starting, Sounding
  <2>4. CopyFits(y)
    BY <1>2, <1>3, <2>1 DEF CopyFits, GoodCopy, AnsweredFor, Captured
  <2>5. HostFits(z) /\ CopyFits(z)
    BY <1>8, <2>3, <2>4, IdleFits
  <2>6. HostFits(z)'
    BY <2>5 DEF HostFits, Steady, Changing, Starting, Sounding, Keeps, Has, Newer, Others
  <2>7. CopyFits(z)'
    BY <2>5 DEF CopyFits, Fits, Newer, AnsweredFor, Captured, Others
  <2>8. QED
    BY <2>2, <2>6, <2>7
<1>12. AloneHolds'
  BY <1>1, <1>9, <1>11, AloneMoves
<1>13. QED
  BY <1>4, <1>5, <1>6, <1>10, <1>12 DEF PluginInv

\* A new request has a copy of the project.
LEMMA NewIs ==
  ASSUME P!PluginAssumption, SlotTypes, NEW place \in Places, NEW aim \in Aims, NEW s \in Slots, NEW p \in MaybePlugins
  PROVE  \E c \in Works : /\ c = P!New(place, aim, s, p) /\ c.at = place /\ c.next = aim /\ c.slot = s
                          /\ c.reply = None /\ c.target = s /\ c.plugin = p /\ c.copy = slots /\ c.value = turns
                          /\ c.left = {t \in Slots : slots[t].plugin # None}
<1>1. slots \in Saves /\ turns \in 0..MaxTurns /\ {t \in Slots : slots[t].plugin # None} \subseteq Slots
  BY DEF SlotTypes
<1>2. PICK copy \in Saves, v \in 0..MaxTurns, left \in SUBSET Slots :
        copy = slots /\ v = turns /\ left = {t \in Slots : slots[t].plugin # None}
  BY <1>1
<1>3. PICK c : c = [at |-> place, next |-> aim, slot |-> s, reply |-> None, target |-> s, plugin |-> p,
                    copy |-> copy, left |-> left, value |-> v]
  OBVIOUS
<1>4. c \in Works
  BY <1>3 DEF Works, MaybeAnswers
<1>5. c = P!New(place, aim, s, p)
  BY <1>2, <1>3, Zenon DEF P!New
<1>6. /\ c.at = place /\ c.next = aim /\ c.slot = s /\ c.reply = None /\ c.target = s /\ c.plugin = p
      /\ c.copy = copy /\ c.value = v /\ c.left = left
  BY <1>3
<1>7. QED
  BY <1>2, <1>4, <1>5, <1>6, Zenon

LEMMA BeginKeeps ==
  ASSUME P!PluginAssumption, PluginInv, NEW h \in Handlers, NEW s \in Slots, NEW p \in MaybePlugins,
         NEW aim \in {"plugin", "stop", "sync"}, P!Begin(h, aim, s, p)
  PROVE  PluginInv'
<1>1. SlotTypes
  BY DEF PluginInv
<1>2. PICK c \in Works : /\ c = P!New("capturing", aim, s, p) /\ c.at = "capturing" /\ c.next = aim /\ c.slot = s
                         /\ c.reply = None /\ c.target = s /\ c.plugin = p /\ c.copy = slots /\ c.value = turns
                         /\ c.left = {t \in Slots : slots[t].plugin # None}
  BY <1>1, NewIs DEF Places, Aims
<1>3. requests[h] = P!Idle /\ c.left # {} /\ P!GoOn(h, c) /\ UNCHANGED Others
  BY <1>2 DEF P!Begin, Others
<1>4. ASSUME P!Alone, fails = 0 PROVE GoodCopy(c) /\ GoodHost(c)
  <2>1. SavedHolds /\ HostFits(P!Idle)
    BY <1>3, <1>4, AloneHas
  <2>2. GoodCopy(c)
    BY <1>2, <2>1 DEF SavedHolds, GoodCopy
  <2>3. GoodHost(c)
    BY <1>2, <2>1, IdleFits DEF GoodHost
  <2>4. QED
    BY <2>2, <2>3
<1>5. ~Waits(requests[h])
  BY <1>3, IdleFields
<1>6. QED
  BY <1>2, <1>3, <1>4, <1>5, GoOnKeeps

LEMMA ChooseKeeps ==
  ASSUME P!PluginAssumption, PluginInv, NEW h \in Handlers, NEW s \in Slots, NEW p \in MaybePlugins,
         P!Choose(h, s, p)
  PROVE  PluginInv'
<1>1. SlotTypes /\ Queued /\ WorksFit /\ LoadsHold /\ AloneHolds /\ P!ChosenPluginsStay
  BY DEF PluginInv
<1>2. /\ requests[h] = P!Idle /\ ~alive
      /\ slots' = [slots EXCEPT ![s] = [plugin |-> p, state |-> None]]
      /\ chosen' = [chosen EXCEPT ![s] = p] /\ answered' = [answered EXCEPT ![s] = 0]
      /\ UNCHANGED <<processors, alive, queue, requests, turns, stops, fails>>
  BY DEF P!Choose
<1>3. PICK empty \in [plugin : MaybePlugins, state : MaybeStates] :
        empty = [plugin |-> p, state |-> None] /\ empty.plugin = p /\ empty.state = None
  <2>1. PICK n \in MaybeStates : n = None
    BY DEF MaybeStates
  <2>2. [plugin |-> p, state |-> n] \in [plugin : MaybePlugins, state : MaybeStates]
    BY <2>1
  <2>3. QED
    BY <2>1, <2>2
<1>4. /\ slots' \in Saves
      /\ \A t \in Slots : slots'[t] = IF t = s THEN empty ELSE slots[t]
  BY <1>1, <1>2, <1>3 DEF SlotTypes, Saves
<1>5. \A t \in Slots : chosen'[t] = (IF t = s THEN p ELSE chosen[t])
                       /\ answered'[t] = (IF t = s THEN 0 ELSE answered[t])
  BY <1>1, <1>2 DEF SlotTypes
<1>6. chosen' \in [Slots -> MaybePlugins] /\ answered' \in [Slots -> 0..MaxTurns]
  BY <1>1, <1>2, NoneIsApart DEF SlotTypes
<1>7. SlotTypes'
  BY <1>1, <1>2, <1>4, <1>6 DEF SlotTypes
<1>8. Queued' /\ WorksFit'
  BY <1>1, <1>2 DEF Queued, WorksFit
<1>9. LoadsHold'
  BY <1>1, <1>2 DEF LoadsHold
<1>10. P!ChosenPluginsStay'
  BY <1>1, <1>3, <1>4, <1>5 DEF P!ChosenPluginsStay
<1>11. P!Alone /\ fails' = 0 => SavedHolds' /\ HostFits(P!Idle)' /\ CopyFits(P!Idle)'
  <2> SUFFICES ASSUME P!Alone, fails' = 0 PROVE SavedHolds' /\ HostFits(P!Idle)' /\ CopyFits(P!Idle)'
    OBVIOUS
  <2>1. SavedHolds
    BY <1>2, AloneHas
  <2>1a. PICK new : new = slots'
    OBVIOUS
  <2>2. \A t \in Slots : Fits(t, new[t].state)' /\ Newer(t, new[t].state)' /\ answered'[t] <= turns'
    <3> TAKE t \in Slots
    <3>1. CASE t = s
      BY <1>1, <1>2, <1>3, <1>4, <1>5, <2>1a, <3>1, NoneIsApart DEF Fits, Newer, SlotTypes
    <3>2. CASE t # s
      BY <1>2, <1>4, <1>5, <2>1, <2>1a, <3>2 DEF SavedHolds, Fits, Newer
    <3>3. QED
      BY <3>1, <3>2
  <2>3. SavedHolds'
    BY <2>2, <2>1a DEF SavedHolds
  <2>4. HostFits(P!Idle)'
    BY <1>2 DEF HostFits
  <2>5. CopyFits(P!Idle)'
    BY IdleFields DEF CopyFits
  <2>6. QED
    BY <2>3, <2>4, <2>5
<1>12. AloneHolds'
  <2>1. requests' = [requests EXCEPT ![h] = P!Idle]
    BY <1>1, <1>2 DEF SlotTypes
  <2>2. QED
    BY <1>1, <1>11, <2>1, AloneMoves
<1>13. QED
  BY <1>7, <1>8, <1>9, <1>10, <1>12 DEF PluginInv

\* A value is set.
WithValue(c, v) == [c EXCEPT !.value = v]
LEMMA WithValueIs ==
  ASSUME NEW c \in Works, NEW v \in 0..MaxTurns
  PROVE  LET y == WithValue(c, v) IN
         /\ y \in Works /\ y.at = c.at /\ y.next = c.next /\ y.target = c.target /\ y.plugin = c.plugin
         /\ y.slot = c.slot /\ y.reply = c.reply /\ y.copy = c.copy /\ y.left = c.left /\ y.value = v
  BY DEF Works, WithValue

LEMMA BeginParameterKeeps ==
  ASSUME P!PluginAssumption, PluginInv, NEW h \in Handlers, NEW s \in Slots, P!BeginParameter(h, s)
  PROVE  PluginInv'
<1>1. SlotTypes /\ Queued /\ WorksFit /\ LoadsHold /\ AloneHolds /\ P!ChosenPluginsStay
  BY DEF PluginInv
<1>2. PICK c \in Works : /\ c = P!New("setting", "parameter", s, None) /\ c.at = "setting" /\ c.next = "parameter"
                         /\ c.slot = s /\ c.reply = None /\ c.target = s /\ c.plugin = None /\ c.copy = slots
                         /\ c.value = turns /\ c.left = {t \in Slots : slots[t].plugin # None}
  BY <1>1, NewIs DEF Places, Aims, MaybePlugins
<1>3. /\ requests[h] = P!Idle /\ alive /\ slots[s].plugin # None /\ turns' = turns + 1 /\ turns' \in 0..MaxTurns
      /\ UNCHANGED <<slots, processors, alive, stops, fails, chosen, answered>>
  BY <1>1, NoneIsApart DEF P!BeginParameter, SlotTypes
<1>4. PICK v \in 0..MaxTurns : v = turns'
  BY <1>3
<1>5. PICK d \in Works : /\ d = WithValue(c, v) /\ d.at = c.at /\ d.next = c.next /\ d.target = c.target
                         /\ d.plugin = c.plugin /\ d.slot = c.slot /\ d.reply = c.reply /\ d.copy = c.copy
                         /\ d.left = c.left /\ d.value = v
  BY WithValueIs
<1>6. PICK y \in Works : /\ y = Asks(d, s) /\ Same(d, y) /\ y.at = d.at /\ y.slot = s /\ y.reply = None
                         /\ y.copy = d.copy /\ y.left = d.left
  BY AsksIs
<1>7. /\ y.at = "setting" /\ y.next = "parameter" /\ y.target = s /\ y.slot = s /\ y.value = v /\ y.reply = None
      /\ y.copy = slots /\ s \in y.left
  BY <1>2, <1>3, <1>5, <1>6 DEF Same
<1>8. CommandOf(y) = [name |-> "set", slot |-> s, value |-> v]
  BY <1>7 DEF CommandOf
<1>9. Asked(h, y)
  <2>1. P!Ask(h, d, [name |-> "set", slot |-> s, value |-> v], s)
    <3>1. P!Ask(h, [P!New("setting", "parameter", s, None) EXCEPT !.value = turns'],
                [name |-> "set", slot |-> s, value |-> turns'], s)
      BY DEF P!BeginParameter
    <3>2. d = [P!New("setting", "parameter", s, None) EXCEPT !.value = turns']
      BY <1>2, <1>4, <1>5, Zenon DEF WithValue
    <3>3. QED
      BY <1>4, <3>1, <3>2, Zenon
  <2>2. QED
    BY <1>3, <1>6, <1>8, <2>1, AskedIs
<1>10. WorkFits(y) /\ ~Waits(requests[h])
  BY <1>3, <1>7, IdleFields DEF WorkFits
<1>11. /\ requests' \in [Handlers -> Works \cup {P!Idle}] /\ queue' \in Seq(Entries)
       /\ Queued' /\ WorksFit'
  BY <1>1, <1>3, <1>6, <1>9, <1>10, AskedKeeps DEF SlotTypes
<1>12. SlotTypes'
  BY <1>1, <1>3, <1>11 DEF SlotTypes
<1>13. P!ChosenPluginsStay'
  BY <1>1, <1>3 DEF P!ChosenPluginsStay
<1>14. requests' = [requests EXCEPT ![h] = y] /\ queue' = Append(queue, [of |-> h, command |-> CommandOf(y)])
  BY <1>3, <1>9 DEF Asked
<1>15. LoadsHold'
  <2>1. \E e : queue' = Append(queue, e) /\ e.command.name # "load"
    BY <1>8, <1>14
  <2>2. \A t \in Slots : slots'[t].plugin = slots[t].plugin /\ (Has(t) => Has(t)')
    BY <1>3 DEF Has
  <2>3. QED
    BY <1>1, <1>3, <1>7, <1>14, <2>1, <2>2, LoadsStay
<1>16. P!Alone /\ fails' = 0 => SavedHolds' /\ HostFits(y)' /\ CopyFits(y)'
  <2> SUFFICES ASSUME P!Alone, fails' = 0 PROVE SavedHolds' /\ HostFits(y)' /\ CopyFits(y)'
    OBVIOUS
  <2>1. SavedHolds /\ \A t \in Slots : Keeps(t)
    BY <1>3, AloneHas, IdleFits
  <2>2. \A t \in Slots : answered[t] \in Nat /\ turns \in Nat /\ answered[t] <= turns
    BY <1>1, <2>1, NoneIsApart DEF SavedHolds, SlotTypes
  <2>3. SavedHolds'
    BY <1>3, <2>1, <2>2 DEF SavedHolds, Fits, Newer
  <2>4. HostFits(y)'
    BY <1>3, <1>7, <2>1 DEF HostFits, Steady, Changing, Starting, Sounding, Keeps, Has, Newer
  <2>5. CopyFits(y)'
    BY <1>3, <1>4, <1>7, <2>1, <2>2 DEF CopyFits, SavedHolds, Fits, Newer
  <2>6. QED
    BY <2>3, <2>4, <2>5
<1>17. AloneHolds'
  BY <1>1, <1>14, <1>16, AloneMoves
<1>18. QED
  BY <1>11, <1>12, <1>13, <1>15, <1>17 DEF PluginInv

\* A request ends without a word to anybody.
LEMMA EndKeepsSlots ==
  ASSUME P!PluginAssumption, PluginInv, NEW h \in Handlers, ~Waits(requests[h]), Ended(h), UNCHANGED Others,
         P!Alone /\ fails = 0 => HostFits(P!Idle)
  PROVE  PluginInv'
<1>1. SlotTypes /\ Queued /\ WorksFit /\ LoadsHold /\ AloneHolds /\ P!ChosenPluginsStay
  BY DEF PluginInv
<1>2. /\ requests' \in [Handlers -> Works \cup {P!Idle}] /\ queue' \in Seq(Entries)
      /\ Queued' /\ WorksFit'
  BY <1>1, EndedKeeps DEF Others
<1>3. SlotTypes'
  BY <1>1, <1>2 DEF SlotTypes, Others
<1>4. P!ChosenPluginsStay'
  BY <1>1 DEF P!ChosenPluginsStay, Others
<1>5. requests' = [requests EXCEPT ![h] = P!Idle] /\ queue' = queue
  BY DEF Ended
<1>6. LoadsHold'
  <2>1. \A s \in Slots : slots'[s].plugin = slots[s].plugin /\ (Has(s) => Has(s)')
    BY DEF Others, Has
  <2>2. fails' = 0 /\ stops' = 0 => fails = 0 /\ stops = 0 /\ alive'
    BY <1>1 DEF LoadsHold, Others
  <2>3. P!Idle.at \notin Places
    BY IdleFields DEF Places
  <2>4. QED
    BY <1>1, <1>5, <2>1, <2>2, <2>3, LoadsStay
<1>7. P!Alone /\ fails' = 0 => SavedHolds' /\ HostFits(P!Idle)' /\ CopyFits(P!Idle)'
  <2> SUFFICES ASSUME P!Alone, fails' = 0 PROVE SavedHolds' /\ HostFits(P!Idle)' /\ CopyFits(P!Idle)'
    OBVIOUS
  <2>1. SavedHolds /\ HostFits(P!Idle)
    BY AloneHas DEF Others
  <2>2. SavedHolds'
    BY <2>1 DEF SavedHolds, Fits, Newer, Others
  <2>3. HostFits(P!Idle)'
    BY <2>1 DEF HostFits, Steady, Changing, Starting, Sounding, Keeps, Has, Newer, Others
  <2>4. CopyFits(P!Idle)'
    BY IdleFields DEF CopyFits
  <2>5. QED
    BY <2>2, <2>3, <2>4
<1>8. AloneHolds'
  BY <1>1, <1>5, <1>7, AloneMoves
<1>9. QED
  BY <1>2, <1>3, <1>4, <1>6, <1>8 DEF PluginInv

LEMMA ParameterIsSetKeeps ==
  ASSUME P!PluginAssumption, PluginInv, NEW h \in Handlers, P!ParameterIsSet(h)
  PROVE  PluginInv'
<1>1. SlotTypes /\ WorksFit
  BY DEF PluginInv
<1>2. requests[h].at = "setting" /\ requests[h].reply # None /\ UNCHANGED Others
  BY DEF P!ParameterIsSet, Others, P!counts
<1>3. PICK c \in Works : c = requests[h]
  BY <1>1, <1>2, IdleFields DEF SlotTypes
<1>4. ~Waits(requests[h]) /\ c.next = "parameter" /\ c.slot = c.target /\ c.target \in c.left /\ c.target \in Slots
  BY <1>1, <1>2, <1>3, WorkFields DEF Waits, WorksFit, WorkFits
<1>5. P!Alone /\ fails = 0 =>
        /\ \A s \in Slots : Fits(s, c.copy[s].state) /\ Newer(s, c.copy[s].state)
        /\ slots[c.target].plugin # None
        /\ c.value <= turns /\ \A s \in Slots : answered[s] <= c.value
        /\ alive => /\ \A s \in Slots : Keeps(s)
                    /\ processors[c.target] # None /\ processors[c.target].value >= c.value
  BY <1>2, <1>3, <1>4, AloneHas DEF CopyFits, HostFits, Steady, Sounding
<1>6. CASE requests[h].reply.state # None
  <2>1. PICK y \in Works : /\ y = Put(c, "capturing") /\ Same(c, y) /\ y.at = "capturing" /\ y.slot = c.slot
                           /\ y.reply = c.reply /\ y.copy = c.copy /\ y.left = c.left
    BY PutIs DEF Places
  <2>2. P!GoOn(h, y)
    <3>1. y = [requests[h] EXCEPT !.at = "capturing"]
      BY <1>3, <2>1, Zenon DEF Put
    <3>2. QED
      BY <1>6, <3>1, Zenon DEF P!ParameterIsSet
  <2>3. y.left # {} /\ y.next = "parameter" /\ y.target = c.target /\ y.value = c.value
    BY <1>4, <2>1 DEF Same
  <2>4. P!Alone /\ fails = 0 => GoodCopy(y) /\ GoodHost(y)
    BY <1>4, <1>5, <2>1, <2>3 DEF GoodCopy, GoodHost
  <2>5. QED
    BY <1>2, <1>4, <2>1, <2>2, <2>3, <2>4, GoOnKeeps
<1>7. CASE requests[h].reply.state = None
  <2>1. Ended(h)
    BY <1>7 DEF P!ParameterIsSet, Ended
  <2>2. P!Alone /\ fails = 0 => HostFits(P!Idle)
    BY <1>5, IdleFits
  <2>3. QED
    BY <1>2, <1>4, <2>1, <2>2, EndKeepsSlots
<1>8. QED
  BY <1>6, <1>7

\* What a captured copy is worth once the last answer is noted.
LEMMA NotedFits ==
  ASSUME P!PluginAssumption, PluginInv, NEW h \in Handlers, NEW c \in Works, c = requests[h],
         c.at = "capturing", c.reply # None
  PROVE  /\ P!Noted(h) = NotedBy(c) /\ ~Waits(requests[h]) /\ c.next # "start"
         /\ P!Alone /\ fails = 0 =>
             /\ SavedHolds
             /\ \A s \in Slots : Fits(s, NotedBy(c).copy[s].state) /\ Newer(s, NotedBy(c).copy[s].state)
             /\ c.next = "parameter" =>
                    /\ slots[c.target].plugin # None
                    /\ c.value <= turns /\ \A s \in Slots : answered[s] <= c.value
                    /\ c.target \in c.left \/ Captured(NotedBy(c))
             /\ GoodHost(c)
<1>1. P!Noted(h) = NotedBy(c)
  BY Zenon DEF P!Noted, NotedBy
<1>2. ~Waits(requests[h]) /\ c.next # "start"
  BY DEF Waits, PluginInv, WorksFit, WorkFits
<1>3. PICK y \in Works : /\ y = NotedBy(c) /\ Same(c, y) /\ y.at = c.at /\ y.slot = c.slot
         /\ y.reply = c.reply /\ y.left = c.left
         /\ \A s \in Slots : /\ y.copy[s].plugin = c.copy[s].plugin
                             /\ y.copy[s].state = IF s = c.slot /\ c.reply.state # None THEN c.reply.state
                                                  ELSE c.copy[s].state
  BY NotedIs
<1>4. ASSUME P!Alone, fails = 0
      PROVE  /\ SavedHolds /\ GoodHost(c)
             /\ \A s \in Slots : Fits(s, y.copy[s].state) /\ Newer(s, y.copy[s].state)
             /\ c.next = "parameter" =>
                    /\ slots[c.target].plugin # None
                    /\ c.value <= turns /\ \A s \in Slots : answered[s] <= c.value
                    /\ c.target \in c.left \/ Captured(y)
  <2>1. SavedHolds /\ HostFits(c) /\ CopyFits(c)
    BY <1>4, AloneHas
  <2>2. GoodHost(c)
    BY <2>1 DEF HostFits, Steady, Sounding, GoodHost
  <2>3. /\ \A s \in Slots : Fits(s, c.copy[s].state) /\ Newer(s, c.copy[s].state)
        /\ Fits(c.slot, c.reply.state) /\ (c.reply.state # None => Newer(c.slot, c.reply.state))
        /\ c.next = "parameter" =>
            /\ slots[c.target].plugin # None
            /\ c.value <= turns /\ \A s \in Slots : answered[s] <= c.value
            /\ c.target \in c.left \/ AnsweredFor(c) \/ (c.slot # c.target /\ Captured(c))
    BY <2>1 DEF CopyFits
  <2>4. ASSUME NEW s \in Slots PROVE Fits(s, y.copy[s].state) /\ Newer(s, y.copy[s].state)
    BY <1>3, <2>3
  <2>5. AnsweredFor(c) => Captured(y)
    BY <1>3, WorkFields DEF AnsweredFor, Captured, Same
  <2>6. ASSUME Captured(c), c.slot # c.target PROVE Captured(y)
    BY <1>3, <2>6, WorkFields DEF Captured, Same
  <2>8. QED
    BY <2>1, <2>2, <2>3, <2>4, <2>5, <2>6
<1>5. QED
  BY <1>1, <1>2, <1>3, <1>4

LEMMA CaptureKeeps ==
  ASSUME P!PluginAssumption, PluginInv, NEW h \in Handlers, P!Capture(h)
  PROVE  PluginInv'
<1>1. /\ requests[h].at = "capturing" /\ requests[h].reply # None /\ requests[h].left # {}
      /\ P!GoOn(h, P!Noted(h)) /\ UNCHANGED Others
  BY DEF P!Capture, Others, P!counts
<1>2. PICK c \in Works : c = requests[h]
  BY <1>1, IdleFields DEF PluginInv, SlotTypes
<1>3. PICK y \in Works : /\ y = NotedBy(c) /\ Same(c, y) /\ y.at = c.at /\ y.left = c.left
  BY <1>1, <1>2, NotedIs
<1>4. /\ P!Noted(h) = y /\ ~Waits(requests[h]) /\ c.next # "start"
      /\ P!Alone /\ fails = 0 =>
             /\ \A s \in Slots : Fits(s, y.copy[s].state) /\ Newer(s, y.copy[s].state)
             /\ c.next = "parameter" =>
                    /\ slots[c.target].plugin # None
                    /\ c.value <= turns /\ \A s \in Slots : answered[s] <= c.value
                    /\ c.target \in c.left \/ Captured(y)
             /\ GoodHost(c)
  BY <1>1, <1>2, <1>3, NotedFits
<1>5. P!Alone /\ fails = 0 => GoodCopy(y) /\ GoodHost(y)
  BY <1>3, <1>4 DEF GoodCopy, GoodHost, Same
<1>6. P!GoOn(h, y) /\ y.at = "capturing" /\ y.next # "start" /\ y.left # {}
  BY <1>1, <1>2, <1>3, <1>4 DEF Same
<1>7. QED
  BY <1>1, <1>4, <1>5, <1>6, GoOnKeeps

\* The captured states are saved; one slot may get another plugin with it.
LEMMA MergedFits ==
  ASSUME P!PluginAssumption, SlotTypes, NEW copy \in Saves, SavedHolds,
         \A s \in Slots : Fits(s, copy[s].state) /\ Newer(s, copy[s].state)
  PROVE  \A s \in Slots : /\ Fits(s, P!Merged(copy)[s].state) /\ Newer(s, P!Merged(copy)[s].state)
                          /\ P!Merged(copy)[s].plugin = slots[s].plugin
  BY MergedIs DEF SavedHolds

LEMMA CapturedForPluginKeeps ==
  ASSUME P!PluginAssumption, PluginInv, NEW h \in Handlers, P!CapturedForPlugin(h)
  PROVE  PluginInv'
<1>1. SlotTypes /\ Queued /\ WorksFit /\ LoadsHold /\ AloneHolds /\ P!ChosenPluginsStay
  BY DEF PluginInv
<1>2. /\ requests[h].at = "capturing" /\ requests[h].reply # None /\ requests[h].left = {}
      /\ UNCHANGED <<processors, alive, turns, stops, fails>>
  BY DEF P!CapturedForPlugin, P!counts
<1>3. PICK b \in Works : b = requests[h]
  BY <1>1, <1>2, IdleFields DEF SlotTypes
<1>4. PICK c \in Works : c = NotedBy(b) /\ Same(b, c) /\ c.at = b.at /\ c.left = b.left
  BY <1>2, <1>3, NotedIs
<1>5. /\ P!Noted(h) = c /\ ~Waits(requests[h])
      /\ P!Alone /\ fails = 0 =>
           /\ SavedHolds /\ GoodHost(b)
           /\ \A s \in Slots : Fits(s, c.copy[s].state) /\ Newer(s, c.copy[s].state)
  BY <1>2, <1>3, <1>4, NotedFits
<1>6. /\ c.next = "plugin"
      /\ slots' = [P!Merged(c.copy) EXCEPT ![c.target] = [plugin |-> c.plugin, state |-> None]]
      /\ chosen' = [chosen EXCEPT ![c.target] = c.plugin]
      /\ answered' = [answered EXCEPT ![c.target] = 0]
      /\ P!Ask(h, [c EXCEPT !.at = "loading"], P!Load(c.target, c.plugin), c.target)
  BY <1>5, Zenon DEF P!CapturedForPlugin
<1>7. /\ c.target \in Slots /\ c.plugin \in MaybePlugins /\ c.copy \in Saves
  BY WorkFields
<1>8. PICK t \in Slots : t = c.target
  BY <1>7
<1>9. PICK p \in MaybePlugins : p = c.plugin
  BY <1>7
<1>10. PICK d \in Works : /\ d = Put(c, "loading") /\ Same(c, d) /\ d.at = "loading" /\ d.slot = c.slot
                          /\ d.reply = c.reply /\ d.copy = c.copy /\ d.left = c.left
  BY PutIs DEF Places
<1>11. PICK y \in Works : /\ y = Asks(d, t) /\ Same(d, y) /\ y.at = "loading" /\ y.slot = t /\ y.reply = None
  BY <1>10, AsksIs
<1>12. y.next = "plugin" /\ y.target = t /\ y.plugin = p /\ CommandOf(y) = P!Load(t, p)
  BY <1>6, <1>8, <1>9, <1>10, <1>11 DEF Same, CommandOf
<1>13. Asked(h, y)
  <2>1. d = [c EXCEPT !.at = "loading"]
    BY <1>10, Zenon DEF Put
  <2>2. P!Ask(h, d, P!Load(t, p), t)
    BY <1>6, <1>8, <1>9, <2>1, Zenon
  <2>3. QED
    BY <1>2, <1>11, <1>12, <2>2, AskedIs
<1>14. WorkFits(y)
  BY <1>11, <1>12 DEF WorkFits
<1>15. /\ requests' \in [Handlers -> Works \cup {P!Idle}] /\ queue' \in Seq(Entries)
       /\ Queued' /\ WorksFit'
  BY <1>1, <1>2, <1>5, <1>11, <1>13, <1>14, AskedKeeps DEF SlotTypes
<1>16. PICK empty \in [plugin : MaybePlugins, state : MaybeStates] :
        empty = [plugin |-> p, state |-> None] /\ empty.plugin = p /\ empty.state = None
  <2>1. PICK n \in MaybeStates : n = None
    BY DEF MaybeStates
  <2>2. [plugin |-> p, state |-> n] \in [plugin : MaybePlugins, state : MaybeStates]
    BY <2>1
  <2>3. QED
    BY <2>1, <2>2
<1>17. PICK new : new = slots'
  OBVIOUS
<1>18. PICK merged \in Saves : /\ merged = P!Merged(c.copy)
                               /\ \A s \in Slots : merged[s].plugin = slots[s].plugin
  BY <1>1, <1>7, MergedIs
<1>19. new = [merged EXCEPT ![t] = empty]
  BY <1>6, <1>8, <1>9, <1>16, <1>17, <1>18, Zenon
<1>20. new \in Saves /\ \A s \in Slots : new[s] = IF s = t THEN empty ELSE merged[s]
  BY <1>18, <1>19 DEF Saves
<1>21. \A s \in Slots : new[s].plugin = IF s = t THEN p ELSE slots[s].plugin
  BY <1>16, <1>18, <1>20
<1>22. /\ chosen' \in [Slots -> MaybePlugins] /\ answered' \in [Slots -> 0..MaxTurns]
       /\ \A s \in Slots : chosen'[s] = (IF s = t THEN p ELSE chosen[s])
                           /\ answered'[s] = (IF s = t THEN 0 ELSE answered[s])
  BY <1>1, <1>6, <1>8, <1>9, NoneIsApart DEF SlotTypes
<1>23. SlotTypes'
  BY <1>1, <1>2, <1>15, <1>17, <1>20, <1>22 DEF SlotTypes
<1>24. P!ChosenPluginsStay'
  BY <1>1, <1>17, <1>21, <1>22 DEF P!ChosenPluginsStay
<1>25. LoadsHold'
  <2> SUFFICES ASSUME fails' = 0, stops' = 0 PROVE LoadsHold'
    BY DEF LoadsHold
  <2>1. /\ alive /\ alive' /\ \A g \in Handlers : requests[g].at \in Places => requests[g].next # "start"
        /\ requests' = [requests EXCEPT ![h] = y] /\ queue' = Append(queue, [of |-> h, command |-> CommandOf(y)])
    BY <1>1, <1>2, <1>13 DEF LoadsHold, Asked
  <2>2. \A g \in Handlers : requests'[g] = IF g = h THEN y ELSE requests[g]
    BY <1>1, <2>1 DEF SlotTypes
  <2>3. \A g \in Handlers : requests'[g].at \in Places => requests'[g].next # "start"
    BY <1>12, <2>1, <2>2
  <2>4. PICK q : q = queue'
    OBVIOUS
  <2>5. /\ Len(queue) \in Nat /\ DOMAIN queue = 1..Len(queue) /\ DOMAIN q = 1..(Len(queue) + 1)
        /\ \A i \in DOMAIN queue : q[i] = queue[i]
        /\ q[Len(queue) + 1].command = P!Load(t, p)
    <3>1. queue \in Seq(Entries)
      BY <1>1 DEF SlotTypes
    <3>2. QED
      BY <1>12, <2>1, <2>4, <3>1
  <2>6. /\ q[Len(queue) + 1].command.name = "load" /\ q[Len(queue) + 1].command.slot = t
        /\ q[Len(queue) + 1].command.plugin = p
    BY <2>5 DEF P!Load
  <2> DEFINE L(i, s) == q[i].command.name = "load" /\ q[i].command.slot = s
  <2>7. ASSUME NEW s \in Slots
        PROVE  /\ \A i \in DOMAIN q : L(i, s) /\ (\A j \in DOMAIN q : j > i => ~L(j, s))
                     => q[i].command.plugin = new[s].plugin
               /\ (\A i \in DOMAIN q : ~L(i, s)) => Has(s)'
    <3>1. CASE s = t
      <4>1. \A i \in DOMAIN q : i # Len(queue) + 1 => Len(queue) + 1 > i
        BY <2>5
      <4>2. QED
        BY <1>21, <2>5, <2>6, <3>1, <4>1
    <3>2. CASE s # t
      <4>1. \A i \in DOMAIN q : L(i, s) => i \in DOMAIN queue /\ Loads(i, s)
        BY <2>5, <2>6, <3>2 DEF Loads
      <4>2. \A i \in DOMAIN queue : i \in DOMAIN q /\ (Loads(i, s) => L(i, s))
        BY <2>5 DEF Loads
      <4>3. ASSUME NEW i \in DOMAIN q, L(i, s), \A j \in DOMAIN q : j > i => ~L(j, s)
            PROVE  q[i].command.plugin = new[s].plugin
        <5>1. i \in DOMAIN queue /\ Loads(i, s) /\ \A j \in DOMAIN queue : j > i => ~Loads(j, s)
          BY <4>1, <4>2, <4>3
        <5>2. queue[i].command.plugin = slots[s].plugin
          BY <1>1, <1>2, <5>1 DEF LoadsHold
        <5>3. QED
          BY <1>21, <2>5, <3>2, <5>1, <5>2
      <4>4. ASSUME \A i \in DOMAIN q : ~L(i, s) PROVE Has(s)'
        <5>1. \A i \in DOMAIN queue : ~Loads(i, s)
          BY <4>2, <4>4
        <5>2. Has(s)
          BY <1>1, <1>2, <5>1 DEF LoadsHold
        <5>3. QED
          BY <1>2, <1>17, <1>21, <3>2, <5>2 DEF Has
      <4>5. QED
        BY <4>3, <4>4
    <3>3. QED
      BY <3>1, <3>2
  <2>8. QED
    BY <1>17, <2>1, <2>3, <2>4, <2>7 DEF LoadsHold, Loads
<1>26. PICK z : z = IF alive THEN y ELSE P!Idle
  OBVIOUS
<1>27. requests' = [requests EXCEPT ![h] = z]
  BY <1>2, <1>13, <1>26 DEF Asked
<1>28. P!Alone /\ fails' = 0 => SavedHolds' /\ HostFits(z)' /\ CopyFits(z)'
  <2> SUFFICES ASSUME P!Alone, fails' = 0 PROVE SavedHolds' /\ HostFits(z)' /\ CopyFits(z)'
    OBVIOUS
  <2>1. /\ SavedHolds /\ GoodHost(b)
        /\ \A s \in Slots : Fits(s, merged[s].state) /\ Newer(s, merged[s].state)
    BY <1>1, <1>2, <1>5, <1>7, <1>18, MergedFits
  <2>2. \A s \in Slots : Fits(s, new[s].state)' /\ Newer(s, new[s].state)' /\ answered'[s] <= turns'
    <3> TAKE s \in Slots
    <3>1. CASE s = t
      BY <1>1, <1>2, <1>16, <1>20, <1>22, <3>1, NoneIsApart DEF Fits, Newer, SlotTypes
    <3>2. CASE s # t
      BY <1>2, <1>17, <1>20, <1>21, <1>22, <2>1, <3>2 DEF SavedHolds, Fits, Newer
    <3>3. QED
      BY <3>1, <3>2
  <2>3. SavedHolds'
    BY <1>17, <2>2 DEF SavedHolds
  <2>4. CopyFits(z)'
    BY <1>11, <1>26, IdleFields DEF CopyFits
  <2>5. CASE alive
    <3>1. \A s \in Slots \ {t} : Keeps(s)'
      BY <1>2, <1>17, <1>21, <1>22, <2>1, <2>5 DEF GoodHost, Keeps, Has, Newer
    <3>2. slots'[t].plugin = p /\ answered'[t] = 0
      BY <1>17, <1>21, <1>22
    <3>3. HostFits(y)'
      BY <1>11, <1>12, <3>1, <3>2 DEF HostFits, Steady, Changing, Starting, Sounding
    <3>4. QED
      BY <1>26, <2>3, <2>4, <2>5, <3>3
  <2>6. CASE ~alive
    BY <1>2, <2>3, <2>4, <2>6 DEF HostFits
  <2>7. QED
    BY <2>5, <2>6
<1>29. AloneHolds'
  BY <1>1, <1>27, <1>28, AloneMoves
<1>30. QED
  BY <1>15, <1>23, <1>24, <1>25, <1>29 DEF PluginInv

LEMMA CapturedForAnswerKeeps ==
  ASSUME P!PluginAssumption, PluginInv, NEW h \in Handlers, P!CapturedForAnswer(h)
  PROVE  PluginInv'
<1>1. SlotTypes /\ Queued /\ WorksFit /\ LoadsHold /\ AloneHolds /\ P!ChosenPluginsStay
  BY DEF PluginInv
<1>2. /\ requests[h].at = "capturing" /\ requests[h].reply # None /\ requests[h].left = {}
      /\ UNCHANGED <<processors, alive, queue, turns, stops, fails, chosen>>
      /\ requests' = [requests EXCEPT ![h] = P!Idle]
  BY DEF P!CapturedForAnswer, P!counts
<1>3. PICK b \in Works : b = requests[h]
  BY <1>1, <1>2, IdleFields DEF SlotTypes
<1>4. PICK c \in Works : c = NotedBy(b) /\ Same(b, c) /\ c.at = b.at /\ c.left = b.left
  BY <1>2, <1>3, NotedIs
<1>5. /\ P!Noted(h) = c /\ ~Waits(requests[h])
      /\ P!Alone /\ fails = 0 =>
           /\ SavedHolds /\ GoodHost(b)
           /\ \A s \in Slots : Fits(s, c.copy[s].state) /\ Newer(s, c.copy[s].state)
           /\ b.next = "parameter" =>
                    /\ slots[b.target].plugin # None
                    /\ b.value <= turns /\ \A s \in Slots : answered[s] <= b.value
                    /\ b.target \in b.left \/ Captured(c)
  BY <1>2, <1>3, <1>4, NotedFits
<1>6. /\ slots' = P!Merged(c.copy)
      /\ answered' = IF c.next = "parameter" THEN [answered EXCEPT ![c.target] = c.value] ELSE answered
  BY <1>5, Zenon DEF P!CapturedForAnswer
<1>7. c.target \in Slots /\ c.copy \in Saves /\ c.value \in 0..MaxTurns
  BY WorkFields
<1>8. PICK new \in Saves : /\ new = P!Merged(c.copy) /\ new = slots'
         /\ \A s \in Slots : /\ new[s].plugin = slots[s].plugin
                             /\ new[s].state = IF c.copy[s].state # None /\ slots[s].plugin # None
                                               THEN c.copy[s].state ELSE slots[s].state
  BY <1>1, <1>6, <1>7, MergedIs
<1>9. /\ answered' \in [Slots -> 0..MaxTurns]
      /\ \A s \in Slots : answered'[s] = IF c.next = "parameter" /\ s = c.target THEN c.value ELSE answered[s]
  BY <1>1, <1>6, <1>7 DEF SlotTypes
<1>10. Ended(h) /\ alive' = alive
  BY <1>2 DEF Ended
<1>11. /\ requests' \in [Handlers -> Works \cup {P!Idle}] /\ queue' \in Seq(Entries)
       /\ Queued' /\ WorksFit'
  BY <1>1, <1>5, <1>10, EndedKeeps
<1>12. SlotTypes'
  BY <1>1, <1>2, <1>8, <1>9, <1>11 DEF SlotTypes
<1>13. P!ChosenPluginsStay'
  BY <1>1, <1>2, <1>8 DEF P!ChosenPluginsStay
<1>14. LoadsHold'
  <2>1. \A s \in Slots : slots'[s].plugin = slots[s].plugin /\ (Has(s) => Has(s)')
    BY <1>2, <1>8 DEF Has
  <2>2. fails' = 0 /\ stops' = 0 => fails = 0 /\ stops = 0 /\ alive'
    BY <1>1, <1>2 DEF LoadsHold
  <2>3. P!Idle.at \notin Places
    BY IdleFields DEF Places
  <2>4. QED
    BY <1>1, <1>2, <2>1, <2>2, <2>3, LoadsStay
<1>15. P!Alone /\ fails' = 0 => SavedHolds' /\ HostFits(P!Idle)' /\ CopyFits(P!Idle)'
  <2> SUFFICES ASSUME P!Alone, fails' = 0 PROVE SavedHolds' /\ HostFits(P!Idle)' /\ CopyFits(P!Idle)'
    OBVIOUS
  <2>1. /\ SavedHolds /\ GoodHost(b)
        /\ \A s \in Slots : Fits(s, new[s].state) /\ Newer(s, new[s].state)
    BY <1>1, <1>2, <1>5, <1>7, <1>8, MergedFits
  <2>2. c.next = "parameter" =>
          /\ slots[c.target].plugin # None /\ c.value <= turns
          /\ c.copy[c.target].state # None /\ c.copy[c.target].state.value >= c.value
    BY <1>2, <1>3, <1>4, <1>5 DEF Same, Captured
  <2>3. \A s \in Slots : Fits(s, new[s].state)' /\ Newer(s, new[s].state)' /\ answered'[s] <= turns'
    <3> TAKE s \in Slots
    <3>1. CASE c.next = "parameter" /\ s = c.target
      BY <1>2, <1>8, <1>9, <2>1, <2>2, <3>1 DEF Fits, Newer
    <3>2. CASE ~(c.next = "parameter" /\ s = c.target)
      BY <1>2, <1>8, <1>9, <2>1, <3>2 DEF SavedHolds, Fits, Newer
    <3>3. QED
      BY <3>1, <3>2
  <2>4. SavedHolds'
    BY <1>8, <2>3 DEF SavedHolds
  <2>5. ASSUME alive, NEW s \in Slots PROVE Keeps(s)'
    <3>1. Keeps(s) /\ (c.next = "parameter" => processors[c.target] # None /\ processors[c.target].value >= c.value)
      BY <1>3, <1>4, <2>1, <2>5 DEF GoodHost, Same
    <3>2. QED
      BY <1>2, <1>8, <1>9, <3>1 DEF Keeps, Has, Newer
  <2>6. HostFits(P!Idle)'
    BY <1>2, <2>5, IdleFields DEF HostFits, Steady, Changing, Starting, Sounding
  <2>7. CopyFits(P!Idle)'
    BY IdleFields DEF CopyFits
  <2>8. QED
    BY <2>4, <2>6, <2>7
<1>16. AloneHolds'
  BY <1>1, <1>2, <1>15, AloneMoves
<1>17. QED
  BY <1>11, <1>12, <1>13, <1>14, <1>16 DEF PluginInv

\* The host is down: who waited has ended, the others go on from what they know.
LEMMA DownIs ==
  ASSUME P!PluginAssumption, PluginInv, NEW all \in [Handlers -> Works \cup {P!Idle}],
         \A g \in Handlers : all[g] = P!Idle \/ (all[g] = requests[g] /\ ~Waits(requests[g])),
         requests' = all, P!Down, UNCHANGED <<turns, fails, chosen, answered>>, slots' \in Saves,
         \A s \in Slots : slots'[s].plugin = slots[s].plugin,
         P!Alone /\ fails = 0 => SavedHolds'
  PROVE  PluginInv'
<1>1. SlotTypes /\ Queued /\ WorksFit /\ AloneHolds /\ P!ChosenPluginsStay
  BY DEF PluginInv
<1>2. alive' = FALSE /\ processors' = [s \in Slots |-> None] /\ queue' = <<>> /\ stops' = stops + 1
  BY DEF P!Down
<1>3. /\ requests' \in [Handlers -> Works \cup {P!Idle}] /\ queue' \in Seq(Entries)
      /\ Queued' /\ WorksFit'
  BY <1>1, <1>2, DownKeeps
<1>4. processors' \in [Slots -> MaybeStates]
  BY <1>2 DEF MaybeStates
<1>5. SlotTypes'
  <2>1. alive' \in BOOLEAN
    BY <1>2, Zenon
  <2>2. stops' \in Nat
    BY <1>1, <1>2 DEF SlotTypes
  <2>3. QED
    BY <1>1, <1>3, <1>4, <2>1, <2>2 DEF SlotTypes
<1>6. P!ChosenPluginsStay'
  BY <1>1 DEF P!ChosenPluginsStay
<1>7. LoadsHold'
  BY <1>1, <1>2 DEF LoadsHold, SlotTypes
<1>8. AloneHolds'
  <2> SUFFICES ASSUME P!Alone, fails = 0
               PROVE  \A g \in Handlers : HostFits(all[g])' /\ CopyFits(all[g])'
    BY DEF AloneHolds, P!Alone
  <2> TAKE g \in Handlers
  <2>1. HostFits(all[g])'
    BY <1>2 DEF HostFits
  <2>2. CopyFits(all[g])'
    <3>1. CASE all[g] = P!Idle
      BY <3>1, IdleFields DEF CopyFits
    <3>2. CASE all[g] = requests[g]
      <4>1. CopyFits(all[g]) /\ (all[g].at \in Places => all[g] \in Works)
        BY <1>1, <3>2, AloneHas, IdleFields DEF Places
      <4>2. CASE all[g].at \in Places
        BY <4>1, <4>2, WorkFields DEF CopyFits, Fits, Newer, AnsweredFor, Captured
      <4>3. CASE all[g].at \notin Places
        BY <4>3 DEF CopyFits, Places
      <4>4. QED
        BY <4>2, <4>3
    <3>3. QED
      BY <3>1, <3>2
  <2>3. QED
    BY <2>1, <2>2
<1>9. QED
  BY <1>3, <1>5, <1>6, <1>7, <1>8 DEF PluginInv

LEMMA HostEndsKeeps ==
  ASSUME P!PluginAssumption, PluginInv, P!HostEnds
  PROVE  PluginInv'
<1>1. /\ requests' = P!Raised /\ P!Down /\ UNCHANGED <<slots, turns, fails, chosen, answered>>
  BY DEF P!HostEnds
<1>2. PICK all \in [Handlers -> Works \cup {P!Idle}] :
        /\ all = P!Raised
        /\ \A g \in Handlers : all[g] = P!Idle \/ (all[g] = requests[g] /\ ~Waits(requests[g]))
  BY RaisedIs DEF PluginInv
<1>3. P!Alone /\ fails = 0 => SavedHolds'
  BY <1>1 DEF PluginInv, AloneHolds, SavedHolds, Fits, Newer
<1>4. slots' \in Saves
  BY <1>1 DEF PluginInv, SlotTypes
<1>5. QED
  BY <1>1, <1>2, <1>3, <1>4, DownIs

LEMMA CapturedForStopKeeps ==
  ASSUME P!PluginAssumption, PluginInv, NEW h \in Handlers, P!CapturedForStop(h)
  PROVE  PluginInv'
<1>1. SlotTypes /\ Queued /\ WorksFit /\ LoadsHold /\ AloneHolds /\ P!ChosenPluginsStay
  BY DEF PluginInv
<1>2. /\ requests[h].at = "capturing" /\ requests[h].reply # None /\ requests[h].left = {}
      /\ UNCHANGED <<turns, fails, chosen, answered>>
      /\ slots' = P!Merged(P!Noted(h).copy)
  BY DEF P!CapturedForStop
<1>3. PICK b \in Works : b = requests[h]
  BY <1>1, <1>2, IdleFields DEF SlotTypes
<1>4. PICK c \in Works : c = NotedBy(b)
  BY <1>2, <1>3, NotedIs
<1>5. /\ P!Noted(h) = c /\ ~Waits(requests[h])
      /\ P!Alone /\ fails = 0 =>
           SavedHolds /\ \A s \in Slots : Fits(s, c.copy[s].state) /\ Newer(s, c.copy[s].state)
  BY <1>2, <1>3, <1>4, NotedFits
<1>6. PICK new \in Saves : /\ new = P!Merged(c.copy) /\ new = slots'
                           /\ \A s \in Slots : new[s].plugin = slots[s].plugin
  BY <1>1, <1>2, <1>5, MergedIs, WorkFields
<1>7. ASSUME P!Alone, fails = 0 PROVE SavedHolds'
  <2>1. SavedHolds /\ \A s \in Slots : Fits(s, new[s].state) /\ Newer(s, new[s].state)
    BY <1>1, <1>5, <1>6, <1>7, MergedFits, WorkFields
  <2>2. \A s \in Slots : Fits(s, new[s].state)' /\ Newer(s, new[s].state)' /\ answered'[s] <= turns'
    BY <1>2, <1>6, <2>1 DEF SavedHolds, Fits, Newer
  <2>3. QED
    BY <1>6, <2>2 DEF SavedHolds
<1>8. CASE alive
  <2>1. P!Down /\ requests' = [P!Raised EXCEPT ![h] = P!Idle]
    BY <1>8 DEF P!CapturedForStop
  <2>2. PICK all : all = requests'
    OBVIOUS
  <2>3. /\ all \in [Handlers -> Works \cup {P!Idle}]
        /\ \A g \in Handlers : all[g] = P!Idle \/ (all[g] = requests[g] /\ ~Waits(requests[g]))
    BY <1>1, <2>1, <2>2, RaisedIs
  <2>4. QED
    BY <1>2, <1>6, <1>7, <2>1, <2>2, <2>3, DownIs
<1>9. CASE ~alive
  <2>1. /\ requests' = [requests EXCEPT ![h] = P!Idle]
        /\ UNCHANGED <<alive, processors, queue, stops>>
    BY <1>9 DEF P!CapturedForStop
  <2>2. Ended(h)
    BY <2>1 DEF Ended
  <2>3. /\ requests' \in [Handlers -> Works \cup {P!Idle}] /\ queue' \in Seq(Entries)
        /\ Queued' /\ WorksFit'
    BY <1>1, <1>5, <2>1, <2>2, EndedKeeps
  <2>4. SlotTypes'
    BY <1>1, <1>2, <1>6, <2>1, <2>3 DEF SlotTypes
  <2>5. P!ChosenPluginsStay'
    BY <1>1, <1>2, <1>6 DEF P!ChosenPluginsStay
  <2>6. LoadsHold'
    BY <1>1, <1>2, <1>9, <2>1 DEF LoadsHold
  <2>7. P!Alone /\ fails' = 0 => SavedHolds' /\ HostFits(P!Idle)' /\ CopyFits(P!Idle)'
    BY <1>2, <1>7, <1>9, <2>1, IdleFields DEF HostFits, CopyFits
  <2>8. AloneHolds'
    BY <1>1, <2>1, <2>7, AloneMoves
  <2>9. QED
    BY <2>3, <2>4, <2>5, <2>6, <2>8 DEF PluginInv
<1>10. QED
  BY <1>8, <1>9

\* Somebody turns a knob: the value is newer than all others.
AtValue(old, v) == [old EXCEPT !.value = v]
LEMMA AtValueIs ==
  ASSUME NEW old \in P!States, NEW v \in 0..MaxTurns
  PROVE  AtValue(old, v) \in P!States /\ AtValue(old, v).plugin = old.plugin /\ AtValue(old, v).value = v
  BY DEF P!States, AtValue

LEMMA TurnKeeps ==
  ASSUME P!PluginAssumption, PluginInv, NEW s \in Slots, P!Turn(s)
  PROVE  PluginInv'
<1>1. SlotTypes /\ Queued /\ WorksFit /\ LoadsHold /\ AloneHolds /\ P!ChosenPluginsStay
  BY DEF PluginInv
<1>2. /\ alive /\ processors[s] # None /\ turns' = turns + 1 /\ turns' \in 0..MaxTurns
      /\ processors' = [processors EXCEPT ![s].value = turns']
      /\ UNCHANGED <<slots, alive, queue, requests, stops, fails, chosen, answered>>
  BY <1>1, NoneIsApart DEF P!Turn, SlotTypes
<1>3. PICK old \in P!States : old = processors[s]
  BY <1>1, <1>2 DEF SlotTypes, MaybeStates
<1>4. PICK v \in 0..MaxTurns : v = turns'
  BY <1>2
<1>5. PICK x \in P!States : x = AtValue(old, v) /\ x.plugin = old.plugin /\ x.value = v
  BY AtValueIs
<1>6. processors' = [processors EXCEPT ![s] = x]
  BY <1>2, <1>3, <1>4, <1>5, Zenon DEF AtValue
<1>7. /\ processors' \in [Slots -> MaybeStates]
      /\ \A t \in Slots : processors'[t] = IF t = s THEN x ELSE processors[t]
  BY <1>1, <1>5, <1>6 DEF SlotTypes, MaybeStates
<1>8. SlotTypes'
  BY <1>1, <1>2, <1>7 DEF SlotTypes
<1>9. Queued' /\ WorksFit' /\ P!ChosenPluginsStay'
  BY <1>1, <1>2 DEF Queued, WorksFit, P!ChosenPluginsStay
<1>10. \A t \in Slots : Has(t) => Has(t)'
  BY <1>2, <1>3, <1>5, <1>7, NoneIsApart DEF Has
<1>11. LoadsHold'
  BY <1>1, <1>2, <1>10 DEF LoadsHold, Loads
<1>12. AloneHolds'
  <2> SUFFICES ASSUME P!Alone, fails = 0
               PROVE  SavedHolds' /\ \A g \in Handlers : HostFits(requests[g])' /\ CopyFits(requests[g])'
    BY <1>2 DEF AloneHolds, P!Alone
  <2>1. SavedHolds
    BY <1>1 DEF AloneHolds
  <2>2. /\ turns \in Nat /\ turns' = turns + 1
        /\ \A t \in Slots : answered[t] \in Nat /\ answered[t] <= turns
    BY <1>1, <1>2, <2>1, NoneIsApart DEF SlotTypes, SavedHolds
  <2>3. SavedHolds'
    BY <1>2, <2>1, <2>2 DEF SavedHolds, Fits, Newer
  <2>4. \A t \in Slots : Keeps(t) => Keeps(t)'
    BY <1>2, <1>4, <1>5, <1>7, <1>10, <2>2, NoneIsApart DEF Keeps, Newer
  <2>5. ASSUME NEW g \in Handlers PROVE HostFits(requests[g])' /\ CopyFits(requests[g])'
    <3>1. HostFits(requests[g]) /\ CopyFits(requests[g])
      BY AloneHas
    <3>2. PICK c \in Works \cup {P!Idle} : c = requests[g] /\ c = requests'[g]
      BY <1>1, <1>2 DEF SlotTypes
    <3>3. CASE c = P!Idle
      <4>1. HostFits(c)'
        BY <1>2, <2>4, <3>1, <3>2, <3>3, IdleFields DEF HostFits, Steady, Changing, Starting, Sounding
      <4>2. CopyFits(c)'
        BY <3>3, IdleFields DEF CopyFits
      <4>3. QED
        BY <3>2, <4>1, <4>2
    <3>4. CASE c \in Works
      <4>1. Steady(c) /\ Changing(c) /\ Starting(c) /\ Sounding(c)
        BY <1>2, <3>1, <3>2 DEF HostFits
      <4>2. c.slot \in Slots /\ c.target \in Slots /\ c.value \in Nat
        BY <3>4, WorkFields, NoneIsApart
      <4>3. Steady(c)' /\ Changing(c)' /\ Starting(c)'
        BY <1>2, <1>10, <2>4, <4>1, <4>2 DEF Steady, Changing, Starting
      <4>4. Sounding(c)'
        <5>1. SUFFICES ASSUME (c.at = "capturing" \/ (c.at = "setting" /\ c.reply # None)), c.next = "parameter"
                       PROVE  processors'[c.target] # None /\ processors'[c.target].value >= c.value
          BY DEF Sounding
        <5>2. processors[c.target] # None /\ processors[c.target].value >= c.value /\ c.value <= turns
          BY <3>1, <3>2, <4>1, <5>1 DEF Sounding, CopyFits
        <5>3. CASE c.target = s
          <6>1. processors'[c.target] = x
            BY <1>7, <4>2, <5>3
          <6>2. x # None /\ x.value = turns + 1 /\ turns \in Nat
            BY <1>4, <1>5, <2>2, NoneIsApart
          <6>3. QED
            BY <4>2, <5>2, <6>1, <6>2
        <5>4. CASE c.target # s
          BY <1>7, <4>2, <5>2, <5>4
        <5>5. QED
          BY <5>3, <5>4
      <4>5. HostFits(c)'
        BY <4>3, <4>4 DEF HostFits
      <4>6. CopyFits(c)'
        BY <1>2, <2>2, <3>1, <3>2, <4>2 DEF CopyFits, Fits, Newer, AnsweredFor, Captured
      <4>7. QED
        BY <3>2, <4>5, <4>6
    <3>5. QED
      BY <3>3, <3>4
  <2>6. QED
    BY <2>3, <2>5
<1>13. QED
  BY <1>8, <1>9, <1>11, <1>12 DEF PluginInv

\* The host is started with the saved project.
LeftTo(c, S) == [c EXCEPT !.left = S]
LEMMA LeftToIs ==
  ASSUME NEW c \in Works, NEW S \in SUBSET Slots
  PROVE  LET y == LeftTo(c, S) IN
         /\ y \in Works /\ Same(c, y) /\ y.at = c.at /\ y.slot = c.slot
         /\ y.reply = c.reply /\ y.copy = c.copy /\ y.left = S
  BY DEF Works, LeftTo, Same

LEMMA StartKeeps ==
  ASSUME P!PluginAssumption, PluginInv, NEW h \in Handlers, P!Start(h)
  PROVE  PluginInv'
<1>1. SlotTypes /\ Queued /\ WorksFit /\ LoadsHold /\ AloneHolds /\ P!ChosenPluginsStay
  BY DEF PluginInv
<1>2. /\ ~alive /\ requests[h] = P!Idle /\ alive' = TRUE
      /\ UNCHANGED <<slots, processors, turns, stops, fails, chosen, answered>>
  BY DEF P!Start, P!counts
<1>3. 0 \in Slots /\ None \in MaybePlugins
  BY NoneIsApart DEF MaybePlugins
<1>4. PICK s \in Slots : s = P!Min(Slots)
  BY <1>3, LowestSlot
<1>5. PICK c \in Works : /\ c = P!New("loading", "start", 0, None) /\ c.at = "loading" /\ c.next = "start"
                         /\ c.copy = slots
  BY <1>1, <1>3, NewIs DEF Places, Aims
<1>6. PICK d \in Works : /\ d = LeftTo(c, Slots \ {s}) /\ d.at = c.at /\ Same(c, d)
                         /\ d.copy = c.copy /\ d.left = Slots \ {s}
  BY LeftToIs
<1>7. PICK y \in Works : /\ y = Asks(d, s) /\ Same(d, y) /\ y.at = d.at /\ y.slot = s /\ y.reply = None
                         /\ y.copy = d.copy /\ y.left = d.left
  BY AsksIs
<1>8. y.at = "loading" /\ y.next = "start" /\ y.copy = slots /\ y.left = Slots \ {s}
  BY <1>5, <1>6, <1>7 DEF Same
<1>9. CommandOf(y) = P!Load(s, slots[s].plugin)
  BY <1>7, <1>8 DEF CommandOf
<1>10. Asked(h, y)
  <2>1. P!Send(h, d, P!Load(s, slots[s].plugin), s)
    BY <1>4, <1>5, <1>6, Zenon DEF P!Start, LeftTo
  <2>2. QED
    BY <1>2, <1>7, <1>9, <2>1, SendIs
<1>11. WorkFits(y) /\ ~Waits(requests[h]) /\ alive' \in BOOLEAN
  <2>1. WorkFits(y) /\ ~Waits(requests[h])
    BY <1>2, <1>8, IdleFields DEF WorkFits
  <2>2. alive' \in BOOLEAN
    BY <1>2, Zenon
  <2>3. QED
    BY <2>1, <2>2
<1>12. /\ requests' \in [Handlers -> Works \cup {P!Idle}] /\ queue' \in Seq(Entries)
       /\ Queued' /\ WorksFit'
  BY <1>1, <1>2, <1>7, <1>10, <1>11, AskedKeeps
<1>13. SlotTypes'
  BY <1>1, <1>2, <1>11, <1>12 DEF SlotTypes
<1>14. P!ChosenPluginsStay'
  BY <1>1, <1>2 DEF P!ChosenPluginsStay
<1>15. LoadsHold'
  BY <1>1, <1>2 DEF LoadsHold
<1>16. requests' = [requests EXCEPT ![h] = y]
  BY <1>2, <1>10 DEF Asked
<1>17. P!Alone /\ fails' = 0 => SavedHolds' /\ HostFits(y)' /\ CopyFits(y)'
  <2> SUFFICES ASSUME P!Alone, fails' = 0 PROVE SavedHolds' /\ HostFits(y)' /\ CopyFits(y)'
    OBVIOUS
  <2>1. SavedHolds'
    BY <1>1, <1>2 DEF AloneHolds, SavedHolds, Fits, Newer
  <2>2. HostFits(y)'
    BY <1>2, <1>7, <1>8 DEF HostFits, Steady, Changing, Starting, Sounding
  <2>3. CopyFits(y)'
    BY <1>8 DEF CopyFits
  <2>4. QED
    BY <2>1, <2>2, <2>3
<1>18. AloneHolds'
  BY <1>1, <1>16, <1>17, AloneMoves
<1>19. QED
  BY <1>12, <1>13, <1>14, <1>15, <1>18 DEF PluginInv

\* A start goes on: what it asks for depends on the slots only.
LEMMA StartGoesOn ==
  ASSUME P!PluginAssumption, PluginInv, NEW h \in Handlers, NEW c \in Works, c = requests[h], c.next = "start",
         ~Waits(c), UNCHANGED Others,
         NEW y \in Works, y.reply = None, y.next = "start", WorkFits(y), Asked(h, y),
         P!Alone /\ fails = 0 => HostFits(y) /\ CopyFits(y)
  PROVE  PluginInv'
<1>1. SlotTypes /\ Queued /\ WorksFit /\ LoadsHold /\ AloneHolds /\ P!ChosenPluginsStay
  BY DEF PluginInv
<1>2. /\ requests' \in [Handlers -> Works \cup {P!Idle}] /\ queue' \in Seq(Entries)
      /\ Queued' /\ WorksFit'
  BY <1>1, AskedKeeps DEF Others, SlotTypes
<1>3. SlotTypes'
  BY <1>1, <1>2 DEF SlotTypes, Others
<1>4. P!ChosenPluginsStay'
  BY <1>1 DEF P!ChosenPluginsStay, Others
<1>5. LoadsHold'
  BY <1>1, WorkFields DEF LoadsHold, Others
<1>6. PICK z : z = IF alive THEN y ELSE P!Idle
  OBVIOUS
<1>7. requests' = [requests EXCEPT ![h] = z]
  BY <1>6 DEF Asked, Others
<1>8. P!Alone /\ fails' = 0 => SavedHolds' /\ HostFits(z)' /\ CopyFits(z)'
  <2> SUFFICES ASSUME P!Alone, fails' = 0 PROVE SavedHolds' /\ HostFits(z)' /\ CopyFits(z)'
    OBVIOUS
  <2>1. SavedHolds /\ HostFits(y) /\ CopyFits(y)
    BY AloneHas DEF Others
  <2>2. HostFits(z) /\ CopyFits(z)
    BY <1>6, <2>1, IdleFits
  <2>3. SavedHolds'
    BY <2>1 DEF SavedHolds, Fits, Newer, Others
  <2>4. HostFits(z)'
    BY <2>2 DEF HostFits, Steady, Changing, Starting, Sounding, Keeps, Has, Newer, Others
  <2>5. CopyFits(z)'
    BY <2>2 DEF CopyFits, Fits, Newer, AnsweredFor, Captured, Others
  <2>6. QED
    BY <2>3, <2>4, <2>5
<1>9. AloneHolds'
  BY <1>1, <1>7, <1>8, AloneMoves
<1>10. QED
  BY <1>2, <1>3, <1>4, <1>5, <1>9 DEF PluginInv

\* A plugin is loaded: its state follows, or the next slot, or the request is done.
GoesOn(c, s) == [c EXCEPT !.at = "loading", !.left = @ \ {s}]
LEMMA GoesOnIs ==
  ASSUME NEW c \in Works, NEW s
  PROVE  LET y == GoesOn(c, s) IN
         /\ y \in Works /\ Same(c, y) /\ y.at = "loading" /\ y.slot = c.slot
         /\ y.reply = c.reply /\ y.copy = c.copy /\ y.left = c.left \ {s}
  BY DEF Works, GoesOn, Same, Places

LEMMA LoadedKeeps ==
  ASSUME P!PluginAssumption, PluginInv, NEW h \in Handlers, P!Loaded(h)
  PROVE  PluginInv'
<1>1. SlotTypes /\ WorksFit /\ LoadsHold /\ AloneHolds
  BY DEF PluginInv
<1>2. requests[h].at \in {"loading", "restoring"} /\ requests[h].reply # None /\ UNCHANGED Others
  BY DEF P!Loaded, Others, P!counts
<1>3. PICK c \in Works : c = requests[h]
  BY <1>1, <1>2, IdleFields DEF SlotTypes
<1>4. /\ ~Waits(requests[h]) /\ WorkFits(c) /\ c.slot \in Slots /\ c.left \subseteq Slots /\ c.next \in {"plugin", "start"}
  BY <1>1, <1>2, <1>3, WorkFields DEF Waits, WorksFit, WorkFits
<1> DEFINE Restores == /\ c.at = "loading" /\ c.next = "start" /\ c.copy[c.slot].state # None
                       /\ c.copy[c.slot].plugin # None
<1>5. PICK s : s = P!Min(c.left)
  OBVIOUS
<1>6. /\ Restores => P!Ask(h, Put(c, "restoring"), P!Restore(c.slot, c.copy[c.slot].state), c.slot)
      /\ ~Restores /\ c.next = "start" /\ c.left # {} =>
            P!Ask(h, GoesOn(c, s), P!Load(s, c.copy[s].plugin), s)
      /\ ~Restores /\ ~(c.next = "start" /\ c.left # {}) => Ended(h)
  BY <1>3, <1>5, Zenon DEF P!Loaded, Put, GoesOn, Ended
\* What the host has once the answer is there.
<1>7. ASSUME P!Alone, fails = 0, alive, ~Restores
      PROVE  \A t \in Slots \ c.left : Keeps(t)
  <2>1. SavedHolds /\ Changing(c) /\ Starting(c)
    BY <1>3, <1>7, AloneHas DEF HostFits
  <2>2. CASE c.next = "plugin"
    <3>1. c.at = "loading"
      BY <1>2, <1>3, <1>4, <2>2 DEF WorkFits
    <3>2. QED
      BY <1>2, <1>3, <2>1, <2>2, <3>1 DEF Changing, Keeps, Newer
  <2>3. CASE c.next = "start"
    <3>1. /\ c.copy = slots /\ \A t \in Slots \ (c.left \cup {c.slot}) : Keeps(t)
          /\ Has(c.slot) /\ (c.at = "restoring" => Keeps(c.slot))
      BY <1>2, <1>3, <2>1, <2>3 DEF Starting
    <3>2. ASSUME c.at = "loading" PROVE Keeps(c.slot)
      <4>1. slots[c.slot].state = None \/ slots[c.slot].plugin = None
        BY <1>7, <2>3, <3>1, <3>2
      <4>2. slots[c.slot].state \in MaybeStates /\ Fits(c.slot, slots[c.slot].state) /\ Newer(c.slot, slots[c.slot].state)
        BY <1>1, <1>4, <2>1, SaveFields DEF SlotTypes, SavedHolds
      <4>3. slots[c.slot].state = None
        BY <4>1, <4>2, NoneIsApart DEF Fits, MaybeStates
      <4>4. QED
        BY <3>1, <4>2, <4>3 DEF Keeps, Newer
    <3>3. QED
      BY <1>2, <1>3, <3>1, <3>2
  <2>4. QED
    BY <1>4, <2>2, <2>3
<1>8. CASE Restores
  <2>1. PICK d \in Works : /\ d = Put(c, "restoring") /\ Same(c, d) /\ d.at = "restoring" /\ d.slot = c.slot
                           /\ d.reply = c.reply /\ d.copy = c.copy /\ d.left = c.left
    BY PutIs DEF Places
  <2>2. PICK t \in Slots : t = c.slot
    BY <1>4
  <2>3. PICK y \in Works : /\ y = Asks(d, t) /\ Same(d, y) /\ y.at = d.at /\ y.slot = t /\ y.reply = None
                           /\ y.copy = d.copy /\ y.left = d.left
    BY AsksIs
  <2>4. /\ y.at = "restoring" /\ y.next = "start" /\ y.slot = c.slot /\ y.copy = c.copy /\ y.left = c.left
    BY <1>8, <2>1, <2>2, <2>3 DEF Same
  <2>5. CommandOf(y) = P!Restore(t, c.copy[t].state)
    BY <2>2, <2>4 DEF CommandOf
  <2>6. Asked(h, y)
    <3>1. P!Ask(h, d, P!Restore(t, c.copy[t].state), t)
      BY <1>6, <1>8, <2>1, <2>2, Zenon
    <3>2. QED
      BY <1>2, <2>3, <2>5, <3>1, AskedIs DEF Others
  <2>7. WorkFits(y)
    BY <1>8, <2>4 DEF WorkFits
  <2>8. ASSUME P!Alone, fails = 0 PROVE HostFits(y) /\ CopyFits(y)
    <3>1. alive => Starting(c)
      BY <1>3, <2>8, AloneHas DEF HostFits
    <3>2. alive => Starting(y)
      BY <1>2, <1>3, <1>8, <2>3, <2>4, <3>1 DEF Starting
    <3>3. HostFits(y)
      BY <2>4, <3>2 DEF HostFits, Steady, Changing, Sounding
    <3>4. QED
      BY <2>4, <3>3 DEF CopyFits
  <2>9. QED
    BY <1>2, <1>3, <1>4, <1>8, <2>3, <2>4, <2>6, <2>7, <2>8, StartGoesOn
<1>9. CASE ~Restores /\ c.next = "start" /\ c.left # {}
  <2>1. PICK t \in Slots : t = s /\ t \in c.left
    BY <1>4, <1>5, <1>9, LowestSlot
  <2>2. PICK d \in Works : /\ d = GoesOn(c, t) /\ Same(c, d) /\ d.at = "loading" /\ d.slot = c.slot
                           /\ d.reply = c.reply /\ d.copy = c.copy /\ d.left = c.left \ {t}
    BY GoesOnIs
  <2>3. PICK y \in Works : /\ y = Asks(d, t) /\ Same(d, y) /\ y.at = d.at /\ y.slot = t /\ y.reply = None
                           /\ y.copy = d.copy /\ y.left = d.left
    BY AsksIs
  <2>4. y.at = "loading" /\ y.next = "start" /\ y.copy = c.copy /\ y.left = c.left \ {t}
    BY <1>9, <2>2, <2>3 DEF Same
  <2>5. CommandOf(y) = P!Load(t, c.copy[t].plugin)
    BY <2>3, <2>4 DEF CommandOf
  <2>6. Asked(h, y)
    <3>1. P!Ask(h, d, P!Load(t, c.copy[t].plugin), t)
      BY <1>6, <1>9, <2>1, <2>2, Zenon
    <3>2. QED
      BY <1>2, <2>3, <2>5, <3>1, AskedIs DEF Others
  <2>7. WorkFits(y)
    BY <2>4 DEF WorkFits
  <2>8. ASSUME P!Alone, fails = 0 PROVE HostFits(y) /\ CopyFits(y)
    <3>1. alive => c.copy = slots
      BY <1>2, <1>3, <1>9, <2>8, AloneHas DEF HostFits, Starting
    <3>2. alive => Starting(y)
      BY <1>7, <1>9, <2>1, <2>3, <2>4, <2>8, <3>1 DEF Starting
    <3>3. HostFits(y)
      BY <2>4, <3>2 DEF HostFits, Steady, Changing, Sounding
    <3>4. QED
      BY <2>4, <3>3 DEF CopyFits
  <2>9. QED
    BY <1>2, <1>3, <1>4, <1>9, <2>3, <2>4, <2>6, <2>7, <2>8, StartGoesOn
<1>10. CASE ~Restores /\ ~(c.next = "start" /\ c.left # {})
  <2>1. Ended(h)
    BY <1>6, <1>10
  <2>2. ASSUME P!Alone, fails = 0, alive PROVE \A t \in Slots : Keeps(t)
    <3>1. CASE c.next = "start"
      BY <1>7, <1>10, <2>2, <3>1
    <3>2. CASE c.next = "plugin"
      <4>1. Changing(c) /\ c.at = "loading"
        BY <1>2, <1>3, <1>4, <2>2, <3>2, AloneHas DEF HostFits, WorkFits
      <4>2. QED
        BY <1>2, <1>3, <3>2, <4>1 DEF Changing, Keeps, Newer
    <3>3. QED
      BY <1>4, <3>1, <3>2
  <2>3. QED
    BY <1>2, <1>4, <2>1, <2>2, IdleFits, EndKeepsSlots
<1>11. QED
  BY <1>8, <1>9, <1>10

\* What the first command does to its slot.
LEMMA ExecuteIs ==
  ASSUME P!PluginAssumption, SlotTypes, NEW succeeds \in BOOLEAN, P!Execute(succeeds),
         NEW c \in Works, WorkFits(c), P!Command = CommandOf(c)
  PROVE  \E w \in MaybeStates :
           /\ processors' = [processors EXCEPT ![c.slot] = w]
           /\ c.at = "capturing" => w = processors[c.slot]
           /\ c.at = "setting" => IF processors[c.slot] = None THEN w = None
                                  ELSE w # None /\ w.plugin = processors[c.slot].plugin /\ w.value = c.value
           /\ c.at = "loading" /\ succeeds =>
                (IF w = None THEN None ELSE w.plugin) = CommandOf(c).plugin
           /\ c.at = "restoring" => IF processors[c.slot] # None /\ processors[c.slot].plugin = c.copy[c.slot].state.plugin
                                    THEN w = c.copy[c.slot].state ELSE w = processors[c.slot]
<1>1. PICK s \in Slots : s = c.slot
  BY WorkFields
<1>2. PICK old \in MaybeStates : old = processors[s] /\ processors = [processors EXCEPT ![s] = old]
  BY DEF SlotTypes
<1>3. processors' = CASE P!Command.name = "load" /\ succeeds ->
                            [processors EXCEPT ![P!Command.slot] = IF P!Command.plugin = None THEN None
                                                ELSE [plugin |-> P!Command.plugin, value |-> 0]]
                     [] P!Command.name = "set" /\ processors[P!Command.slot] # None ->
                            [processors EXCEPT ![P!Command.slot].value = P!Command.value]
                     [] P!Command.name = "restore" /\ processors[P!Command.slot] # None
                            /\ processors[P!Command.slot].plugin = P!Command.state.plugin ->
                            [processors EXCEPT ![P!Command.slot] = P!Command.state]
                     [] OTHER -> processors
  BY Zenon DEF P!Execute
<1>4. CASE c.at = "capturing"
  <2>1. P!Command.name = "get"
    BY <1>4 DEF CommandOf, P!Get
  <2>2. processors' = processors
    BY <1>3, <2>1
  <2>3. QED
    BY <1>1, <1>2, <1>4, <2>2
<1>5. CASE c.at = "setting"
  <2>1. P!Command.name = "set" /\ P!Command.slot = s /\ P!Command.value = c.value
    BY <1>1, <1>5 DEF CommandOf
  <2>2. CASE old = None
    <3>1. processors' = processors
      BY <1>2, <1>3, <2>1, <2>2
    <3>2. QED
      BY <1>1, <1>2, <1>5, <2>2, <3>1
  <2>3. CASE old # None
    <3>1. PICK v \in 0..MaxTurns : v = c.value
      BY WorkFields
    <3>2. PICK w \in P!States : w = AtValue(old, v) /\ w.plugin = old.plugin /\ w.value = v
      BY <2>3, AtValueIs DEF MaybeStates
    <3>3. processors' = [processors EXCEPT ![s].value = v]
      BY <1>2, <1>3, <2>1, <2>3, <3>1
    <3>4. processors' = [processors EXCEPT ![s] = w]
      BY <1>2, <3>2, <3>3, Zenon DEF AtValue
    <3>5. w # None /\ w \in MaybeStates
      BY <3>2, NoneIsApart DEF MaybeStates
    <3>6. QED
      BY <1>1, <1>2, <1>5, <2>3, <3>1, <3>2, <3>4, <3>5
  <2>4. QED
    BY <2>2, <2>3
<1>6. CASE c.at = "loading"
  <2>1. PICK p \in MaybePlugins : p = IF c.next = "start" THEN c.copy[s].plugin ELSE c.plugin
    BY WorkFields, SaveFields
  <2>2. P!Command.name = "load" /\ P!Command.slot = s /\ P!Command.plugin = p
    BY <1>1, <1>6, <2>1 DEF CommandOf, P!Load
  <2>3. CASE succeeds
    <3>1. PICK w \in MaybeStates : /\ w = IF p = None THEN None ELSE [plugin |-> p, value |-> 0]
                                   /\ (IF w = None THEN None ELSE w.plugin) = p
      <4>1. CASE p = None
        BY <4>1 DEF MaybeStates
      <4>2. CASE p # None
        <5>1. p \in Plugins /\ 0 \in 0..MaxTurns
          BY <4>2, NoneIsApart DEF MaybePlugins
        <5>2. [plugin |-> p, value |-> 0] \in P!States
          BY <5>1 DEF P!States
        <5>3. [plugin |-> p, value |-> 0].plugin = p
          OBVIOUS
        <5>4. PICK w \in P!States : w = [plugin |-> p, value |-> 0] /\ w.plugin = p
          BY <5>2, <5>3, Zenon
        <5>5. QED
          BY <4>2, <5>4, NoneIsApart DEF MaybeStates
      <4>3. QED
        BY <4>1, <4>2
    <3>2. processors' = [processors EXCEPT ![s] = w]
      <4>1. processors' = [processors EXCEPT ![P!Command.slot] = IF P!Command.plugin = None THEN None
                                                ELSE [plugin |-> P!Command.plugin, value |-> 0]]
        BY <1>3, <2>2, <2>3
      <4>2. QED
        BY <2>2, <3>1, <4>1, Zenon
    <3>3. QED
      BY <1>1, <1>6, <2>2, <3>1, <3>2
  <2>4. CASE ~succeeds
    <3>1. processors' = processors
      BY <1>3, <2>2, <2>4
    <3>2. QED
      BY <1>1, <1>2, <1>6, <2>4, <3>1
  <2>5. QED
    BY <2>3, <2>4
<1>7. CASE c.at = "restoring"
  <2>1. PICK w \in MaybeStates : w = c.copy[s].state
    BY WorkFields, SaveFields
  <2>2. P!Command.name = "restore" /\ P!Command.slot = s /\ P!Command.state = w
    BY <1>1, <1>7, <2>1 DEF CommandOf, P!Restore
  <2>3. CASE old # None /\ old.plugin = w.plugin
    <3>1. processors' = [processors EXCEPT ![s] = w]
      BY <1>2, <1>3, <2>2, <2>3
    <3>2. QED
      BY <1>1, <1>2, <1>7, <2>1, <2>3, <3>1
  <2>4. CASE ~(old # None /\ old.plugin = w.plugin)
    <3>1. processors' = processors
      BY <1>2, <1>3, <2>2, <2>4
    <3>2. QED
      BY <1>1, <1>2, <1>7, <2>1, <2>4, <3>1
  <2>5. QED
    BY <2>3, <2>4
<1>8. QED
  BY <1>4, <1>5, <1>6, <1>7, WorkFields DEF Places

\* The first load of the queue is executed: the others wait as before.
LEMMA ExecuteShifts ==
  ASSUME P!PluginAssumption, SlotTypes, LoadsHold, NEW h \in Handlers, NEW c \in Works, c = requests[h],
         WorkFits(c), Waits(c),
         queue # <<>>, queue[1].command = CommandOf(c), queue' = Tail(queue),
         NEW y, y.next = c.next, requests' = [requests EXCEPT ![h] = y],
         NEW w \in MaybeStates, processors' = [processors EXCEPT ![c.slot] = w],
         fails' = 0 => fails = 0, UNCHANGED <<slots, alive, stops>>,
         fails = 0 /\ stops = 0 /\ c.at # "loading" => (Has(c.slot) => Has(c.slot)'),
         fails' = 0 /\ c.at = "loading" => (IF w = None THEN None ELSE w.plugin) = CommandOf(c).plugin
  PROVE  LoadsHold'
<1> SUFFICES ASSUME fails' = 0, stops' = 0 PROVE LoadsHold'
  BY DEF LoadsHold
<1>1. /\ fails = 0 /\ stops = 0 /\ alive' /\ c.next # "start"
      /\ \A g \in Handlers : requests[g].at \in Places => requests[g].next # "start"
  BY DEF LoadsHold, Waits
<1>2. \A g \in Handlers : requests'[g] = IF g = h THEN y ELSE requests[g]
  BY DEF SlotTypes
<1>3. \A g \in Handlers : requests'[g].at \in Places => requests'[g].next # "start"
  BY <1>1, <1>2
<1>4. PICK new : new = queue'
  OBVIOUS
<1>5. /\ Len(queue) \in Nat \ {0} /\ DOMAIN queue = 1..Len(queue)
      /\ DOMAIN new = 1..(Len(queue) - 1) /\ \A i \in 1..(Len(queue) - 1) : new[i] = queue[i + 1]
  <2>1. queue \in Seq(Entries)
    BY DEF SlotTypes
  <2>2. QED
    BY <1>4, <2>1
<1> DEFINE L(i, s) == new[i].command.name = "load" /\ new[i].command.slot = s
<1>6. ASSUME NEW s \in Slots
      PROVE  /\ \A i \in DOMAIN new : L(i, s) /\ (\A j \in DOMAIN new : j > i => ~L(j, s))
                   => new[i].command.plugin = slots[s].plugin
             /\ (\A i \in DOMAIN new : ~L(i, s)) => Has(s)'
  <2>1. \A i \in DOMAIN new : i + 1 \in DOMAIN queue /\ (L(i, s) <=> Loads(i + 1, s))
    BY <1>5 DEF Loads
  <2>2. \A j \in DOMAIN queue : j > 1 => j - 1 \in DOMAIN new /\ (L(j - 1, s) <=> Loads(j, s))
    BY <1>5 DEF Loads
  <2>3. ASSUME NEW i \in DOMAIN new, L(i, s), \A j \in DOMAIN new : j > i => ~L(j, s)
        PROVE  new[i].command.plugin = slots[s].plugin
    <3>1. i + 1 \in DOMAIN queue /\ Loads(i + 1, s)
      BY <2>1, <2>3
    <3>2. \A j \in DOMAIN queue : j > i + 1 => ~Loads(j, s)
      BY <1>5, <2>2, <2>3
    <3>3. queue[i + 1].command.plugin = slots[s].plugin
      BY <1>1, <3>1, <3>2 DEF LoadsHold
    <3>4. QED
      BY <1>5, <3>3
  <2>4. ASSUME \A i \in DOMAIN new : ~L(i, s) PROVE Has(s)'
    <3>1. \A j \in DOMAIN queue : j > 1 => ~Loads(j, s)
      BY <2>2, <2>4
    <3>2. 1 \in DOMAIN queue /\ c.slot \in Slots
      BY <1>5, WorkFields
    <3>3. CASE Loads(1, s)
      <4>1. c.at = "loading" /\ c.slot = s
        BY <3>3, WorkFields DEF Loads, CommandOf, P!Get, P!Load, P!Restore, Places
      <4>2. CommandOf(c).plugin = slots[s].plugin
        BY <1>1, <3>1, <3>2, <3>3 DEF LoadsHold
      <4>3. processors'[s] = w /\ slots'[s].plugin = slots[s].plugin
        BY <4>1 DEF SlotTypes
      <4>4. (IF w = None THEN None ELSE w.plugin) = CommandOf(c).plugin
        BY <4>1
      <4>5. QED
        BY <4>2, <4>3, <4>4 DEF Has
    <3>4. CASE ~Loads(1, s)
      <4>1. Has(s)
        <5>1. \A j \in DOMAIN queue : ~Loads(j, s)
          BY <1>5, <3>1, <3>4
        <5>2. QED
          BY <1>1, <5>1 DEF LoadsHold
      <4>2. CASE c.slot = s
        <5>1. c.at # "loading"
          BY <3>4, <4>2 DEF Loads, CommandOf, P!Load
        <5>2. QED
          BY <1>1, <4>1, <4>2, <5>1
      <4>3. CASE c.slot # s
        BY <4>1, <4>3 DEF Has, SlotTypes
      <4>4. QED
        BY <4>2, <4>3
    <3>5. QED
      BY <3>3, <3>4
  <2>5. QED
    BY <2>3, <2>4
<1>7. QED
  BY <1>1, <1>3, <1>4, <1>6 DEF LoadsHold, Loads

LEMMA ExecuteKeeps ==
  ASSUME P!PluginAssumption, PluginInv, NEW succeeds \in BOOLEAN, P!Execute(succeeds)
  PROVE  PluginInv'
<1>1. SlotTypes /\ Queued /\ WorksFit /\ LoadsHold /\ AloneHolds /\ P!ChosenPluginsStay
  BY DEF PluginInv
<1>2. PICK h \in Handlers, c \in Works, x \in Answers :
           /\ c = requests[h] /\ Waits(c) /\ queue # <<>> /\ queue[1].of = h /\ P!Command = CommandOf(c)
           /\ x = [state |-> processors[P!Command.slot]] /\ x.state = processors[P!Command.slot]
           /\ P!Command.slot = c.slot
           /\ requests' = [requests EXCEPT ![h] = Replied(c, x)] /\ queue' = Tail(queue)
           /\ requests' \in [Handlers -> Works \cup {P!Idle}] /\ queue' \in Seq(Entries)
           /\ Queued' /\ WorksFit'
  BY <1>1, ExecutedKeeps
<1>3. /\ fails' = (IF succeeds THEN fails ELSE fails + 1)
      /\ UNCHANGED <<slots, alive, turns, stops, chosen, answered>>
  BY DEF P!Execute
<1>4. fails' \in Nat /\ (fails' = 0 => fails = 0 /\ succeeds)
  BY <1>1, <1>3 DEF SlotTypes
<1>5. WorkFits(c) /\ alive
  BY <1>1, <1>2 DEF WorksFit, Queued
<1>6. PICK n \in Slots : n = c.slot
  BY WorkFields
<1>7. PICK w \in MaybeStates :
           /\ processors' = [processors EXCEPT ![n] = w]
           /\ c.at = "capturing" => w = processors[n]
           /\ c.at = "setting" => IF processors[n] = None THEN w = None
                                  ELSE w # None /\ w.plugin = processors[n].plugin /\ w.value = c.value
           /\ c.at = "loading" /\ succeeds =>
                (IF w = None THEN None ELSE w.plugin) = CommandOf(c).plugin
           /\ c.at = "restoring" => IF processors[n] # None /\ processors[n].plugin = c.copy[n].state.plugin
                                    THEN w = c.copy[n].state ELSE w = processors[n]
  BY <1>1, <1>2, <1>5, <1>6, ExecuteIs
<1>8. /\ processors' \in [Slots -> MaybeStates]
      /\ \A s \in Slots : processors'[s] = IF s = n THEN w ELSE processors[s]
  BY <1>1, <1>7 DEF SlotTypes
<1>9. PICK y \in Works : /\ y = Replied(c, x) /\ Same(c, y) /\ y.at = c.at /\ y.slot = c.slot /\ y.reply = x
                         /\ y.copy = c.copy /\ y.left = c.left
  BY RepliedIs
<1>10. /\ y.next = c.next /\ y.target = c.target /\ y.plugin = c.plugin /\ y.value = c.value
       /\ requests' = [requests EXCEPT ![h] = y]
  BY <1>2, <1>9 DEF Same
<1>11. x # None /\ x.state = processors[n] /\ c.at \in Places /\ c.reply = None
  BY <1>2, <1>6, NoneIsApart, WorkFields DEF Waits
<1>12. SlotTypes'
  BY <1>1, <1>2, <1>3, <1>4, <1>8 DEF SlotTypes
<1>13. P!ChosenPluginsStay'
  BY <1>1, <1>3 DEF P!ChosenPluginsStay
<1>14. LoadsHold'
  <2>1. queue[1].command = CommandOf(c)
    BY <1>1, <1>2 DEF P!Command, SlotTypes
  <2>2. ASSUME fails = 0, stops = 0, c.at # "loading", Has(c.slot) PROVE Has(c.slot)'
    <3>1. c.at \in {"capturing", "setting"}
      BY <1>1, <1>2, <1>5, <1>11, <2>2 DEF LoadsHold, WorkFits, Places
    <3>2. (IF w = None THEN None ELSE w.plugin) = IF processors[n] = None THEN None ELSE processors[n].plugin
      BY <1>7, <3>1
    <3>3. QED
      BY <1>3, <1>6, <1>8, <2>2, <3>2 DEF Has
  <2>3. fails' = 0 /\ c.at = "loading" => (IF w = None THEN None ELSE w.plugin) = CommandOf(c).plugin
    BY <1>4, <1>7
  <2>4. processors' = [processors EXCEPT ![c.slot] = w]
    BY <1>6, <1>7
  <2>5. UNCHANGED <<slots, alive, stops>>
    BY <1>3
  <2>6. fails = 0 /\ stops = 0 /\ c.at # "loading" => (Has(c.slot) => Has(c.slot)')
    BY <2>2
  <2>7. /\ fails' = 0 => fails = 0
        /\ c = requests[h] /\ Waits(c) /\ queue # <<>> /\ queue' = Tail(queue)
        /\ y.next = c.next /\ requests' = [requests EXCEPT ![h] = y]
    BY <1>2, <1>4, <1>10
  <2>8. QED
    BY <1>1, <1>5, <2>1, <2>3, <2>4, <2>5, <2>6, <2>7, ExecuteShifts
<1>15. P!Alone /\ fails' = 0 => SavedHolds' /\ HostFits(y)' /\ CopyFits(y)'
  <2> SUFFICES ASSUME P!Alone, fails' = 0 PROVE SavedHolds' /\ HostFits(y)' /\ CopyFits(y)'
    OBVIOUS
  <2>1. SavedHolds /\ Steady(c) /\ Changing(c) /\ Starting(c) /\ Sounding(c) /\ CopyFits(c) /\ succeeds
    BY <1>2, <1>4, <1>5, AloneHas DEF HostFits
  <2>2. SavedHolds'
    BY <1>3, <2>1 DEF SavedHolds, Fits, Newer
  <2>3. \A s \in Slots : answered'[s] = answered[s] /\ slots'[s] = slots[s]
    BY <1>3
  <2>4. \A s \in Slots \ {n} : Keeps(s) => Keeps(s)'
    BY <1>8, <2>3 DEF Keeps, Has, Newer
  <2>5. c.target \in Slots /\ c.value \in Nat
    BY WorkFields, NoneIsApart
  <2>6. CASE c.at = "capturing"
    <3>1. \A s \in Slots : processors'[s] = processors[s] /\ Keeps(s)
      BY <1>7, <1>8, <2>1, <2>6 DEF Steady
    <3>2. \A s \in Slots : Keeps(s)'
      BY <2>3, <3>1 DEF Keeps, Has, Newer
    <3>3. HostFits(y)'
      BY <1>9, <1>10, <2>1, <2>5, <2>6, <3>1, <3>2 DEF HostFits, Steady, Changing, Starting, Sounding
    <3>4. Fits(n, x.state) /\ (x.state # None => Newer(n, x.state))
      BY <1>11, <3>1 DEF Keeps, Has, Fits
    <3>5. c.next = "parameter" /\ AnsweredFor(c) => AnsweredFor(y)
      BY <1>6, <1>9, <1>10, <1>11, <2>1, <2>6 DEF AnsweredFor, Sounding
    <3>6. Captured(c) => Captured(y)
      BY <1>9, <1>10 DEF Captured
    <3>7. CopyFits(y)
      BY <1>6, <1>9, <1>10, <2>1, <2>6, <3>4, <3>5, <3>6 DEF CopyFits
    <3>8. CopyFits(y)'
      BY <1>3, <3>7 DEF CopyFits, Fits, Newer, AnsweredFor, Captured
    <3>9. QED
      BY <2>2, <3>3, <3>8
  <2>7. CASE c.at = "setting"
    <3>1. /\ c.next = "parameter" /\ n = c.target /\ (\A s \in Slots : Keeps(s)) /\ slots[n].plugin # None
          /\ answered[n] <= c.value
      BY <1>5, <1>6, <2>1, <2>7 DEF WorkFits, Steady, CopyFits
    <3>2. processors[n] # None
      BY <3>1 DEF Keeps, Has
    <3>3. w # None /\ w.plugin = processors[n].plugin /\ w.value = c.value
      BY <1>7, <2>7, <3>2
    <3>4. Keeps(n)'
      BY <1>8, <2>3, <3>1, <3>2, <3>3 DEF Keeps, Has, Newer
    <3>5. \A s \in Slots : Keeps(s)'
      BY <2>4, <3>1, <3>4
    <3>6. HostFits(y)'
      BY <1>8, <1>9, <1>10, <2>5, <2>7, <3>1, <3>3, <3>5 DEF HostFits, Steady, Changing, Starting, Sounding
    <3>7. CopyFits(y)'
      BY <1>3, <1>9, <1>10, <2>1, <2>7 DEF CopyFits, Fits, Newer, AnsweredFor, Captured
    <3>8. QED
      BY <2>2, <3>6, <3>7
  <2>8. CASE c.at = "loading"
    <3>1. CommandOf(c).plugin = IF c.next = "start" THEN c.copy[n].plugin ELSE c.plugin
      BY <1>6, <2>8 DEF CommandOf, P!Load
    <3>2. (IF w = None THEN None ELSE w.plugin) = CommandOf(c).plugin
      BY <1>7, <2>1, <2>8
    <3>3. ASSUME c.next = "plugin"
          PROVE  /\ \A s \in Slots \ {n} : Keeps(s)'
                 /\ c.plugin = slots[n].plugin /\ answered[n] = 0 /\ Has(n)'
      <4>1. (\A s \in Slots \ {n} : Keeps(s)) /\ c.plugin = slots[n].plugin /\ answered[n] = 0
        BY <1>6, <2>1, <2>8, <3>3 DEF Changing
      <4>2. Has(n)'
        BY <1>8, <2>3, <3>1, <3>2, <3>3, <4>1 DEF Has
      <4>3. QED
        BY <2>4, <4>1, <4>2
    <3>4. ASSUME c.next = "start"
          PROVE  c.copy = slots /\ (\A s \in Slots \ (c.left \cup {n}) : Keeps(s)') /\ Has(n)'
      <4>1. c.copy = slots /\ \A s \in Slots \ (c.left \cup {n}) : Keeps(s)
        BY <1>6, <2>1, <2>8, <3>4 DEF Starting
      <4>2. Has(n)'
        BY <1>8, <2>3, <3>1, <3>2, <3>4, <4>1 DEF Has
      <4>3. QED
        BY <2>4, <4>1, <4>2
    <3>5. Changing(y)'
      BY <1>6, <1>9, <1>10, <2>3, <3>3 DEF Changing
    <3>6. Starting(y)'
      BY <1>3, <1>6, <1>9, <1>10, <2>8, <3>4 DEF Starting
    <3>7. Steady(y)' /\ Sounding(y)' /\ CopyFits(y)'
      BY <1>9, <2>8 DEF Steady, Sounding, CopyFits
    <3>8. QED
      BY <2>2, <3>5, <3>6, <3>7 DEF HostFits
  <2>9. CASE c.at = "restoring"
    <3>1. /\ c.next = "start" /\ c.copy = slots /\ (\A s \in Slots \ (c.left \cup {n}) : Keeps(s)) /\ Has(n)
          /\ slots[n].state # None /\ slots[n].plugin # None
      BY <1>5, <1>6, <2>1, <2>9 DEF Starting, WorkFits
    <3>2. /\ slots[n].state.plugin = slots[n].plugin /\ Newer(n, slots[n].state)
      BY <2>1, <3>1 DEF SavedHolds, Fits
    <3>3. w = slots[n].state
      BY <1>7, <2>9, <3>1, <3>2 DEF Has
    <3>4. Keeps(n)'
      BY <1>8, <2>3, <3>1, <3>2, <3>3 DEF Keeps, Has, Newer
    <3>5. Starting(y)'
      BY <1>3, <1>6, <1>9, <1>10, <2>4, <2>9, <3>1, <3>4 DEF Starting, Keeps
    <3>6. Steady(y)' /\ Changing(y)' /\ Sounding(y)' /\ CopyFits(y)'
      BY <1>9, <2>9 DEF Steady, Changing, Sounding, CopyFits
    <3>7. QED
      BY <2>2, <3>5, <3>6 DEF HostFits
  <2>10. QED
    BY <1>11, <2>6, <2>7, <2>8, <2>9 DEF Places
<1>16. AloneHolds'
  BY <1>1, <1>10, <1>15, AloneMoves
<1>17. QED
  BY <1>2, <1>12, <1>13, <1>14, <1>16 DEF PluginInv

\* With a saved project and a host that has its plugins.
LEMMA InitPlugins ==
  ASSUME P!PluginAssumption, P!Init
  PROVE  PluginInv
<1>1. PICK p \in Plugins : slots = [s \in Slots |-> [plugin |-> p, state |-> None]]
  BY DEF P!Init
<1>2. [plugin |-> p, state |-> None] \in [plugin : MaybePlugins, state : MaybeStates]
  BY DEF MaybePlugins, MaybeStates
<1>3. PICK one \in [plugin : MaybePlugins, state : MaybeStates] :
        one = [plugin |-> p, state |-> None] /\ one.plugin = p /\ one.state = None
  BY <1>2
<1>4. slots \in Saves /\ \A s \in Slots : slots[s].plugin = p /\ slots[s].state = None
  BY <1>1, <1>3 DEF Saves
<1>5. [plugin |-> p, value |-> 0] \in P!States
  BY NoneIsApart DEF P!States
<1>6. PICK now \in P!States : now = [plugin |-> p, value |-> 0] /\ now.plugin = p
  BY <1>5
<1>7. processors = [s \in Slots |-> now]
  BY <1>4, <1>6 DEF P!Init
<1>8. processors \in [Slots -> MaybeStates] /\ \A s \in Slots : processors[s] = now /\ now # None
  BY <1>6, <1>7, NoneIsApart DEF MaybeStates
<1>9. /\ chosen = [s \in Slots |-> slots[s].plugin] /\ alive = TRUE
      /\ queue = <<>> /\ requests = [h \in Handlers |-> P!Idle] /\ answered = [s \in Slots |-> 0]
      /\ turns = 0 /\ stops = 0 /\ fails = 0
  BY DEF P!Init
<1>10. chosen \in [Slots -> MaybePlugins] /\ answered \in [Slots -> 0..MaxTurns]
  BY <1>4, <1>9, NoneIsApart DEF MaybePlugins
<1>11. alive \in BOOLEAN /\ queue \in Seq(Entries) /\ turns \in 0..MaxTurns
       /\ requests \in [Handlers -> Works \cup {P!Idle}]
  BY <1>9, NoneIsApart
<1>12. SlotTypes
  BY <1>4, <1>8, <1>9, <1>10, <1>11 DEF SlotTypes
<1>13. Queued /\ WorksFit /\ P!ChosenPluginsStay
  BY <1>9, IdleFields DEF Queued, WorksFit, P!ChosenPluginsStay
<1>14. \A s \in Slots : Has(s) /\ Keeps(s)
  BY <1>4, <1>6, <1>8, <1>9 DEF Has, Keeps, Newer
<1>15. LoadsHold
  BY <1>9, <1>14, IdleFields DEF LoadsHold, Places
<1>16. SavedHolds
  BY <1>4, <1>9 DEF SavedHolds, Fits, Newer
<1>17. AloneHolds
  BY <1>9, <1>14, <1>16, IdleFits DEF AloneHolds
<1>18. QED
  BY <1>12, <1>13, <1>15, <1>17 DEF PluginInv

\* Every step of the program keeps it.
LEMMA PluginsKept ==
  ASSUME P!PluginAssumption
  PROVE  PluginInv /\ [P!Next]_P!vars => PluginInv'
<1> SUFFICES ASSUME PluginInv, [P!Next]_P!vars PROVE PluginInv'
  OBVIOUS
<1>1. ASSUME NEW succeeds \in BOOLEAN, P!Execute(succeeds) PROVE PluginInv'
  BY <1>1, ExecuteKeeps
<1>2. ASSUME NEW s \in Slots, P!Turn(s) PROVE PluginInv'
  BY <1>2, TurnKeeps
<1>3. ASSUME P!HostEnds PROVE PluginInv'
  BY <1>3, HostEndsKeeps
<1>4. ASSUME NEW h \in Handlers, NEW s \in Slots, NEW p \in MaybePlugins,
             P!Begin(h, "plugin", s, p) \/ P!Choose(h, s, p)
      PROVE  PluginInv'
  BY <1>4, BeginKeeps, ChooseKeeps
<1>5. ASSUME NEW h \in Handlers, NEW aim \in {"stop", "sync"}, P!Begin(h, aim, 0, None) PROVE PluginInv'
  BY <1>5, BeginKeeps, NoneIsApart DEF MaybePlugins
<1>6. ASSUME NEW h \in Handlers, NEW s \in Slots, P!BeginParameter(h, s) PROVE PluginInv'
  BY <1>6, BeginParameterKeeps
<1>7. ASSUME NEW h \in Handlers, P!ParameterIsSet(h) PROVE PluginInv'
  BY <1>7, ParameterIsSetKeeps
<1>8. ASSUME NEW h \in Handlers, P!Capture(h) PROVE PluginInv'
  BY <1>8, CaptureKeeps
<1>9. ASSUME NEW h \in Handlers, P!CapturedForPlugin(h) PROVE PluginInv'
  BY <1>9, CapturedForPluginKeeps
<1>10. ASSUME NEW h \in Handlers, P!CapturedForAnswer(h) PROVE PluginInv'
  BY <1>10, CapturedForAnswerKeeps
<1>11. ASSUME NEW h \in Handlers, P!CapturedForStop(h) PROVE PluginInv'
  BY <1>11, CapturedForStopKeeps
<1>12. ASSUME NEW h \in Handlers, P!Start(h) PROVE PluginInv'
  BY <1>12, StartKeeps
<1>13. ASSUME NEW h \in Handlers, P!Loaded(h) PROVE PluginInv'
  BY <1>13, LoadedKeeps
<1>14. ASSUME UNCHANGED P!vars PROVE PluginInv'
  <2>1. UNCHANGED <<slots, processors, alive, queue, requests, turns, changes, stops, fails, chosen, answered>>
    BY <1>14 DEF P!vars
  <2>2. SlotTypes' /\ Queued' /\ WorksFit'
    BY <2>1 DEF PluginInv, SlotTypes, Queued, WorksFit
  <2>3. LoadsHold' /\ P!ChosenPluginsStay'
    BY <2>1 DEF PluginInv, LoadsHold, Loads, Has, P!ChosenPluginsStay
  <2>4. AloneHolds'
    <3> SUFFICES ASSUME P!Alone, fails = 0
                 PROVE  SavedHolds' /\ \A h \in Handlers : HostFits(requests[h])' /\ CopyFits(requests[h])'
      BY <2>1 DEF AloneHolds, P!Alone
    <3>1. SavedHolds /\ \A h \in Handlers : HostFits(requests[h]) /\ CopyFits(requests[h])
      BY DEF PluginInv, AloneHolds
    <3>2. SavedHolds'
      BY <2>1, <3>1 DEF SavedHolds, Fits, Newer
    <3>3. ASSUME NEW h \in Handlers PROVE HostFits(requests[h])' /\ CopyFits(requests[h])'
      <4>1. PICK c : c = requests[h] /\ c = requests'[h]
        BY <2>1
      <4>2. HostFits(c)'
        BY <2>1, <3>1, <4>1 DEF HostFits, Steady, Changing, Starting, Sounding, Keeps, Has, Newer
      <4>3. CopyFits(c)'
        BY <2>1, <3>1, <4>1 DEF CopyFits, Fits, Newer, AnsweredFor, Captured
      <4>4. QED
        BY <4>1, <4>2, <4>3
    <3>4. QED
      BY <3>2, <3>3
  <2>5. QED
    BY <2>2, <2>3, <2>4 DEF PluginInv
<1>15. QED
  BY <1>1, <1>2, <1>3, <1>4, <1>5, <1>6, <1>7, <1>8, <1>9, <1>10, <1>11, <1>12, <1>13, <1>14
     DEF P!Next, MaybePlugins

\* What the invariant says of the saved project and the host.
LEMMA InvariantHoldsPlugins ==
  ASSUME P!PluginAssumption, PluginInv
  PROVE  P!PluginsHold
<1>1. SlotTypes /\ Queued /\ LoadsHold /\ AloneHolds /\ P!ChosenPluginsStay
  BY DEF PluginInv
<1>2. ASSUME P!Alone, P!Quiet, alive, fails = 0 PROVE \A s \in Slots : Keeps(s)
  <2>1. PICK h : h \in Handlers
    <3>1. P!Cardinality(Handlers) = Cardinality(Handlers)
      BY DEF P!Cardinality, Cardinality
    <3>2. QED
      BY <1>2, <3>1, FS_EmptySet DEF P!Alone
  <2>2. HostFits(P!Idle)
    BY <1>1, <1>2, <2>1 DEF AloneHolds, P!Quiet
  <2>3. QED
    BY <1>2, <2>2, IdleFits
<1>3. ASSUME P!Quiet, alive, fails = 0, stops = 0 PROVE \A s \in Slots : Has(s)
  <2>1. \A i \in DOMAIN queue : FALSE
    BY <1>1, <1>3, IdleFields DEF Queued, P!Quiet
  <2>2. QED
    BY <1>1, <1>3, <2>1 DEF LoadsHold
<1>4. P!HostHasThePlugins
  BY <1>2, <1>3 DEF P!HostHasThePlugins, Keeps, Has
<1>5. P!StatesBelongToPlugins
  BY <1>1 DEF P!StatesBelongToPlugins, AloneHolds, SavedHolds, Fits
<1>6. P!AnsweredValuesStay
  <2> SUFFICES ASSUME P!Alone, fails = 0, NEW s \in Slots, answered[s] > 0
               PROVE  /\ slots[s].state # None /\ slots[s].state.value >= answered[s]
                      /\ alive /\ P!Quiet => processors[s].value >= answered[s]
    BY DEF P!AnsweredValuesStay
  <2>1. slots[s].state # None /\ slots[s].state.value >= answered[s]
    BY <1>1 DEF AloneHolds, SavedHolds, Newer
  <2>2. alive /\ P!Quiet => processors[s].value >= answered[s]
    BY <1>2 DEF Keeps, Newer
  <2>3. QED
    BY <2>1, <2>2
<1>7. QED
  BY <1>1, <1>4, <1>5, <1>6 DEF P!PluginsHold

(* The inductive invariant of the plugins holds for any requests, slots and ends of the host. *)
THEOREM PluginInvariantHolds == P!PluginAssumption /\ P!Spec => []PluginInv
<1>1. ASSUME P!PluginAssumption PROVE P!Spec => []PluginInv
  <2>1. P!Init => PluginInv
    BY <1>1, InitPlugins
  <2>2. PluginInv /\ [P!Next]_P!vars => PluginInv'
    BY <1>1, PluginsKept
  <2>3. QED
    BY <2>1, <2>2, PTL DEF P!Spec
<1>2. QED
  BY <1>1

(* A slot keeps the plugin chosen for it last, the host has the plugins of the saved project
   when nothing is under way, a saved state belongs to its plugin, and no value a request was
   answered for is lost, neither from the project nor from a host that has started again
   (_merge_plugin_state_metadata, capture_plugin_states, load_track_slots). *)
THEOREM PluginsStayTogether == P!PluginAssumption /\ P!Spec => []P!PluginsHold
<1>1. ASSUME P!PluginAssumption PROVE P!Spec => []P!PluginsHold
  <2>1. PluginInv => P!PluginsHold
    BY <1>1, InvariantHoldsPlugins
  <2>2. P!Spec => []PluginInv
    BY <1>1, PluginInvariantHolds
  <2>3. QED
    BY <2>1, <2>2, PTL
<1>2. QED
  BY <1>1

(***************************************************************************)
(* What the studio exports (StudioExport): the project, the host, and the  *)
(* files there are of an export while it is made and when it is done.      *)
(***************************************************************************)
CONSTANTS Numbers, Instances, Exports, Formats, Modes, Global, MaxEdits, MaxSyncs, MaxAge, MaxContexts
VARIABLES project, bound, host, syncs, contexts, export, disk, latest, finished

X == INSTANCE StudioExport WITH Tracks <- Numbers

\* What an export is at; one that has begun; the files there are of it.
Ends == {"noting", "done", "cut"}
Begins == {"syncing", "rendering", "encoding"} \cup Ends
Opened == [tracks : SUBSET Numbers, of : Nat]
Exporting == [at : Begins, mode : Modes \cup {"mixdown"}, format : {"wav", "flac", "midi", "dawproject"},
              of : Instances \cup {None}, asked : SUBSET Numbers, selected : SUBSET Numbers, loaded : Nat,
              tracks : SUBSET Numbers, named : BOOLEAN, left : SUBSET Numbers,
              parts : SUBSET [track : Numbers, of : Nat], part : Opened \cup {None}, overtaken : BOOLEAN]
Unasked == [at |-> "unasked"]
FilesOf(e) == {f \in disk : f.of = e}

ExportTypes ==
    /\ project \in Seq(SUBSET Numbers) /\ project # <<>> /\ host \in {None} \cup 0..Len(project)
    /\ contexts \in [Instances -> [tracks : SUBSET Numbers, age : Nat] \cup {None}]
    /\ export \in [Exports -> Exporting \cup {X!Failed, Unasked}]
    /\ latest \in [Instances \cup {Global} -> Exports \cup {None}] /\ finished \in Seq(Exports)

\* The parts there are: one for each track that is not left, of what was loaded, and of
\* what the host had of it.
PartsFit(w) ==
    /\ w.left \subseteq w.tracks /\ {p.track : p \in w.parts} = w.tracks \ w.left
    /\ \A p, q \in w.parts : p.track = q.track => p = q
    /\ \A p \in w.parts : /\ p.of <= Len(project) /\ (w.overtaken \/ p.of = w.loaded)
                          /\ w.named => p.track \in X!TracksAt(p.of)
\* The archive of the stems is there from the start, a wav file until it is encoded.
ProductOf(e, w) == X!File(e, IF w.mode = "stems" THEN "zip" ELSE w.format, None)
Archive(e, w) == IF w.mode = "stems" THEN {ProductOf(e, w)} ELSE {}
ComesNext(w, part) == IF w.mode = "stems" THEN \E t \in w.left : part = {t} ELSE part = w.tracks
Label(w, part) == IF w.mode = "stems" THEN CHOOSE t \in part : TRUE ELSE None
AtWork(e, w, has) ==
    /\ w.format \in {"wav", "flac"} /\ PartsFit(w)
    /\ w.mode # "stems" => w.left = w.tracks
    /\ w.overtaken \/ host \in {None, w.loaded}
    /\ w.at = "rendering" => has = Archive(e, w)
    /\ w.at = "encoding" =>
        /\ w.format = "flac" /\ w.part \in Opened /\ ComesNext(w, w.part.tracks)
        /\ w.part.of <= Len(project) /\ (w.overtaken \/ w.part.of = w.loaded)
        /\ w.named => w.part.tracks \subseteq X!TracksAt(w.part.of)
        /\ has = Archive(e, w) \cup {X!File(e, "wav", Label(w, w.part.tracks))}
Over(e, w, has) ==
    PartsFit(w) /\ w.left = {} /\ {f \in has : f.kind # "manifest"} = {ProductOf(e, w)}
ExportFits(e, w, has) ==
    /\ w.at \in {"unasked", "syncing"} => has = {}
    /\ w.at = "syncing" => /\ w.format \in {"wav", "flac"} /\ w.parts = {} /\ ~w.overtaken
                           /\ w.loaded \in 1..Len(project)
    /\ w.at \in {"rendering", "encoding"} => AtWork(e, w, has)
    /\ w.at \in Ends => Over(e, w, has)
ExportsFit == \A e \in Exports : ExportFits(e, export[e], FilesOf(e))

\* One export at a time is noted, and what is noted is over.
NotesHold ==
    /\ \A e, f \in Exports : export[e].at = "noting" /\ export[f].at = "noting" => e = f
    /\ \A e \in Exports : export[e].at = "noting" => export[e].of \in Instances
    /\ \A k \in DOMAIN finished : export[finished[k]].at \in Ends
    /\ latest[Global] = IF finished = <<>> THEN None ELSE finished[Len(finished)]
    /\ \A i \in Instances :
            \/ X!Mine(i) = {} /\ latest[i] = None
            \/ \E k \in X!Mine(i) : latest[i] = finished[k] /\ \A j \in X!Mine(i) : j <= k

ExportInv == ExportTypes /\ ExportsFit /\ NotesHold /\ X!ContextsAreFew

\* What the records are made of.
States == Exporting \cup {X!Failed, Unasked}
LEMMA NotBegun ==
  /\ X!Failed.at = "failed" /\ Unasked.at = "unasked"
  /\ \A e, has : ExportFits(e, X!Failed, has)
  /\ \A e : ExportFits(e, Unasked, {})
<1>1. X!Failed.at = "failed" /\ Unasked.at = "unasked"
  BY DEF X!Failed, Unasked
<1>2. QED
  BY <1>1 DEF ExportFits, Ends

LEMMA ExportingFields ==
  ASSUME NEW w \in Exporting
  PROVE  /\ w.at \in Begins /\ w.of \in Instances \cup {None} /\ w.asked \subseteq Numbers /\ w.selected \subseteq Numbers
         /\ w.loaded \in Nat /\ w.tracks \subseteq Numbers /\ w.named \in BOOLEAN /\ w.left \subseteq Numbers
         /\ w.parts \subseteq [track : Numbers, of : Nat] /\ w.part \in Opened \cup {None} /\ w.overtaken \in BOOLEAN
  BY DEF Exporting

LEMMA BegunIs ==
  ASSUME NEW w \in States, w.at \in Begins
  PROVE  w \in Exporting
  BY NotBegun DEF States, Begins, Ends

LEMMA OthersFiles ==
  ASSUME NEW e, NEW gone, NEW come, \A f \in gone \cup come : f.of = e, disk' = (disk \ gone) \cup come
  PROVE  /\ \A d : d # e => FilesOf(d)' = FilesOf(d)
         /\ FilesOf(e)' = (FilesOf(e) \ gone) \cup come
  BY DEF FilesOf

\* The states of the project stay as they were.
Grown == Len(project) <= Len(project') /\ \A n \in 0..Len(project) : X!TracksAt(n)' = X!TracksAt(n)

LEMMA GrownBySame ==
  ASSUME ExportTypes, project' = project
  PROVE  Grown /\ Len(project) \in Nat \ {0}
  BY DEF Grown, X!TracksAt, ExportTypes

LEMMA PartsStay ==
  ASSUME ExportTypes, Grown, Len(project') \in Nat, NEW w \in Exporting, PartsFit(w)
  PROVE  PartsFit(w)'
<1>1. \A p \in w.parts : p.of \in Nat /\ p.of <= Len(project)
  BY ExportingFields DEF PartsFit
<1>2. Len(project) \in Nat
  BY DEF ExportTypes
<1>3. ASSUME NEW p \in w.parts
      PROVE  /\ p.of <= Len(project') /\ (w.overtaken \/ p.of = w.loaded)
             /\ w.named => p.track \in X!TracksAt(p.of)'
  <2>1. p.of \in 0..Len(project) /\ Len(project) <= Len(project')
    BY <1>1, <1>2 DEF Grown
  <2>2. X!TracksAt(p.of)' = X!TracksAt(p.of)
    BY <2>1 DEF Grown
  <2>3. QED
    BY <1>2, <2>1, <2>2 DEF PartsFit
<1>4. QED
  BY <1>3 DEF PartsFit

LEMMA FitsStay ==
  ASSUME ExportTypes, Grown, Len(project') \in Nat, host' \in {host, None},
         NEW e, NEW w \in States, NEW has, ExportFits(e, w, has)
  PROVE  ExportFits(e, w, has)'
<1>1. Len(project) \in Nat
  BY DEF ExportTypes
<1>2. CASE w \in Exporting
  <2>1. w.at = "syncing" => w.loaded \in 1..Len(project')
    BY <1>1, <1>2, ExportingFields DEF ExportFits, Grown
  <2>2. ASSUME w.at \in {"rendering", "encoding"} PROVE AtWork(e, w, has)'
    <3>1. AtWork(e, w, has)
      BY <2>2 DEF ExportFits
    <3>2. PartsFit(w)'
      BY <1>2, <3>1, PartsStay DEF AtWork
    <3>3. w.at = "encoding" => /\ w.part.of \in Nat /\ w.part.of <= Len(project)
                               /\ (w.named => w.part.tracks \subseteq X!TracksAt(w.part.of))
      BY <3>1 DEF AtWork, Opened
    <3>4. w.at = "encoding" => /\ w.part.of <= Len(project')
                               /\ (w.named => w.part.tracks \subseteq X!TracksAt(w.part.of)')
      BY <1>1, <3>3 DEF Grown
    <3>5. w.overtaken \/ host' \in {None, w.loaded}
      BY <3>1 DEF AtWork
    <3>6. QED
      BY <3>1, <3>2, <3>4, <3>5 DEF AtWork
  <2>3. w.at \in Ends => Over(e, w, has)'
    BY <1>2, PartsStay DEF Over, ExportFits
  <2>4. QED
    BY <2>1, <2>2, <2>3 DEF ExportFits
<1>3. CASE w \in {X!Failed, Unasked}
  BY <1>3, NotBegun DEF ExportFits, Ends
<1>4. QED
  BY <1>2, <1>3 DEF States

\* An export is overtaken.
OverBy(w) == IF w.at \in {"rendering", "encoding"} THEN [w EXCEPT !.overtaken = TRUE] ELSE w
LEMMA OverByIs ==
  ASSUME NEW w \in Exporting, w.at \in {"rendering", "encoding"}
  PROVE  LET y == OverBy(w) IN
         /\ y \in Exporting /\ y.at = w.at /\ y.mode = w.mode /\ y.format = w.format /\ y.of = w.of
         /\ y.loaded = w.loaded /\ y.tracks = w.tracks /\ y.named = w.named /\ y.left = w.left
         /\ y.parts = w.parts /\ y.part = w.part /\ y.overtaken = TRUE
  BY DEF Exporting, OverBy

LEMMA FitsOvertaken ==
  ASSUME ExportTypes, project' = project, NEW e, NEW w \in States, NEW has, ExportFits(e, w, has)
  PROVE  OverBy(w) \in States /\ OverBy(w).at = w.at /\ (w.at \in Begins => OverBy(w).of = w.of)
         /\ ExportFits(e, OverBy(w), has)'
<1>1. CASE w.at \in {"rendering", "encoding"}
  <2>1. w \in Exporting
    BY <1>1, BegunIs DEF Begins
  <2>2. PICK y : /\ y = OverBy(w)
         /\ y \in Exporting /\ y.at = w.at /\ y.mode = w.mode /\ y.format = w.format /\ y.of = w.of
         /\ y.loaded = w.loaded /\ y.tracks = w.tracks /\ y.named = w.named /\ y.left = w.left
         /\ y.parts = w.parts /\ y.part = w.part /\ y.overtaken = TRUE
    BY <1>1, <2>1, OverByIs
  <2>3. AtWork(e, w, has)
    BY <1>1 DEF ExportFits
  <2>4. PartsFit(y)'
    <3>1. PartsFit(w)'
      BY <2>1, <2>3, PartsStay, GrownBySame DEF AtWork
    <3>2. QED
      BY <2>2, <3>1 DEF PartsFit
  <2>5. Archive(e, y) = Archive(e, w) /\ \A part : Label(y, part) = Label(w, part) /\ (ComesNext(y, part) <=> ComesNext(w, part))
    BY <2>2 DEF Archive, ProductOf, Label, ComesNext
  <2>6. w.part.of <= Len(project) => w.part.of <= Len(project')
    OBVIOUS
  <2>7. \A n : X!TracksAt(n)' = X!TracksAt(n)
    BY DEF X!TracksAt
  <2>8. AtWork(e, y, has)'
    BY <2>2, <2>3, <2>4, <2>5, <2>6, <2>7 DEF AtWork
  <2>9. ExportFits(e, y, has)'
    BY <1>1, <2>2, <2>8 DEF ExportFits, Ends
  <2>10. QED
    BY <2>2, <2>9 DEF States
<1>2. CASE w.at \notin {"rendering", "encoding"}
  <2>1. OverBy(w) = w
    BY <1>2 DEF OverBy
  <2>2. ExportFits(e, w, has)'
    <3>1. w.at = "syncing" => w.loaded \in 1..Len(project')
      BY DEF ExportFits
    <3>2. w.at \in Ends => Over(e, w, has)'
      BY BegunIs, PartsStay, GrownBySame DEF Over, ExportFits, Begins
    <3>3. QED
      BY <1>2, <3>1, <3>2 DEF ExportFits
  <2>3. QED
    BY <2>1, <2>2
<1>3. QED
  BY <1>1, <1>2

\* What is noted stays so while nothing that is over changes.
LEMMA NotesStay ==
  ASSUME ExportTypes, NotesHold, UNCHANGED <<latest, finished>>,
         NEW all \in [Exports -> States], export' = all,
         \A f \in Exports : export[f].at \in Ends =>
            /\ all[f].at \in Ends /\ (all[f].at = "done" <=> export[f].at = "done") /\ all[f].of = export[f].of,
         \A e, f \in Exports : all[e].at = "noting" /\ all[f].at = "noting" => e = f,
         \A e \in Exports : all[e].at = "noting" => all[e].of \in Instances
  PROVE  NotesHold'
<1>1. \A k \in DOMAIN finished : finished[k] \in Exports
  BY DEF ExportTypes
<1>2. \A k \in DOMAIN finished : export[finished[k]].at \in Ends /\ all[finished[k]].at \in Ends
  BY <1>1 DEF NotesHold
<1>3. \A i : X!Mine(i)' = X!Mine(i)
  BY <1>1, <1>2 DEF X!Mine
<1>4. latest[Global] = IF finished = <<>> THEN None ELSE finished[Len(finished)]
  BY DEF NotesHold
<1>5. \A i \in Instances :
            \/ X!Mine(i) = {} /\ latest[i] = None
            \/ \E k \in X!Mine(i) : latest[i] = finished[k] /\ \A j \in X!Mine(i) : j <= k
  BY DEF NotesHold
<1>6. \A i \in Instances :
            \/ X!Mine(i)' = {} /\ latest'[i] = None
            \/ \E k \in X!Mine(i)' : latest'[i] = finished'[k] /\ \A j \in X!Mine(i)' : j <= k
  BY <1>3, <1>5
<1>7. QED
  BY <1>2, <1>4, <1>6 DEF NotesHold

\* One export goes on, the others are at most overtaken.
LEMMA OneGoesOn ==
  ASSUME ExportInv, \A f \in Exports : export[f].at # "noting", NEW e \in Exports, export[e].at \notin Ends,
         UNCHANGED <<project, latest, finished>>,
         NEW all \in [Exports -> States], export' = all,
         \/ host' \in {host, None} /\ \A f \in Exports \ {e} : all[f] = export[f]
         \/ host' \in 0..Len(project) /\ \A f \in Exports \ {e} : all[f] = OverBy(export[f]),
         contexts' \in [Instances -> [tracks : SUBSET Numbers, age : Nat] \cup {None}], X!ContextsAreFew',
         NEW gone, NEW come, \A f \in gone \cup come : f.of = e, disk' = (disk \ gone) \cup come,
         NEW has, has = (FilesOf(e) \ gone) \cup come, ExportFits(e, all[e], has)',
         all[e].at = "noting" => all[e].of \in Instances
  PROVE  ExportInv'
<1>1. ExportTypes /\ ExportsFit /\ NotesHold
  BY DEF ExportInv
<1>2. host \in {None} \cup 0..Len(project) /\ \A f \in Exports : export[f] \in States
  BY <1>1 DEF ExportTypes, States
<1>3. ExportTypes'
  <2>1. host' \in {None} \cup 0..Len(project')
    BY <1>2
  <2>2. QED
    BY <1>1, <2>1 DEF ExportTypes, States
<1>4. ASSUME NEW f \in Exports, f # e
      PROVE  /\ ExportFits(f, all[f], FilesOf(f))' /\ all[f].at = export[f].at
             /\ (all[f].at \in Begins => all[f].of = export[f].of)
  <2>1. FilesOf(f)' = FilesOf(f)
    BY <1>4, OthersFiles
  <2>2. ExportFits(f, export[f], FilesOf(f)) /\ export[f] \in States
    BY <1>1, <1>2 DEF ExportsFit
  <2>3. PICK has2 : has2 = FilesOf(f)
    OBVIOUS
  <2>4. CASE all[f] = export[f] /\ host' \in {host, None}
    <3>1. ExportFits(f, export[f], has2)'
      BY <1>1, <2>2, <2>3, <2>4, GrownBySame, FitsStay
    <3>2. QED
      BY <2>1, <2>3, <2>4, <3>1
  <2>5. CASE all[f] = OverBy(export[f])
    <3>1. PICK w \in States : w = export[f]
      BY <2>2
    <3>2. /\ ExportFits(f, OverBy(w), has2)' /\ OverBy(w).at = w.at
          /\ w.at \in Begins => OverBy(w).of = w.of
      BY <1>1, <2>2, <2>3, <3>1, FitsOvertaken
    <3>3. QED
      BY <2>1, <2>3, <2>5, <3>1, <3>2
  <2>6. QED
    BY <1>4, <2>4, <2>5
<1>5. ExportsFit'
  <2>1. FilesOf(e)' = has
    BY OthersFiles
  <2>2. ASSUME NEW f \in Exports PROVE ExportFits(f, all[f], FilesOf(f))'
    BY <1>4, <2>1
  <2>3. QED
    BY <2>2 DEF ExportsFit
<1>6. NotesHold'
  <2>1. \A f \in Exports : export[f].at \in Ends =>
            /\ all[f].at \in Ends /\ (all[f].at = "done" <=> export[f].at = "done") /\ all[f].of = export[f].of
    BY <1>4 DEF Begins
  <2>2. \A f \in Exports \ {e} : all[f].at # "noting"
    BY <1>4
  <2>3. QED
    BY <1>1, <2>1, <2>2, NotesStay
<1>7. QED
  BY <1>3, <1>5, <1>6 DEF ExportInv

\* The project is edited, the host takes a state of it, ends or starts.
LEMMA EditKeeps ==
  ASSUME ExportInv, NEW tracks \in SUBSET Numbers, X!Edit(tracks)
  PROVE  ExportInv'
<1>1. ExportTypes /\ ExportsFit /\ NotesHold /\ X!ContextsAreFew
  BY DEF ExportInv
<1>2. /\ project' = Append(project, tracks)
      /\ UNCHANGED <<host, contexts, export, disk, latest, finished>>
  BY DEF X!Edit
<1>3. /\ project' \in Seq(SUBSET Numbers) /\ project' # <<>> /\ Len(project) \in Nat /\ Len(project') = Len(project) + 1
      /\ \A n \in 1..Len(project) : project'[n] = project[n]
  BY <1>1, <1>2 DEF ExportTypes
<1>4. Grown
  BY <1>3 DEF Grown, X!TracksAt
<1>5. ExportTypes'
  BY <1>1, <1>2, <1>3 DEF ExportTypes
<1>6. ExportsFit'
  <2>1. ASSUME NEW e \in Exports PROVE ExportFits(e, export[e], FilesOf(e))'
    <3>1. PICK w, has : w \in States /\ w = export[e] /\ has = FilesOf(e) /\ ExportFits(e, w, has)
      BY <1>1 DEF ExportTypes, States, ExportsFit
    <3>2. w = export'[e] /\ has = FilesOf(e)'
      BY <1>2, <3>1 DEF FilesOf
    <3>3. ExportFits(e, w, has)'
      BY <1>1, <1>2, <1>3, <1>4, <3>1, FitsStay
    <3>4. QED
      BY <3>2, <3>3
  <2>2. QED
    BY <2>1 DEF ExportsFit
<1>7. NotesHold' /\ X!ContextsAreFew'
  BY <1>1, <1>2 DEF NotesHold, X!Mine, X!ContextsAreFew
<1>8. QED
  BY <1>5, <1>6, <1>7 DEF ExportInv

\* Whatever the host has now: the exports at work are overtaken, or it has nothing.
LEMMA HostMoves ==
  ASSUME ExportInv, UNCHANGED <<project, contexts, disk, latest, finished>>,
         \/ host' = None /\ export' = export
         \/ host' \in 0..Len(project) /\ export' = X!Overtaken
  PROVE  ExportInv'
<1>1. ExportTypes /\ ExportsFit /\ NotesHold /\ X!ContextsAreFew
  BY DEF ExportInv
<1>2. \A e \in Exports : export[e] \in States /\ ExportFits(e, export[e], FilesOf(e))
  BY <1>1 DEF ExportTypes, States, ExportsFit
<1>3. export' = X!Overtaken => \A e \in Exports : export'[e] = OverBy(export[e])
  BY DEF X!Overtaken, OverBy
<1>4. PICK all : all = export'
  OBVIOUS
<1>5. ASSUME NEW e \in Exports
      PROVE  /\ all[e] \in States /\ ExportFits(e, all[e], FilesOf(e))'
             /\ all[e].at = export[e].at /\ (export[e].at \in Begins => all[e].of = export[e].of)
  <2>1. PICK w, has : w \in States /\ w = export[e] /\ has = FilesOf(e) /\ has = FilesOf(e)' /\ ExportFits(e, w, has)
    BY <1>2 DEF FilesOf
  <2>2. CASE host' = None /\ export' = export
    <3>1. ExportFits(e, w, has)'
      BY <1>1, <2>1, <2>2, GrownBySame, FitsStay
    <3>2. QED
      BY <1>4, <2>1, <2>2, <3>1
  <2>3. CASE export' = X!Overtaken
    <3>1. OverBy(w) \in States /\ OverBy(w).at = w.at /\ (w.at \in Begins => OverBy(w).of = w.of)
          /\ ExportFits(e, OverBy(w), has)'
      BY <1>1, <2>1, FitsOvertaken
    <3>2. all[e] = OverBy(w)
      BY <1>3, <1>4, <2>1, <2>3
    <3>3. QED
      BY <2>1, <3>1, <3>2
  <2>4. QED
    BY <2>2, <2>3
<1>6. all \in [Exports -> States]
  <2>1. CASE export' = export
    BY <1>1, <1>4, <2>1 DEF ExportTypes, States
  <2>2. CASE export' = X!Overtaken
    BY <1>4, <1>5, <2>2 DEF X!Overtaken
  <2>3. QED
    BY <2>1, <2>2
<1>7. ExportTypes'
  <2>1. host' \in {None} \cup 0..Len(project')
    BY <1>1 DEF ExportTypes
  <2>2. QED
    BY <1>1, <1>4, <1>6, <2>1 DEF ExportTypes, States
<1>8. ExportsFit'
  BY <1>4, <1>5 DEF ExportsFit
<1>9. NotesHold'
  <2>1. \A f \in Exports : export[f].at \in Ends =>
            /\ all[f].at \in Ends /\ (all[f].at = "done" <=> export[f].at = "done") /\ all[f].of = export[f].of
    BY <1>5 DEF Begins
  <2>2. \A e, f \in Exports : all[e].at = "noting" /\ all[f].at = "noting" => e = f
    BY <1>1, <1>5 DEF NotesHold
  <2>3. \A e \in Exports : all[e].at = "noting" => all[e].of \in Instances
    BY <1>1, <1>5 DEF NotesHold, Begins, Ends
  <2>4. QED
    BY <1>1, <1>4, <1>6, <2>1, <2>2, <2>3, NotesStay
<1>10. X!ContextsAreFew'
  BY <1>1 DEF X!ContextsAreFew
<1>11. QED
  BY <1>7, <1>8, <1>9, <1>10 DEF ExportInv

LEMMA HostKeeps ==
  ASSUME ExportInv, X!HostStops \/ X!HostStarts \/ \E n \in 1..X!Saved : X!SyncElsewhere(n)
  PROVE  ExportInv'
<1>1. Len(project) \in Nat \ {0} /\ X!Saved = Len(project)
  BY DEF ExportInv, ExportTypes, X!Saved
<1>2. CASE X!HostStops
  BY <1>2, HostMoves DEF X!HostStops
<1>3. CASE X!HostStarts
  BY <1>1, <1>3, HostMoves DEF X!HostStarts
<1>4. CASE \E n \in 1..X!Saved : X!SyncElsewhere(n)
  BY <1>1, <1>4, HostMoves DEF X!SyncElsewhere, X!Take
<1>5. QED
  BY <1>2, <1>3, <1>4

\* Selections: no more are kept than there may be.
Kept == [tracks : SUBSET Numbers, age : Nat]
KeptOf(c) == {i \in Instances : c[i] # None}
LEMMA CountsAre ==
  ASSUME X!ExportAssumption
  PROVE  /\ \A S \in SUBSET Instances : IsFiniteSet(S) /\ Cardinality(S) \in Nat /\ X!Cardinality(S) = Cardinality(S)
         /\ X!ContextsAreFew <=> Cardinality(KeptOf(contexts)) <= MaxContexts
         /\ MaxContexts \in Nat
<1>1. IsFiniteSet(Instances) /\ MaxContexts \in Nat
  BY DEF X!ExportAssumption, X!IsFiniteSet, IsFiniteSet
<1>2. \A S \in SUBSET Instances : IsFiniteSet(S) /\ Cardinality(S) \in Nat
  BY <1>1, FS_Subset, FS_CardinalityType
<1>3. \A S : X!Cardinality(S) = Cardinality(S)
  BY DEF X!Cardinality, Cardinality
<1>4. QED
  BY <1>1, <1>2, <1>3 DEF X!ContextsAreFew, KeptOf

LEMMA FewerStay ==
  ASSUME X!ExportAssumption, X!ContextsAreFew, NEW new, contexts' = new,
         \A i \in Instances : contexts[i] = None => new[i] = None
  PROVE  X!ContextsAreFew'
<1>1. KeptOf(new) \subseteq KeptOf(contexts) /\ KeptOf(contexts) \in SUBSET Instances /\ KeptOf(new) \in SUBSET Instances
  BY DEF KeptOf
<1>2. Cardinality(KeptOf(new)) <= Cardinality(KeptOf(contexts))
  BY <1>1, CountsAre, FS_Subset
<1>3. Cardinality(KeptOf(new)) <= MaxContexts
  BY <1>1, <1>2, CountsAre
<1>4. X!Cardinality(KeptOf(new)) = Cardinality(KeptOf(new))
  BY <1>1, CountsAre
<1>5. X!ContextsAreFew' <=> X!Cardinality(KeptOf(new)) <= MaxContexts
  BY DEF X!ContextsAreFew, KeptOf
<1>6. QED
  BY <1>3, <1>4, <1>5

LEMMA TrimmedAreFew ==
  ASSUME X!ExportAssumption, X!ContextsAreFew, NEW i \in Instances,
         NEW kept \in [Instances -> Kept \cup {None}], \A j \in Instances \ {i} : contexts[j] = None => kept[j] = None,
         NEW new \in X!Trimmed(kept), contexts' = new
  PROVE  new \in [Instances -> Kept \cup {None}] /\ X!ContextsAreFew'
<1> DEFINE there == KeptOf(kept)
<1>1. there \in SUBSET Instances /\ there \subseteq KeptOf(contexts) \cup {i} /\ KeptOf(contexts) \in SUBSET Instances
  BY DEF KeptOf
<1>2. IsFiniteSet(KeptOf(contexts)) /\ Cardinality(KeptOf(contexts)) \in Nat /\ Cardinality(KeptOf(contexts)) <= MaxContexts
  BY <1>1, CountsAre
<1>3. IsFiniteSet(KeptOf(contexts) \cup {i}) /\ Cardinality(KeptOf(contexts) \cup {i}) <= MaxContexts + 1
  BY <1>2, CountsAre, FS_AddElement
<1>4. IsFiniteSet(there) /\ Cardinality(there) \in Nat /\ Cardinality(there) <= MaxContexts + 1
  <2>1. Cardinality(there) <= Cardinality(KeptOf(contexts) \cup {i})
    BY <1>1, <1>3, FS_Subset
  <2>2. Cardinality(KeptOf(contexts) \cup {i}) \in Nat
    BY <1>3, FS_CardinalityType
  <2>3. QED
    BY <1>1, <1>3, <2>1, <2>2, CountsAre
<1>5. new \in {[j \in Instances |-> IF j = oldest THEN None ELSE kept[j]] :
            oldest \in {j \in there : X!Cardinality(there) > MaxContexts
                            /\ \A k \in there : kept[k].age <= kept[j].age}}
        \cup (IF X!Cardinality(there) > MaxContexts THEN {} ELSE {kept})
  BY DEF X!Trimmed, KeptOf
<1>6. X!Cardinality(there) = Cardinality(there)
  BY <1>1, CountsAre
<1> HIDE DEF there
<1>7. /\ new \in [Instances -> Kept \cup {None}]
      /\ \/ KeptOf(new) = there /\ Cardinality(there) <= MaxContexts
         \/ \E oldest \in there : KeptOf(new) = there \ {oldest}
  <2>1. CASE new = kept /\ ~(X!Cardinality(there) > MaxContexts)
    BY <1>4, <1>6, <2>1, CountsAre DEF there
  <2>2. CASE \E oldest \in there : new = [j \in Instances |-> IF j = oldest THEN None ELSE kept[j]]
    <3>1. PICK oldest \in there : new = [j \in Instances |-> IF j = oldest THEN None ELSE kept[j]]
      BY <2>2
    <3>2. new \in [Instances -> Kept \cup {None}]
      BY <3>1
    <3>3. KeptOf(new) = there \ {oldest}
      BY <3>1 DEF KeptOf, there
    <3>4. QED
      BY <3>1, <3>2, <3>3
  <2>3. QED
    BY <1>5, <2>1, <2>2
<1>8. Cardinality(KeptOf(new)) <= MaxContexts
  <2>1. CASE \E oldest \in there : KeptOf(new) = there \ {oldest}
    <3>1. PICK oldest \in there : KeptOf(new) = there \ {oldest}
      BY <2>1
    <3>2. Cardinality(there \ {oldest}) = Cardinality(there) - 1
      BY <1>4, <3>1, FS_RemoveElement
    <3>3. QED
      BY <1>4, <3>1, <3>2, CountsAre
  <2>2. QED
    BY <1>7, <2>1
<1>9. KeptOf(new) \in SUBSET Instances
  BY DEF KeptOf
<1>10. X!Cardinality(KeptOf(new)) = Cardinality(KeptOf(new))
  BY <1>9, CountsAre
<1>11. X!ContextsAreFew' <=> X!Cardinality(KeptOf(new)) <= MaxContexts
  BY DEF X!ContextsAreFew, KeptOf
<1>12. QED
  BY <1>7, <1>8, <1>10, <1>11

\* Selections change, nothing else.
LEMMA SelectionsMove ==
  ASSUME ExportInv, UNCHANGED <<project, host, export, disk, latest, finished>>,
         contexts' \in [Instances -> Kept \cup {None}], X!ContextsAreFew'
  PROVE  ExportInv'
<1>1. ExportTypes' /\ NotesHold'
  BY DEF ExportInv, ExportTypes, NotesHold, X!Mine, Kept
<1>2. ASSUME NEW e \in Exports PROVE ExportFits(e, export[e], FilesOf(e))'
  <2>1. PICK w, has : w \in States /\ w = export[e] /\ has = FilesOf(e) /\ ExportFits(e, w, has)
    BY DEF ExportInv, ExportTypes, States, ExportsFit
  <2>2. w = export'[e] /\ has = FilesOf(e)'
    BY <2>1 DEF FilesOf
  <2>3. ExportFits(e, w, has)'
    BY <2>1, GrownBySame, FitsStay DEF ExportInv
  <2>4. QED
    BY <2>2, <2>3
<1>3. QED
  BY <1>1, <1>2 DEF ExportInv, ExportsFit

AgeOf(c, n) == [c EXCEPT !.age = n]
LEMMA AgeOfIs ==
  ASSUME NEW c \in Kept, NEW n \in Nat
  PROVE  AgeOf(c, n) \in Kept
  BY DEF Kept, AgeOf

LEMMA SelectionsKeep ==
  ASSUME X!ExportAssumption, ExportInv,
         X!Tick \/ \E i \in Instances, t \in Numbers : X!Record(i, {t})
  PROVE  ExportInv'
<1>1. contexts \in [Instances -> Kept \cup {None}] /\ X!ContextsAreFew
  BY DEF ExportInv, ExportTypes, Kept
<1>2. CASE X!Tick
  <2>1. contexts' = [i \in Instances |->
            IF contexts[i] = None \/ X!Expired(contexts[i]) THEN contexts[i]
            ELSE [contexts[i] EXCEPT !.age = @ + 1]]
    BY <1>2 DEF X!Tick
  <2>2. PICK new : new = contexts'
    OBVIOUS
  <2>3. ASSUME NEW i \in Instances PROVE new[i] \in Kept \cup {None} /\ (contexts[i] = None => new[i] = None)
    <3>1. CASE contexts[i] = None \/ X!Expired(contexts[i])
      BY <1>1, <2>1, <2>2, <3>1
    <3>2. CASE ~(contexts[i] = None \/ X!Expired(contexts[i]))
      <4>1. PICK c \in Kept : c = contexts[i] /\ c.age + 1 \in Nat
        BY <1>1, <3>2 DEF Kept
      <4>2. new[i] = [c EXCEPT !.age = c.age + 1]
        BY <2>1, <2>2, <3>2, <4>1
      <4>3. new[i] = AgeOf(c, c.age + 1)
        BY <4>2, Zenon DEF AgeOf
      <4>4. QED
        BY <3>2, <4>1, <4>3, AgeOfIs
    <3>3. QED
      BY <3>1, <3>2
  <2>4. contexts' \in [Instances -> Kept \cup {None}]
    BY <2>1, <2>2, <2>3
  <2>5. X!ContextsAreFew'
    BY <1>1, <2>2, <2>3, FewerStay
  <2>6. QED
    BY <1>2, <2>4, <2>5, SelectionsMove DEF X!Tick
<1>3. CASE \E i \in Instances, t \in Numbers : X!Record(i, {t})
  <2>1. PICK i \in Instances, t \in Numbers : X!Record(i, {t})
    BY <1>3
  <2>2. PICK r \in Kept : r = [tracks |-> {t}, age |-> 0]
    BY DEF Kept
  <2>3. PICK kept : kept = [X!Pruned(contexts) EXCEPT ![i] = r]
    OBVIOUS
  <2>4. /\ kept \in [Instances -> Kept \cup {None}]
        /\ \A j \in Instances \ {i} : contexts[j] = None => kept[j] = None
    <3>1. X!Pruned(contexts) \in [Instances -> Kept \cup {None}]
      BY <1>1 DEF X!Pruned
    <3>2. \A j \in Instances : contexts[j] = None => X!Pruned(contexts)[j] = None
      BY DEF X!Pruned
    <3>3. QED
      BY <2>3, <3>1, <3>2
  <2>5. PICK new : new = contexts' /\ new \in X!Trimmed(kept)
    BY <2>1, <2>2, <2>3 DEF X!Record
  <2>6. new \in [Instances -> Kept \cup {None}] /\ X!ContextsAreFew'
    BY <1>1, <2>4, <2>5, TrimmedAreFew
  <2>7. QED
    BY <2>1, <2>5, <2>6, SelectionsMove DEF X!Record
<1>4. QED
  BY <1>2, <1>3

\* A selection is read, tracks are chosen, an export is begun.
LEMMA LookedIs ==
  ASSUME X!ExportAssumption, ExportInv, NEW of \in Instances \cup {None}
  PROVE  /\ X!Selected(of) \subseteq Numbers
         /\ X!Looked(of) \in [Instances -> Kept \cup {None}]
         /\ \A i \in Instances : contexts[i] = None => X!Looked(of)[i] = None
<1>1. contexts \in [Instances -> Kept \cup {None}]
  BY DEF ExportInv, ExportTypes, Kept
<1>2. X!Selected(of) \subseteq Numbers
  BY <1>1 DEF X!Selected, Kept
<1>3. QED
  BY <1>1, <1>2 DEF X!Looked

LEMMA SavedIs ==
  ASSUME ExportTypes
  PROVE  X!Saved = Len(project) /\ Len(project) \in Nat \ {0} /\ X!TracksAt(Len(project)) \subseteq Numbers
  BY DEF ExportTypes, X!Saved, X!TracksAt

LEMMA ChosenIs ==
  ASSUME NEW asked, NEW selected, NEW there, there \subseteq Numbers
  PROVE  X!Chosen(asked, selected, there) \subseteq there
  BY DEF X!Chosen

MayAsk(mode, format, of, asked) ==
    /\ mode \in Modes \cup {"mixdown"} /\ format \in {"wav", "flac", "midi", "dawproject"}
    /\ of \in Instances \cup {None} /\ asked \in SUBSET Numbers
Requested(y, mode, format, of) ==
    /\ y \in Exporting /\ y.at = "syncing" /\ y.mode = mode /\ y.format = format /\ y.of = of
    /\ y.loaded = Len(project) /\ y.tracks = {} /\ y.named = FALSE /\ y.left = {} /\ y.parts = {}
    /\ y.selected = X!Selected(of) /\ y.overtaken = FALSE
LEMMA RequestIs ==
  ASSUME X!ExportAssumption, ExportInv, NEW e, NEW mode, NEW format, NEW of, NEW asked,
         MayAsk(mode, format, of, asked)
  PROVE  Requested(X!Request(e, mode, format, of, asked), mode, format, of)
<1>1. X!Saved = Len(project) /\ Len(project) \in Nat
  BY SavedIs DEF ExportInv
<1>2. PICK selected \in SUBSET Numbers : selected = X!Selected(of)
  BY LookedIs DEF MayAsk
<1>3. X!Request(e, mode, format, of, asked) =
        [at |-> "syncing", mode |-> mode, format |-> format, of |-> of, asked |-> asked,
         selected |-> selected, loaded |-> Len(project), tracks |-> {}, named |-> FALSE, left |-> {},
         parts |-> {}, part |-> None, overtaken |-> FALSE]
  BY <1>1, <1>2, Zenon DEF X!Request
<1>4. PICK n \in Nat : n = Len(project)
  BY <1>1
<1>5. [at |-> "syncing", mode |-> mode, format |-> format, of |-> of, asked |-> asked,
         selected |-> selected, loaded |-> n, tracks |-> {}, named |-> FALSE, left |-> {},
         parts |-> {}, part |-> None, overtaken |-> FALSE] \in Exporting
  BY DEF Exporting, Begins, MayAsk
<1>6. PICK y : y = X!Request(e, mode, format, of, asked)
  OBVIOUS
<1>7. y = [at |-> "syncing", mode |-> mode, format |-> format, of |-> of, asked |-> asked,
         selected |-> selected, loaded |-> n, tracks |-> {}, named |-> FALSE, left |-> {},
         parts |-> {}, part |-> None, overtaken |-> FALSE]
  BY <1>3, <1>4, <1>6
<1>8. Requested(y, mode, format, of)
  BY <1>2, <1>4, <1>5, <1>7 DEF Requested
<1>9. QED
  BY <1>6, <1>8

LEMMA LookedStays ==
  ASSUME X!ExportAssumption, ExportInv, NEW of \in Instances \cup {None},
         contexts' = X!Looked(of) \/ contexts' = contexts
  PROVE  contexts' \in [Instances -> [tracks : SUBSET Numbers, age : Nat] \cup {None}] /\ X!ContextsAreFew'
<1>1. contexts \in [Instances -> Kept \cup {None}] /\ X!ContextsAreFew
  BY DEF ExportInv, ExportTypes, Kept
<1>2. PICK new : new = contexts'
  OBVIOUS
<1>3. new \in [Instances -> Kept \cup {None}] /\ \A i \in Instances : contexts[i] = None => new[i] = None
  BY <1>1, <1>2, LookedIs
<1>4. X!ContextsAreFew'
  BY <1>1, <1>2, <1>3, FewerStay
<1>5. QED
  BY <1>2, <1>3, <1>4 DEF Kept

LEMMA OvertakenAre ==
  ASSUME ExportTypes
  PROVE  X!Overtaken \in [Exports -> States] /\ \A f \in Exports : X!Overtaken[f] = OverBy(export[f])
<1>1. ASSUME NEW f \in Exports PROVE OverBy(export[f]) \in States
  <2>1. export[f] \in States
    BY DEF ExportTypes, States
  <2>2. CASE export[f].at \in {"rendering", "encoding"}
    <3>1. export[f] \in Exporting
      BY <2>1, <2>2, BegunIs DEF Begins
    <3>2. OverBy(export[f]) \in Exporting
      BY <2>2, <3>1, OverByIs
    <3>3. QED
      BY <3>2 DEF States
  <2>3. CASE export[f].at \notin {"rendering", "encoding"}
    BY <2>1, <2>3 DEF OverBy
  <2>4. QED
    BY <2>2, <2>3
<1>2. X!Overtaken = [f \in Exports |-> OverBy(export[f])]
  BY Zenon DEF X!Overtaken, OverBy
<1>3. QED
  BY <1>1, <1>2

\* An export fails: what there is of it stays.
LEMMA ExportFails ==
  ASSUME X!ExportAssumption, ExportInv, \A f \in Exports : export[f].at # "noting", NEW e \in Exports, export[e].at \notin Ends,
         UNCHANGED <<project, disk, latest, finished>>, NEW of \in Instances \cup {None},
         contexts' = X!Looked(of) \/ contexts' = contexts,
         \/ host' = host /\ export' = [export EXCEPT ![e] = X!Failed]
         \/ host' \in 0..Len(project) /\ export' = [X!Overtaken EXCEPT ![e] = X!Failed]
  PROVE  ExportInv'
<1>1. \A f \in Exports : export[f] \in States /\ ExportFits(f, export[f], FilesOf(f))
  BY DEF ExportInv, ExportTypes, States, ExportsFit
<1>2. PICK all : all = export'
  OBVIOUS
<1>3. export \in [Exports -> States] /\ X!Failed \in States
  BY DEF ExportInv, ExportTypes, States
<1>4. X!Overtaken \in [Exports -> States] /\ \A f \in Exports : X!Overtaken[f] = OverBy(export[f])
  BY OvertakenAre DEF ExportInv
<1>5. /\ all \in [Exports -> States] /\ all[e] = X!Failed
      /\ \/ host' \in {host, None} /\ \A f \in Exports \ {e} : all[f] = export[f]
         \/ host' \in 0..Len(project) /\ \A f \in Exports \ {e} : all[f] = OverBy(export[f])
  BY <1>2, <1>3, <1>4
<1>6. contexts' \in [Instances -> [tracks : SUBSET Numbers, age : Nat] \cup {None}] /\ X!ContextsAreFew'
  BY LookedStays
<1>7. disk' = (disk \ {}) \cup {}
  OBVIOUS
<1>8. PICK has : has = (FilesOf(e) \ {}) \cup {}
  OBVIOUS
<1>9. ExportFits(e, all[e], has)' /\ all[e].at # "noting"
  BY <1>5, NotBegun DEF ExportFits, Ends
<1>10. \A f \in {} \cup {} : f.of = e
  OBVIOUS
<1>11. QED
  BY <1>2, <1>5, <1>6, <1>7, <1>8, <1>9, <1>10, OneGoesOn

\* An export is asked for: it is written in one go, or waits for the host.
Written(r, stage, tracks, parts) == [r EXCEPT !.at = stage, !.tracks = tracks, !.parts = parts]
LEMMA WrittenIs ==
  ASSUME NEW r \in Exporting, NEW stage \in Begins, NEW tracks \in SUBSET Numbers,
         NEW parts \in SUBSET [track : Numbers, of : Nat]
  PROVE  LET y == Written(r, stage, tracks, parts) IN
         /\ y \in Exporting /\ y.at = stage /\ y.mode = r.mode /\ y.format = r.format /\ y.of = r.of
         /\ y.loaded = r.loaded /\ y.tracks = tracks /\ y.named = r.named /\ y.left = r.left
         /\ y.parts = parts /\ y.overtaken = r.overtaken
  BY DEF Exporting, Written

LEMMA WriteKeeps ==
  ASSUME X!ExportAssumption, ExportInv, \A f \in Exports : export[f].at # "noting", NEW e \in Exports, NEW format,
         NEW of \in Instances \cup {None}, NEW asked \in SUBSET Numbers, X!Write(e, format, of, asked)
  PROVE  ExportInv'
<1>1. ExportTypes /\ ExportsFit
  BY DEF ExportInv
<1>2. /\ export[e].at = "unasked" /\ format \in {"midi", "dawproject"} /\ contexts' = X!Looked(of)
      /\ UNCHANGED <<project, host, latest, finished>>
  BY DEF X!Write
<1>20. MayAsk("mixdown", format, of, asked)
  BY <1>2 DEF MayAsk
<1>3. PICK r : r = X!Request(e, "mixdown", format, of, asked) /\ Requested(r, "mixdown", format, of)
  BY <1>20, RequestIs
<1>23. r \in Exporting /\ r.at = "syncing" /\ r.mode = "mixdown" /\ r.format = format /\ r.of = of
       /\ r.loaded = Len(project) /\ r.named = FALSE /\ r.left = {} /\ r.parts = {} /\ r.overtaken = FALSE
       /\ r.selected = X!Selected(of)
  BY <1>3 DEF Requested
<1>4. PICK n \in Nat \ {0} : n = X!Saved /\ n = Len(project) /\ X!TracksAt(n) \subseteq Numbers
  BY <1>1, SavedIs
<1>5. PICK tracks \in SUBSET Numbers :
        tracks = X!Chosen(asked, r.selected, X!TracksAt(X!Saved))
  BY <1>4, ChosenIs
<1>6. export[e].at \notin Ends /\ FilesOf(e) = {}
  BY <1>1, <1>2 DEF Ends, ExportsFit, ExportFits
<1>7. CASE tracks = {}
  <2>1. export' = [export EXCEPT ![e] = X!Failed] /\ UNCHANGED disk
    BY <1>3, <1>23, <1>5, <1>7 DEF X!Write
  <2>2. QED
    BY <1>2, <1>6, <2>1, ExportFails
<1>8. CASE tracks # {}
  <2>1. PICK stage \in {"done", "noting"} : stage = IF of = None THEN "done" ELSE "noting"
    OBVIOUS
  <2>2. PICK parts \in SUBSET [track : Numbers, of : Nat] : parts = {[track |-> t, of |-> n] : t \in tracks}
    <3>1. {[track |-> t, of |-> n] : t \in tracks} \in SUBSET [track : Numbers, of : Nat]
      BY <1>4, <1>5
    <3>2. QED
      BY <3>1
  <2>3. PICK y \in Exporting :
         /\ y = Written(r, stage, tracks, parts) /\ y.at = stage /\ y.mode = r.mode /\ y.format = r.format /\ y.of = r.of
         /\ y.loaded = r.loaded /\ y.tracks = tracks /\ y.named = r.named /\ y.left = r.left
         /\ y.parts = parts /\ y.overtaken = r.overtaken
    BY <1>23, WrittenIs DEF Begins, Ends
  <2>4. PICK come : come = IF format = "midi" THEN X!MidiFiles(e) ELSE X!DawprojectFiles(e)
    OBVIOUS
  <2>5. export' = [export EXCEPT ![e] = y] /\ disk' = disk \cup come
    <3>1. /\ export' = [export EXCEPT ![e] = [X!Request(e, "mixdown", format, of, asked) EXCEPT
                !.at = IF of = None THEN "done" ELSE "noting", !.tracks = tracks,
                !.parts = {[track |-> t, of |-> X!Saved] : t \in tracks}]]
          /\ disk' = disk \cup (IF format = "midi" THEN X!MidiFiles(e) ELSE X!DawprojectFiles(e))
      BY <1>3, <1>23, <1>5, <1>8, Zenon DEF X!Write
    <3>2. y = [X!Request(e, "mixdown", format, of, asked) EXCEPT
                !.at = IF of = None THEN "done" ELSE "noting", !.tracks = tracks,
                !.parts = {[track |-> t, of |-> X!Saved] : t \in tracks}]
      <4>1. y = [r EXCEPT !.at = stage, !.tracks = tracks, !.parts = parts]
        BY <2>3, Zenon DEF Written
      <4>2. parts = {[track |-> t, of |-> X!Saved] : t \in tracks}
        BY <1>4, <2>2
      <4>3. stage = IF of = None THEN "done" ELSE "noting"
        BY <2>1
      <4>4. QED
        BY <1>3, <1>23, <4>1, <4>2, <4>3, Zenon
    <3>3. QED
      BY <2>4, <3>1, <3>2
  <2>6. /\ \A f \in come : f.of = e
        /\ {f \in come : f.kind # "manifest"} = {ProductOf(e, y)}
    <3>1. ProductOf(e, y) = X!File(e, format, None)
      BY <1>3, <1>23, <2>3 DEF ProductOf
    <3>2. QED
      BY <1>2, <2>4, <3>1 DEF X!MidiFiles, X!DawprojectFiles, X!File
  <2>7. PartsFit(y)'
    <3>1. {p.track : p \in parts} = tracks
      <4>1. \A t \in tracks : [track |-> t, of |-> n] \in parts /\ [track |-> t, of |-> n].track = t
        BY <2>2
      <4>2. \A p \in parts : p.track \in tracks
        BY <2>2
      <4>3. QED
        BY <4>1, <4>2
    <3>2. \A p, q \in parts : p.track = q.track => p = q
      BY <2>2
    <3>3. \A p \in parts : p.of = n
      BY <2>2
    <3>4. QED
      BY <1>2, <1>3, <1>23, <1>4, <2>3, <3>1, <3>2, <3>3 DEF PartsFit
  <2>8. PICK has : has = (FilesOf(e) \ {}) \cup come
    OBVIOUS
  <2>9. has = come
    BY <1>6, <2>8
  <2>10. ExportFits(e, y, has)'
    <3>1. Over(e, y, has)'
      BY <1>3, <1>23, <2>3, <2>6, <2>7, <2>9 DEF Over
    <3>2. QED
      BY <2>1, <2>3, <3>1 DEF ExportFits
  <2>11. PICK all \in [Exports -> States] : all = export' /\ all[e] = y /\ \A f \in Exports \ {e} : all[f] = export[f]
    BY <1>1, <2>5 DEF ExportTypes, States
  <2>12. contexts' \in [Instances -> [tracks : SUBSET Numbers, age : Nat] \cup {None}] /\ X!ContextsAreFew'
    BY <1>2, LookedStays
  <2>13. (\A f \in {} \cup come : f.of = e) /\ disk' = (disk \ {}) \cup come
    BY <2>5, <2>6
  <2>14. all[e].at = "noting" => all[e].of \in Instances
    BY <1>3, <1>23, <2>1, <2>3, <2>11
  <2>15. ExportFits(e, all[e], has)'
    BY <2>10, <2>11
  <2>16. QED
    BY <1>2, <1>6, <2>8, <2>11, <2>12, <2>13, <2>14, <2>15, OneGoesOn
<1>9. QED
  BY <1>7, <1>8

LEMMA AskKeeps ==
  ASSUME X!ExportAssumption, ExportInv, \A f \in Exports : export[f].at # "noting", NEW e \in Exports,
         NEW mode \in Modes, NEW format, NEW of \in Instances \cup {None}, NEW asked \in SUBSET Numbers,
         X!Begin(e, mode, format, of, asked)
  PROVE  ExportInv'
<1>1. ExportTypes /\ ExportsFit
  BY DEF ExportInv
<1>2. /\ export[e].at = "unasked" /\ format \in {"wav", "flac"}
      /\ UNCHANGED <<project, host, disk, latest, finished>>
  BY DEF X!Begin
<1>20. MayAsk(mode, format, of, asked)
  BY <1>2 DEF MayAsk
<1>3. PICK r : r = X!Request(e, mode, format, of, asked) /\ Requested(r, mode, format, of)
  BY <1>20, RequestIs
<1>23. r \in Exporting /\ r.at = "syncing" /\ r.mode = mode /\ r.format = format /\ r.of = of
       /\ r.loaded = Len(project) /\ r.named = FALSE /\ r.left = {} /\ r.parts = {} /\ r.overtaken = FALSE
       /\ r.selected = X!Selected(of)
  BY <1>3 DEF Requested
<1>4. export[e].at \notin Ends /\ FilesOf(e) = {}
  BY <1>1, <1>2 DEF Ends, ExportsFit, ExportFits
<1>5. CASE host = None
  <2>1. export' = [export EXCEPT ![e] = X!Failed] /\ contexts' = contexts
    BY <1>5 DEF X!Begin
  <2>2. QED
    BY <1>2, <1>4, <2>1, ExportFails
<1>6. CASE host # None
  <2>1. export' = [export EXCEPT ![e] = r] /\ contexts' = X!Looked(of)
    BY <1>3, <1>23, <1>6 DEF X!Begin
  <2>2. PICK has : has = (FilesOf(e) \ {}) \cup {}
    OBVIOUS
  <2>3. ExportFits(e, r, has)'
    BY <1>1, <1>2, <1>3, <1>23, <1>4, <2>2, SavedIs DEF ExportFits, Ends
  <2>4. PICK all \in [Exports -> States] : all = export' /\ all[e] = r /\ \A f \in Exports \ {e} : all[f] = export[f]
    BY <1>1, <1>23, <2>1 DEF ExportTypes, States
  <2>5. contexts' \in [Instances -> [tracks : SUBSET Numbers, age : Nat] \cup {None}] /\ X!ContextsAreFew'
    BY <2>1, LookedStays
  <2>6. (\A f \in {} \cup {} : f.of = e) /\ disk' = (disk \ {}) \cup {}
    BY <1>2
  <2>7. ExportFits(e, all[e], has)' /\ all[e].at # "noting"
    BY <1>3, <1>23, <2>3, <2>4
  <2>8. QED
    BY <1>2, <1>4, <2>2, <2>4, <2>5, <2>6, <2>7, OneGoesOn
<1>7. QED
  BY <1>5, <1>6

\* A part is there: it goes into the archive, or is the export.
KeptWith(w, stage, left, parts) == [w EXCEPT !.at = stage, !.left = left, !.parts = parts, !.part = None]
LEMMA KeptWithIs ==
  ASSUME NEW w \in Exporting, NEW stage \in Begins, NEW left \in SUBSET Numbers,
         NEW parts \in SUBSET [track : Numbers, of : Nat]
  PROVE  LET y == KeptWith(w, stage, left, parts) IN
         /\ y \in Exporting /\ y.at = stage /\ y.mode = w.mode /\ y.format = w.format /\ y.of = w.of
         /\ y.loaded = w.loaded /\ y.tracks = w.tracks /\ y.named = w.named /\ y.left = left
         /\ y.parts = parts /\ y.overtaken = w.overtaken
  BY DEF Exporting, KeptWith

GrowsBy(w, y, part, shown, more) ==
    /\ part \subseteq w.left /\ shown \in Nat /\ shown <= Len(project)
    /\ (w.overtaken \/ shown = w.loaded) /\ (w.named => part \subseteq X!TracksAt(shown))
    /\ y.tracks = w.tracks /\ y.left = w.left \ part /\ y.named = w.named /\ y.loaded = w.loaded
    /\ y.overtaken = w.overtaken /\ y.parts = w.parts \cup more
    /\ more = {[track |-> t, of |-> shown] : t \in part}
LEMMA PartsGrow ==
  ASSUME NEW w, NEW y, PartsFit(w), NEW part, NEW shown, NEW more, GrowsBy(w, y, part, shown, more)
  PROVE  PartsFit(y)
<1>0. /\ part \subseteq w.left /\ shown \in Nat /\ shown <= Len(project)
      /\ (w.overtaken \/ shown = w.loaded) /\ (w.named => part \subseteq X!TracksAt(shown))
      /\ y.tracks = w.tracks /\ y.left = w.left \ part /\ y.named = w.named /\ y.loaded = w.loaded
      /\ y.overtaken = w.overtaken /\ y.parts = w.parts \cup more
      /\ more = {[track |-> t, of |-> shown] : t \in part}
  BY DEF GrowsBy
<1>1. /\ w.left \subseteq w.tracks /\ {p.track : p \in w.parts} = w.tracks \ w.left
      /\ \A p, q \in w.parts : p.track = q.track => p = q
      /\ \A p \in w.parts : /\ p.of <= Len(project) /\ (w.overtaken \/ p.of = w.loaded)
                            /\ w.named => p.track \in X!TracksAt(p.of)
  BY DEF PartsFit
<1>2. /\ \A p \in more : p.of = shown /\ p.track \in part
      /\ \A p, q \in more : p.track = q.track => p = q
  BY <1>0
<1>3. {p.track : p \in more} = part
  <2>1. \A t \in part : [track |-> t, of |-> shown] \in more /\ [track |-> t, of |-> shown].track = t
    BY <1>0
  <2>2. part \subseteq {p.track : p \in more}
    BY <2>1
  <2>3. {p.track : p \in more} \subseteq part
    BY <1>2
  <2>4. QED
    BY <2>2, <2>3
<1>4. \A p \in w.parts : p.track \notin part
  BY <1>0, <1>1
<1>5. {p.track : p \in y.parts} = y.tracks \ y.left /\ y.left \subseteq y.tracks
  <2>1. {p.track : p \in y.parts} = {p.track : p \in w.parts} \cup {p.track : p \in more}
    BY <1>0
  <2>2. QED
    BY <1>0, <1>1, <1>3, <2>1
<1>6. \A p, q \in y.parts : p.track = q.track => p = q
  BY <1>0, <1>1, <1>2, <1>4
<1>7. ASSUME NEW p \in y.parts
      PROVE  /\ p.of <= Len(project) /\ (y.overtaken \/ p.of = y.loaded)
             /\ y.named => p.track \in X!TracksAt(p.of)
  BY <1>0, <1>1, <1>2
<1>8. QED
  BY <1>5, <1>6, <1>7 DEF PartsFit

LEMMA PartIsLeft ==
  ASSUME NEW w, NEW part, ComesNext(w, part), w.mode # "stems" => w.left = w.tracks
  PROVE  part \subseteq w.left /\ (w.mode # "stems" => part = w.left)
  BY DEF ComesNext

LEMMA KeepKeeps ==
  ASSUME X!ExportAssumption, ExportInv, \A f \in Exports : export[f].at # "noting", NEW e \in Exports,
         NEW part, NEW shown \in 0..Len(project), NEW gone,
         X!Keep(e, part, shown, disk \ gone), \A f \in gone : f.of = e,
         NEW w, w = export[e], w.at \in {"rendering", "encoding"}, FilesOf(e) \ gone = Archive(e, w),
         ComesNext(w, part), w.overtaken \/ shown = w.loaded, w.named => part \subseteq X!TracksAt(shown),
         UNCHANGED <<project, host, contexts, latest, finished>>
  PROVE  ExportInv'
<1>1. ExportTypes /\ ExportsFit
  BY DEF ExportInv
<1>2. w \in Exporting
  <2>1. w \in States
    BY <1>1 DEF ExportTypes, States
  <2>2. QED
    BY <2>1, BegunIs DEF Begins
<1>3. PICK now : now = FilesOf(e) /\ ExportFits(e, w, now)
  BY <1>1 DEF ExportsFit
<1>4. AtWork(e, w, now)
  BY <1>3 DEF ExportFits
<1>5. /\ w.format \in {"wav", "flac"} /\ PartsFit(w) /\ (w.mode # "stems" => w.left = w.tracks)
      /\ w.overtaken \/ host \in {None, w.loaded}
  BY <1>4 DEF AtWork
<1>6. /\ part \in SUBSET w.left /\ (w.mode # "stems" => part = w.left)
      /\ w.left \subseteq Numbers /\ w.parts \subseteq [track : Numbers, of : Nat]
  BY <1>2, <1>5, PartIsLeft, ExportingFields
<1>7. shown \in Nat /\ shown <= Len(project) /\ Len(project) \in Nat
  BY <1>1 DEF ExportTypes
<1>8. PICK more \in SUBSET [track : Numbers, of : Nat] : more = {[track |-> t, of |-> shown] : t \in part}
  <2>1. \A t \in part : [track |-> t, of |-> shown] \in [track : Numbers, of : Nat]
    BY <1>6, <1>7
  <2>2. {[track |-> t, of |-> shown] : t \in part} \subseteq [track : Numbers, of : Nat]
    BY <2>1
  <2>3. QED
    BY <2>2
<1>9. PICK stage : stage = IF w.left \ part = {} THEN X!After(e) ELSE "rendering"
  OBVIOUS
<1>10. /\ stage \in {"rendering", "done", "noting"} /\ (stage = "noting" => w.of \in Instances)
       /\ stage = "rendering" <=> w.left \ part # {}
  BY <1>2, <1>9, ExportingFields DEF X!After
<1>11. PICK y : /\ y = KeptWith(w, stage, w.left \ part, w.parts \cup more)
         /\ y \in Exporting /\ y.at = stage /\ y.mode = w.mode /\ y.format = w.format /\ y.of = w.of
         /\ y.loaded = w.loaded /\ y.tracks = w.tracks /\ y.named = w.named /\ y.left = w.left \ part
         /\ y.parts = w.parts \cup more /\ y.overtaken = w.overtaken
  <2>1. w.left \ part \in SUBSET Numbers /\ w.parts \cup more \in SUBSET [track : Numbers, of : Nat] /\ stage \in Begins
    BY <1>6, <1>8, <1>10 DEF Begins, Ends
  <2>2. QED
    BY <1>2, <2>1, KeptWithIs
<1>12. PICK file : file = X!File(e, w.format, X!Name(e, part))
  OBVIOUS
<1>13. /\ export' = [export EXCEPT ![e] = y]
       /\ disk' = IF w.mode = "stems" THEN (disk \ gone) \ {file} ELSE (disk \ gone) \cup {file}
  <2>1. PICK left, parts : left = export[e].left \ part
                        /\ parts = export[e].parts \cup {[track |-> t, of |-> shown] : t \in part}
    OBVIOUS
  <2>2. /\ export' = [export EXCEPT ![e] = [export[e] EXCEPT
                !.at = IF left = {} THEN X!After(e) ELSE "rendering", !.left = left, !.parts = parts, !.part = None]]
        /\ disk' = IF w.mode = "stems" THEN (disk \ gone) \ {file} ELSE (disk \ gone) \cup {file}
    BY <1>12, <2>1, Zenon DEF X!Keep
  <2>3. y = [export[e] EXCEPT
                !.at = IF left = {} THEN X!After(e) ELSE "rendering", !.left = left, !.parts = parts, !.part = None]
    <3>1. left = w.left \ part /\ parts = w.parts \cup more /\ stage = IF left = {} THEN X!After(e) ELSE "rendering"
      BY <1>8, <1>9, <2>1
    <3>2. QED
      BY <1>11, <3>1, Zenon DEF KeptWith
  <2>4. QED
    BY <2>2, <2>3, Zenon
<1>14. PICK away, come :
         /\ away = IF w.mode = "stems" THEN gone \cup {file} ELSE gone
         /\ come = IF w.mode = "stems" THEN {} ELSE {file}
  OBVIOUS
<1>15. (\A f \in away \cup come : f.of = e) /\ disk' = (disk \ away) \cup come
  BY <1>12, <1>13, <1>14 DEF X!File
<1>16. PICK has : has = (FilesOf(e) \ away) \cup come
  OBVIOUS
<1>17. has = {ProductOf(e, y)} /\ ProductOf(e, y).kind # "manifest"
  <2>1. ProductOf(e, y) = ProductOf(e, w) /\ ProductOf(e, y).kind # "manifest"
    BY <1>5, <1>11 DEF ProductOf, X!File
  <2>2. CASE w.mode = "stems"
    <3>1. has = Archive(e, w) \ {file}
      BY <1>14, <1>16, <2>2
    <3>2. ProductOf(e, w) # file
      BY <1>5, <1>12, <2>2 DEF ProductOf, X!File
    <3>3. QED
      BY <2>1, <2>2, <3>1, <3>2 DEF Archive
  <2>3. CASE w.mode # "stems"
    <3>1. has = Archive(e, w) \cup {file}
      BY <1>14, <1>16, <2>3
    <3>2. file = ProductOf(e, w)
      BY <1>12, <2>3 DEF ProductOf, X!Name
    <3>3. QED
      BY <2>1, <2>3, <3>1, <3>2 DEF Archive
  <2>4. QED
    BY <2>2, <2>3
<1>18. PartsFit(y)
  <2>1. GrowsBy(w, y, part, shown, more)
    BY <1>6, <1>7, <1>8, <1>11 DEF GrowsBy
  <2>2. QED
    BY <1>5, <2>1, PartsGrow
<1>19. ExportFits(e, y, has)
  <2>1. CASE stage = "rendering"
    <3>1. w.mode = "stems"
      BY <1>6, <1>10, <2>1
    <3>2. has = Archive(e, y)
      BY <1>11, <1>17, <3>1 DEF Archive
    <3>3. AtWork(e, y, has)
      BY <1>5, <1>11, <1>18, <2>1, <3>1, <3>2 DEF AtWork
    <3>4. QED
      BY <1>11, <2>1, <3>3 DEF ExportFits, Ends
  <2>2. CASE stage # "rendering"
    <3>1. Over(e, y, has)
      BY <1>6, <1>10, <1>11, <1>17, <1>18, <2>2 DEF Over
    <3>2. QED
      BY <1>10, <1>11, <2>2, <3>1 DEF ExportFits
  <2>3. QED
    BY <2>1, <2>2, Zenon
<1>20. ExportFits(e, y, has)'
  <2>1. y \in States
    BY <1>11 DEF States
  <2>2. Grown /\ Len(project') \in Nat
    BY <1>1, <1>7, GrownBySame
  <2>3. QED
    BY <1>1, <1>19, <2>1, <2>2, FitsStay
<1>21. PICK all \in [Exports -> States] : all = export' /\ all[e] = y /\ \A f \in Exports \ {e} : all[f] = export[f]
  BY <1>1, <1>11, <1>13 DEF ExportTypes, States
<1>22. contexts' \in [Instances -> [tracks : SUBSET Numbers, age : Nat] \cup {None}] /\ X!ContextsAreFew'
  BY DEF ExportInv, ExportTypes, X!ContextsAreFew
<1>23. ExportFits(e, all[e], has)' /\ (all[e].at = "noting" => all[e].of \in Instances) /\ export[e].at \notin Ends
  BY <1>10, <1>11, <1>20, <1>21 DEF Ends
<1>24. QED
  BY <1>15, <1>16, <1>21, <1>22, <1>23, OneGoesOn

\* The host renders a part, which is kept, or is encoded first.
EncodingOf(w, part) == [w EXCEPT !.at = "encoding", !.part = part]
LEMMA EncodingIs ==
  ASSUME NEW w \in Exporting, NEW part \in Opened
  PROVE  LET y == EncodingOf(w, part) IN
         /\ y \in Exporting /\ y.at = "encoding" /\ y.mode = w.mode /\ y.format = w.format /\ y.of = w.of
         /\ y.loaded = w.loaded /\ y.tracks = w.tracks /\ y.named = w.named /\ y.left = w.left
         /\ y.parts = w.parts /\ y.part = part /\ y.overtaken = w.overtaken
  BY DEF Exporting, EncodingOf, Begins

LEMMA AtWorkIs ==
  ASSUME ExportInv, NEW e \in Exports, export[e].at \in {"rendering", "encoding"}
  PROVE  export[e] \in Exporting /\ AtWork(e, export[e], FilesOf(e))
<1>1. export[e] \in States /\ ExportFits(e, export[e], FilesOf(e))
  BY DEF ExportInv, ExportTypes, States, ExportsFit
<1>2. QED
  BY <1>1, BegunIs DEF Begins, ExportFits

LEMMA RenderKeeps ==
  ASSUME X!ExportAssumption, ExportInv, \A f \in Exports : export[f].at # "noting", NEW e \in Exports,
         NEW tracks \in SUBSET Numbers, X!Render(e, tracks)
  PROVE  ExportInv'
<1>1. /\ export[e].at = "rendering" /\ tracks \in X!NextTracks(e)
      /\ UNCHANGED <<project, host, contexts, latest, finished>>
  BY DEF X!Render
<1>2. PICK w, now : w \in Exporting /\ w = export[e] /\ now = FilesOf(e) /\ AtWork(e, w, now)
  BY <1>1, AtWorkIs
<1>3. /\ w.format \in {"wav", "flac"} /\ PartsFit(w) /\ (w.mode # "stems" => w.left = w.tracks)
      /\ w.overtaken \/ host \in {None, w.loaded}
      /\ now = Archive(e, w)
  BY <1>1, <1>2 DEF AtWork
<1>4. ComesNext(w, tracks)
  BY <1>1, <1>2 DEF ComesNext, X!NextTracks
<1>5. ExportTypes /\ ExportsFit /\ Len(project) \in Nat
  BY DEF ExportInv, ExportTypes
<1> DEFINE lacks == \/ host = None
                    \/ (w.mode = "stems" \/ w.named) /\ ~(tracks \subseteq X!TracksAt(host))
<1>6. CASE lacks
  <2>1. export' = [export EXCEPT ![e] = X!Failed] /\ UNCHANGED disk
    BY <1>2, <1>6 DEF X!Render
  <2>2. export[e].at \notin Ends
    BY <1>1 DEF Ends
  <2>3. QED
    BY <1>1, <2>1, <2>2, ExportFails
<1>7. CASE ~lacks
  <2>1. /\ host \in 0..Len(project) /\ (w.overtaken \/ host = w.loaded)
        /\ w.named => tracks \subseteq X!TracksAt(host)
    BY <1>3, <1>5, <1>7 DEF ExportTypes
  <2>2. CASE w.format = "wav"
    <3>1. X!Keep(e, tracks, host, disk)
      BY <1>2, <1>7, <2>2 DEF X!Render
    <3>2. disk \ {} = disk /\ FilesOf(e) \ {} = Archive(e, w)
      BY <1>2, <1>3
    <3>3. X!Keep(e, tracks, host, disk \ {})
      BY <3>1, <3>2, Zenon
    <3>4. \A f \in {} : f.of = e
      OBVIOUS
    <3>5. w.at \in {"rendering", "encoding"}
      BY <1>1, <1>2
    <3>6. QED
      BY <1>1, <1>2, <1>4, <2>1, <3>2, <3>3, <3>4, <3>5, KeepKeeps
  <2>3. CASE w.format # "wav"
    <3>1. PICK part \in Opened : part = [tracks |-> tracks, of |-> host] /\ part.tracks = tracks /\ part.of = host
      <4>1. host \in Nat
        BY <1>5, <2>1
      <4>2. [tracks |-> tracks, of |-> host] \in Opened
        BY <4>1 DEF Opened
      <4>3. QED
        BY <4>2
    <3>2. PICK y : /\ y = EncodingOf(w, part)
         /\ y \in Exporting /\ y.at = "encoding" /\ y.mode = w.mode /\ y.format = w.format /\ y.of = w.of
         /\ y.loaded = w.loaded /\ y.tracks = w.tracks /\ y.named = w.named /\ y.left = w.left
         /\ y.parts = w.parts /\ y.part = part /\ y.overtaken = w.overtaken
      BY <1>2, EncodingIs
    <3>3. PICK file : file = X!File(e, "wav", X!Name(e, tracks))
      OBVIOUS
    <3>4. export' = [export EXCEPT ![e] = y] /\ disk' = disk \cup {file}
      <4>1. /\ export' = [export EXCEPT ![e] = [export[e] EXCEPT !.at = "encoding",
                                                        !.part = [tracks |-> tracks, of |-> host]]]
            /\ disk' = disk \cup {X!File(e, "wav", X!Name(e, tracks))}
        BY <1>2, <1>7, <2>3, Zenon DEF X!Render
      <4>2. y = [export[e] EXCEPT !.at = "encoding", !.part = [tracks |-> tracks, of |-> host]]
        BY <1>2, <3>1, <3>2, Zenon DEF EncodingOf
      <4>3. QED
        BY <3>3, <4>1, <4>2, Zenon
    <3>5. PICK has : has = (FilesOf(e) \ {}) \cup {file}
      OBVIOUS
    <3>6. /\ Archive(e, y) = Archive(e, w) /\ Label(y, tracks) = X!Name(e, tracks)
          /\ (ComesNext(y, tracks) <=> ComesNext(w, tracks))
      BY <1>2, <3>2 DEF Archive, ProductOf, Label, ComesNext, X!Name
    <3>7. PartsFit(y)
      BY <1>3, <3>2 DEF PartsFit
    <3>8. AtWork(e, y, has)
      <4>1. has = Archive(e, y) \cup {X!File(e, "wav", Label(y, y.part.tracks))}
        BY <1>2, <1>3, <3>1, <3>2, <3>3, <3>5, <3>6
      <4>2. /\ y.format = "flac" /\ y.part \in Opened /\ ComesNext(y, y.part.tracks)
            /\ y.part.of <= Len(project) /\ (y.overtaken \/ y.part.of = y.loaded)
            /\ y.named => y.part.tracks \subseteq X!TracksAt(y.part.of)
        BY <1>3, <1>4, <1>5, <2>1, <2>3, <3>1, <3>2, <3>6
      <4>3. QED
        BY <1>3, <3>2, <3>7, <4>1, <4>2 DEF AtWork
    <3>9. ExportFits(e, y, has)
      BY <3>2, <3>8 DEF ExportFits, Ends
    <3>10. ExportFits(e, y, has)'
      <4>1. y \in States
        BY <3>2 DEF States
      <4>2. Grown /\ Len(project') \in Nat
        BY <1>1, <1>5, GrownBySame
      <4>3. QED
        BY <1>1, <1>5, <3>9, <4>1, <4>2, FitsStay
    <3>11. PICK all \in [Exports -> States] : all = export' /\ all[e] = y /\ \A f \in Exports \ {e} : all[f] = export[f]
      BY <1>5, <3>2, <3>4 DEF ExportTypes, States
    <3>12. contexts' \in [Instances -> [tracks : SUBSET Numbers, age : Nat] \cup {None}] /\ X!ContextsAreFew'
      BY <1>1 DEF ExportInv, ExportTypes, X!ContextsAreFew
    <3>13. (\A f \in {} \cup {file} : f.of = e) /\ disk' = (disk \ {}) \cup {file}
      BY <3>3, <3>4 DEF X!File
    <3>14. ExportFits(e, all[e], has)' /\ all[e].at # "noting" /\ export[e].at \notin Ends
      BY <1>1, <3>2, <3>10, <3>11 DEF Ends
    <3>15. QED
      BY <1>1, <3>5, <3>11, <3>12, <3>13, <3>14, OneGoesOn
  <2>4. QED
    BY <2>2, <2>3
<1>8. QED
  BY <1>6, <1>7

LEMMA EncodeKeeps ==
  ASSUME X!ExportAssumption, ExportInv, \A f \in Exports : export[f].at # "noting", NEW e \in Exports,
         NEW succeeds \in BOOLEAN, X!Encode(e, succeeds)
  PROVE  ExportInv'
<1>1. export[e].at = "encoding" /\ UNCHANGED <<project, host, contexts, latest, finished>>
  BY DEF X!Encode
<1>2. CASE succeeds
  <2>1. PICK w, now : w \in Exporting /\ w = export[e] /\ now = FilesOf(e) /\ AtWork(e, w, now)
    BY <1>1, AtWorkIs
  <2>2. PICK part \in Opened : part = w.part
    BY <1>1, <2>1 DEF AtWork
  <2>3. PICK wav : wav = X!File(e, "wav", X!Name(e, part.tracks))
    OBVIOUS
  <2>4. X!Keep(e, part.tracks, part.of, disk \ {wav})
    BY <1>2, <2>1, <2>2, <2>3, Zenon DEF X!Encode
  <2>5. /\ ComesNext(w, part.tracks) /\ part.of <= Len(project) /\ (w.overtaken \/ part.of = w.loaded)
        /\ w.named => part.tracks \subseteq X!TracksAt(part.of)
        /\ now = Archive(e, w) \cup {wav}
    <3>1. Label(w, part.tracks) = X!Name(e, part.tracks)
      BY <2>1 DEF Label, X!Name
    <3>2. QED
      BY <1>1, <2>1, <2>2, <2>3, <3>1 DEF AtWork
  <2>6. part.of \in 0..Len(project)
    BY <2>2, <2>5 DEF Opened, ExportInv, ExportTypes
  <2>7. FilesOf(e) \ {wav} = Archive(e, w)
    <3>1. wav \notin Archive(e, w)
      BY <2>3 DEF Archive, ProductOf, X!File
    <3>2. QED
      BY <2>1, <2>5, <3>1
  <2>8. (\A f \in {wav} : f.of = e) /\ w.at \in {"rendering", "encoding"}
    BY <1>1, <2>1, <2>3 DEF X!File
  <2>9. PICK tracks : tracks = part.tracks
    OBVIOUS
  <2>10. PICK shown \in 0..Len(project) : shown = part.of
    BY <2>6
  <2>11. X!Keep(e, tracks, shown, disk \ {wav})
    BY <2>4, <2>9, <2>10, Zenon
  <2>12. ComesNext(w, tracks) /\ (w.overtaken \/ shown = w.loaded) /\ (w.named => tracks \subseteq X!TracksAt(shown))
    BY <2>5, <2>9, <2>10
  <2>13. QED
    BY <1>1, <2>1, <2>7, <2>8, <2>11, <2>12, KeepKeeps
<1>3. CASE ~succeeds
  <2>1. export' = [export EXCEPT ![e] = X!Failed] /\ UNCHANGED disk /\ export[e].at \notin Ends
    BY <1>1, <1>3 DEF X!Encode, Ends
  <2>2. QED
    BY <1>1, <2>1, ExportFails
<1>4. QED
  BY <1>2, <1>3

\* The host has what was loaded: the export begins to render, with its archive opened.
RenderingOf(w, tracks, named) ==
    [w EXCEPT !.at = "rendering", !.tracks = tracks, !.left = tracks, !.named = named]
LEMMA RenderingIs ==
  ASSUME NEW w \in Exporting, NEW tracks \in SUBSET Numbers, NEW named \in BOOLEAN
  PROVE  LET y == RenderingOf(w, tracks, named) IN
         /\ y \in Exporting /\ y.at = "rendering" /\ y.mode = w.mode /\ y.format = w.format /\ y.of = w.of
         /\ y.loaded = w.loaded /\ y.tracks = tracks /\ y.named = named /\ y.left = tracks
         /\ y.parts = w.parts /\ y.overtaken = w.overtaken
  BY DEF Exporting, RenderingOf, Begins

LEMMA SyncedKeeps ==
  ASSUME X!ExportAssumption, ExportInv, \A f \in Exports : export[f].at # "noting", NEW e \in Exports, X!Synced(e)
  PROVE  ExportInv'
<1>1. export[e].at = "syncing" /\ UNCHANGED <<project, contexts, latest, finished>> /\ export[e].at \notin Ends
  BY DEF X!Synced, Ends
<1>2. ExportTypes /\ ExportsFit /\ Len(project) \in Nat
  BY DEF ExportInv, ExportTypes
<1>3. PICK w \in Exporting : w = export[e]
  BY <1>1, <1>2, BegunIs DEF ExportTypes, States, Begins
<1>4. /\ w.format \in {"wav", "flac"} /\ w.parts = {} /\ ~w.overtaken /\ w.loaded \in 1..Len(project)
      /\ FilesOf(e) = {} /\ w.asked \subseteq Numbers
  BY <1>1, <1>2, <1>3, ExportingFields DEF ExportsFit, ExportFits
<1>5. PICK tracks \in SUBSET Numbers : tracks = X!Chosen(export[e].asked, export[e].selected, X!TracksAt(X!Saved))
  BY <1>2, SavedIs, ChosenIs
<1>6. CASE host = None
  <2>1. export' = [export EXCEPT ![e] = X!Failed] /\ UNCHANGED <<host, disk>>
    BY <1>6 DEF X!Synced
  <2>2. QED
    BY <1>1, <2>1, ExportFails
<1>7. CASE host # None
  <2>1. host' = w.loaded /\ host' \in 0..Len(project)
    BY <1>3, <1>4, <1>7 DEF X!Synced, X!Take
  <2>2. CASE ~X!Exportable(tracks)
    <3>1. export' = [X!Overtaken EXCEPT ![e] = X!Failed] /\ UNCHANGED disk
      BY <1>5, <1>7, <2>2, Zenon DEF X!Synced
    <3>2. QED
      BY <1>1, <2>1, <3>1, ExportFails
  <2>3. CASE X!Exportable(tracks)
    <3>1. PICK named \in BOOLEAN : named = (tracks # X!TracksAt(X!Saved) \/ export[e].asked # {})
      OBVIOUS
    <3>2. PICK y : /\ y = RenderingOf(w, tracks, named)
         /\ y \in Exporting /\ y.at = "rendering" /\ y.mode = w.mode /\ y.format = w.format /\ y.of = w.of
         /\ y.loaded = w.loaded /\ y.tracks = tracks /\ y.named = named /\ y.left = tracks
         /\ y.parts = w.parts /\ y.overtaken = w.overtaken
      BY RenderingIs
    <3>3. PICK come : come = IF export[e].mode = "stems" THEN {X!Product(e)} ELSE {}
      OBVIOUS
    <3>4. /\ X!Overtaken \in [Exports -> States] /\ X!Overtaken[e] = export[e]
          /\ \A f \in Exports : X!Overtaken[f] = OverBy(export[f])
      BY <1>1, <1>2, OvertakenAre DEF OverBy
    <3>5. export' = [X!Overtaken EXCEPT ![e] = y] /\ disk' = disk \cup come
      <4>1. /\ export' = [X!Overtaken EXCEPT ![e] = [X!Overtaken[e] EXCEPT !.at = "rendering",
                                !.tracks = tracks, !.left = tracks,
                                !.named = tracks # X!TracksAt(X!Saved) \/ export[e].asked # {}]]
            /\ disk' = disk \cup (IF export[e].mode = "stems" THEN {X!Product(e)} ELSE {})
        BY <1>5, <1>7, <2>3, Zenon DEF X!Synced
      <4>2. y = [X!Overtaken[e] EXCEPT !.at = "rendering",
                                !.tracks = tracks, !.left = tracks, !.named = named]
        BY <1>3, <3>2, <3>4, Zenon DEF RenderingOf
      <4>3. QED
        BY <3>1, <3>3, <4>1, <4>2
    <3>6. PICK has : has = (FilesOf(e) \ {}) \cup come
      OBVIOUS
    <3>7. has = Archive(e, y) /\ \A f \in come : f.of = e
      BY <1>3, <1>4, <3>2, <3>3, <3>6 DEF Archive, ProductOf, X!Product, X!File
    <3>8. PartsFit(y)'
      BY <1>4, <3>2 DEF PartsFit
    <3>9. AtWork(e, y, has)'
      BY <1>4, <2>1, <3>2, <3>7, <3>8 DEF AtWork
    <3>10. ExportFits(e, y, has)'
      BY <3>2, <3>9 DEF ExportFits, Ends
    <3>11. PICK all \in [Exports -> States] :
              all = export' /\ all[e] = y /\ \A f \in Exports \ {e} : all[f] = OverBy(export[f])
      BY <3>2, <3>4, <3>5 DEF States
    <3>12. contexts' \in [Instances -> [tracks : SUBSET Numbers, age : Nat] \cup {None}] /\ X!ContextsAreFew'
      BY <1>1 DEF ExportInv, ExportTypes, X!ContextsAreFew
    <3>13. (\A f \in {} \cup come : f.of = e) /\ disk' = (disk \ {}) \cup come
      BY <3>5, <3>7
    <3>14. ExportFits(e, all[e], has)' /\ all[e].at # "noting"
      BY <3>2, <3>10, <3>11
    <3>15. QED
      BY <1>1, <2>1, <3>6, <3>11, <3>12, <3>13, <3>14, OneGoesOn
  <2>4. QED
    BY <2>2, <2>3
<1>8. QED
  BY <1>6, <1>7

\* An export is noted for all instances, then for its own.
LEMMA NoteGlobalKeeps ==
  ASSUME X!ExportAssumption, ExportInv, NEW e \in Exports, X!NoteGlobal(e)
  PROVE  ExportInv'
<1>1. /\ export[e].at = "noting" /\ latest' = [latest EXCEPT ![Global] = e] /\ finished' = Append(finished, e)
      /\ UNCHANGED <<project, bound, host, syncs, contexts, export, disk>>
  BY DEF X!NoteGlobal
<1>2. ExportTypes /\ ExportsFit /\ NotesHold /\ X!ContextsAreFew /\ finished \in Seq(Exports) /\ Global \notin Instances
  BY DEF ExportInv, ExportTypes, X!ExportAssumption
<1>3. /\ finished' \in Seq(Exports) /\ Len(finished') = Len(finished) + 1 /\ finished' # <<>>
      /\ Len(finished) \in Nat /\ DOMAIN finished' = 1..(Len(finished) + 1) /\ DOMAIN finished = 1..Len(finished)
      /\ finished'[Len(finished) + 1] = e /\ \A k \in DOMAIN finished : finished'[k] = finished[k]
  BY <1>1, <1>2
<1>4. latest' \in [Instances \cup {Global} -> Exports \cup {None}] /\ latest'[Global] = e
      /\ \A i \in Instances : latest'[i] = latest[i]
  BY <1>1, <1>2 DEF ExportTypes
<1>5. ExportTypes'
  BY <1>1, <1>2, <1>3, <1>4 DEF ExportTypes
<1>6. ExportsFit'
  <2>1. ASSUME NEW f \in Exports PROVE ExportFits(f, export[f], FilesOf(f))'
    <3>1. PICK w, has : w \in States /\ w = export[f] /\ has = FilesOf(f) /\ ExportFits(f, w, has)
      BY <1>2 DEF ExportTypes, States, ExportsFit
    <3>2. w = export'[f] /\ has = FilesOf(f)'
      BY <1>1, <3>1 DEF FilesOf
    <3>3. ExportFits(f, w, has)'
      BY <1>1, <1>2, <3>1, GrownBySame, FitsStay
    <3>4. QED
      BY <3>2, <3>3
  <2>2. QED
    BY <2>1 DEF ExportsFit
<1>7. NotesHold'
  <2>1. \A k \in DOMAIN finished' : export'[finished'[k]].at \in Ends
    BY <1>1, <1>2, <1>3 DEF NotesHold, Ends
  <2>2. \A i : X!Mine(i)' = X!Mine(i)
    BY <1>1, <1>3 DEF X!Mine
  <2>3. \A i \in Instances : X!Mine(i) \subseteq DOMAIN finished
    BY DEF X!Mine
  <2>4. \A i \in Instances :
            \/ X!Mine(i) = {} /\ latest[i] = None
            \/ \E k \in X!Mine(i) : latest[i] = finished[k] /\ \A j \in X!Mine(i) : j <= k
    BY <1>2 DEF NotesHold
  <2>5. \A i \in Instances :
            \/ X!Mine(i)' = {} /\ latest'[i] = None
            \/ \E k \in X!Mine(i)' : latest'[i] = finished'[k] /\ \A j \in X!Mine(i)' : j <= k
    BY <1>3, <1>4, <2>2, <2>3, <2>4
  <2>6. latest'[Global] = IF finished' = <<>> THEN None ELSE finished'[Len(finished')]
    BY <1>3, <1>4
  <2>7. /\ \A d, f \in Exports : export'[d].at = "noting" /\ export'[f].at = "noting" => d = f
        /\ \A f \in Exports : export'[f].at = "noting" => export'[f].of \in Instances
    BY <1>1, <1>2 DEF NotesHold
  <2>8. QED
    BY <2>1, <2>5, <2>6, <2>7 DEF NotesHold
<1>8. X!ContextsAreFew'
  BY <1>1, <1>2 DEF X!ContextsAreFew
<1>9. QED
  BY <1>5, <1>6, <1>7, <1>8 DEF ExportInv

EndedAs(w, stage) == [w EXCEPT !.at = stage]
LEMMA EndedIs ==
  ASSUME NEW w \in Exporting, NEW stage \in Begins
  PROVE  LET y == EndedAs(w, stage) IN
         /\ y \in Exporting /\ y.at = stage /\ y.mode = w.mode /\ y.format = w.format /\ y.of = w.of
         /\ y.loaded = w.loaded /\ y.tracks = w.tracks /\ y.named = w.named /\ y.left = w.left
         /\ y.parts = w.parts /\ y.overtaken = w.overtaken
  BY DEF Exporting, EndedAs

LEMMA EndStays ==
  ASSUME NEW e, NEW w \in Exporting, w.at \in Ends, NEW has, ExportFits(e, w, has), NEW stage \in Ends
  PROVE  /\ EndedAs(w, stage) \in Exporting /\ EndedAs(w, stage).at = stage /\ EndedAs(w, stage).of = w.of
         /\ ExportFits(e, EndedAs(w, stage), has)
<1>1. PICK y : /\ y = EndedAs(w, stage)
         /\ y \in Exporting /\ y.at = stage /\ y.mode = w.mode /\ y.format = w.format /\ y.of = w.of
         /\ y.loaded = w.loaded /\ y.tracks = w.tracks /\ y.named = w.named /\ y.left = w.left
         /\ y.parts = w.parts /\ y.overtaken = w.overtaken
  <2>1. stage \in Begins
    BY DEF Begins
  <2>2. QED
    BY <2>1, EndedIs
<1>2. Over(e, w, has)
  BY DEF ExportFits
<1>3. PartsFit(y) /\ ProductOf(e, y) = ProductOf(e, w)
  BY <1>1, <1>2 DEF Over, PartsFit, ProductOf
<1>4. Over(e, y, has)
  BY <1>1, <1>2, <1>3 DEF Over
<1>5. ExportFits(e, y, has)
  BY <1>1, <1>4 DEF ExportFits, Ends
<1>6. QED
  BY <1>1, <1>5

LEMMA NoteOwnKeeps ==
  ASSUME X!ExportAssumption, ExportInv, NEW e \in Exports, X!NoteOwn(e)
  PROVE  ExportInv'
<1>1. /\ export[e].at = "noting" /\ latest[Global] = e
      /\ UNCHANGED <<project, bound, host, syncs, contexts, disk, finished>>
  BY DEF X!NoteOwn
<1>2. ExportTypes /\ ExportsFit /\ NotesHold /\ X!ContextsAreFew /\ finished \in Seq(Exports) /\ Global \notin Instances
      /\ None \notin Exports
  BY DEF ExportInv, ExportTypes, X!ExportAssumption
<1>3. PICK w, now : w \in Exporting /\ w = export[e] /\ now = FilesOf(e) /\ ExportFits(e, w, now)
  BY <1>1, <1>2, BegunIs DEF ExportTypes, States, ExportsFit, Begins, Ends
<1>4. PICK of \in Instances : of = w.of
  BY <1>1, <1>2, <1>3 DEF NotesHold
<1>5. PICK y \in Exporting : y = EndedAs(w, "done") /\ y.at = "done" /\ y.of = of /\ ExportFits(e, y, now)
  BY <1>1, <1>3, <1>4, EndStays DEF Ends
<1>6. export' = [export EXCEPT ![e] = y] /\ latest' = [latest EXCEPT ![of] = e]
  <2>1. /\ export' = [export EXCEPT ![e] = [export[e] EXCEPT !.at = "done"]]
        /\ latest' = [latest EXCEPT ![export[e].of] = e]
    BY Zenon DEF X!NoteOwn
  <2>2. y = [export[e] EXCEPT !.at = "done"]
    BY <1>3, <1>5, Zenon DEF EndedAs
  <2>3. QED
    BY <1>3, <1>4, <2>1, <2>2, Zenon
<1>7. PICK all \in [Exports -> States] : all = export' /\ all[e] = y /\ \A f \in Exports \ {e} : all[f] = export[f]
  <2>1. y \in States /\ export \in [Exports -> States]
    BY <1>2, <1>5 DEF ExportTypes, States
  <2>2. QED
    BY <1>6, <2>1
<1>8. /\ latest' \in [Instances \cup {Global} -> Exports \cup {None}] /\ latest'[Global] = latest[Global]
      /\ latest'[of] = e /\ \A i \in Instances \ {of} : latest'[i] = latest[i]
  BY <1>2, <1>4, <1>6 DEF ExportTypes
<1>9. ExportTypes'
  BY <1>1, <1>2, <1>7, <1>8 DEF ExportTypes, States
<1>10. ExportsFit'
  <2>1. ASSUME NEW f \in Exports PROVE ExportFits(f, export[f], FilesOf(f))'
    <3>1. PICK v, has : v \in States /\ v = all[f] /\ has = FilesOf(f) /\ ExportFits(f, v, has)
      BY <1>2, <1>3, <1>5, <1>7 DEF ExportsFit
    <3>2. v = export'[f] /\ has = FilesOf(f)'
      BY <1>1, <1>7, <3>1 DEF FilesOf
    <3>3. ExportFits(f, v, has)'
      BY <1>1, <1>2, <3>1, GrownBySame, FitsStay
    <3>4. QED
      BY <3>2, <3>3
  <2>2. QED
    BY <2>1 DEF ExportsFit
<1>11. NotesHold'
  <2>1. \A k \in DOMAIN finished' : export'[finished'[k]].at \in Ends
    BY <1>1, <1>2, <1>5, <1>7 DEF NotesHold, Ends
  <2>2. finished # <<>> /\ finished[Len(finished)] = e /\ Len(finished) \in DOMAIN finished
        /\ DOMAIN finished = 1..Len(finished) /\ Len(finished) \in Nat
    BY <1>1, <1>2 DEF NotesHold
  <2>3. X!Mine(of)' \subseteq 1..Len(finished) /\ Len(finished) \in X!Mine(of)'
    BY <1>1, <1>5, <1>7, <2>2 DEF X!Mine
  <2>4. \A j \in X!Mine(of)' : j <= Len(finished)
    BY <2>2, <2>3
  <2>5. \A k \in DOMAIN finished : finished[k] \in Exports
    BY <1>2
  <2>6. \A i \in Instances \ {of} : X!Mine(i)' = X!Mine(i)
    BY <1>1, <1>5, <1>7, <2>5 DEF X!Mine
  <2>7. \A i \in Instances :
            \/ X!Mine(i) = {} /\ latest[i] = None
            \/ \E k \in X!Mine(i) : latest[i] = finished[k] /\ \A j \in X!Mine(i) : j <= k
    BY <1>2 DEF NotesHold
  <2>8. \A i \in Instances :
            \/ X!Mine(i)' = {} /\ latest'[i] = None
            \/ \E k \in X!Mine(i)' : latest'[i] = finished'[k] /\ \A j \in X!Mine(i)' : j <= k
    BY <1>1, <1>8, <2>2, <2>3, <2>4, <2>6, <2>7
  <2>9. latest'[Global] = IF finished' = <<>> THEN None ELSE finished'[Len(finished')]
    BY <1>1, <1>2, <1>8 DEF NotesHold
  <2>10. /\ \A d, f \in Exports : export'[d].at = "noting" /\ export'[f].at = "noting" => d = f
         /\ \A f \in Exports : export'[f].at = "noting" => export'[f].of \in Instances
    BY <1>2, <1>5, <1>7 DEF NotesHold
  <2>11. QED
    BY <2>1, <2>8, <2>9, <2>10 DEF NotesHold
<1>12. X!ContextsAreFew'
  BY <1>1, <1>2 DEF X!ContextsAreFew
<1>13. QED
  BY <1>9, <1>10, <1>11, <1>12 DEF ExportInv

LEMMA CrashKeeps ==
  ASSUME X!ExportAssumption, ExportInv, X!Crash
  PROVE  ExportInv'
<1>1. /\ contexts' = [i \in Instances |-> None] /\ host' = None
      /\ UNCHANGED <<project, disk, latest, finished>>
      /\ export' = [e \in Exports |->
            IF export[e].at = "noting" THEN [export[e] EXCEPT !.at = "cut"]
            ELSE IF X!Unfinished(e) THEN X!Failed ELSE export[e]]
  BY DEF X!Crash
<1>2. ExportTypes /\ ExportsFit /\ NotesHold /\ X!ContextsAreFew /\ Len(project) \in Nat
  BY DEF ExportInv, ExportTypes
<1>3. \A e \in Exports : export'[e] = IF export[e].at = "noting" THEN EndedAs(export[e], "cut")
                                      ELSE IF X!Unfinished(e) THEN X!Failed ELSE export[e]
  BY <1>1, Zenon DEF EndedAs
<1>4. PICK all : all = export' /\ DOMAIN all = Exports /\ all = [e \in Exports |-> all[e]]
  BY <1>1
<1>5. ASSUME NEW e \in Exports
      PROVE  /\ all[e] \in States /\ ExportFits(e, all[e], FilesOf(e))' /\ all[e].at # "noting"
             /\ export[e].at \in Ends =>
                   all[e].at \in Ends /\ (all[e].at = "done" <=> export[e].at = "done") /\ all[e].of = export[e].of
  <2>1. PICK w, has : w \in States /\ w = export[e] /\ has = FilesOf(e) /\ has = FilesOf(e)' /\ ExportFits(e, w, has)
    BY <1>1, <1>2 DEF ExportTypes, States, ExportsFit, FilesOf
  <2>2. PICK y : y = all[e]
    OBVIOUS
  <2>3. /\ y \in States /\ ExportFits(e, y, has) /\ y.at # "noting"
        /\ w.at \in Ends => y.at \in Ends /\ (y.at = "done" <=> w.at = "done") /\ y.of = w.of
    <3>1. CASE w.at = "noting"
      <4>1. w \in Exporting
        BY <2>1, <3>1, BegunIs DEF Begins, Ends
      <4>2. y = EndedAs(w, "cut")
        BY <1>3, <1>4, <2>1, <2>2, <3>1
      <4>3. y \in Exporting /\ y.at = "cut" /\ y.of = w.of /\ ExportFits(e, y, has)
        BY <2>1, <3>1, <4>1, <4>2, EndStays DEF Ends
      <4>4. QED
        BY <3>1, <4>3 DEF States, Ends
    <3>2. CASE w.at # "noting" /\ X!Unfinished(e)
      <4>1. y = X!Failed
        BY <1>3, <1>4, <2>1, <2>2, <3>2
      <4>2. w.at \notin Ends
        BY <2>1, <3>2 DEF X!Unfinished, Ends
      <4>3. QED
        BY <4>1, <4>2, NotBegun DEF States
    <3>3. CASE w.at # "noting" /\ ~X!Unfinished(e)
      <4>1. y = w
        BY <1>3, <1>4, <2>1, <2>2, <3>3
      <4>2. QED
        BY <2>1, <3>3, <4>1
    <3>4. QED
      BY <3>1, <3>2, <3>3
  <2>4. ExportFits(e, y, has)'
    BY <1>1, <1>2, <2>3, GrownBySame, FitsStay
  <2>5. QED
    BY <2>1, <2>2, <2>3, <2>4
<1>6. all \in [Exports -> States]
  BY <1>4, <1>5
<1>7. ExportTypes'
  BY <1>1, <1>2, <1>4, <1>6 DEF ExportTypes, States
<1>8. ExportsFit'
  BY <1>4, <1>5 DEF ExportsFit
<1>9. NotesHold'
  BY <1>1, <1>2, <1>4, <1>5, <1>6, NotesStay
<1>10. X!ContextsAreFew'
  <2>1. PICK new : new = contexts' /\ \A i \in Instances : new[i] = None
    BY <1>1
  <2>2. QED
    BY <1>2, <2>1, FewerStay
<1>11. QED
  BY <1>7, <1>8, <1>9, <1>10 DEF ExportInv

\* The first state, and every step.
LEMMA ExportStarts ==
  ASSUME X!ExportAssumption, X!Init
  PROVE  ExportInv
<1>1. /\ project = <<Numbers>> /\ host = 0 /\ contexts = [i \in Instances |-> None]
      /\ export = [e \in Exports |-> Unasked] /\ disk = {}
      /\ latest = [n \in Instances \cup {Global} |-> None] /\ finished = <<>>
  BY DEF X!Init, Unasked
<1>2. ExportTypes
  BY <1>1 DEF ExportTypes
<1>3. ExportsFit
  <2>1. \A e : FilesOf(e) = {}
    BY <1>1 DEF FilesOf
  <2>2. QED
    BY <1>1, <2>1, NotBegun DEF ExportsFit
<1>4. NotesHold
  <2>1. \A e \in Exports : export[e].at = "unasked"
    BY <1>1, NotBegun
  <2>2. DOMAIN finished = {} /\ \A i : X!Mine(i) = {}
    BY <1>1 DEF X!Mine
  <2>3. \A n \in Instances \cup {Global} : latest[n] = None
    BY <1>1
  <2>4. QED
    BY <1>1, <2>1, <2>2, <2>3 DEF NotesHold
<1>5. X!ContextsAreFew
  <2>1. KeptOf(contexts) = {}
    BY <1>1 DEF KeptOf
  <2>2. Cardinality({}) = 0
    BY FS_EmptySet
  <2>3. QED
    BY <2>1, <2>2, CountsAre
<1>6. QED
  BY <1>2, <1>3, <1>4, <1>5 DEF ExportInv

LEMMA ExportStutters ==
  ASSUME ExportInv, UNCHANGED X!vars
  PROVE  ExportInv'
<1>1. UNCHANGED <<project, host, contexts, export, disk, latest, finished>>
  BY DEF X!vars
<1>2. ExportTypes' /\ NotesHold' /\ X!ContextsAreFew'
  BY <1>1 DEF ExportInv, ExportTypes, NotesHold, X!Mine, X!ContextsAreFew
<1>3. contexts' \in [Instances -> Kept \cup {None}]
  BY <1>1 DEF ExportInv, ExportTypes, Kept
<1>4. QED
  BY <1>1, <1>2, <1>3, SelectionsMove

LEMMA ExportKept ==
  ASSUME X!ExportAssumption, ExportInv, [X!Next]_(X!vars)
  PROVE  ExportInv'
<1>1. CASE UNCHANGED X!vars
  BY <1>1, ExportStutters
<1>2. CASE X!Crash
  BY <1>2, CrashKeeps
<1>3. CASE \E e \in Exports : X!NoteGlobal(e) \/ X!NoteOwn(e)
  BY <1>3, NoteGlobalKeeps, NoteOwnKeeps
<1>4. CASE \A f \in Exports : export[f].at # "noting"
  <2>1. CASE \E tracks \in SUBSET Numbers : X!Edit(tracks)
    BY <2>1, EditKeeps
  <2>2. CASE X!HostStops \/ X!HostStarts \/ \E n \in 1..X!Saved : X!SyncElsewhere(n)
    BY <2>2, HostKeeps
  <2>3. CASE X!Tick \/ \E i \in Instances, t \in Numbers : X!Record(i, {t})
    BY <2>3, SelectionsKeep
  <2>4. CASE \E e \in Exports, of \in Instances \cup {None}, asked \in SUBSET Numbers, format \in Formats :
                 X!Write(e, format, of, asked)
    BY <1>4, <2>4, WriteKeeps
  <2>5. CASE \E e \in Exports, of \in Instances \cup {None}, asked \in SUBSET Numbers, mode \in Modes, format \in Formats :
                 X!Begin(e, mode, format, of, asked)
    BY <1>4, <2>5, AskKeeps
  <2>6. CASE \E e \in Exports : X!Synced(e)
    BY <1>4, <2>6, SyncedKeeps
  <2>7. CASE \E e \in Exports, tracks \in SUBSET Numbers : X!Render(e, tracks)
    BY <1>4, <2>7, RenderKeeps
  <2>8. CASE \E e \in Exports, succeeds \in BOOLEAN : X!Encode(e, succeeds)
    BY <1>4, <2>8, EncodeKeeps
  <2>9. {{}} \cup {{t} : t \in Numbers} \subseteq SUBSET Numbers
    OBVIOUS
  <2>10. \/ \E tracks \in SUBSET Numbers : X!Edit(tracks)
         \/ X!HostStops \/ X!HostStarts \/ \E n \in 1..X!Saved : X!SyncElsewhere(n)
         \/ X!Tick \/ \E i \in Instances, t \in Numbers : X!Record(i, {t})
         \/ \E e \in Exports, of \in Instances \cup {None}, asked \in {{}} \cup {{t} : t \in Numbers} :
                \/ \E format \in Formats : X!Write(e, format, of, asked)
                \/ \E mode \in Modes, format \in Formats : X!Begin(e, mode, format, of, asked)
         \/ \E e \in Exports : X!Synced(e)
         \/ \E e \in Exports, tracks \in SUBSET Numbers : X!Render(e, tracks)
         \/ \E e \in Exports, succeeds \in BOOLEAN : X!Encode(e, succeeds)
         \/ X!Crash \/ UNCHANGED X!vars
    BY <1>4, Zenon DEF X!Next
  <2>11. CASE \E e \in Exports, of \in Instances \cup {None}, asked \in {{}} \cup {{t} : t \in Numbers} :
                \/ \E format \in Formats : X!Write(e, format, of, asked)
                \/ \E mode \in Modes, format \in Formats : X!Begin(e, mode, format, of, asked)
    <3>1. \E e \in Exports, of \in Instances \cup {None}, asked \in SUBSET Numbers :
                \/ \E format \in Formats : X!Write(e, format, of, asked)
                \/ \E mode \in Modes, format \in Formats : X!Begin(e, mode, format, of, asked)
      BY <2>9, <2>11, Zenon
    <3>2. QED
      BY <2>4, <2>5, <3>1, Zenon
  <2>12. QED
    BY <1>1, <1>2, <2>1, <2>2, <2>3, <2>6, <2>7, <2>8, <2>10, <2>11, Zenon
<1>5. QED
  BY <1>1, <1>2, <1>3, <1>4, Zenon DEF X!Next

\* What the invariant says of what is finished.
LEMMA AsManyParts ==
  ASSUME NEW parts, NEW tracks, IsFiniteSet(tracks), {p.track : p \in parts} = tracks,
         \A p, q \in parts : p.track = q.track => p = q
  PROVE  Cardinality(parts) = Cardinality(tracks)
<1> DEFINE f == [t \in tracks |-> CHOOSE p \in parts : p.track = t]
<1>1. ASSUME NEW t \in tracks PROVE f[t] \in parts /\ f[t].track = t
  <2>1. \E p \in parts : p.track = t
    OBVIOUS
  <2>2. QED
    BY <2>1
<1>2. f \in [tracks -> parts]
  BY <1>1
<1>3. \A t, u \in tracks : f[t] = f[u] => t = u
  BY <1>1
<1>4. \A p \in parts : \E t \in tracks : f[t] = p
  <2>1. \A p \in parts : p.track \in tracks
    OBVIOUS
  <2>2. QED
    BY <1>1, <2>1
<1> HIDE DEF f
<1>5. f \in Bijection(tracks, parts)
  BY <1>2, <1>3, <1>4 DEF Bijection, Injection, Surjection, IsInjective
<1>6. ExistsBijection(tracks, parts)
  BY <1>5 DEF ExistsBijection
<1>7. QED
  BY <1>6, FS_Bijection

LEMMA EndedAre ==
  ASSUME ExportInv, NEW e \in Exports, export[e].at \in Ends
  PROVE  /\ export[e] \in Exporting /\ Over(e, export[e], FilesOf(e)) /\ ProductOf(e, export[e]) = X!Product(e)
         /\ X!Product(e) \in disk
<1>1. export[e] \in Exporting /\ Over(e, export[e], FilesOf(e))
  BY BegunIs DEF ExportInv, ExportTypes, ExportsFit, ExportFits, States, Begins
<1>2. ProductOf(e, export[e]) = X!Product(e)
  BY DEF ProductOf, X!Product
<1>3. QED
  BY <1>1, <1>2 DEF Over, FilesOf

LEMMA ExportInvSuffices ==
  ASSUME X!ExportAssumption, ExportInv
  PROVE  X!ExportsHold
<1>1. ASSUME NEW e \in Exports, X!Done(e)
      PROVE  /\ export[e] \in Exporting /\ Over(e, export[e], FilesOf(e)) /\ PartsFit(export[e])
             /\ export[e].left = {} /\ ProductOf(e, export[e]) = X!Product(e)
  BY <1>1, EndedAre DEF X!Done, Ends, Over
<1>2. X!ExportsAreWhole
  <2>1. ASSUME NEW e \in Exports, X!Done(e)
        PROVE  /\ {p.track : p \in export[e].parts} = export[e].tracks
               /\ X!Cardinality(export[e].parts) = X!Cardinality(export[e].tracks)
               /\ {f \in disk : f.of = e /\ f.kind # "manifest"} = {X!Product(e)}
    <3>1. /\ {p.track : p \in export[e].parts} = export[e].tracks /\ export[e].tracks \subseteq Numbers
          /\ \A p, q \in export[e].parts : p.track = q.track => p = q
      BY <1>1, <2>1, ExportingFields DEF PartsFit
    <3>2. IsFiniteSet(export[e].tracks)
      <4>1. IsFiniteSet(Numbers)
        BY DEF X!ExportAssumption, X!IsFiniteSet, IsFiniteSet
      <4>2. QED
        BY <3>1, <4>1, FS_Subset
    <3>3. Cardinality(export[e].parts) = Cardinality(export[e].tracks)
      BY <3>1, <3>2, AsManyParts
    <3>4. \A S : X!Cardinality(S) = Cardinality(S)
      BY DEF X!Cardinality, Cardinality
    <3>5. {f \in disk : f.of = e /\ f.kind # "manifest"} = {f \in FilesOf(e) : f.kind # "manifest"}
      BY DEF FilesOf
    <3>6. {f \in FilesOf(e) : f.kind # "manifest"} = {X!Product(e)}
      BY <1>1, <2>1 DEF Over
    <3>7. QED
      BY <3>1, <3>3, <3>4, <3>5, <3>6
  <2>2. QED
    BY <2>1 DEF X!ExportsAreWhole
<1>3. X!ExportsShowTheProject /\ X!NamedTracksAreThere
  BY <1>1 DEF X!ExportsShowTheProject, X!NamedTracksAreThere, PartsFit
<1>4. X!LatestIsOwn
  <2>1. NotesHold /\ finished \in Seq(Exports) /\ None \notin Exports
    BY DEF ExportInv, ExportTypes, X!ExportAssumption
  <2>2. \A k \in DOMAIN finished : finished[k] \in Exports /\ X!Product(finished[k]) \in disk
    BY <2>1, EndedAre DEF NotesHold
  <2>3. \A n : (latest[n] = None => X!Latest(n) = None)
               /\ \A k \in DOMAIN finished : latest[n] = finished[k] => X!Latest(n) = finished[k]
    BY <2>1, <2>2 DEF X!Latest
  <2>4. \A i \in Instances : X!Mine(i) \subseteq DOMAIN finished
    BY DEF X!Mine
  <2>5. \A i \in Instances :
            \/ X!Mine(i) = {} /\ X!Latest(i) = None
            \/ \E k \in X!Mine(i) : X!Latest(i) = finished[k] /\ \A j \in X!Mine(i) : j <= k
    BY <2>1, <2>3, <2>4 DEF NotesHold
  <2>6. X!Latest(Global) = IF finished = <<>> THEN None ELSE finished[Len(finished)]
    <3>1. latest[Global] = IF finished = <<>> THEN None ELSE finished[Len(finished)]
      BY <2>1 DEF NotesHold
    <3>2. finished # <<>> => Len(finished) \in DOMAIN finished
      BY <2>1
    <3>3. QED
      BY <2>3, <3>1, <3>2
  <2>7. QED
    BY <2>5, <2>6 DEF X!LatestIsOwn
<1>5. QED
  BY <1>2, <1>3, <1>4 DEF X!ExportsHold, ExportInv

\* The inductive invariant of the exports: what is rendered so far fits what is left, and
\* every export that is over is there as one file (music.py, _perform_stems_export).
THEOREM ExportInvariantHolds == X!ExportAssumption /\ X!Spec => []ExportInv
<1> SUFFICES ASSUME X!ExportAssumption PROVE X!Spec => []ExportInv
  OBVIOUS
<1>1. X!Init => ExportInv
  BY ExportStarts
<1>2. ExportInv /\ [X!Next]_(X!vars) => ExportInv'
  BY ExportKept
<1>3. QED
  BY <1>1, <1>2, PTL DEF X!Spec

\* An export is whole, shows the project it was asked of, and is found by its instance,
\* whatever is edited, synced, selected, restarted or exported in between (music.py,
\* _perform_mixdown_export, _perform_stems_export, _remember_bridge_export).
THEOREM ExportsStayWhole == X!ExportAssumption /\ X!Spec => []X!ExportsHold
<1> SUFFICES ASSUME X!ExportAssumption PROVE X!Spec => []X!ExportsHold
  OBVIOUS
<1>1. ExportInv => X!ExportsHold
  BY ExportInvSuffices
<1>2. X!Spec => []ExportInv
  BY ExportInvariantHolds
<1>3. QED
  BY <1>1, <1>2, PTL
=============================================================================

------------------------------ MODULE MidiTimeline ------------------------------
(***************************************************************************)
(* Notes and controller events of a studio project (core/music: the        *)
(* operations of midi_operations.py and clip_operations.py).  They are     *)
(* kept in clips, at beats that count from the start of the clip; most     *)
(* operations name beats of the project.  A note lasts one beat, the       *)
(* events are those of one controller, curves are level.                   *)
(***************************************************************************)
EXTENDS Integers, FiniteSetsExt, SequencesExt

CONSTANTS Tracks,
          Values,    \* velocities of notes, values of the controller
          MaxBeat, MaxClips, MaxContent, \* bounds: beats, clips, notes and events of a clip
          HasNotes, HasEvents            \* what a behaviour is about

Beats == 0..MaxBeat
ClipIds == 1..MaxClips

VARIABLE clips \* of all tracks, in order: _normalize_clips sorts them by their start

Note == [start : Beats, value : Values]

----------------------------------------------------------------------------
Clip(id, t, start, dur, notes, events) ==
    [id |-> id, track |-> t, start |-> start, dur |-> dur, notes |-> notes, events |-> events]

\* Fault: a clip keeps the length it was given.
CoverAsGiven(c) == Max({1, c.dur})
\* _update_midi_clip_duration, _normalize_clip: a clip reaches to the end of what is in it.
CoverOf(c) ==
    Max({1, c.dur} \cup {n.start + 1 : n \in c.notes} \cup {e.start : e \in c.events})
Covered(c) == [c EXCEPT !.dur = CoverOf(c)]

InsertByStart(list, c) ==
    LET k == Cardinality({i \in DOMAIN list : list[i].start <= c.start})
    IN  SubSeq(list, 1, k) \o <<Covered(c)>> \o SubSeq(list, k + 1, Len(list))
Normalized(list) == FoldLeft(InsertByStart, <<>>, list)

OnTrack(t) == {i \in DOMAIN clips : clips[i].track = t}
End(c) == c.start + c.dur
ContainsBeat(c, b) == b \in c.start..End(c)

UsedIds == {clips[i].id : i \in DOMAIN clips}
FreeIds == ClipIds \ UsedIds

\* _ensure_midi_clip: the clips, and the place of the first one of the track.
Ensured(t) ==
    IF OnTrack(t) # {} THEN clips
    ELSE Append(clips, Clip(Min(FreeIds), t, 0, MaxBeat, {}, {}))
FirstOn(t) == IF OnTrack(t) = {} THEN Len(clips) + 1 ELSE Min(OnTrack(t))
CanEnsure(t) == OnTrack(t) # {} \/ FreeIds # {}

\* _target_clip_for_timeline_write: a clip at the beat, else the first one.
TargetFor(t, b) ==
    LET at == {i \in OnTrack(t) : ContainsBeat(clips[i], b)}
    IN  IF at # {} THEN Min(at) ELSE FirstOn(t)

----------------------------------------------------------------------------
(* Each edit is the list of clips it makes, and refused without its condition. *)
(* midi_write: into the first clip, at the beats as they come.              *)

Cut(notes, s, e) == {n \in notes : ~(n.start <= e /\ n.start + 1 > s)}
Written(t, n, mode) ==
    [Ensured(t) EXCEPT ![FirstOn(t)].notes =
        (IF mode = "append" THEN @ ELSE Cut(@, n.start, n.start + 1)) \cup {n}]

(* midi_diff: one operation; a beat before the start of its clip is refused. *)

CanWriteAt(t, b) == CanEnsure(t) /\ b >= Ensured(t)[TargetFor(t, b)].start
AtBeat(set, c, b) == {x \in set : x.start + c.start = b}

NoteAdded(t, b, v) ==
    LET i == TargetFor(t, b)
    IN  [Ensured(t) EXCEPT ![i].notes = @ \cup {[start |-> b - Ensured(t)[i].start, value |-> v]}]
NotesDeleted(t, b) ==
    [i \in DOMAIN clips |->
        IF i \notin OnTrack(t) THEN clips[i]
        ELSE [clips[i] EXCEPT !.notes = @ \ AtBeat(@, clips[i], b)]]

\* The first note found at the beat; it stays in its clip.
NoteFoundIn(t, b) == {i \in OnTrack(t) : AtBeat(clips[i].notes, clips[i], b) # {}}
CanUpdateNote(t, b, to) == NoteFoundIn(t, b) # {} /\ to >= clips[Min(NoteFoundIn(t, b))].start
NoteUpdated(t, b, n, to, v) ==
    LET i == Min(NoteFoundIn(t, b))
    IN  [clips EXCEPT ![i].notes = (@ \ {n}) \cup {[start |-> to - clips[i].start, value |-> v]}]

EventAdded(t, b, v) ==
    LET i == TargetFor(t, b)
    IN  [Ensured(t) EXCEPT ![i].events = @ \cup {[start |-> b - Ensured(t)[i].start, value |-> v]}]
EventsDeleted(t, b) ==
    [i \in DOMAIN clips |->
        IF i \notin OnTrack(t) THEN clips[i]
        ELSE [clips[i] EXCEPT !.events = @ \ AtBeat(@, clips[i], b)]]
EventFoundIn(t, b) == {i \in OnTrack(t) : AtBeat(clips[i].events, clips[i], b) # {}}
CanUpdateEvent(t, b, to) == EventFoundIn(t, b) # {} /\ to >= clips[Min(EventFoundIn(t, b))].start
EventUpdated(t, b, x, to, v) ==
    LET i == Min(EventFoundIn(t, b))
    IN  [clips EXCEPT ![i].events = (@ \ {x}) \cup {[start |-> to - clips[i].start, value |-> v]}]

\* _sample_curve: the points that are given, or the beats in steps; never none.
Sampled(points, s, e, step) ==
    IF step # 0 /\ s < e THEN s..e
    ELSE IF points \cap (s..e) # {} THEN points \cap (s..e) ELSE {s}

\* _apply_midi_event_curve: what is drawn takes the place of what was in the range.
Redrawn(c, drawn, s, e, v, mode) ==
    [c EXCEPT !.events =
        {[start |-> b - c.start, value |-> v] : b \in drawn}
        \cup {x \in @ : mode = "append" \/ x.start + c.start \notin s..e}]

\* A point before the start of the clip is refused, as the start of the curve is.
CanDraw(t, s, points) ==
    CanEnsure(t) /\ \A b \in points \cup {s} : b >= Ensured(t)[TargetFor(t, s)].start
CurveDrawn(t, s, e, v, step, points, mode) ==
    [Ensured(t) EXCEPT ![TargetFor(t, s)] =
        Redrawn(@, Sampled(points, s, e, step), s, e, v, mode)]

\* _apply_velocity_curve.
Leveled(c, s, e, v) ==
    [c EXCEPT !.notes = {[n EXCEPT !.value = IF n.start + c.start \in s..e THEN v ELSE @] : n \in @}]
VelocityDrawn(t, s, e, v) == [Ensured(t) EXCEPT ![TargetFor(t, s)] = Leveled(@, s, e, v)]

(* midi_batch_edit: what is selected on some tracks, over a range of beats. *)

Overlaps(c, s, e) == c.start <= e /\ End(c) >= s
Selected(list, ts, s, e) == {i \in DOMAIN list : list[i].track \in ts /\ Overlaps(list[i], s, e)}

BatchVelocity(ts, s, e, v) ==
    [i \in DOMAIN clips |->
        IF i \in Selected(clips, ts, s, e) THEN Leveled(clips[i], s, e, v) ELSE clips[i]]
BatchClear(ts, s, e) ==
    [i \in DOMAIN clips |->
        IF i \notin Selected(clips, ts, s, e) THEN clips[i]
        ELSE [clips[i] EXCEPT !.events = {x \in @ : x.start + clips[i].start \notin s..e}]]

\* A curve makes a clip on the tracks without one.
BareTracks(ts) == {t \in ts : OnTrack(t) = {}}
CanPrepare(ts) == Cardinality(BareTracks(ts)) <= Cardinality(FreeIds)
Prepared(ts) ==
    FoldSet(LAMBDA t, list :
                Append(list, Clip(Min(ClipIds \ {list[i].id : i \in DOMAIN list}), t, 0, MaxBeat, {}, {})),
            clips, BareTracks(ts))

\* Fault: a point outside the range is drawn like the others.
PointsAsGiven(points, from, to, step) ==
    IF step # 0 THEN from..to ELSE IF points = {} THEN {from, to} ELSE points
\* _batch_curve_points_for_range: of the points that are given those in the part of the
\* range a clip has, or both ends of it; or else the beats in steps.
BatchPoints(points, from, to, step) ==
    IF step # 0 THEN from..to
    ELSE IF points = {} THEN {from, to} ELSE points \cap (from..to)

\* It is written to the clips its range meets, else to the first of each track; written
\* to several clips it ends with each, and a clip that gets no point is left as it is.
BatchCurve(ts, s, e, v, step, points, mode) ==
    LET all == Prepared(ts)
        met == Selected(all, ts, s, e)
        chosen == IF met # {} THEN met
                  ELSE {Min({i \in DOMAIN all : all[i].track = t}) : t \in ts}
        Curved(c) ==
            LET from == Max({s, c.start})
                to == IF Cardinality(chosen) > 1 THEN Min({e, End(c)}) ELSE e
                drawn == BatchPoints(points, from, to, step)
            IN  IF to < from \/ drawn = {} THEN c ELSE Redrawn(c, drawn, from, to, v, mode)
    IN  [i \in DOMAIN all |-> IF i \in chosen THEN Curved(all[i]) ELSE all[i]]

(* clip_diff. *)

AddClip(id, t, start, dur) == Append(clips, Clip(id, t, start, dur, {}, {}))
\* Whatever is given of it changes; it goes behind the other clips of its beat.
UpdateClip(i, t, start, dur) ==
    Append(RemoveAt(clips, i), [clips[i] EXCEPT !.track = t, !.start = start, !.dur = dur])
DeleteClip(i) == RemoveAt(clips, i)

----------------------------------------------------------------------------
Init == clips = <<>>

\* A curve in steps takes no more than its level from its points.
Curves == [step : {0}, points : SUBSET Beats, mode : {"replace", "append"}]
          \cup [step : {1}, points : {{}}, mode : {"replace", "append"}]
Ranges == {r \in Beats \X Beats : r[1] <= r[2]}
Fits(list) ==
    \A i \in DOMAIN list :
        /\ End(list[i]) <= MaxBeat
        /\ Cardinality(list[i].notes) <= MaxContent
        /\ Cardinality(list[i].events) <= MaxContent
\* update_project: the project is normalized and saved.
Save(list) == Fits(Normalized(list)) /\ clips' = Normalized(list)

NextNotes ==
    \E t \in Tracks, b \in Beats, v \in Values :
       \/ /\ CanEnsure(t)
          /\ \E mode \in {"replace", "append"} : Save(Written(t, [start |-> b, value |-> v], mode))
       \/ CanWriteAt(t, b) /\ Save(NoteAdded(t, b, v))
       \/ Save(NotesDeleted(t, b))
       \/ \E to \in Beats :
             /\ CanUpdateNote(t, b, to)
             /\ LET c == clips[Min(NoteFoundIn(t, b))]
                IN  \E n \in AtBeat(c.notes, c, b) : Save(NoteUpdated(t, b, n, to, v))
       \/ \E e \in b..MaxBeat : CanWriteAt(t, b) /\ Save(VelocityDrawn(t, b, e, v))
NextEvents ==
    \E t \in Tracks, b \in Beats, v \in Values :
       \/ CanWriteAt(t, b) /\ Save(EventAdded(t, b, v))
       \/ Save(EventsDeleted(t, b))
       \/ \E to \in Beats :
             /\ CanUpdateEvent(t, b, to)
             /\ LET c == clips[Min(EventFoundIn(t, b))]
                IN  \E x \in AtBeat(c.events, c, b) : Save(EventUpdated(t, b, x, to, v))
       \/ \E e \in b..MaxBeat, c \in Curves :
             /\ CanDraw(t, b, c.points)
             /\ Save(CurveDrawn(t, b, e, v, c.step, c.points, c.mode))
NextBatch ==
    \E ts \in SUBSET Tracks \ {{}}, r \in Ranges, v \in Values :
       \/ HasNotes /\ Save(BatchVelocity(ts, r[1], r[2], v))
       \/ HasEvents /\ Save(BatchClear(ts, r[1], r[2]))
       \/ /\ HasEvents /\ CanPrepare(ts)
          /\ \E c \in Curves : Save(BatchCurve(ts, r[1], r[2], v, c.step, c.points, c.mode))
NextClips ==
    \/ \E id \in FreeIds, t \in Tracks, r \in Ranges :
         r[1] < r[2] /\ Save(AddClip(id, t, r[1], r[2] - r[1]))
    \/ \E i \in DOMAIN clips :
         \/ Save(DeleteClip(i))
         \/ \E t \in Tracks, r \in Ranges :
              r[1] < r[2] /\ Save(UpdateClip(i, t, r[1], r[2] - r[1]))

Next ==
    \/ HasNotes /\ NextNotes
    \/ HasEvents /\ NextEvents
    \/ NextBatch
    \/ NextClips

Spec == Init /\ [][Next]_clips

----------------------------------------------------------------------------
TypeOK ==
    \A i \in DOMAIN clips :
        clips[i] \in [id : ClipIds, track : Tracks, start : Beats, dur : Beats \ {0},
                      notes : SUBSET Note, events : SUBSET Note]

\* What is heard on a track, by beats of the project, the clips aside.
Heard(list, t) ==
    UNION {{[n EXCEPT !.start = @ + list[i].start] : n \in list[i].notes} :
              i \in {k \in DOMAIN list : list[k].track = t}}
Lane(list, t) ==
    UNION {{[x EXCEPT !.start = @ + list[i].start] : x \in list[i].events} :
              i \in {k \in DOMAIN list : list[k].track = t}}

Within(set, s, e) == {x \in set : x.start \in s..e}
At(b, v) == [start |-> b, value |-> v]

\* What an edit of events writes: a value that is there, or another.
NewValues == Values \cup {0}

\* Beats some clip of a track reaches over, and what its other clips have.
Span(list, t) ==
    {b \in Beats : \E i \in DOMAIN list : list[i].track = t /\ ContainsBeat(list[i], b)}
Rest(list, i) == IF i \in DOMAIN list THEN RemoveAt(list, i) ELSE list

\* An edit that names beats of the project does there what it says, and nothing
\* elsewhere, however the clips lie (midi_timeline_model.py, midi_selection.py): a note
\* that is added sounds, what is deleted is gone, and over a range a velocity holds for
\* all that lies in it. A note that is updated, and what is levelled on one track, is of
\* one clip: the others sound as they did.
NotesLand ==
    \A t \in Tracks : LET before == Heard(clips, t) IN
        /\ \A b \in Beats :
             /\ Heard(NotesDeleted(t, b), t) = before \ Within(before, b, b)
             /\ CanWriteAt(t, b) => \A v \in Values :
                  /\ Heard(NoteAdded(t, b, v), t) = before \cup {At(b, v)}
                  /\ LET others == Heard(Rest(clips, TargetFor(t, b)), t)
                     IN  \A e \in b..MaxBeat :
                           LET after == Heard(VelocityDrawn(t, b, e, v), t)
                           IN  /\ others \subseteq after
                               /\ {n.start : n \in after} = {n.start : n \in before}
                               /\ \A n \in Within(after, b, e) : n.value = v \/ n \in others
                               /\ after \ Within(after, b, e) = before \ Within(before, b, e)
             /\ \A to \in Beats, n \in Within(before, b, b), v \in Values :
                  LET i == Min(NoteFoundIn(t, b))
                      local == [n EXCEPT !.start = b - clips[i].start]
                      others == Heard(Rest(clips, i), t)
                  IN  CanUpdateNote(t, b, to) /\ local \in clips[i].notes
                        => Heard(NoteUpdated(t, b, local, to, v), t)
                             = others \cup ((before \ others) \ {n}) \cup {At(to, v)}
        /\ \A ts \in {s \in SUBSET Tracks : t \in s}, r \in Ranges, v \in Values :
             LET in == Within(before, r[1], r[2])
             IN  Heard(BatchVelocity(ts, r[1], r[2], v), t)
                   = (before \ in) \cup {At(n.start, v) : n \in in}

\* So do the edits of events. A curve has its points where the range and a clip are, and
\* takes away what was in the range; but drawn on one track it does so in one clip, and
\* drawn by its points alone over several it leaves a clip as it was that gets none.
CurveLands(t, b, e, v, c) ==
    LET before == Lane(clips, t)
        after == Lane(CurveDrawn(t, b, e, v, c.step, c.points, c.mode), t)
        drawn == {At(x, v) : x \in Sampled(c.points, b, e, c.step)}
    IN  /\ drawn \cup (before \ Within(before, b, e)) \subseteq after
        /\ after \subseteq before \cup drawn
        /\ IF c.mode = "append" THEN before \subseteq after
           ELSE Within(after, b, e) \ drawn \subseteq Lane(Rest(clips, TargetFor(t, b)), t)
BatchLands(t, ts, s, e, v, c) ==
    LET before == Lane(clips, t)
        all == Prepared(ts)
        after == Lane(BatchCurve(ts, s, e, v, c.step, c.points, c.mode), t)
        named == IF c.step = 0 /\ c.points # {} THEN c.points \cap (s..e) ELSE s..e
        old == {x \in Within(after, s, e) : ~(x.value = v /\ x.start \in named)}
    IN  /\ after \ Within(after, s, e) = before \ Within(before, s, e)
        /\ c.step # 0 \/ c.points # {}
             => {At(b, v) : b \in named \cap Span(all, t)} \subseteq after
        /\ IF c.mode = "append" THEN before \subseteq after /\ old \subseteq before
           ELSE \A x \in old : \E i \in DOMAIN all :
                  /\ all[i].track = t
                  /\ [x EXCEPT !.start = @ - all[i].start] \in all[i].events
                  /\ \A b \in named : ~ContainsBeat(all[i], b)

EventsLand ==
    \A t \in Tracks : LET before == Lane(clips, t) IN
        /\ \A b \in Beats :
             /\ Lane(EventsDeleted(t, b), t) = before \ Within(before, b, b)
             /\ CanWriteAt(t, b) => \A v \in NewValues :
                  Lane(EventAdded(t, b, v), t) = before \cup {At(b, v)}
             /\ \A to \in Beats, x \in Within(before, b, b), v \in NewValues :
                  LET i == Min(EventFoundIn(t, b))
                      local == [x EXCEPT !.start = b - clips[i].start]
                      others == Lane(Rest(clips, i), t)
                  IN  CanUpdateEvent(t, b, to) /\ local \in clips[i].events
                        => Lane(EventUpdated(t, b, local, to, v), t)
                             = others \cup ((before \ others) \ {x}) \cup {At(to, v)}
             /\ \A e \in b..MaxBeat, v \in NewValues, c \in Curves :
                  CanDraw(t, b, c.points) => CurveLands(t, b, e, v, c)
        /\ \A ts \in {s \in SUBSET Tracks : t \in s}, r \in Ranges :
             /\ Lane(BatchClear(ts, r[1], r[2]), t) = before \ Within(before, r[1], r[2])
             /\ CanPrepare(ts) => \A v \in NewValues, c \in Curves :
                  BatchLands(t, ts, r[1], r[2], v, c)
EditsLand == (HasNotes => NotesLand) /\ (HasEvents => EventsLand)
=============================================================================

------------------------------ MODULE EventReplay ------------------------------
(***************************************************************************)
(* How the events of the runtime timeline reach a browser: recorded with a *)
(* sequence number (core/runtime/timeline.py) by the chat thread and its   *)
(* tool threads, handed to the loop (_RuntimeTurnRecorder.broadcast_sync), *)
(* broadcast (dashboard/server.py) and, after a reconnection, replayed     *)
(* (dashboard/routes/websocket.py) at the request of the page              *)
(* (frontend/src/composables/useWebSocket.js).                             *)
(***************************************************************************)
EXTENDS Naturals, Sequences, SequencesExt

CONSTANTS Writers,     \* threads that record events of the session
          MaxEvents,   \* bound: events recorded
          ReplayLimit, \* limit of events_since
          MaxDrops     \* bound: connections lost

VARIABLES
    latest,    \* the last sequence number given
    recorded,  \* the event each thread has recorded and not yet handed on; 0: none
    scheduled, \* broadcasts the loop has still to run
    link,      \* "down", or the connection is "up" and in _ws_clients
    wire,      \* events under way to the page
    asked,     \* the since_seq of a replay request under way; 0: none
    replay,    \* events the websocket handler has read and not yet sent
    last,      \* lastRuntimeSeq of the session
    seen,      \* the events the page has got, in their order
    drops,     \* connections lost so far
    missed     \* history: events dropped that the page will not ask for

connection == <<link, wire, asked, replay>>
replayVars == <<latest, recorded, scheduled, connection, last, seen, drops, missed>>

ReplayInit ==
    /\ latest = 0 /\ recorded = [w \in Writers |-> 0] /\ scheduled = <<>>
    /\ link = "up" /\ wire = <<>> /\ asked = 0 /\ replay = <<>>
    /\ last = 0 /\ seen = <<>> /\ drops = 0 /\ missed = {}

\* append_event, under the lock of the store.
Record(w) ==
    /\ latest < MaxEvents /\ recorded[w] = 0
    /\ latest' = latest + 1
    /\ recorded' = [recorded EXCEPT ![w] = latest']
    /\ UNCHANGED <<scheduled, connection, last, seen, drops, missed>>

\* run_coroutine_threadsafe, outside of it.
HandOn(w) ==
    /\ recorded[w] # 0
    /\ scheduled' = Append(scheduled, recorded[w])
    /\ recorded' = [recorded EXCEPT ![w] = 0]
    /\ UNCHANGED <<latest, connection, last, seen, drops, missed>>

\* Recorded and not yet broadcast.
Pending(e) == Contains(scheduled, e) \/ \E w \in Writers : recorded[w] = e

\* The page asks from its last event, and only once it has one: e, dropped now, is not
\* asked for when a later event has come, or when an earlier one can be the first.
Unasked(e) ==
    /\ ~Contains(seen, e)
    /\ e < last \/ (last = 0 /\ \E p \in 1..(e - 1) : Pending(p))

\* broadcast sends to whoever is connected.
Broadcast ==
    /\ scheduled # <<>>
    /\ scheduled' = Tail(scheduled)
    /\ IF link = "up"
       THEN wire' = Append(wire, Head(scheduled)) /\ missed' = missed
       ELSE wire' = wire /\ missed' = missed \cup {e \in {Head(scheduled)} : Unasked(e)}
    /\ UNCHANGED <<latest, recorded, link, asked, replay, last, seen, drops>>

\* onmessage: rememberRuntimeSeq keeps the largest.
Receive ==
    /\ wire # <<>>
    /\ wire' = Tail(wire)
    /\ seen' = Append(seen, Head(wire))
    /\ last' = IF Head(wire) > last THEN Head(wire) ELSE last
    /\ UNCHANGED <<latest, recorded, scheduled, link, asked, replay, drops, missed>>

\* On its way over this connection, or asked for over it.
UnderWay(e) == Contains(wire, e) \/ Contains(replay, e) \/ (asked # 0 /\ asked < e)

Disconnect ==
    /\ link = "up" /\ drops < MaxDrops
    /\ drops' = drops + 1
    /\ missed' = missed \cup {e \in 1..latest : UnderWay(e) /\ Unasked(e) /\ ~Pending(e)}
    /\ link' = "down" /\ wire' = <<>> /\ asked' = 0 /\ replay' = <<>>
    /\ UNCHANGED <<latest, recorded, scheduled, last, seen>>

(* Fault: the page asks from the last event of this connection. *)
ReconnectFromNow ==
    /\ link = "down" /\ link' = "up"
    /\ asked' = 0
    /\ UNCHANGED <<latest, recorded, scheduled, wire, replay, last, seen, drops, missed>>

\* onopen after the first time: the page asks for what came after last.  It is
\* among the clients before its request is read.
Reconnect ==
    /\ link = "down" /\ link' = "up"
    /\ asked' = last
    /\ UNCHANGED <<latest, recorded, scheduled, wire, replay, last, seen, drops, missed>>

\* events_since: the first ReplayLimit events after since_seq.  The page does not ask
\* again: those behind them come only if they are broadcast.
ReadReplay ==
    /\ asked # 0 /\ asked' = 0
    /\ LET to == IF latest - asked > ReplayLimit THEN asked + ReplayLimit ELSE latest
       IN  /\ replay' = [i \in 1..(to - asked) |-> asked + i]
           /\ missed' = missed \cup {e \in (to + 1)..latest : ~Contains(wire, e) /\ ~Pending(e)}
    /\ UNCHANGED <<latest, recorded, scheduled, link, wire, last, seen, drops>>

\* The handler sends them one by one; broadcasts may come between.
SendReplay ==
    /\ replay # <<>>
    /\ replay' = Tail(replay)
    /\ wire' = Append(wire, Head(replay))
    /\ UNCHANGED <<latest, recorded, scheduled, link, asked, last, seen, drops, missed>>

ReplayNext ==
    \/ \E w \in Writers : Record(w) \/ HandOn(w)
    \/ Broadcast \/ Receive \/ Disconnect \/ Reconnect \/ ReadReplay \/ SendReplay

ReplaySpec == ReplayInit /\ [][ReplayNext]_replayVars

----------------------------------------------------------------------------
ReplayTypeOK ==
    /\ latest \in 0..MaxEvents /\ recorded \in [Writers -> 0..MaxEvents]
    /\ scheduled \in Seq(1..MaxEvents) /\ link \in {"down", "up"}
    /\ wire \in Seq(1..MaxEvents) /\ asked \in 0..MaxEvents
    /\ replay \in Seq(1..MaxEvents)
    /\ last \in 0..MaxEvents /\ seen \in Seq(1..MaxEvents) /\ drops \in 0..MaxDrops
    /\ missed \subseteq 1..MaxEvents

\* Come, on its way, still to be broadcast, or given up.
Accounted(e) == Contains(seen, e) \/ UnderWay(e) \/ Pending(e) \/ e \in missed

\* timeline.py: "this store records every runtime event with a monotonic sequence
\* number so WebSocket clients can replay missed deltas after reconnecting".  Of what
\* lies between the first and the last event of the page, however many threads record
\* and however long it is away, nothing is lost but what was dropped, or left out of a
\* replay by its limit, when the page had come past it: that, the code does lose.
OnlyMissedAreSkipped ==
    seen # <<>> =>
        \A e \in Head(seen)..last :
            Accounted(e)

----------------------------------------------------------------------------
(***************************************************************************)
(* The parts of the inductive invariant behind OnlyMissedAreSkipped.       *)
(***************************************************************************)
ReplayAssumption == {MaxEvents, ReplayLimit, MaxDrops} \subseteq Nat

\* What is under way was recorded, and the page asks for no more than it has.
Numbered ==
    /\ \A i \in 1..Len(wire) : wire[i] <= latest
    /\ \A i \in 1..Len(replay) : replay[i] <= latest
    /\ \A i \in 1..Len(scheduled) : scheduled[i] <= latest
    /\ \A w \in Writers : recorded[w] <= latest
    /\ asked <= last /\ last <= latest

\* last is the largest number the page has got, and it asks only once it has one.
Remembered ==
    /\ seen = <<>> => last = 0 /\ asked = 0 /\ replay = <<>>
    /\ seen # <<>> => Contains(seen, last) /\ last > 0
    /\ asked # 0 => replay = <<>>
    /\ link = "down" => wire = <<>> /\ asked = 0 /\ replay = <<>>

\* Over a connection all events from the first on are accounted for, without one those
\* up to the last; and before the first has come, those behind any that can be it.
NoGap ==
    /\ link = "up" /\ seen # <<>> => \A e \in Head(seen)..latest : Accounted(e)
    /\ link = "down" /\ seen # <<>> => \A e \in Head(seen)..last : Accounted(e)
    /\ seen = <<>> /\ wire # <<>> => \A e \in Head(wire)..latest : Accounted(e)
    /\ seen = <<>> => \A p \in 1..MaxEvents : Pending(p) => \A e \in p..latest : Accounted(e)

ReplayInv == ReplayTypeOK /\ Numbered /\ Remembered /\ NoGap
=============================================================================

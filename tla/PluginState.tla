------------------------------ MODULE PluginState ------------------------------
(* The plugins in the slots of a track and what they are set to               *)
(* (dashboard/studio/plugin_state.py, dashboard/music.py).  The host has the  *)
(* plugins; before one is exchanged, before the host is stopped and after a   *)
(* parameter was set, their states are asked for, slot by slot, and merged    *)
(* into the saved project, from which a started host gets them back.  The     *)
(* requests wait for the host one after the other, in the order they came.    *)
EXTENDS Naturals, Sequences, FiniteSets, FiniteSetsExt

CONSTANTS
    Handlers,   \* requests at work
    Slots,      \* 0 is the instrument, the others are inserts
    Plugins,
    None,       \* no plugin, no state
    MaxTurns,   \* values set, by requests and in the windows of the plugins
    MaxChanges, \* plugins exchanged
    MaxStops,   \* stops and ends of the host
    MaxFails    \* plugins that cannot be loaded

\* What a plugin in the host is at.
States == [plugin : Plugins, value : 0..MaxTurns]
\* There is an instrument; no plugin and no state are not plugins, states or answers.
PluginAssumption ==
    /\ 0 \in Slots /\ Slots \subseteq Nat /\ IsFiniteSet(Handlers) /\ MaxTurns \in Nat
    /\ None \notin Plugins \cup States \cup [state : States \cup {None}]

VARIABLES
    saved,    \* per slot of the saved project: the plugin, and its state
    host,     \* per slot of the host: None, or a plugin and the value it is set to
    running,  \* does the host run
    queue,    \* the commands that wait for the host: whose, which
    call,     \* per request: what it is at
    turns, changes, stops, fails,
    chosen,   \* the plugin chosen last, per slot
    answered  \* the last value whose request was answered, per slot

vars == <<saved, host, running, queue, call, turns, changes, stops, fails, chosen, answered>>
counts == <<turns, changes, stops, fails>>

Idle == [at |-> "idle"]
Init ==
    /\ \E p \in Plugins : saved = [s \in Slots |-> [plugin |-> p, state |-> None]]
    /\ chosen = [s \in Slots |-> saved[s].plugin]
    /\ host = [s \in Slots |-> [plugin |-> saved[s].plugin, value |-> 0]] /\ running = TRUE
    /\ queue = <<>> /\ call = [h \in Handlers |-> Idle] /\ answered = [s \in Slots |-> 0]
    /\ turns = 0 /\ changes = 0 /\ stops = 0 /\ fails = 0

\* A request waits for the answer to a command; without a host it raises and ends.
Send(h, c, command, s) ==
    /\ call' = [call EXCEPT ![h] = [c EXCEPT !.slot = s, !.reply = None]]
    /\ queue' = Append(queue, [of |-> h, command |-> command])
Ask(h, c, command, s) ==
    IF running THEN Send(h, c, command, s)
    ELSE call' = [call EXCEPT ![h] = Idle] /\ UNCHANGED queue
Get(s) == [name |-> "get", slot |-> s]
\* load_track_slot: a slot without a plugin is cleared.
Load(s, plugin) == [name |-> "load", slot |-> s, plugin |-> plugin]
Restore(s, state) == [name |-> "restore", slot |-> s, state |-> state]

(* ------------------------------- The host -------------------------------- *)
Command == Head(queue).command
\* A plugin that cannot be loaded leaves the one before in its slot.
Execute(succeeds) ==
    LET s == Command.slot
        of == Head(queue).of
    IN  /\ queue # <<>> /\ queue' = Tail(queue)
        /\ host' = CASE Command.name = "load" /\ succeeds ->
                            [host EXCEPT ![s] = IF Command.plugin = None THEN None
                                                ELSE [plugin |-> Command.plugin, value |-> 0]]
                     [] Command.name = "set" /\ host[s] # None ->
                            [host EXCEPT ![s].value = Command.value]
                     [] Command.name = "restore" /\ host[s] # None /\ host[s].plugin = Command.state.plugin ->
                            [host EXCEPT ![s] = Command.state]
                     [] OTHER -> host
        /\ succeeds \/ (Command.name = "load" /\ Command.plugin # None /\ fails < MaxFails)
        /\ fails' = IF succeeds THEN fails ELSE fails + 1
        /\ call' = [call EXCEPT ![of].reply = [state |-> host[s]]]
        /\ UNCHANGED <<saved, running, turns, changes, stops, chosen, answered>>

\* Somebody turns a knob in the window of a plugin.
Turn(s) ==
    /\ running /\ host[s] # None /\ turns < MaxTurns /\ turns' = turns + 1
    /\ host' = [host EXCEPT ![s].value = turns']
    /\ UNCHANGED <<saved, running, queue, call, changes, stops, fails, chosen, answered>>

\* The host ends: the commands that wait raise, and with them their requests.
Down == /\ running' = FALSE /\ host' = [s \in Slots |-> None] /\ queue' = <<>>
        /\ stops < MaxStops /\ stops' = stops + 1
Raised == [h \in Handlers |-> IF call[h] # Idle /\ call[h].reply = None THEN Idle ELSE call[h]]
HostEnds ==
    /\ running /\ Down /\ call' = Raised
    /\ UNCHANGED <<saved, turns, changes, fails, chosen, answered>>

(* ------------------------------ The requests ----------------------------- *)
New(at, next, s, plugin) ==
    [at |-> at, next |-> next, slot |-> s, reply |-> None, target |-> s, plugin |-> plugin,
     copy |-> saved, left |-> {t \in Slots : saved[t].plugin # None}, value |-> turns]

\* capture_plugin_states asks for one slot after the other of the project it has loaded.
GoOn(h, c) ==
    LET s == Min(c.left) IN Ask(h, [c EXCEPT !.left = @ \ {s}], Get(s), s)

\* studio_set_track_plugin, stop_audio_host, sync_studio_project capture first.
Begin(h, next, s, plugin) ==
    LET c == New("capturing", next, s, plugin)
    IN  /\ call[h] = Idle /\ running /\ c.left # {} /\ GoOn(h, c)
        /\ next = "plugin" => changes < MaxChanges /\ saved[s].plugin # plugin
        /\ changes' = IF next = "plugin" THEN changes + 1 ELSE changes
        /\ UNCHANGED <<saved, host, running, turns, stops, fails, chosen, answered>>
\* Without a host there is nothing to capture and nobody to tell.
Choose(h, s, plugin) ==
    /\ call[h] = Idle /\ ~running /\ changes < MaxChanges /\ changes' = changes + 1
    /\ saved' = [saved EXCEPT ![s] = [plugin |-> plugin, state |-> None]]
    /\ chosen' = [chosen EXCEPT ![s] = plugin] /\ answered' = [answered EXCEPT ![s] = 0]
    /\ UNCHANGED <<host, running, queue, call, turns, stops, fails>>
\* studio_set_plugin_parameter loads the project before it sets the parameter.
BeginParameter(h, s) ==
    /\ call[h] = Idle /\ running /\ saved[s].plugin # None
    /\ turns < MaxTurns /\ turns' = turns + 1
    /\ Ask(h, [New("setting", "parameter", s, None) EXCEPT !.value = turns'],
           [name |-> "set", slot |-> s, value |-> turns'], s)
    /\ UNCHANGED <<saved, host, running, changes, stops, fails, chosen, answered>>
ParameterIsSet(h) ==
    /\ call[h].at = "setting" /\ call[h].reply # None
    /\ IF call[h].reply.state # None THEN GoOn(h, [call[h] EXCEPT !.at = "capturing"])
       ELSE call' = [call EXCEPT ![h] = Idle] /\ UNCHANGED queue
    /\ UNCHANGED <<saved, host, running, counts, chosen, answered>>

\* What the host answered is put into the copy; a slot it has nothing for keeps its state.
Noted(h) ==
    [call[h] EXCEPT !.copy[call[h].slot].state =
        IF call[h].reply.state = None THEN @ ELSE call[h].reply.state]
Capture(h) ==
    /\ call[h].at = "capturing" /\ call[h].reply # None /\ call[h].left # {}
    /\ GoOn(h, Noted(h))
    /\ UNCHANGED <<saved, host, running, counts, chosen, answered>>

\* Fault: the captured project is saved as it is.
MergedWhole(copy) == copy
\* _merge_plugin_state_metadata takes the states of the copy over, slot by slot.
Merged(copy) == [s \in Slots |->
    IF copy[s].state # None /\ saved[s].plugin # None
    THEN [saved[s] EXCEPT !.state = copy[s].state] ELSE saved[s]]

\* All slots are captured: the states are merged, and the request goes on in one go.
\* set_track_plugin puts a plugin without a state in the slot, and the host is told.
CapturedForPlugin(h) ==
    LET c == Noted(h)
    IN  /\ call[h].at = "capturing" /\ call[h].reply # None /\ call[h].left = {}
        /\ c.next = "plugin"
        /\ saved' = [Merged(c.copy) EXCEPT ![c.target] = [plugin |-> c.plugin, state |-> None]]
        /\ chosen' = [chosen EXCEPT ![c.target] = c.plugin]
        /\ answered' = [answered EXCEPT ![c.target] = 0]
        /\ Ask(h, [c EXCEPT !.at = "loading"], Load(c.target, c.plugin), c.target)
        /\ UNCHANGED <<host, running, counts>>
CapturedForAnswer(h) ==
    LET c == Noted(h)
    IN  /\ call[h].at = "capturing" /\ call[h].reply # None /\ call[h].left = {}
        /\ c.next \in {"parameter", "sync"}
        /\ saved' = Merged(c.copy) /\ call' = [call EXCEPT ![h] = Idle]
        /\ answered' = IF c.next = "parameter" THEN [answered EXCEPT ![c.target] = c.value]
                       ELSE answered
        /\ UNCHANGED <<host, running, queue, counts, chosen>>
CapturedForStop(h) ==
    /\ call[h].at = "capturing" /\ call[h].reply # None /\ call[h].left = {}
    /\ call[h].next = "stop" /\ saved' = Merged(Noted(h).copy)
    /\ IF running THEN Down /\ call' = [Raised EXCEPT ![h] = Idle]
       ELSE call' = [call EXCEPT ![h] = Idle] /\ UNCHANGED <<running, host, queue, stops>>
    /\ UNCHANGED <<turns, changes, fails, chosen, answered>>

\* start_audio_host: the slots of the saved project are loaded one by one; a plugin that
\* has a state gets it back.
Start(h) ==
    LET c == New("loading", "start", 0, None)
        s == Min(Slots)
    IN  /\ ~running /\ call[h] = Idle /\ running' = TRUE
        /\ Send(h, [c EXCEPT !.left = Slots \ {s}], Load(s, saved[s].plugin), s)
        /\ UNCHANGED <<saved, host, counts, chosen, answered>>
Loaded(h) ==
    LET c == call[h]
        state == IF c.next = "start" THEN c.copy[c.slot].state ELSE None
        next == Min(c.left)
        further == c.next = "start" /\ c.left # {}
    IN  /\ c.at \in {"loading", "restoring"} /\ c.reply # None
        /\ IF c.at = "loading" /\ state # None /\ c.copy[c.slot].plugin # None
           THEN Ask(h, [c EXCEPT !.at = "restoring"], Restore(c.slot, state), c.slot)
           ELSE IF further
           THEN Ask(h, [c EXCEPT !.at = "loading", !.left = @ \ {next}],
                    Load(next, c.copy[next].plugin), next)
           ELSE call' = [call EXCEPT ![h] = Idle] /\ UNCHANGED queue
        /\ UNCHANGED <<saved, host, running, counts, chosen, answered>>

Next ==
    \/ \E succeeds \in BOOLEAN : Execute(succeeds)
    \/ \E s \in Slots : Turn(s)
    \/ HostEnds
    \/ \E h \in Handlers :
        \/ \E s \in Slots, p \in Plugins \cup {None} : Begin(h, "plugin", s, p) \/ Choose(h, s, p)
        \/ \E next \in {"stop", "sync"} : Begin(h, next, 0, None)
        \/ \E s \in Slots : BeginParameter(h, s)
        \/ ParameterIsSet(h) \/ Capture(h) \/ CapturedForPlugin(h) \/ CapturedForAnswer(h)
        \/ CapturedForStop(h) \/ Start(h) \/ Loaded(h)

Spec == Init /\ [][Next]_vars

(* ------------------------------ Properties ------------------------------- *)
Alone == Cardinality(Handlers) = 1
Quiet == \A h \in Handlers : call[h] = Idle
\* Whatever states are merged meanwhile, a slot keeps the plugin chosen for it last
\* (_merge_plugin_state_metadata, set_track_plugin).
ChosenPluginsStay == \A s \in Slots : saved[s].plugin = chosen[s]
\* When nothing is under way the host has the plugins of the saved project, though several
\* requests exchange them; only a plugin that cannot be loaded is not there
\* (studio_set_track_plugin, load_track_slots).  That is so with one request at a time or
\* while the host runs on: a start loads the slots one by one from the project it read, and
\* may undo in the host what another request exchanged meanwhile.
HostHasThePlugins ==
    running /\ Quiet /\ fails = 0 /\ (Alone \/ stops = 0) =>
        \A s \in Slots : saved[s].plugin = IF host[s] = None THEN None ELSE host[s].plugin
\* One request at a time, and every plugin could be loaded: a saved state is one of the
\* plugin it is saved with ...
StatesBelongToPlugins ==
    Alone /\ fails = 0 => \A s \in Slots : saved[s].state # None =>
        saved[s].state.plugin = saved[s].plugin
\* ... and no value a request was answered for is lost, neither from the project nor, once
\* it has started again, from the host.
AnsweredValuesStay ==
    Alone /\ fails = 0 => \A s \in Slots : answered[s] > 0 =>
        /\ saved[s].state # None /\ saved[s].state.value >= answered[s]
        /\ running /\ Quiet => host[s].value >= answered[s]
PluginsHold == ChosenPluginsStay /\ HostHasThePlugins /\ StatesBelongToPlugins /\ AnsweredValuesStay
=============================================================================

------------------------------ MODULE ModelConfig ------------------------------
(***************************************************************************)
(* Providers, pools of models and the selected ones: the configuration the *)
(* dashboard edits (dashboard/routes/models.py, server.py), its file       *)
(* (core/lifecycle.py, config_schema.py) and what the process stage works  *)
(* with (core/pipeline/stages/process.py).  A handler runs on the event    *)
(* loop without a pause, except that new audio settings are shown to the   *)
(* audio host before they are taken.                                       *)
(***************************************************************************)
EXTENDS Sequences

CONSTANTS Providers,
          Models,
          Keys,    \* credentials: api_key, base_url, api_format
          Limits,  \* max_tokens, temperature, max_context_tokens, max_rounds
          Default, \* the limits a fresh configuration has
          Tabs,    \* pages that send settings
          Pools,   \* which of the pools requests are about
          None

Names == [provider : Providers \cup {None}, model : Models]
Nothing == [provider |-> None, model |-> None]

VARIABLES
    config,    \* lc.config
    saved,     \* the file
    stage,     \* what the process stage and its agents work with
    waiting,   \* what each page has set while the audio host looks at the rest
    overruled, \* history: settings have changed the limits since a model was applied
    smooth     \* history: settings were never refused, and never overlapped

history == <<overruled, smooth>>
vars == <<config, saved, stage, waiting, history>>

IsOf(entry, name) == entry.provider = name.provider /\ entry.model = name.model
Find(entries, name) == {i \in DOMAIN entries : IsOf(entries[i], name)}
Name(entry) == [provider |-> entry.provider, model |-> entry.model]
Configured(c) == {p \in Providers : c.providers[p] # None}
Without(entries, names) ==
    LET Stays(e) == Name(e) \notin names IN SelectSeq(entries, Stays)
FirstOf(entries) == IF entries = <<>> THEN Nothing ELSE Name(Head(entries))

\* The limits of a chat model: its entry's, else those of the configuration.
LimitsOf(c) ==
    LET found == Find(c.chat, c.chosen)
    IN  IF found = {} THEN c.limits ELSE c.chat[CHOOSE i \in found : TRUE].limits

\* What reaches the stage: the pools, the selected chat model with them, its limits too.
PushPools(c) ==
    [stage EXCEPT !.providers = c.providers, !.chat = c.chat, !.others = c.others,
                  !.other = c.other, !.chosen.provider = c.chosen.provider]
PushModel(c) == [PushPools(c) EXCEPT !.chosen = c.chosen, !.key = c.key]
PushAll(c) == [PushModel(c) EXCEPT !.limits = LimitsOf(c)]

\* A chat model is selected, with the credentials of its provider if it has one.
Apply(c, name) ==
    [c EXCEPT !.chosen = name,
              !.key = IF name.provider \in Configured(c) THEN c.providers[name.provider] ELSE @]
Uses(p) == config.key # None /\ config.key = config.providers[p]
Cleared(c) == [c EXCEPT !.chosen = Nothing, !.key = None]

\* Every request that succeeds ends by saving.
Save == saved' = config'
TakeModel(c) == config' = c /\ stage' = PushAll(c) /\ overruled' = FALSE /\ Save
TakeRest(c) == config' = c /\ stage' = PushPools(c) /\ UNCHANGED overruled /\ Save
\* The first entry of the pool takes the place of a chat model that is gone.
SelectFirst(c) ==
    IF c.chat # <<>> THEN TakeModel(Apply(c, FirstOf(c.chat)))
    ELSE /\ config' = Cleared(c) /\ stage' = PushModel(Cleared(c))
         /\ UNCHANGED overruled /\ Save

\* What a start makes of the file: the other pools' selection must be in its pool.
Normalized(c) ==
    [c EXCEPT !.other = IF Find(c.others, @) = {} THEN FirstOf(c.others) ELSE @]
Started(c) ==
    [providers |-> c.providers, chat |-> c.chat, others |-> c.others, other |-> c.other,
     chosen |-> c.chosen, key |-> c.key, limits |-> LimitsOf(c), persona |-> c.persona]

Init ==
    /\ config = [providers |-> [p \in Providers |-> None], chat |-> <<>>, others |-> <<>>,
                 chosen |-> Nothing, key |-> None, limits |-> Default, other |-> Nothing,
                 persona |-> None]
    /\ saved = config /\ stage = Started(config)
    /\ waiting = [t \in Tabs |-> None]
    /\ overruled = FALSE /\ smooth = TRUE

----------------------------------------------------------------------------
SaveProvider(p, k) ==
    /\ TakeRest([config EXCEPT !.providers[p] = k])
    /\ UNCHANGED <<waiting, smooth>>

\* The provider, its entries and the selections that name it go; the chat model
\* goes too if it works with this provider's credentials.
DeleteProvider(p) ==
    LET its == [provider : {p}, model : Models]
        c == [config EXCEPT !.providers[p] = None, !.chat = Without(@, its),
                            !.others = Without(@, its),
                            !.other = IF @.provider = p
                                      THEN FirstOf(Without(config.others, its)) ELSE @]
    IN  /\ IF config.chosen.provider = p \/ Uses(p)
           THEN SelectFirst(c)
           ELSE /\ config' = c /\ stage' = PushModel(c) /\ UNCHANGED overruled /\ Save
        /\ UNCHANGED <<waiting, smooth>>

----------------------------------------------------------------------------
\* Enabling a chat model puts it into the pool and selects it.
Activate(name) ==
    LET entry == [provider |-> name.provider, model |-> name.model, limits |-> config.limits]
        c == IF Find(config.chat, name) # {} THEN config
             ELSE [config EXCEPT !.chat = Append(@, entry)]
    IN  /\ TakeModel(Apply(c, name))
        /\ UNCHANGED <<waiting, smooth>>

\* A chat model can be selected without being enabled.
Select(name) ==
    /\ TakeModel(Apply(config, name))
    /\ UNCHANGED <<waiting, smooth>>

(* Fault: limits of the selected model are kept in the configuration only. *)
SaveLimitsQuietly(name, l) ==
    LET found == Find(config.chat, name)
        c == [config EXCEPT !.chat = [i \in DOMAIN @ |->
                 IF i \in found THEN [@[i] EXCEPT !.limits = l] ELSE @[i]]]
    IN  /\ found # {}
        /\ TakeRest(c)
        /\ UNCHANGED <<waiting, smooth>>

SaveLimits(name, l) ==
    LET found == Find(config.chat, name)
        c == [config EXCEPT !.chat = [i \in DOMAIN @ |->
                 IF i \in found THEN [@[i] EXCEPT !.limits = l] ELSE @[i]]]
    IN  /\ found # {}
        /\ IF config.chosen = name THEN TakeModel(Apply(c, name)) ELSE TakeRest(c)
        /\ UNCHANGED <<waiting, smooth>>

\* The pool's route gives up a selected model even if it was not enabled.
Deactivate(name) ==
    LET c == [config EXCEPT !.chat = Without(@, {name})]
    IN  /\ IF config.chosen = name THEN SelectFirst(c) ELSE TakeRest(c)
        /\ UNCHANGED <<waiting, smooth>>

\* The older route does not.
DeactivateEntry(name) ==
    LET c == [config EXCEPT !.chat = Without(@, {name})]
    IN  /\ IF config.chosen = name /\ c.chat # config.chat THEN SelectFirst(c)
           ELSE /\ config' = c /\ stage' = PushModel(c) /\ UNCHANGED overruled /\ Save
        /\ UNCHANGED <<waiting, smooth>>

----------------------------------------------------------------------------
\* The other pools, of which one stands for two.
ActivateOther(name) ==
    LET c == IF Find(config.others, name) # {} THEN config
             ELSE [config EXCEPT !.others = Append(@, name)]
    IN  /\ TakeRest([c EXCEPT !.other = name])
        /\ UNCHANGED <<waiting, smooth>>

SelectOther(name) ==
    /\ Find(config.others, name) # {}
    /\ TakeRest([config EXCEPT !.other = name])
    /\ UNCHANGED <<waiting, smooth>>

DeactivateOther(name) ==
    LET rest == Without(config.others, {name})
    IN  /\ TakeRest([config EXCEPT !.others = rest,
                                   !.other = IF @ = name THEN FirstOf(rest) ELSE @])
        /\ UNCHANGED <<waiting, smooth>>

----------------------------------------------------------------------------
\* update_settings: what it has set in the configuration reaches the stage ...
SetPersona(v) ==
    /\ config' = [config EXCEPT !.persona = v]
    /\ stage' = [stage EXCEPT !.persona = v]
    /\ smooth' = (smooth /\ \A t \in Tabs : waiting[t] = None)
    /\ Save /\ UNCHANGED <<waiting, overruled>>

\* ... as do limits, over the head of the selected model's own.
SetLimits(l) ==
    /\ config' = [config EXCEPT !.limits = l]
    /\ stage' = [stage EXCEPT !.limits = l]
    /\ overruled' = TRUE
    /\ Save /\ UNCHANGED <<waiting, smooth>>

\* New audio settings with it: the configuration has the rest already while the
\* host is asked, and keeps it when the host refuses.
AskHost(t, v) ==
    /\ waiting[t] = None
    /\ waiting' = [waiting EXCEPT ![t] = v]
    /\ config' = [config EXCEPT !.persona = v]
    /\ smooth' = (smooth /\ \A u \in Tabs : waiting[u] = None)
    /\ UNCHANGED <<saved, stage, overruled>>

HostAccepts(t) ==
    /\ waiting[t] # None
    /\ waiting' = [waiting EXCEPT ![t] = None]
    /\ stage' = [stage EXCEPT !.persona = waiting[t]]
    /\ UNCHANGED config /\ Save
    /\ UNCHANGED history

HostRefuses(t) ==
    /\ waiting[t] # None
    /\ waiting' = [waiting EXCEPT ![t] = None]
    /\ smooth' = FALSE
    /\ UNCHANGED <<config, saved, stage, overruled>>

\* The process ends, at any moment, and starts from the file.
Restart ==
    /\ config' = Normalized(saved) /\ Save
    /\ stage' = Started(config')
    /\ waiting' = [t \in Tabs |-> None]
    /\ overruled' = FALSE /\ smooth' = TRUE

Next ==
    \/ \E p \in Providers : DeleteProvider(p) \/ \E k \in Keys : SaveProvider(p, k)
    \/ /\ "chat" \in Pools
       /\ \E name \in Names :
            \/ Activate(name) \/ Select(name) \/ Deactivate(name) \/ DeactivateEntry(name)
            \/ \E l \in Limits : SaveLimits(name, l)
    \/ /\ "other" \in Pools
       /\ \E name \in Names : ActivateOther(name) \/ SelectOther(name) \/ DeactivateOther(name)
    \/ \E l \in Limits : SetLimits(l)
    \/ \E t \in Tabs : HostAccepts(t) \/ HostRefuses(t)
    \/ \E t \in Tabs, v \in {"one", "two"} : SetPersona(v) \/ AskHost(t, v)
    \/ Restart

Spec == Init /\ [][Next]_vars

----------------------------------------------------------------------------
Entries == [provider : Providers \cup {None}, model : Models, limits : Limits]
Personas == {None, "one", "two"}
Configs ==
    [providers : [Providers -> Keys \cup {None}], chosen : Names \cup {Nothing},
     key : Keys \cup {None}, limits : Limits, other : Names \cup {Nothing}, persona : Personas]
IsConfig(c) ==
    /\ \A i \in DOMAIN c.chat : c.chat[i] \in Entries
    /\ \A i \in DOMAIN c.others : c.others[i] \in Names
    /\ [f \in DOMAIN c \ {"chat", "others"} |-> c[f]] \in Configs

TypeOK ==
    /\ IsConfig(config) /\ IsConfig(saved) /\ IsConfig(stage)
    /\ waiting \in [Tabs -> Personas]
    /\ overruled \in BOOLEAN /\ smooth \in BOOLEAN

\* A restart changes nothing: what the stage works with is what a start would make
\* of the file.  The limits a settings request has put over those of the model are
\* the exception, and settings that were refused, or sent from two pages at once.
RestartIsNeutral ==
    LET after == Started(Normalized(saved))
    IN  /\ [after EXCEPT !.limits = stage.limits, !.persona = stage.persona] = stage
        /\ ~overruled /\ stage.chosen # Nothing => after.limits = stage.limits
        /\ smooth /\ (\A t \in Tabs : waiting[t] = None) => after.persona = stage.persona
=============================================================================

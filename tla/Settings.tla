------------------------------- MODULE Settings -------------------------------
(***************************************************************************)
(* The settings of the program: the request that changes them              *)
(* (dashboard/routes/models.py), the page that sends it (SettingsPage.vue), *)
(* the file and the start that reads it (core/lifecycle.py,                *)
(* core/config_schema.py), and what works with them: the process stage     *)
(* (core/pipeline/stages/process.py) and the managers of the knowledge     *)
(* bases and of the graph (core/knowledge/).  One setting stands for each  *)
(* way in which they are handled.  A request runs on the event loop        *)
(* without a pause (for those of the audio host, see ModelConfig).         *)
(***************************************************************************)
EXTENDS Naturals

CONSTANTS Pages,
          Requests, \* what clients send: values of some settings
          Typed,    \* for each setting, the values typed on a page
          First,    \* a complete configuration
          None,     \* a secret that is not set
          Mask      \* what the pages are shown of one that is

VARIABLES
    config,   \* lc.config
    saved,    \* the file
    stage,    \* what the process stage works with
    managers, \* what the managers work with
    up,       \* the program runs
    form,     \* what each page shows
    asked,    \* the bases a page that is saving has asked for, and whether they are current
    smooth    \* history: no request has failed half-way since the start

vars == <<config, saved, stage, managers, up, form, asked, smooth>>

\* The order in which a request's settings are taken, those about knowledge together.
\* The timeout is read from the configuration whenever it is needed.
Order == [persona |-> 1, timeout |-> 2, limit |-> 3, tavily |-> 4,
          bases |-> 5, wait |-> 5, pace |-> 5, password |-> 5]
Fields == DOMAIN Order
Knowledge == {f \in Fields : Order[f] = 5}
Secrets == {"tavily", "password"}
Staged == Fields \ {"timeout"}
OnPage == Fields \ {"limit"}

\* A "wrong" value has another type than the setting, a "low" one is a number
\* below the setting's minimum.  A start takes neither.
StartRefuses(value) == value \in {"wrong", "low"}

(* Fault: the timeout's minimum is not looked at. *)
RefusesWords(f, value) ==
    f \in {"timeout", "limit", "bases", "wait", "pace"} /\ value = "wrong"

\* Requests are refused where a conversion fails, and only the timeout's minimum is
\* the start's: a limit's is not checked, and any positive number will do for a wait.
Refuses(f, value) ==
    \/ f \in {"timeout", "limit", "bases", "wait", "pace"} /\ value = "wrong"
    \/ f = "timeout" /\ value = "low"

(* Fault: a secret is taken as it is shown. *)
TakenAsShown(c, f, value) == IF f = "pace" /\ value = "low" THEN "least" ELSE value

\* A secret sent back as it was shown stays, an interval is raised to the least.
Taken(c, f, value) ==
    IF f \in Secrets /\ value = Mask THEN c[f]
    ELSE IF f = "pace" /\ value = "low" THEN "least"
    ELSE value

\* What a request has changed when it ends, at the first setting that is refused or
\* after all.
Accepted(request) ==
    {f \in DOMAIN request : \A g \in DOMAIN request :
        Refuses(g, request[g]) => Order[f] < Order[g]}
Merged(c, request) ==
    [f \in Fields |-> IF f \in Accepted(request) THEN Taken(c, f, request[f]) ELSE c[f]]

\* The stage is told of the knowledge as merged, and of all else as it was sent.
ToldStage(request) ==
    [f \in Staged |->
        IF f \in Knowledge /\ DOMAIN request \cap Knowledge # {} THEN config'[f]
        ELSE IF f \in DOMAIN request THEN request[f] ELSE stage[f]]

(* Fault: the managers only take what the request names. *)
ToldLater(request) == managers

ToldManagers(request) ==
    IF DOMAIN request \cap Knowledge = {} THEN managers ELSE [f \in Knowledge |-> config'[f]]

Working(c) == /\ stage' = [f \in Staged |-> c[f]]
              /\ managers' = [f \in Knowledge |-> c[f]]
Shown(c) == [f \in Fields |-> IF f \in Secrets /\ c[f] # None THEN Mask ELSE c[f]]

Init ==
    /\ config = First /\ saved = First /\ up = TRUE
    /\ stage = [f \in Staged |-> First[f]] /\ managers = [f \in Knowledge |-> First[f]]
    /\ form = [t \in Pages |-> Shown(First)] /\ asked = [t \in Pages |-> None]
    /\ smooth = TRUE

----------------------------------------------------------------------------
\* update_settings.  One that is refused has changed the configuration up to there.
Update(request) ==
    /\ config' = Merged(config, request)
    /\ IF Accepted(request) = DOMAIN request
       THEN /\ stage' = ToldStage(request) /\ managers' = ToldManagers(request)
            /\ saved' = config' /\ UNCHANGED smooth
       ELSE /\ smooth' = (smooth /\ Accepted(request) = {})
            /\ UNCHANGED <<saved, stage, managers>>

Outdated == [t \in Pages |-> IF asked[t] # None /\ config'.bases # config.bases
                             THEN [asked[t] EXCEPT !.current = FALSE] ELSE asked[t]]

\* Other pages and clients send some settings, as they like.
Request(request) ==
    /\ up /\ Update(request)
    /\ asked' = Outdated
    /\ UNCHANGED <<up, form>>

\* The page shows the settings ...
Load(t) ==
    /\ up /\ asked[t] = None
    /\ form' = [form EXCEPT ![t] = Shown(config)]
    /\ UNCHANGED <<config, saved, stage, managers, up, asked, smooth>>

\* ... which are edited, to values of the right type ...
Edit(t, f, value) ==
    /\ asked[t] = None
    /\ form' = [form EXCEPT ![t][f] = value]
    /\ UNCHANGED <<config, saved, stage, managers, up, asked, smooth>>

\* ... and to be saved.  The bases are switched elsewhere: it asks for them first, and
\* does with what it has shown when it gets no answer.
Ask(t) ==
    /\ asked[t] = None
    /\ \/ up /\ asked' = [asked EXCEPT ![t] = [bases |-> config.bases, current |-> TRUE]]
       \/ asked' = [asked EXCEPT ![t] = [bases |-> form[t].bases, current |-> FALSE]]
    /\ UNCHANGED <<config, saved, stage, managers, up, form, smooth>>

(* Fault: it saves the bases it has shown all the same. *)
SaveShown(t) ==
    /\ up /\ asked[t] # None
    /\ Update([f \in OnPage |-> form[t][f]])
    /\ asked' = [Outdated EXCEPT ![t] = None]
    /\ UNCHANGED <<up, form>>

\* All the page shows is sent, whatever has changed.
Save(t) ==
    /\ up /\ asked[t] # None
    /\ Update([f \in OnPage |-> IF f = "bases" THEN asked[t].bases ELSE form[t][f]])
    /\ asked' = [Outdated EXCEPT ![t] = None]
    /\ UNCHANGED <<up, form>>

\* The process ends, at any moment, and starts from the file, or does not.
Restart ==
    /\ up
    /\ asked' = [t \in Pages |-> None]
    /\ IF \A f \in Fields : ~StartRefuses(saved[f])
       THEN config' = saved /\ Working(saved) /\ smooth' = TRUE /\ UNCHANGED <<saved, up, form>>
       ELSE up' = FALSE /\ UNCHANGED <<config, saved, stage, managers, form, smooth>>

Next ==
    \/ \E request \in Requests : Request(request)
    \/ \E t \in Pages : Load(t) \/ Ask(t) \/ Save(t)
    \/ \E t \in Pages, f \in OnPage : \E v \in Typed[f] : Edit(t, f, v)
    \/ Restart

Spec == Init /\ [][Next]_vars

----------------------------------------------------------------------------
\* The program works with what it has saved, which a start takes: except for what no
\* request is refused for, for requests that failed half-way, and for a key of the web
\* search that came back masked.  A mask is never kept.
SettingsHold ==
    /\ \A f \in Fields \ {"persona", "limit", "tavily", "wait"} : ~StartRefuses(saved[f])
    /\ \A f \in Secrets : config[f] # Mask /\ saved[f] # Mask
    /\ managers["password"] # Mask
    /\ up /\ smooth =>
         /\ config = saved
         /\ \A f \in Staged : stage[f] = saved[f] \/ (f = "tavily" /\ stage[f] = Mask)
         /\ \A f \in Knowledge : managers[f] = saved[f]

\* Saving a page switches no base that was not switched while it did.
BasesStay ==
    \A t \in Pages :
        asked[t] # None /\ asked'[t] = None /\ asked[t].current => config'.bases = config.bases
=============================================================================

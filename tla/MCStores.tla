------------------------------- MODULE MCStores -------------------------------
(* Instances for TLC of the stores several clients work on: the project       *)
(* repository, what is edited in a project, the configuration.  They share    *)
(* nothing: every behaviour is one of the part it has chosen, the others      *)
(* stand still.                                                               *)
EXTENDS ProjectStore, Integers, TLC

CONSTANTS b1, b2, h1, h2, None, Provider, OtherProvider, Model, Key, OtherKey, Tab, OtherTab

MCBodies == {b1, b2}
MCHosts == {h1, h2}
MCInitial == [body |-> b1, host |-> h1]

VARIABLES
    part, \* the part that runs
    config, saved, stage, waiting, overruled, smooth,
    tracks, job,
    clips,
    project, bound, host, syncs, contexts, export, disk, latest, finished,
    clipOf, bad, uploads, running, heard, import, deletes, restarts,
    slots, processors, alive, queue, requests, turns, changes, stops, fails, chosen, answered

\* Two providers with a pool of each kind, and two pages that send settings.
Chat == INSTANCE ModelConfig WITH Providers <- {Provider, OtherProvider}, Models <- {Model},
            Keys <- {Key, OtherKey}, Limits <- {"low", "high"}, Default <- "low",
            Tabs <- {}, Pools <- {"chat"}
Other == INSTANCE ModelConfig WITH Providers <- {Provider, OtherProvider}, Models <- {Model},
            Keys <- {Key, OtherKey}, Limits <- {"low", "high"}, Default <- "low",
            Tabs <- {}, Pools <- {"other"}
Pages == INSTANCE ModelConfig WITH Providers <- {Provider}, Models <- {Model},
            Keys <- {Key}, Limits <- {"low"}, Default <- "low",
            Tabs <- {Tab, OtherTab}, Pools <- {"chat"}

\* Tracks that are routed, and tracks of every other type that come, go and are aimed at.
Mixer == INSTANCE Arrangement WITH Types <- {"instrument", "bus"}, Inserts <- {},
            HostIds <- {}, MaxId <- 3, MaxSends <- 1
Arranger == INSTANCE Arrangement WITH Types <- {"instrument", "audio", "automation"},
            Inserts <- {"insert"}, HostIds <- {3}, MaxId <- 3, MaxSends <- 0

\* The notes of two tracks, and the events of one controller of theirs.
Melody == INSTANCE MidiTimeline WITH Tracks <- {1, 2}, Values <- {1, 2}, MaxBeat <- 2,
            MaxClips <- 2, MaxContent <- 2, HasNotes <- TRUE, HasEvents <- FALSE
Controls == INSTANCE MidiTimeline WITH Tracks <- {1, 2}, Values <- {1}, MaxBeat <- 2,
            MaxClips <- 2, MaxContent <- 2, HasNotes <- FALSE, HasEvents <- TRUE

\* What is rendered of a project while it changes; what two plugins in a DAW ask for.
Renders == INSTANCE StudioExport WITH Tracks <- {1, 2}, Instances <- {Tab}, Exports <- {Key},
            Formats <- {"wav", "flac", "midi", "dawproject"}, Modes <- {"stems", "mixdown"},
            Global <- Model, MaxEdits <- 1, MaxSyncs <- 1, MaxAge <- 0, MaxContexts <- 1
Bridge == INSTANCE StudioExport WITH Tracks <- {1}, Instances <- {Tab, OtherTab},
            Exports <- {Key, OtherKey}, Formats <- {"midi", "wav"}, Modes <- {"mixdown"},
            Global <- Model, MaxEdits <- 0, MaxSyncs <- 0, MaxAge <- 1, MaxContexts <- 1
ASSUME Renders!ExportAssumption /\ Bridge!ExportAssumption

\* Two audio files brought into one project.
Audio == INSTANCE AudioImport WITH Imports <- {Key, OtherKey}, MaxNumber <- 3,
            MaxDeletes <- 1, MaxRestarts <- 1, tracks <- clipOf, files <- uploads
ASSUME Audio!AudioAssumption

\* The plugins of two slots over sessions of the host; two requests about one slot.
Session == INSTANCE PluginState WITH Handlers <- {Tab}, Slots <- {0, 1},
            Plugins <- {Key, OtherKey}, MaxTurns <- 2, MaxChanges <- 1, MaxStops <- 1, MaxFails <- 0,
            saved <- slots, host <- processors, running <- alive, call <- requests
Slot == INSTANCE PluginState WITH Handlers <- {Tab, OtherTab}, Slots <- {0},
            Plugins <- {Key, OtherKey}, MaxTurns <- 1, MaxChanges <- 2, MaxStops <- 0, MaxFails <- 1,
            saved <- slots, host <- processors, running <- alive, call <- requests
ASSUME Session!PluginAssumption /\ Slot!PluginAssumption

exportVars == <<project, bound, host, syncs, contexts, export, disk, latest, finished>>
importVars == <<clipOf, bad, uploads, running, heard, import, deletes, restarts>>
pluginVars == <<slots, processors, alive, queue, requests, turns, changes, stops, fails, chosen,
                answered>>
studioVars == <<exportVars, importVars, pluginVars>>
configVars == <<config, saved, stage, waiting, overruled, smooth>>
songVars == <<tracks, job, clips>>

\* What the chosen part does not have is absent.
StoresInit ==
    /\ part \in {"projects", "chat pool", "other pool", "pages", "mixer", "arranger",
                "melody", "controls", "renders", "bridge", "audio", "session", "slot"}
    /\ Init
    /\ CASE part \in {"chat pool", "other pool"} -> Chat!Init
         [] part = "pages" -> Pages!Init
         [] OTHER -> /\ config = None /\ saved = None /\ stage = None /\ waiting = None
                     /\ overruled = None /\ smooth = None
    /\ IF part \in {"mixer", "arranger"} THEN Mixer!Init ELSE tracks = None /\ job = None
    /\ IF part \in {"melody", "controls"} THEN Melody!Init ELSE clips = None
    /\ CASE part = "renders" -> Renders!Init
         [] part = "bridge" -> Bridge!Init
         [] OTHER -> /\ project = None /\ bound = None /\ host = None /\ syncs = None
                     /\ contexts = None /\ export = None /\ disk = None /\ latest = None
                     /\ finished = None
    /\ IF part = "audio" THEN Audio!Init
       ELSE /\ clipOf = None /\ bad = None /\ uploads = None /\ running = None /\ heard = None
            /\ import = None /\ deletes = None /\ restarts = None
    /\ CASE part = "session" -> Session!Init
         [] part = "slot" -> Slot!Init
         [] OTHER -> /\ slots = None /\ processors = None /\ alive = None /\ queue = None
                     /\ requests = None /\ turns = None /\ changes = None /\ stops = None
                     /\ fails = None /\ chosen = None /\ answered = None

StoresNext ==
    /\ UNCHANGED part
    /\ \/ part = "projects" /\ Next /\ UNCHANGED <<configVars, songVars, studioVars>>
       \/ /\ UNCHANGED <<vars, configVars, songVars>>
          /\ \/ /\ UNCHANGED <<importVars, pluginVars>>
                /\ (part = "renders" /\ Renders!Next) \/ (part = "bridge" /\ Bridge!Next)
             \/ part = "audio" /\ Audio!Next /\ UNCHANGED <<exportVars, pluginVars>>
             \/ /\ UNCHANGED <<exportVars, importVars>>
                /\ (part = "session" /\ Session!Next) \/ (part = "slot" /\ Slot!Next)
             \* What these parts may do is bounded; afterwards they rest.
             \/ part \in {"renders", "bridge", "audio", "session", "slot"} /\ UNCHANGED studioVars
       \/ /\ UNCHANGED <<vars, songVars, studioVars>>
          /\ \/ part = "chat pool" /\ Chat!Next
             \/ part = "other pool" /\ Other!Next
             \/ part = "pages" /\ Pages!Next
       \/ /\ UNCHANGED <<vars, configVars, studioVars>>
          /\ \/ part = "mixer" /\ Mixer!Next /\ UNCHANGED clips
             \/ part = "arranger" /\ Arranger!Next /\ UNCHANGED clips
             \/ part = "melody" /\ Melody!Next /\ UNCHANGED <<tracks, job>>
             \/ part = "controls" /\ Controls!Next /\ UNCHANGED <<tracks, job>>

StoresSpec == StoresInit /\ [][StoresNext]_<<part, vars, configVars, songVars, studioVars>>

\* A restart goes on with the models, keys and limits that were at work (models.py).
RestartIsNeutral ==
    /\ part \in {"chat pool", "other pool"} => Chat!RestartIsNeutral
    /\ part = "pages" => Pages!RestartIsNeutral
\* The tracks of a project keep their numbers, and their routes lead to buses without
\* a circle, whatever is edited in whatever order (track_operations.py, track_model.py).
ArrangementHolds ==
    /\ [](part \in {"mixer", "arranger"} => Mixer!RoutingIsSound)
    /\ [][(part \in {"mixer", "arranger"} => Mixer!EditsStayLocal)]_songVars
\* What an edit names by beats of the project, it reaches, and nothing else, however
\* the clips lie (midi_timeline_model.py, midi_selection.py).
EditsLand ==
    /\ part = "melody" => Melody!EditsLand
    /\ part = "controls" => Controls!EditsLand
\* What leaves a project and what is brought into it is there as one file, is what was
\* asked for, and is told to whom it concerns (dashboard/music.py).
StudioFilesHold ==
    /\ part = "renders" => Renders!ExportsHold
    /\ part = "bridge" => Bridge!ExportsHold
    /\ part = "audio" => Audio!ImportsHold
\* The plugins of a track, and what they are set to, stay together between the project
\* and the host (studio/plugin_state.py).
PluginsHold ==
    /\ part = "session" => Session!PluginsHold
    /\ part = "slot" => Slot!PluginsHold
\* The clients and the archive ids of the repository are interchangeable (the run's
\* properties are invariants and step properties).
Symmetry == Permutations(Clients) \cup Permutations(Ids)
=============================================================================

------------------------------ MODULE SkillInstall ------------------------------
(* Skills on disk and who uses them (src/core/skills/skill_manager.py, the     *)
(* routes of dashboard/routes/skills.py, the prompt of process.py).            *)
(*                                                                             *)
(* The dashboard's handlers run one at a time: an upload replaces directories  *)
(* one after the other, a deletion removes one, a switch turns a skill off.    *)
(* Meanwhile tools in threads of their own look skills up, through the same    *)
(* cache of what was discovered: it has no lock and lives two seconds.         *)
(*                                                                             *)
(* A directory holds one skill: its name, from the front matter, and a         *)
(* version.  The search goes through the directories in their order, the       *)
(* install root's first; the first of a name wins.  Archives whose paths or    *)
(* sizes are refused change nothing and are left out, as are companion files   *)
(* and the depth of the search; so is the cache's way of reading the clock: it *)
(* expires at any time.                                                        *)
EXTENDS Integers, Sequences, SequencesExt

CONSTANTS
    None,
    Names,      \* of skills, in the order they are listed
    PlaceOf,       \* that order: a number for every name
    SizeOf, MaxSize, \* how much of the prompt a skill takes, and what the prompt holds
    Installed,  \* the directories of the install root, as numbers
    External,   \* the directories of other roots, with the skill they hold
    Uploads,    \* what an archive may hold: sets of <<directory, name>>
    Loaders, Agents,
    MaxChanges, \* bound: uploads, deletions and switches
    MaxLoads    \* bound: loads of a thread

Dirs == Installed \union DOMAIN External

SkillAssumption ==
    /\ \A u \in Uploads : u \subseteq Installed \X Names
    /\ \A i \in Installed, e \in DOMAIN External : i < e
    /\ External \in [DOMAIN External -> Names]

VARIABLES
    dirs,     \* the skill of a directory: its name and version, or None
    switch,   \* the flags of the configuration: on, off or unset
    saved,    \* the configuration on disk
    cache,    \* what was discovered: by name the directory and version, or None
    prompt,   \* the skills the agents are told of
    agents,   \* the prompt of a live agent, or None
    op,       \* the handler that runs
    loader,   \* what a tool's thread is at
    changes, loads

skillVars == <<dirs, switch, saved, cache, prompt, agents, op, loader, changes, loads>>

-----------------------------------------------------------------------------
(* Discovery and the prompt.                                                  *)

Holding(name) == {d \in Dirs : dirs[d] # None /\ dirs[d].name = name}
Scanned ==
    [n \in {m \in Names : Holding(m) # {}} |->
        [dir |-> Min(Holding(n)), version |-> dirs[Min(Holding(n))].version]]

\* Whoever scans last stores its result, however old it is.
Stored(skills, epoch) == [skills |-> skills, late |-> epoch # changes]
Skills == IF cache # None THEN cache.skills ELSE Scanned
Late == cache # None /\ cache.late

Active(skills) == {n \in DOMAIN skills : switch[n] # "off"}

\* The prompt takes the skills in their order, each that still fits.
Listed(skills) ==
    LET sorted == SortSeq(SetToSeq(Active(skills)), LAMBDA m, n : PlaceOf[m] < PlaceOf[n])
        full == FoldLeft(LAMBDA acc, n :
                            IF acc.size + SizeOf[n] > MaxSize THEN acc
                            ELSE [size |-> acc.size + SizeOf[n],
                                  told |-> acc.told \union {<<n, skills[n].version>>}],
                         [size |-> 0, told |-> {}], sorted)
    IN  full.told

NoOp == [step |-> "idle", left |-> {}, dir |-> None, name |-> None, failed |-> FALSE, late |-> FALSE]
NoLoad == [step |-> "idle", name |-> None, skills |-> None, epoch |-> 0]

Init ==
    /\ dirs = [d \in Dirs |-> IF d \in Installed THEN None ELSE [name |-> External[d], version |-> 0]]
    /\ switch = [n \in Names |-> "unset"] /\ saved = switch
    /\ cache = None /\ prompt = Listed(Scanned)
    /\ agents = [a \in Agents |-> None]
    /\ op = NoOp /\ loader = [t \in Loaders |-> NoLoad]
    /\ changes = 0 /\ loads = [t \in Loaders |-> 0]

-----------------------------------------------------------------------------
(* The handlers.                                                              *)

Upload ==
    /\ op.step = "idle" /\ changes < MaxChanges
    /\ \E u \in Uploads : op' = [NoOp EXCEPT !.step = "installing", !.left = u]
    /\ UNCHANGED <<dirs, switch, saved, cache, prompt, agents, loader, changes, loads>>

\* A directory that cannot be removed ends the handler: its skill is gone or is still
\* there, and no flag, no cache and no prompt has changed for it.
RemovalFails(dir) ==
    /\ \E left \in {dirs[dir], None} : dirs' = [dirs EXCEPT ![dir] = left]
    /\ op' = [NoOp EXCEPT !.failed = TRUE]

\* The directories of an archive come in any order; what was there goes first.
Clear ==
    /\ op.step = "installing" /\ op.left # {}
    /\ \E skill \in op.left :
          \/ /\ op' = [op EXCEPT !.step = "moving", !.left = @ \ {skill},
                                 !.dir = skill[1], !.name = skill[2]]
             /\ dirs' = [dirs EXCEPT ![skill[1]] = None]
          \/ dirs[skill[1]] # None /\ RemovalFails(skill[1])
    /\ UNCHANGED <<switch, saved, cache, prompt, agents, loader, changes, loads>>

\* Moving may fail: what was replaced is gone, the rest of the archive is not
\* installed, and nothing is saved or told.
Move ==
    /\ op.step = "moving"
    /\ \/ /\ dirs' = [dirs EXCEPT ![op.dir] = [name |-> op.name, version |-> changes + 1]]
          /\ op' = [op EXCEPT !.step = "enabling"]
       \/ op' = [NoOp EXCEPT !.failed = TRUE] /\ UNCHANGED dirs
    /\ UNCHANGED <<switch, saved, cache, prompt, agents, loader, changes, loads>>

\* A change of the flags forgets what was discovered.
Switched(name, value) ==
    /\ switch' = [switch EXCEPT ![name] = value]
    /\ cache' = None /\ changes' = changes + 1

\* Fault: an installed skill leaves the cache as it is.
EnableQuietly ==
    /\ op.step = "enabling"
    /\ switch' = [switch EXCEPT ![op.name] = "on"] /\ changes' = changes + 1
    /\ op' = [op EXCEPT !.step = "installing"]
    /\ UNCHANGED <<dirs, saved, cache, prompt, agents, loader, loads>>

Enable ==
    /\ op.step = "enabling"
    /\ Switched(op.name, "on")
    /\ op' = [op EXCEPT !.step = "installing"]
    /\ UNCHANGED <<dirs, saved, prompt, agents, loader, loads>>

InstallEnds ==
    /\ op.step = "installing" /\ op.left = {}
    /\ op' = [op EXCEPT !.step = "publishing"]
    /\ UNCHANGED <<dirs, switch, saved, cache, prompt, agents, loader, changes, loads>>

\* Fault: whatever is listed is deleted.
DeletableAny(dir) == dir \in Dirs

Deletable(dir) == dir \in Installed

\* A skill that is listed is deleted if its directory is the install root's.
Delete ==
    /\ op.step = "idle" /\ changes < MaxChanges
    /\ \E n \in DOMAIN Skills :
          /\ Deletable(Skills[n].dir)
          /\ op' = [NoOp EXCEPT !.step = "deleting", !.dir = Skills[n].dir, !.name = n, !.late = Late]
    /\ cache' = IF cache = None THEN Stored(Scanned, changes) ELSE cache
    /\ UNCHANGED <<dirs, switch, saved, prompt, agents, loader, changes, loads>>

RemoveDir ==
    /\ op.step = "deleting"
    /\ \/ /\ dirs' = [dirs EXCEPT ![op.dir] = None]
          /\ op' = [op EXCEPT !.step = "forgetting"]
       \/ dirs[op.dir] # None /\ RemovalFails(op.dir)
    /\ UNCHANGED <<switch, saved, cache, prompt, agents, loader, changes, loads>>

Forget ==
    /\ op.step = "forgetting"
    /\ Switched(op.name, "unset")
    /\ op' = [op EXCEPT !.step = "publishing"]
    /\ UNCHANGED <<dirs, saved, prompt, agents, loader, loads>>

Toggle ==
    /\ op.step = "idle" /\ changes < MaxChanges
    /\ \E n \in Names, value \in {"on", "off"} :
          switch[n] # value /\ Switched(n, value)
    /\ op' = [NoOp EXCEPT !.step = "publishing"]
    /\ UNCHANGED <<dirs, saved, prompt, agents, loader, loads>>

\* Fault: skills that are switched off are told as well.
PublishAll ==
    /\ op.step = "publishing"
    /\ saved' = switch
    /\ prompt' = {<<n, Skills[n].version>> : n \in DOMAIN Skills}
    /\ cache' = IF cache = None THEN Stored(Scanned, changes) ELSE cache
    /\ op' = [op EXCEPT !.step = "pushing", !.late = Late]
    /\ UNCHANGED <<dirs, switch, agents, loader, changes, loads>>

\* The configuration is saved and the prompt is built anew, from what is cached.
Publish ==
    /\ op.step = "publishing"
    /\ saved' = switch /\ prompt' = Listed(Skills)
    /\ cache' = IF cache = None THEN Stored(Scanned, changes) ELSE cache
    /\ op' = [op EXCEPT !.step = "pushing", !.late = Late]
    /\ UNCHANGED <<dirs, switch, agents, loader, changes, loads>>

\* The live agents are told under their lock.  An agent made meanwhile, under the same
\* lock, has the new prompt already or is among them.
Push ==
    /\ op.step = "pushing"
    /\ agents' = [a \in Agents |-> IF agents[a] = None THEN None ELSE prompt]
    /\ op' = [op EXCEPT !.step = "idle"]
    /\ UNCHANGED <<dirs, switch, saved, cache, prompt, loader, changes, loads>>

AgentStarts(a) ==
    /\ agents[a] = None
    /\ agents' = [agents EXCEPT ![a] = prompt]
    /\ UNCHANGED <<dirs, switch, saved, cache, prompt, op, loader, changes, loads>>

-----------------------------------------------------------------------------
(* The tools.                                                                 *)

CacheExpires ==
    /\ cache # None /\ cache' = None
    /\ UNCHANGED <<dirs, switch, saved, prompt, agents, op, loader, changes, loads>>

LookedUp(t, name, skills) ==
    loader' = [loader EXCEPT ![t] =
                  IF name \in Active(skills)
                  THEN [NoLoad EXCEPT !.step = "open", !.name = name, !.skills = skills]
                  ELSE NoLoad]

Load(t) ==
    /\ loader[t].step = "idle" /\ loads[t] < MaxLoads
    /\ loads' = [loads EXCEPT ![t] = @ + 1]
    /\ \E n \in Names :
          IF cache # None THEN LookedUp(t, n, cache.skills)
          ELSE loader' = [loader EXCEPT ![t] =
                             [step |-> "scanned", name |-> n, skills |-> Scanned, epoch |-> changes]]
    /\ UNCHANGED <<dirs, switch, saved, cache, prompt, agents, op, changes>>

\* What was scanned is cached, also over what was forgotten meanwhile.
StoreScan(t) ==
    /\ loader[t].step = "scanned"
    /\ cache' = Stored(loader[t].skills, loader[t].epoch)
    /\ LookedUp(t, loader[t].name, loader[t].skills)
    /\ UNCHANGED <<dirs, switch, saved, prompt, agents, op, changes, loads>>

\* The file is read: it may be gone, or another skill's by now.
Open(t) ==
    /\ loader[t].step = "open"
    /\ loader' = [loader EXCEPT ![t] = NoLoad]
    /\ UNCHANGED <<dirs, switch, saved, cache, prompt, agents, op, changes, loads>>

Next ==
    \/ Upload \/ Clear \/ Move \/ Enable \/ InstallEnds \/ Delete \/ RemoveDir \/ Forget \/ Toggle
    \/ Publish \/ Push \/ CacheExpires
    \/ \E a \in Agents : AgentStarts(a)
    \/ \E t \in Loaders : Load(t) \/ StoreScan(t) \/ Open(t)

-----------------------------------------------------------------------------
(* Properties.                                                                *)

\* Once a change is through, the agents are told of the skills that are there and switched
\* on, in their latest version, as many as fit, and the flags are saved; unless the cache
\* held a scan from before the change (skill_manager.py, invalidate_cache; routes/skills.py).
PromptIsCurrent ==
    op.step = "idle" /\ ~op.failed /\ ~op.late =>
        prompt = Listed(Scanned) /\ saved = switch

\* Nobody is told an older prompt than the process stage has, outside of a change
\* (process.py, reload_skills, _get_or_create_agent).
AgentsAreTold ==
    op.step # "pushing" => \A a \in Agents : agents[a] \in {None, prompt}

\* A deletion removes the directory of the skill it names, in the install root; unless
\* the cache held a scan from before a change (skill_manager.py, delete_skill).
DeletesItsOwn ==
    /\ op.step = "deleting" /\ ~op.late =>
          dirs[op.dir] = None \/ dirs[op.dir].name = op.name
    /\ \A e \in DOMAIN External : dirs[e] # None

SkillsHold == PromptIsCurrent /\ AgentsAreTold /\ DeletesItsOwn
=============================================================================

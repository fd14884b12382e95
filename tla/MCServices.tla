------------------------------ MODULE MCServices ------------------------------
(* Instances for TLC: an index whose one worker keeps it for good, and what    *)
(* uses the knowledge bases.  Every behaviour is one of the part it has        *)
(* chosen, the others stand still.                                             *)
EXTENDS DocumentIndex, Sequences

CONSTANTS None, Mask, Chunk1, Chunk2, Chunk3

VARIABLES
    part, \* the part that runs
    turn, wants, stored, vector, graph, first, threads, told, sought,
    items, call, calls, future, pending, cancelling, cancels, stopped, announced, report,
    dirs, switch, saved, cache, prompt, agents, op, loader, changes, loads,
    format, text, fed, tags, cut, plan, at, blocks, content, spoken, tries, step,
    history, open,
    conf, file, stage, managers, up, form, fetched, smooth,
    tool, held, posed, agent, request, running, current, halts, ran, approved, rejected,
    crossed, doubled,
    edge, nodes, links, evidence, marks, client, writes, failures, old, named, meant, missed

\* Three chunks of two knowledge bases, one of them found by words as well.
Bases == [c \in {Chunk1, Chunk2, Chunk3} |-> IF c = Chunk3 THEN "b" ELSE "a"]
Context == INSTANCE KnowledgeContext WITH asked <- sought,
               Chunks <- {Chunk1, Chunk2, Chunk3}, BaseOf <- Bases,
               Dense <- {<<Chunk1, Chunk2, Chunk3>>, <<Chunk3, Chunk1, Chunk2>>},
               Sparse <- {<<>>, <<Chunk2>>, <<Chunk2, Chunk3>>},
               TopK <- 3, TopM <- 2, MaxRepeats <- 1, MaxFacts <- 2, MaxDeletes <- 1,
               MaxThreads <- 1
ASSUME Context!ContextAssumption

\* The branches of one turn that fill a ledger while a report is written ("evidence"),
\* and one of them beside another tool on the bridge ("bridge").
Hit(kind, source, refs, score, strength, size) ==
    [kind |-> kind, source |-> source, refs |-> refs, score |-> score,
     strength |-> strength, size |-> size]
ChunkHit(refs, score) == Hit("rag", Chunk1, refs, score, "full", 1)
Evidence == INSTANCE EvidenceLedger WITH
    Branches <- {Chunk1, Chunk2}, OwnerOf <- [b \in {Chunk1, Chunk2} |-> "turn"], Turn <- "turn",
    Answers <- [rag |-> {<<>>, <<ChunkHit({"x"}, 1)>>,
                         <<Hit("rag", Chunk2, {}, 1, "full", 1), ChunkHit({"y"}, 2)>>},
                graph |-> {<<Hit("graph", "fact", {}, 1, "derived", 1)>>},
                web |-> {<<Hit("web", "page", {}, 0, "discovery", 2)>>,
                         <<Hit("web", "page", {}, 0, "full", 1)>>}],
    Citations <- {<<"rag", 1>>, <<"web", 1>>}, MaxCalls <- 1, MaxCancels <- 0
Bridge == INSTANCE EvidenceLedger WITH
    Branches <- {Chunk1, Chunk2},
    OwnerOf <- [b \in {Chunk1, Chunk2} |-> IF b = Chunk1 THEN "turn" ELSE "tool"], Turn <- "turn",
    Answers <- [rag |-> {<<>>, <<ChunkHit({"x"}, 1)>>}, graph |-> {<<>>}, web |-> {<<>>}],
    Citations <- {}, MaxCalls <- 2, MaxCancels <- 1
ASSUME Evidence!EvidenceAssumption /\ Bridge!EvidenceAssumption

\* Two skills, both names in either of two directories, one of them outside too; the
\* prompt has room for either.
Skill == INSTANCE SkillInstall WITH
    Names <- {"a", "b"}, PlaceOf <- [n \in {"a", "b"} |-> IF n = "a" THEN 1 ELSE 2],
    SizeOf <- [n \in {"a", "b"} |-> IF n = "a" THEN 2 ELSE 1], MaxSize <- 2,
    Installed <- {1, 2}, External <- [d \in {3} |-> "a"],
    Uploads <- {{<<1, "a">>}, {<<2, "a">>}, {<<1, "b">>, <<2, "a">>}},
    Loaders <- {Chunk1}, Agents <- {Chunk1}, MaxChanges <- 3, MaxLoads <- 1
ASSUME Skill!SkillAssumption

\* Texts of five words, tags and an open "<" among them, and answers of two blocks.
SomeTags == INSTANCE ModelStream WITH
    told <- spoken, Texts <- {}, Plans <- {}, MaxChunk <- 1, MaxTries <- 1
Words == {<<"x">>, SomeTags!START, SomeTags!END, <<"<">>}
Stream == INSTANCE ModelStream WITH
    told <- spoken, MaxChunk <- 4, MaxTries <- 3,
    Texts <- {a \o b \o c \o d \o e : a, b, c, d, e \in Words},
    Plans <- LET block == [kind : {"text", "thinking", "tool"}, opening : BOOLEAN, deltas : 0 .. 2]
             IN  {<<a, b>> : a, b \in block}
Block == INSTANCE MessageBlocks WITH MaxMessages <- 4, MaxCalls <- 2

\* One page that saves what it shows, and clients that send what is refused, what no
\* request is refused for, and bases that come and go.
Setting == INSTANCE Settings WITH
    config <- conf, saved <- file, asked <- fetched, Pages <- {Chunk1},
    First <- [persona |-> "p", timeout |-> "p", limit |-> "p", tavily |-> None,
              bases |-> "p", wait |-> "p", pace |-> "p", password |-> "q"],
    Typed <- [f \in {"tavily", "bases", "persona", "timeout", "wait", "pace", "password"} |->
                IF f \in {"tavily", "bases"} THEN {"q"} ELSE {}],
    Requests <- {[bases |-> "p"], [bases |-> "q"], [limit |-> "p"], [wait |-> "low"],
                 [persona |-> "wrong", timeout |-> "low", limit |-> "p"],
                 [limit |-> "low", wait |-> "wrong"], [pace |-> "low", tavily |-> None]}

\* Two processes with two facts of a slot and a source ("slot"), or a fact and two sources.
OneSlot == INSTANCE FactLedger WITH
    Slot <- {"fact", "other"}, Plain <- {}, Sources <- {Chunk1}, Texts <- {"text"},
    Clients <- {"here", "there"}, MaxItems <- 2, MaxWrites <- 2, MaxFailures <- 1,
    told <- named, under <- meant, lost <- missed
TwoSources == INSTANCE FactLedger WITH
    Slot <- {}, Plain <- {"fact"}, Sources <- {Chunk1, Chunk2}, Texts <- {"text", "more"},
    Clients <- {"here", "there"}, MaxItems <- 1, MaxWrites <- 2, MaxFailures <- 1,
    told <- named, under <- meant, lost <- missed

\* Two operations, and two requests that decide on them.
Approval == INSTANCE Approvals WITH
    kind <- tool, asked <- posed, cancels <- halts, Users <- {Chunk1, Chunk2},
    MaxOperations <- 2, MaxCancels <- 1
ASSUME Approval!ApprovalAssumption

approvalVars == <<tool, held, posed, agent, request, running, current, halts, ran, approved,
                  rejected, crossed, doubled>>
factVars == <<edge, nodes, links, evidence, marks, client, writes, failures, old, named,
              meant, missed>>
settingVars == <<conf, file, stage, managers, up, form, fetched, smooth>>
streamVars == <<format, text, fed, tags, cut, plan, at, blocks, content, spoken, tries, step,
                history, open>>
skillVars == <<dirs, switch, saved, cache, prompt, agents, op, loader, changes, loads>>
evidenceVars == <<items, call, calls, future, pending, cancelling, cancels, stopped,
                  announced, report>>
contextVars == <<turn, wants, stored, vector, graph, first, threads, told, sought>>

ServicesInit ==
    /\ part \in {"index", "context", "evidence", "bridge", "skills", "stream", "blocks",
                "settings", "approvals", "slot", "sources"}
    /\ Init
    /\ IF part \in {"evidence", "bridge"} THEN Evidence!Init
       ELSE /\ items = None /\ call = None /\ calls = None /\ future = None /\ pending = None
            /\ cancelling = None /\ cancels = None /\ stopped = None
            /\ announced = None /\ report = None
    /\ IF part = "skills" THEN Skill!Init
       ELSE /\ dirs = None /\ switch = None /\ saved = None /\ cache = None /\ prompt = None
            /\ agents = None /\ op = None /\ loader = None /\ changes = None /\ loads = None
    /\ IF part = "stream" THEN Stream!Init
       ELSE /\ format = None /\ text = None /\ fed = None /\ tags = None /\ cut = None
            /\ plan = None /\ at = None /\ blocks = None /\ content = None /\ spoken = None
            /\ tries = None /\ step = None
    /\ IF part = "blocks" THEN Block!Init ELSE history = None /\ open = None
    /\ IF part = "settings" THEN Setting!Init
       ELSE /\ conf = None /\ file = None /\ stage = None /\ managers = None /\ up = None
            /\ form = None /\ fetched = None /\ smooth = None
    /\ IF part = "approvals" THEN Approval!Init
       ELSE /\ tool = None /\ held = None /\ posed = None /\ agent = None /\ request = None
            /\ running = None /\ current = None /\ halts = None /\ ran = None
            /\ approved = None /\ rejected = None /\ crossed = None /\ doubled = None
    /\ CASE part = "slot" -> OneSlot!Init
         [] part = "sources" -> TwoSources!Init
         [] OTHER -> /\ edge = None /\ nodes = None /\ links = None /\ evidence = None
                     /\ marks = None /\ client = None /\ writes = None /\ failures = None
                     /\ old = None /\ named = None /\ meant = None /\ missed = None
    /\ IF part = "context" THEN Context!Init
       ELSE /\ turn = "done" /\ wants = None /\ stored = {} /\ told = None /\ sought = {}
            /\ vector = Context!NoVector /\ graph = Context!NoGraph
            /\ first = 0 /\ threads = 0

\* The parts that are not about the index, each with the variables of its own.
Others ==
    \/ /\ \/ part = "context" /\ Context!Next /\ UNCHANGED evidenceVars
          \/ /\ \/ part = "evidence" /\ Evidence!Next
                \/ part = "bridge" /\ Bridge!Next
             /\ UNCHANGED contextVars
       /\ UNCHANGED <<skillVars, streamVars, settingVars, approvalVars, factVars>>
    \/ /\ \/ part = "skills" /\ Skill!Next /\ UNCHANGED streamVars
          \/ part = "stream" /\ Stream!Next /\ UNCHANGED <<skillVars, history, open>>
          \/ /\ part = "blocks" /\ Block!Next
             /\ UNCHANGED <<skillVars, format, text, fed, tags, cut, plan, at, blocks, content,
                            spoken, tries, step>>
       /\ UNCHANGED <<contextVars, evidenceVars, settingVars, approvalVars, factVars>>
    \/ /\ \/ part = "settings" /\ Setting!Next /\ UNCHANGED <<approvalVars, factVars>>
          \/ part = "approvals" /\ Approval!Next /\ UNCHANGED <<settingVars, factVars>>
          \/ /\ \/ part = "slot" /\ OneSlot!Next
                \/ part = "sources" /\ TwoSources!Next
             /\ UNCHANGED <<settingVars, approvalVars>>
       /\ UNCHANGED <<contextVars, evidenceVars, skillVars, streamVars>>

ServicesNext ==
    /\ UNCHANGED part
    /\ \/ /\ part = "index" /\ Next
          /\ UNCHANGED <<contextVars, evidenceVars, skillVars, streamVars, settingVars,
                         approvalVars, factVars>>
       \/ Others /\ UNCHANGED vars

ServicesSpec ==
    ServicesInit
    /\ [][ServicesNext]_<<part, vars, contextVars, evidenceVars, skillVars, streamVars, settingVars,
                          approvalVars, factVars>>

\* A message is told what is found for it (process.py), evidence is told once and cited truly
\* (evidence.py, report.py), agents are told of the skills that are there
\* (skill_manager.py), what a model streams is split, told and sent back as it was meant
\* (llm.py), the settings in use are those a start would read (models.py), what must be
\* approved is run as the user has decided (bash.py), and of a slot one fact is current,
\* every fact is found under its sources, no evidence is lost (graph.py).
ServedIsFresh ==
    /\ part = "context" => Context!TypeOK /\ Context!ContextHolds
    /\ part = "evidence" => Evidence!EvidenceHolds
    /\ part = "bridge" => Bridge!EvidenceHolds
    /\ part = "skills" => Skill!SkillsHold
    /\ part = "stream" => Stream!StreamHolds
    /\ part = "blocks" => Block!RequestIsValid
    /\ part = "settings" => Setting!SettingsHold
    /\ part = "approvals" => Approval!ApprovalsHold
    /\ part = "slot" => OneSlot!OneIsCurrent /\ OneSlot!FoundBySource /\ OneSlot!EvidenceIsKept
    /\ part = "sources" => TwoSources!FoundBySource /\ TwoSources!EvidenceIsKept

\* A document only fails by its own doing (indexing.py), evidence never weakens
\* (evidence.py), and saving a page of settings takes no base from another (SettingsPage.vue).
NothingIsTakenBack ==
    /\ FailureIsOwn
    /\ [][part = "evidence" => Evidence!EvidenceGrows]_<<part, evidenceVars>>
    /\ [][part = "settings" => Setting!BasesStay]_<<part, settingVars>>

\* In fair runs every request for an index is answered (indexing.py), and every message
\* gets its context (process.py).
RequestsEnd ==
    /\ part = "index" /\ Fairness => Settles
    /\ part = "context" /\ Context!Fairness => Context!TurnEnds
=============================================================================

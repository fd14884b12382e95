------------------------------- MODULE Approvals -------------------------------
(***************************************************************************)
(* Operations a tool holds back until the user has decided: commands of    *)
(* the shell tool (core/tools/bash.py), of which one is held at a time,    *)
(* and operations of the studio tools (core/tools/studio.py), held until   *)
(* each is decided.  Decisions come by request (dashboard/routes/chat.py,  *)
(* server.py) and are carried out by threads, beside each other and beside *)
(* the agent.  A thread may be interrupted between any two uses of the     *)
(* tool's state.                                                           *)
(***************************************************************************)
EXTENDS Naturals, Sequences, SequencesExt

CONSTANTS Users,         \* requests that may be under way
          MaxOperations, \* bound: operations the agent asks for
          MaxCancels,    \* bound: cancellations of the agent
          None

\* Neither an operation nor a request is called what stands for something else.
ApprovalAssumption ==
    /\ MaxOperations \in Nat
    /\ None \notin 1 .. MaxOperations /\ "agent" \notin Users

VARIABLES
    kind,     \* bash, or studio
    held,     \* the operations that are held, in the order in which they were asked for
    asked,    \* how many operations the agent has asked for
    agent,    \* what the agent's own thread does
    request,  \* the decision each request brings, and how far its thread is
    running,  \* processes, or operations, that run
    current,  \* _current_process
    cancels,
    ran,      \* history: how often each operation has been run
    approved, rejected, \* history: operations requests were about, or were said to be off
    crossed,  \* history: the shell tool's state changed under a thread that had looked at it
    doubled   \* history: two processes of the shell tool ran at a time

history == <<ran, approved, rejected, crossed, doubled>>
vars == <<kind, held, asked, agent, request, running, current, cancels, history>>

Operations == 1 .. MaxOperations
Idle == [step |-> "idle"]
Holds(id) == id \in Range(held)

\* What a decision approves, when it is known what it is about.
Approves(decision, ids) == approved' = IF decision = "approve" THEN approved \cup ids ELSE approved

Init ==
    /\ kind \in {"bash", "studio"}
    /\ held = <<>> /\ asked = 0 /\ agent = Idle /\ request = [u \in Users |-> Idle]
    /\ running = {} /\ current = None /\ cancels = 0
    /\ ran = [o \in Operations |-> 0] /\ approved = {} /\ rejected = {}
    /\ crossed = FALSE /\ doubled = FALSE

\* Threads of the shell tool that have looked at what is held and not yet cleared it.
Looking(others) == \E u \in others : request[u].step \in {"checked", "taken"}

----------------------------------------------------------------------------
\* The agent asks for an operation that must be confirmed; the shell tool forgets the
\* one before.
Hold ==
    /\ agent = Idle /\ asked < MaxOperations
    /\ asked' = asked + 1
    /\ held' = IF kind = "bash" THEN <<asked + 1>> ELSE Append(held, asked + 1)
    /\ crossed' = (crossed \/ (kind = "bash" /\ Looking(Users)))
    /\ UNCHANGED <<kind, agent, request, running, current, cancels, ran, approved,
                   rejected, doubled>>

\* Or for a harmless command, which runs at once.
Execute ==
    /\ kind = "bash" /\ agent = Idle /\ asked < MaxOperations
    /\ asked' = asked + 1
    /\ agent' = [step |-> "run", op |-> asked + 1]
    /\ approved' = approved \cup {asked + 1}
    /\ UNCHANGED <<kind, held, request, running, current, cancels, ran, rejected,
                   crossed, doubled>>

\* A request with a decision: the operation it names must be held, or any if it names none.
Decide(u, decision, id) ==
    /\ request[u] = Idle
    /\ IF id = None THEN held # <<>> ELSE Holds(id)
    /\ request' = [request EXCEPT ![u] = [step |-> "found", decision |-> decision, id |-> id]]
    /\ Approves(decision, {id} \ {None})
    /\ UNCHANGED <<kind, held, asked, agent, running, current, cancels, ran, rejected,
                   crossed, doubled>>

(* Fault: the thread does not look for the operation again. *)
CheckAny(u) ==
    /\ kind = "bash" /\ request[u].step = "found"
    /\ request' = [request EXCEPT ![u] = IF held = <<>> THEN Idle ELSE [@ EXCEPT !.step = "checked"]]
    /\ crossed' = (crossed \/ (held # <<>> /\ Looking(Users)))
    /\ UNCHANGED <<kind, held, asked, agent, running, current, cancels, ran, approved,
                   rejected, doubled>>

\* The shell tool's thread: is the operation still held?  It is not found, or ...
Check(u) ==
    /\ kind = "bash" /\ request[u].step = "found"
    /\ LET id == request[u].id
           there == IF id = None THEN held # <<>> ELSE Holds(id)
       IN  /\ request' = [request EXCEPT ![u] =
                            IF there THEN [@ EXCEPT !.step = "checked"] ELSE Idle]
           /\ crossed' = (crossed \/ (there /\ Looking(Users)))
    /\ UNCHANGED <<kind, held, asked, agent, running, current, cancels, ran, approved,
                   rejected, doubled>>

\* ... its command is read, which fails if nothing is held any more, ...
Take(u) ==
    /\ kind = "bash" /\ request[u].step = "checked"
    /\ request' = [request EXCEPT ![u] =
            IF held = <<>> THEN Idle
            ELSE [step |-> "taken", decision |-> @.decision, op |-> Head(held)]]
    /\ Approves(request[u].decision, IF request[u].id = None /\ held # <<>> THEN {Head(held)} ELSE {})
    /\ UNCHANGED <<kind, held, asked, agent, running, current, cancels, ran, rejected,
                   crossed, doubled>>

\* ... and nothing is held then.
Clear(u) ==
    /\ kind = "bash" /\ request[u].step = "taken"
    /\ held' = <<>>
    /\ request' = [request EXCEPT ![u] =
            IF @.decision = "approve" THEN [step |-> "run", op |-> @.op] ELSE Idle]
    /\ rejected' = IF request[u].decision = "reject" THEN rejected \cup {request[u].op} ELSE rejected
    /\ UNCHANGED <<kind, asked, agent, running, current, cancels, ran, approved, crossed, doubled>>

(* Fault: the operation stays in the table until it has run. *)
PopLate(u) ==
    /\ kind = "studio" /\ request[u].step = "found"
    /\ LET id == IF request[u].id = None /\ held # <<>> THEN Head(held) ELSE request[u].id
       IN  IF Holds(id)
           THEN /\ request' = [request EXCEPT ![u] =
                        IF @.decision = "approve" THEN [step |-> "run", op |-> id] ELSE Idle]
                /\ rejected' = IF request[u].decision = "reject" THEN rejected \cup {id} ELSE rejected
           ELSE request' = [request EXCEPT ![u] = Idle] /\ UNCHANGED rejected
    /\ UNCHANGED <<kind, held, asked, agent, running, current, cancels, ran, approved,
                   crossed, doubled>>

\* The studio tools' thread takes the operation out of the table.  One that names none
\* looks for the first, which another thread may take first.
Pop(u) ==
    /\ kind = "studio" /\ request[u].step = "found"
    /\ IF request[u].id = None /\ held # <<>>
       THEN /\ request' = [request EXCEPT ![u].id = Head(held)]
            /\ Approves(request[u].decision, {Head(held)})
            /\ UNCHANGED <<held, rejected>>
       ELSE LET id == request[u].id
            IN  /\ UNCHANGED approved
                /\ IF Holds(id)
                   THEN /\ \E i \in DOMAIN held : held[i] = id /\ held' = RemoveAt(held, i)
                        /\ request' = [request EXCEPT ![u] =
                               IF @.decision = "approve" THEN [step |-> "run", op |-> id] ELSE Idle]
                        /\ rejected' = IF request[u].decision = "reject"
                                       THEN rejected \cup {id} ELSE rejected
                   ELSE request' = [request EXCEPT ![u] = Idle] /\ UNCHANGED <<held, rejected>>
    /\ UNCHANGED <<kind, asked, agent, running, current, cancels, ran, crossed, doubled>>

----------------------------------------------------------------------------
\* What is run, by the agent's thread or a request's: a process, which is then noted.
Threads == Users \cup {"agent"}
Thread(u) == IF u = "agent" THEN agent ELSE request[u]
Becomes(u, state) ==
    IF u = "agent" THEN agent' = state /\ UNCHANGED request
    ELSE request' = [request EXCEPT ![u] = state] /\ UNCHANGED agent

Start(u) ==
    /\ Thread(u).step = "run"
    /\ LET o == Thread(u).op
       IN  /\ running' = running \cup {o} /\ ran' = [ran EXCEPT ![o] = @ + 1]
           /\ Becomes(u, [step |-> "started", op |-> o])
           /\ doubled' = (doubled \/ \E v \in Threads \ {u} : Thread(v).step \in {"started", "noted"})
    /\ UNCHANGED <<kind, held, asked, current, cancels, approved, rejected, crossed>>

(* Fault: the process is not noted. *)
NoteNothing(u) ==
    /\ kind = "bash" /\ Thread(u).step = "started"
    /\ Becomes(u, [Thread(u) EXCEPT !.step = "noted"])
    /\ UNCHANGED <<kind, held, asked, running, current, cancels, history>>

Note(u) ==
    /\ kind = "bash" /\ Thread(u).step = "started"
    /\ current' = Thread(u).op
    /\ Becomes(u, [Thread(u) EXCEPT !.step = "noted"])
    /\ UNCHANGED <<kind, held, asked, running, cancels, history>>

\* A process ends, by itself or when its time is over; and then its thread, too.
Exit(o) ==
    /\ o \in running
    /\ running' = running \ {o}
    /\ UNCHANGED <<kind, held, asked, agent, request, current, cancels, history>>

Finish(u) ==
    /\ Thread(u).step = (IF kind = "bash" THEN "noted" ELSE "started")
    /\ Thread(u).op \notin running
    /\ Becomes(u, Idle)
    /\ current' = None
    /\ UNCHANGED <<kind, held, asked, running, cancels, history>>

\* The agent's turn is cancelled: the process that is noted is ended.
Cancel ==
    /\ kind = "bash" /\ cancels < MaxCancels
    /\ cancels' = cancels + 1
    /\ running' = running \ {current}
    /\ UNCHANGED <<kind, held, asked, agent, request, current, history>>

Next ==
    \/ Hold \/ Execute \/ Cancel
    \/ \E u \in Users, decision \in {"approve", "reject"} :
           \E id \in Operations \cup {None} : Decide(u, decision, id)
    \/ \E u \in Users : Check(u) \/ Take(u) \/ Clear(u) \/ Pop(u)
    \/ \E u \in Threads : Start(u) \/ Note(u) \/ Finish(u)
    \/ \E o \in Operations : Exit(o)

Spec == Init /\ [][Next]_vars

----------------------------------------------------------------------------
\* An operation runs once at most, only if its approval was asked for, and not if it was
\* said to be off.  The shell tool keeps to that as long as what it holds does not change
\* under a thread that has looked at it, and decisions name what they are about.
RunsAsDecided ==
    ~crossed => \A o \in Operations :
        /\ ran[o] <= 1
        /\ ran[o] > 0 => o \in approved \ rejected

\* What is held has neither run nor been called off.
HeldIsOpen == ~crossed => \A o \in Range(held) : ran[o] = 0 /\ o \notin rejected

\* A cancellation reaches the process that runs, if it is the only one.
CancelReaches ==
    kind = "bash" /\ ~doubled => \A u \in Threads :
        Thread(u).step = "noted" => current = Thread(u).op

ApprovalsHold == RunsAsDecided /\ HeldIsOpen /\ CancelReaches
=============================================================================

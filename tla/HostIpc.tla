-------------------------------- MODULE HostIpc --------------------------------
(***************************************************************************)
(* HostManager (core/host.py): the coroutines that send commands to the    *)
(* Rust audio host over a pair of pipes and read one JSON reply for each,  *)
(* the start and stop of the process, and the cache by which a project     *)
(* sync skips commands the host has already accepted (dashboard/music.py). *)
(*                                                                         *)
(* What a coroutine does between two awaits is one action.  The host is a  *)
(* process of its own: it may be slow, die at any moment or never answer.  *)
(* The commands are written to its pipe by the event loop itself, which    *)
(* stands still while the pipe is full.                                    *)
(***************************************************************************)
EXTENDS Integers, FiniteSets, SequencesExt

CONSTANTS Callers,      \* coroutines that call send_command
          Patient,      \* those that wait without a timeout (bounce)
          Stopper,      \* the coroutine inside stop()
          Values,       \* values of one cached setting, such as the tempo
          PipeRoom,     \* commands the pipe takes that the host has not read
          MaxProcesses, \* bound: how often the process is spawned
          MaxCommands   \* bound: how many commands are written

ASSUME HostAssumption ==
    /\ IsFiniteSet(Callers) /\ Patient \subseteq Callers /\ Stopper \notin Callers
    /\ PipeRoom \in Nat /\ MaxProcesses \in Nat /\ MaxCommands \in Nat

VARIABLES
    process,   \* _process: the number of the process, 0 for None
    spawned,   \* how many processes there have been
    running,   \* _running
    host,      \* what the newest process is doing
    hostValue, \* the value it accepted last, or "unset"
    tracked,   \* history: a sync that writes the cache sent that value
    input,     \* commands in its stdin
    output,    \* replies in its stdout
    reader,    \* the _read_stdout task is there
    responses, \* _response_queue
    line,      \* _command_lock: its holder, then its waiters
    at,        \* where each caller is
    want,      \* what each caller is sending
    lag,       \* how many commands the last reply given to a caller was behind
    issued,    \* how many commands have been written
    givenUp,   \* how many waits for a reply ended without one
    blocked,   \* the event loop is in a write to a full pipe
    lifecycle, \* where the holder of _lifecycle_lock is
    cache,     \* the dict in _host_sync_fingerprints: the accepted value, or "unset"
    session,   \* the process that dict was made for
    syncing    \* the syncs that hold that dict, and not one cleared away

pipes == <<input, output>>
callers == <<at, want, lag>>
known == <<cache, session, syncing>>
device == <<host, hostValue, tracked>>
vars == <<process, spawned, running, device, pipes, reader, responses, line, callers,
          issued, givenUp, blocked, lifecycle, known>>

Live == process # 0 /\ host # "dead"
IsRunning == running /\ Live
Holds(c) == line # <<>> /\ Head(line) = c
Goto(c, s) == at' = [at EXCEPT ![c] = s]

\* A step of the event loop, which writes no command.
OnLoop == ~blocked /\ UNCHANGED blocked

Init ==
    /\ process = 0 /\ spawned = 0 /\ running = FALSE
    /\ host = "dead" /\ hostValue = "unset" /\ tracked = TRUE
    /\ input = <<>> /\ output = <<>>
    /\ reader = FALSE /\ responses = <<>> /\ line = <<>>
    /\ at = [c \in Callers |-> "idle"]
    /\ want = [c \in Callers |-> "query"]
    /\ lag = 0
    /\ issued = 0 /\ givenUp = 0 /\ blocked = FALSE
    /\ lifecycle = "free"
    /\ cache = "unset" /\ session = 0 /\ syncing = {}

----------------------------------------------------------------------------
(***************************************************************************)
(* The process.                                                            *)
(***************************************************************************)
\* ipc.rs: one command is read, one reply written.  A setting may be refused.
Handle ==
    /\ host = "up" /\ input # <<>>
    /\ LET command == Head(input)
       IN  /\ input' = Tail(input)
           /\ \E ok \in IF command.what \in Values THEN BOOLEAN ELSE {TRUE} :
                /\ output' = Append(output, [cmd |-> command.cmd, ok |-> ok])
                /\ IF ok /\ command.what \in Values
                   THEN hostValue' = command.what /\ tracked' = command.tracked
                   ELSE UNCHANGED <<hostValue, tracked>>
           /\ host' = IF command.what = "shutdown" THEN "leaving" ELSE "up"
    /\ UNCHANGED <<process, spawned, running, reader, responses, line, callers, issued,
                   givenUp, blocked, lifecycle, known>>

Dies == host' = "dead" /\ input' = <<>> /\ hostValue' = "unset" /\ tracked' = TRUE

\* It crashes, or leaves its loop after a shutdown; what it wrote can be read.
Exit ==
    /\ host # "dead"
    /\ Dies
    /\ UNCHANGED <<process, spawned, running, output, reader, responses, line, callers, issued,
                   givenUp, blocked, lifecycle, known>>

----------------------------------------------------------------------------
(***************************************************************************)
(* send_command.                                                           *)
(***************************************************************************)
\* c queues for the command lock.
Queue(c, what) ==
    /\ issued + Len(line) < MaxCommands
    /\ want' = [want EXCEPT ![c] = what]
    /\ line' = Append(line, c)
    /\ Goto(c, "waiting")

\* c is done with its request, and its sync with the dict it held.
Done(c) ==
    /\ Goto(c, "idle") /\ want' = [want EXCEPT ![c] = "query"]
    /\ syncing' = syncing \ {c}

Bounce(c) ==
    /\ c \in Patient /\ at[c] = "idle"
    /\ OnLoop /\ Queue(c, "query")
    /\ UNCHANGED <<process, spawned, running, device, pipes, reader, responses, lag, issued,
                   givenUp, lifecycle, known>>

\* /studio/host/command: a setting is sent past the cache.
RawCommand(c, v) ==
    /\ c \notin Patient /\ at[c] = "idle"
    /\ IsRunning
    /\ OnLoop /\ Queue(c, v)
    /\ UNCHANGED <<process, spawned, running, device, pipes, reader, responses, lag, issued,
                   givenUp, lifecycle, known>>

(* Fault: the cache survives the process it was made for. *)
BeginSyncKeepingCache(c) ==
    /\ c \notin Patient /\ at[c] = "idle"
    /\ OnLoop
    /\ IF IsRunning
       THEN /\ Queue(c, "query")
            /\ session' = process /\ syncing' = syncing \cup {c} /\ UNCHANGED cache
       ELSE cache' = "unset" /\ session' = 0 /\ syncing' = {} /\ UNCHANGED <<line, at, want>>
    /\ UNCHANGED <<process, spawned, running, device, pipes, reader, responses, lag, issued,
                   givenUp, lifecycle>>

\* _sync_project_to_host: a cache made for another process is emptied, then the host's status
\* asked.  When the host is not running the dict is dropped, and with it the syncs that still
\* write it.
BeginSync(c) ==
    /\ c \notin Patient /\ at[c] = "idle"
    /\ OnLoop
    /\ IF IsRunning
       THEN /\ Queue(c, "query")
            /\ session' = process /\ syncing' = syncing \cup {c}
            /\ cache' = IF session = process THEN cache ELSE "unset"
       ELSE cache' = "unset" /\ session' = 0 /\ syncing' = {} /\ UNCHANGED <<line, at, want>>
    /\ UNCHANGED <<process, spawned, running, device, pipes, reader, responses, lag, issued,
                   givenUp, lifecycle>>

\* _send_changed_host_command: a value the cache holds is not sent again.  What a dict that
\* was dropped holds is left open.
SkipUnchanged(c, v) ==
    /\ at[c] = "synced" /\ (c \in syncing => cache = v)
    /\ OnLoop /\ Done(c)
    /\ UNCHANGED <<process, spawned, running, device, pipes, reader, responses, line, lag,
                   issued, givenUp, lifecycle, cache, session>>

SendChanged(c, v) ==
    /\ at[c] = "synced" /\ (c \in syncing => cache # v)
    /\ OnLoop /\ Queue(c, v)
    /\ UNCHANGED <<process, spawned, running, device, pipes, reader, responses, lag, issued,
                   givenUp, lifecycle, known>>

\* What the sync remembers of an answer; an error forgets the setting.
Remember(c, ok) ==
    cache' = IF c \in syncing /\ want[c] \in Values THEN (IF ok THEN want[c] ELSE "unset")
             ELSE cache

\* With an answer, or an error for one, c leaves the lock and goes on with the rest of its sync.
GoOn(c) ==
    /\ line' = Tail(line)
    /\ IF c \notin Patient /\ want[c] = "query"
       THEN Goto(c, "synced") /\ UNCHANGED <<want, syncing>>
       ELSE Done(c)

Receive(c, n, reply) ==
    /\ lag' = n - reply.cmd
    /\ Remember(c, reply.ok)
    /\ GoOn(c)

(* Fault: the lock is not given back when the command cannot be written. *)
SendFailsHoldingLock(c) ==
    /\ at[c] = "waiting" /\ Holds(c)
    /\ ~IsRunning
    /\ Done(c) /\ blocked' = FALSE
    /\ UNCHANGED <<process, spawned, running, device, pipes, reader, responses, line, lag,
                   issued, givenUp, lifecycle, cache, session>>

\* The host is not running, or its pipe breaks: RuntimeError or OSError.
SendFails(c) ==
    /\ at[c] = "waiting" /\ Holds(c)
    /\ ~IsRunning
    /\ line' = Tail(line)
    /\ Done(c) /\ blocked' = FALSE
    /\ UNCHANGED <<process, spawned, running, device, pipes, reader, responses, lag, issued,
                   givenUp, lifecycle, cache, session>>

\* The pipe is full: the write and flush keep the event loop until the host reads or dies.
SendBlocks(c) ==
    /\ at[c] = "waiting" /\ Holds(c)
    /\ IsRunning /\ Len(input) >= PipeRoom
    /\ ~blocked /\ blocked' = TRUE
    /\ UNCHANGED <<process, spawned, running, device, pipes, reader, responses, line, callers,
                   issued, givenUp, lifecycle, known>>

\* The command is written; a reply that is already there is taken at once.
Send(c) ==
    /\ at[c] = "waiting" /\ Holds(c)
    /\ IsRunning /\ Len(input) < PipeRoom
    /\ blocked' = FALSE
    /\ issued' = issued + 1
    /\ input' = Append(input, [cmd |-> issued + 1, what |-> want[c], tracked |-> c \in syncing])
    /\ IF responses # <<>>
       THEN Receive(c, issued + 1, Head(responses)) /\ responses' = Tail(responses)
       ELSE /\ Goto(c, "reading")
            /\ UNCHANGED <<responses, line, want, lag, cache, syncing>>
    /\ UNCHANGED <<process, spawned, running, device, output, reader, givenUp, lifecycle,
                   session>>

\* The reader task passes a reply on: to the coroutine that waits for one,
\* otherwise to the queue.
Deliver ==
    /\ OnLoop
    /\ reader /\ output # <<>>
    /\ output' = Tail(output)
    /\ reader' = running
    /\ LET reply == Head(output)
       IN  IF \E c \in Callers : Holds(c) /\ at[c] = "reading"
           THEN /\ Receive(Head(line), issued, reply)
                /\ UNCHANGED <<responses, running, lifecycle>>
           ELSE IF lifecycle = "acking"
           THEN /\ line' = Tail(line) /\ running' = FALSE /\ lifecycle' = "exiting"
                /\ UNCHANGED <<responses, at, want, lag, cache, syncing>>
           ELSE /\ responses' = Append(responses, reply)
                /\ UNCHANGED <<line, running, lifecycle, at, want, lag, cache, syncing>>
    /\ UNCHANGED <<process, spawned, device, input, issued, givenUp, session>>

\* response_timeout is over: an error is returned, the reply still to come.
Timeout(c) ==
    /\ at[c] = "reading" /\ c \notin Patient
    /\ OnLoop
    /\ givenUp' = givenUp + 1
    /\ Remember(c, FALSE)
    /\ GoOn(c)
    /\ UNCHANGED <<process, spawned, running, device, pipes, reader, responses, lag, issued,
                   lifecycle, session>>

\* The page is gone and its request cancelled: a reader leaves its reply to come, and the cache
\* as it was; one that waits for the lock leaves the line wherever it stands.
Cancelled(c) ==
    /\ at[c] # "idle"
    /\ OnLoop /\ Done(c)
    /\ IF at[c] = "reading"
       THEN line' = Tail(line) /\ givenUp' = givenUp + 1
       ELSE /\ UNCHANGED givenUp
            /\ IF at[c] = "waiting"
               THEN \E i \in DOMAIN line : line[i] = c /\ line' = RemoveAt(line, i)
               ELSE UNCHANGED line
    /\ UNCHANGED <<process, spawned, running, device, pipes, reader, responses, lag, issued,
                   lifecycle, cache, session>>

----------------------------------------------------------------------------
(***************************************************************************)
(* start and stop, one at a time under the lifecycle lock.                 *)
(***************************************************************************)
\* start() on a process that died: its reader is cancelled before the next one.
CleanUpDead ==
    /\ lifecycle = "free" /\ OnLoop
    /\ process # 0 /\ host = "dead" /\ spawned < MaxProcesses
    /\ lifecycle' = "starting"
    /\ reader' = FALSE /\ output' = <<>>
    /\ UNCHANGED <<process, spawned, running, device, input, responses, line, callers, issued,
                   givenUp, known>>

Spawn ==
    /\ lifecycle = "starting" \/ (lifecycle = "free" /\ process = 0)
    /\ OnLoop
    /\ spawned < MaxProcesses
    /\ spawned' = spawned + 1 /\ process' = spawned + 1
    /\ running' = TRUE /\ reader' = TRUE
    /\ host' = "up" /\ hostValue' = "unset" /\ tracked' = TRUE
    /\ input' = <<>> /\ output' = <<>>
    /\ lifecycle' = "free"
    /\ UNCHANGED <<responses, line, callers, issued, givenUp, known>>

SpawnFails ==
    /\ lifecycle = "starting" /\ OnLoop
    /\ process' = 0 /\ running' = FALSE
    /\ lifecycle' = "free"
    /\ UNCHANGED <<spawned, device, pipes, reader, responses, line, callers, issued, givenUp,
                   known>>

StopDead ==
    /\ lifecycle = "free" /\ process # 0 /\ host = "dead"
    /\ OnLoop
    /\ process' = 0 /\ running' = FALSE
    /\ reader' = FALSE /\ output' = <<>>
    /\ UNCHANGED <<spawned, device, input, responses, line, callers, issued, givenUp,
                   lifecycle, known>>

\* stop() queues for the command lock with everybody else.
StopBegins ==
    /\ lifecycle = "free" /\ Live
    /\ OnLoop
    /\ issued + Len(line) < MaxCommands
    /\ line' = Append(line, Stopper)
    /\ lifecycle' = "asking"
    /\ UNCHANGED <<process, spawned, running, device, pipes, reader, responses, callers,
                   issued, givenUp, known>>

\* No shutdown can be written: the process is dead, or an earlier stop() closed its stdin.
Unwritable == host = "dead" \/ ~running

(* Fault: stop() does not wait for the ack of its shutdown. *)
StopAsksWithoutAck ==
    /\ lifecycle = "asking" /\ Holds(Stopper)
    /\ Len(input) < PipeRoom
    /\ issued' = issued + 1
    /\ input' = Append(input, [cmd |-> issued + 1, what |-> "shutdown", tracked |-> FALSE])
    /\ line' = Tail(line) /\ running' = FALSE /\ lifecycle' = "exiting"
    /\ blocked' = FALSE
    /\ UNCHANGED <<process, spawned, device, output, reader, responses, callers, givenUp, known>>

\* The shutdown meets a full pipe like any command.
StopBlocks ==
    /\ lifecycle = "asking" /\ Holds(Stopper)
    /\ ~Unwritable /\ Len(input) >= PipeRoom
    /\ ~blocked /\ blocked' = TRUE
    /\ UNCHANGED <<process, spawned, running, device, pipes, reader, responses, line, callers,
                   issued, givenUp, lifecycle, known>>

\* shutdown is written, unless the pipe is broken or closed, and the ack awaited; a reply
\* that is already there passes for it.
StopAsks ==
    /\ lifecycle = "asking" /\ Holds(Stopper)
    /\ Unwritable \/ Len(input) < PipeRoom
    /\ blocked' = FALSE
    /\ IF Unwritable
       THEN UNCHANGED <<issued, input>>
       ELSE /\ issued' = issued + 1
            /\ input' = Append(input, [cmd |-> issued + 1, what |-> "shutdown", tracked |-> FALSE])
    /\ IF Unwritable \/ responses # <<>>
       THEN /\ line' = Tail(line) /\ running' = FALSE /\ lifecycle' = "exiting"
            /\ responses' = IF Unwritable THEN responses ELSE Tail(responses)
       ELSE lifecycle' = "acking" /\ UNCHANGED <<line, running, responses>>
    /\ UNCHANGED <<process, spawned, device, output, reader, callers, givenUp, known>>

AckTimeout ==
    /\ lifecycle = "acking" /\ OnLoop
    /\ givenUp' = givenUp + 1
    /\ line' = Tail(line) /\ running' = FALSE /\ lifecycle' = "exiting"
    /\ UNCHANGED <<process, spawned, device, pipes, reader, responses, callers, issued, known>>

\* wait(5), terminate, wait(2), kill: the process ends whatever it does.
WaitForExit ==
    /\ lifecycle = "exiting" /\ OnLoop
    /\ Dies
    /\ lifecycle' = "exited"
    /\ UNCHANGED <<process, spawned, running, output, reader, responses, line, callers, issued,
                   givenUp, known>>

(* Fault: stop() does not wait for the process. *)
StoppedWithoutWait ==
    /\ lifecycle \in {"exiting", "exited"} /\ OnLoop
    /\ process' = 0 /\ reader' = FALSE /\ output' = <<>>
    /\ lifecycle' = "free"
    /\ UNCHANGED <<spawned, running, device, input, responses, line, callers, issued, givenUp,
                   known>>

Stopped ==
    /\ lifecycle = "exited" /\ OnLoop
    /\ process' = 0 /\ reader' = FALSE /\ output' = <<>>
    /\ lifecycle' = "free"
    /\ UNCHANGED <<spawned, running, device, input, responses, line, callers, issued, givenUp,
                   known>>

\* The request that starts or stops the host is cancelled where it waits: the lifecycle lock is
\* given back, the ack may still come, a process told to leave is left to itself.
LifecycleCancelled ==
    /\ lifecycle \in {"starting", "asking", "acking", "exiting"} /\ OnLoop
    /\ lifecycle' = "free"
    /\ givenUp' = IF lifecycle = "acking" THEN givenUp + 1 ELSE givenUp
    /\ IF lifecycle = "acking" THEN line' = Tail(line)
       ELSE IF lifecycle = "asking"
       THEN \E i \in DOMAIN line : line[i] = Stopper /\ line' = RemoveAt(line, i)
       ELSE UNCHANGED line
    /\ UNCHANGED <<process, spawned, running, device, pipes, reader, responses, callers, issued,
                   known>>

CallerStep(c) == SendFails(c) \/ SendBlocks(c) \/ Send(c) \/ Timeout(c)
StopStep == StopAsks \/ StopBlocks \/ AckTimeout \/ WaitForExit \/ Stopped

Next ==
    \/ Handle \/ Exit \/ Deliver
    \/ \E c \in Callers :
        \/ Bounce(c) \/ BeginSync(c) \/ CallerStep(c) \/ Cancelled(c)
        \/ \E v \in Values : RawCommand(c, v) \/ SkipUnchanged(c, v) \/ SendChanged(c, v)
    \/ CleanUpDead \/ Spawn \/ SpawnFails \/ StopDead
    \/ StopBegins \/ StopStep \/ LifecycleCancelled

Spec == Init /\ [][Next]_vars

\* The event loop runs every coroutine that can go on, timers included; nothing
\* is assumed of the host.
Fairness == (\A c \in Callers : WF_vars(CallerStep(c))) /\ WF_vars(StopStep)
FairSpec == Spec /\ Fairness

----------------------------------------------------------------------------
(***************************************************************************)
(* Properties.                                                             *)
(***************************************************************************)
Command == [cmd : Nat, what : Values \cup {"query", "shutdown"}, tracked : BOOLEAN]
Reply == [cmd : Nat, ok : BOOLEAN]

\* The types of the queues, and of all variables.
QueueTypes ==
    /\ input \in Seq(Command) /\ output \in Seq(Reply) /\ responses \in Seq(Reply)
    /\ line \in Seq(Callers \cup {Stopper})

TypeOK ==
    /\ QueueTypes
    /\ process \in Nat /\ spawned \in Nat /\ issued \in Nat /\ givenUp \in Nat
    /\ session \in Nat /\ syncing \subseteq Callers
    /\ running \in BOOLEAN /\ reader \in BOOLEAN /\ tracked \in BOOLEAN /\ blocked \in BOOLEAN
    /\ host \in {"up", "leaving", "dead"}
    /\ hostValue \in Values \cup {"unset"} /\ cache \in Values \cup {"unset"}
    /\ at \in [Callers -> {"idle", "synced", "waiting", "reading"}]
    /\ want \in [Callers -> Values \cup {"query"}]
    /\ lag \in Int
    /\ lifecycle \in {"free", "starting", "asking", "acking", "exiting", "exited"}

\* Replies carry no number, so a caller is given the oldest reply nobody took.
\* It is never further behind the command just written than the number of waits
\* that ended without a reply, timed out or cancelled: while none did, every
\* caller gets its own, through crashes, restarts, stops and full pipes.
LagWithinGivenUp == Len(responses) <= givenUp /\ lag \in 0 .. givenUp

Quiet == host = "up" /\ line = <<>> /\ input = <<>> /\ output = <<>> /\ responses = <<>>

\* When nothing is under way and no reply is left over, what the cache says the host has is
\* what it has, whatever was refused, cleared or restarted before: unless the host got its
\* value past the cache, by a raw command or from a sync whose dict had been dropped.
CacheTruthful ==
    Quiet /\ session = process /\ tracked /\ cache # "unset" => cache = hostValue

\* The manager lets go of a process only when it is dead, so that two hosts
\* never hold the audio device.
NoOrphan == process = 0 => host = "dead"

\* The inductive invariant.  Who waits for a reply holds the lock.
ReadersHold ==
    /\ \A c \in Callers : at[c] = "reading" => Holds(c)
    /\ lifecycle = "acking" => Holds(Stopper)

\* The replies still to come are at most as many as the waits that gave up, besides the one
\* that is waited for, and the i-th of them answers at best the i-th of the commands that
\* have got no answer.
Waits == IF lifecycle = "acking" \/ \E c \in Callers : at[c] = "reading" THEN 1 ELSE 0
Answered == issued - givenUp - Waits
Within(replies, low, high) == \A i \in DOMAIN replies : replies[i].cmd \in low + i .. high

RepliesToCome ==
    /\ Waits = 1 => responses = <<>>
    /\ Len(responses) + Len(output) + Len(input) <= givenUp + Waits
    /\ Within(responses, Answered, issued)
    /\ Within(output, Answered + Len(responses), issued)
    /\ Within(input, Answered + Len(responses) + Len(output), issued)

\* As long as no reply is to come but the one that is waited for, a running host was sent
\* what the waiting coroutine wants, and the cache is true of it, unless the reply that will
\* change the cache is on its way.
InStep == Len(responses) + Len(output) + Len(input) <= Waits

CommandPending ==
    host = "up" /\ InStep =>
        /\ input # <<>> /\ lifecycle = "acking" => Head(input).what = "shutdown"
        /\ \A c \in Callers : at[c] = "reading" =>
            /\ input # <<>> =>
                /\ Head(input).what = want[c]
                /\ Head(input).tracked => c \in syncing \/ cache = "unset"
            /\ output # <<>> /\ Head(output).ok /\ want[c] \in Values => hostValue = want[c]

CacheFollows ==
    /\ session <= spawned /\ process <= spawned
    /\ host = "up" /\ InStep /\ session = process /\ tracked =>
        \/ cache \in {"unset", hostValue}
        \/ output # <<>> /\ \E c \in syncing : at[c] = "reading" /\ want[c] \in Values

IInv ==
    /\ TypeOK /\ ReadersHold /\ RepliesToCome /\ LagWithinGivenUp
    /\ lifecycle \in {"starting", "exited"} => host = "dead"
    /\ NoOrphan
    /\ CommandPending /\ CacheFollows

\* A bounce holds the command lock until a reply comes; not even the end of the
\* host wakes it.
Bouncing == \E c \in Patient : at[c] = "reading"

\* A host that hangs or dies keeps nobody but a bounce, and those behind it, for
\* ever, and the whole event loop if it neither reads its full pipe nor dies:
\* otherwise a caller with a timeout comes through.
Kept == []Bouncing \/ []blocked
CommandEnds ==
    \A c \in Callers \ Patient : at[c] = "waiting" ~> (at[c] \in {"idle", "synced"} \/ Kept)

\* Likewise stop() ends: the process asked politely or killed, or the request cancelled.
StopEnds == lifecycle = "asking" ~> (lifecycle = "free" \/ Kept)

\* Both: whoever waits for the host comes back, but for the two waits without a timeout.
CallersComeBack == CommandEnds /\ StopEnds

\* "Stop the Rust host process gracefully, with terminate/kill fallback." (stop)
StopReturns == lifecycle = "asking" ~> lifecycle = "free"

\* "Send a JSON command to the host and wait for the response." (send_command)
ReplyIsOwn == lag = 0
=============================================================================

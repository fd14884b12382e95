------------------------------ MODULE McpClient ------------------------------
(***************************************************************************)
(* The tool servers of core/tools/mcp.py that speak over pipes: the        *)
(* registry with its lock, and for each process of a server a client with  *)
(* a reader thread, the requests that wait for an answer, each on a queue  *)
(* of one place (MCPStdioClient._pending), the lock on that table and the  *)
(* lock under which a request is written to the server's pipe.             *)
(* A refresh replaces the client under the callers that use it, and asks   *)
(* the new one for what it offers, page by page.                           *)
(***************************************************************************)
EXTENDS Naturals, Sequences, SequencesExt

CONSTANTS Calls,     \* tool calls, each in a thread of its own
          Handshake, \* the request a refresh makes of the new client: its start, and
                     \* then one page after the other
          None

Clients == 1..2
\* Request ids: each stands for its request.
Ids == Calls \cup {Handshake}

VARIABLES
    registry, \* the manager's position: "idle", or in one of its calls, with _lock
    current,  \* _clients: the client calls are sent to; None when there is none
    server,   \* each client's process: "none", "up" or "dead"
    open,     \* clients whose self.process is set
    reader,   \* each client's reader: "off", "reading", a request it puts, "gone"
    lock,     \* who keeps _pending_lock of a client over several steps
    pending,  \* _pending of a client: requests by their id
    box,      \* the queue of each request: empty, or what was put
    writer,   \* who keeps _write_lock of a client: a request that is being written
    deaf,     \* servers that do not read what is written to them
    wire,     \* what a server has written and its reader has not read
    asked,    \* requests a server has got and not answered
    on,       \* the client of each request
    at,       \* where the thread of each request is
    todo      \* requests close() still has to tell

manager == <<registry, current, todo>>
client == <<server, open, reader, lock, pending, writer, deaf, wire, asked>>
pipes == <<writer, deaf>>
calls == <<box, on, at>>
vars == <<manager, client, calls>>

Junk == None
Ended == {"answered", "failed"}
Set(f, c, v) == [f EXCEPT ![c] = v]
Alive(c) == c \in open /\ server[c] = "up"

Init ==
    /\ registry = "idle" /\ current = 1 /\ todo = {}
    /\ server = [c \in Clients |-> IF c = 1 THEN "up" ELSE "none"] /\ open = {1}
    /\ reader = [c \in Clients |-> IF c = 1 THEN "reading" ELSE "off"]
    /\ lock = [c \in Clients |-> None]
    /\ pending = [c \in Clients |-> {}] /\ wire = [c \in Clients |-> <<>>]
    /\ asked = [c \in Clients |-> {}]
    /\ writer = [c \in Clients |-> None] /\ deaf = {}
    /\ box = [r \in Ids |-> <<>>] /\ on = [r \in Ids |-> None]
    /\ at = [r \in Ids |-> "new"]

----------------------------------------------------------------------------
\* request: alive, then an entry in the table.
Register(r, c) ==
    /\ lock[c] = None
    /\ IF Alive(c)
       THEN /\ pending' = Set(pending, c, pending[c] \cup {r})
            /\ at' = Set(at, r, "sending") /\ on' = Set(on, r, c)
       ELSE at' = Set(at, r, "failed") /\ UNCHANGED <<pending, on>>
    /\ UNCHANGED <<server, open, reader, lock, pipes, wire, asked, box>>

\* MCPRegistry.call: the client is looked up under the registry's lock and used
\* without it.
Call(r) ==
    /\ r \in Calls /\ at[r] = "new" /\ registry = "idle"
    /\ IF current # None THEN at' = Set(at, r, "looked up") /\ on' = Set(on, r, current)
       ELSE at' = Set(at, r, "failed") /\ UNCHANGED on
    /\ UNCHANGED <<manager, client, box>>

Request(r) ==
    /\ at[r] = "looked up"
    /\ Register(r, on[r])
    /\ UNCHANGED manager

\* _send: of a client that was closed meanwhile it raises; or else it waits for the
\* lock, and has it while it writes and flushes.
Send(r) ==
    /\ at[r] = "sending"
    /\ IF on[r] \in open
       THEN /\ writer[on[r]] = None
            /\ writer' = Set(writer, on[r], r) /\ at' = Set(at, r, "writing")
       ELSE UNCHANGED writer /\ at' = Set(at, r, "leaving")
    /\ UNCHANGED <<manager, server, open, reader, lock, pending, deaf, wire, asked, box, on>>

Written(r) ==
    /\ at[r] = "writing"
    /\ writer' = Set(writer, on[r], None)
    /\ UNCHANGED <<manager, server, open, reader, lock, pending, deaf, wire, box, on>>

\* The server reads it, or has room for it in its pipe. A notification is not answered.
Taken(r) ==
    /\ Written(r) /\ on[r] \in open /\ server[on[r]] = "up"
    /\ IF r = Handshake /\ registry = "notifying"
       THEN at' = Set(at, r, "answered") /\ UNCHANGED asked
       ELSE at' = Set(at, r, "waiting") /\ asked' = Set(asked, on[r], asked[on[r]] \cup {r})

\* A full pipe keeps the writer, and the lock, as long as the server does not read:
\* there is no timeout here. The end of the process breaks the pipe, and once close()
\* has cleared self.process there is nothing to write to or to flush.
Write(r) ==
    \/ Taken(r) /\ on[r] \notin deaf
    \/ /\ Written(r) /\ ~Alive(on[r])
       /\ on[r] \in deaf => server[on[r]] = "dead"
       /\ at' = Set(at, r, "leaving") /\ UNCHANGED asked

Receive(r) ==
    /\ at[r] = "waiting" /\ box[r] # <<>>
    /\ at' = Set(at, r, IF Head(box[r]) = "answer" THEN "leaving well" ELSE "leaving")
    /\ box' = Set(box, r, <<>>)
    /\ UNCHANGED <<manager, client, on>>

\* A request that is given up only when its server has gone.
TimeOutOfTheDead(r) ==
    /\ at[r] = "waiting" /\ box[r] = <<>> /\ server[on[r]] = "dead"
    /\ at' = Set(at, r, "leaving")
    /\ UNCHANGED <<manager, client, box, on>>

TimeOut(r) ==
    /\ at[r] = "waiting" /\ box[r] = <<>>
    /\ at' = Set(at, r, "leaving")
    /\ UNCHANGED <<manager, client, box, on>>

\* The finally clause takes the entry out, under the lock.
Leave(r) ==
    /\ at[r] \in {"leaving", "leaving well"} /\ lock[on[r]] = None
    /\ pending' = Set(pending, on[r], pending[on[r]] \ {r})
    /\ at' = Set(at, r, IF at[r] = "leaving well" THEN "answered" ELSE "failed")
    /\ UNCHANGED <<manager, server, open, reader, lock, pipes, wire, asked, box, on>>

----------------------------------------------------------------------------
\* The server answers, writes a line that is no message, stops reading and reads
\* again, or dies; what nobody will read is left out.
ServerAnswers(c, r) ==
    /\ server[c] = "up" /\ c \notin deaf /\ reader[c] # "gone" /\ r \in asked[c]
    /\ asked' = Set(asked, c, asked[c] \ {r})
    /\ wire' = Set(wire, c, Append(wire[c], r))
    /\ UNCHANGED <<manager, server, open, reader, lock, pending, pipes, calls>>

ServerBabbles(c) ==
    /\ server[c] = "up" /\ reader[c] # "gone" /\ ~Contains(wire[c], Junk)
    /\ wire' = Set(wire, c, Append(wire[c], Junk))
    /\ UNCHANGED <<manager, server, open, reader, lock, pending, pipes, asked, calls>>

ServerTurnsDeaf(c) ==
    /\ server[c] = "up"
    /\ deaf' = IF c \in deaf THEN deaf \ {c} ELSE deaf \cup {c}
    /\ UNCHANGED <<manager, server, open, reader, lock, pending, writer, wire, asked, calls>>

ServerDies(c) ==
    /\ server[c] = "up"
    /\ server' = Set(server, c, "dead")
    /\ UNCHANGED <<manager, open, reader, lock, pending, pipes, wire, asked, calls>>

\* _read_loop: a message that cannot be decoded ends the reader, and with it all
\* answers of a client that still counts as alive; so does the end of the pipe.
\* _handle_message looks the request up under the lock.
Read(c) ==
    /\ reader[c] = "reading" /\ lock[c] = None
    /\ \/ /\ wire[c] # <<>>
          /\ wire' = Set(wire, c, Tail(wire[c]))
          /\ reader' = Set(reader, c,
               IF Head(wire[c]) = Junk THEN "gone"
               ELSE IF Head(wire[c]) \in pending[c] THEN Head(wire[c]) ELSE "reading")
       \/ /\ wire[c] = <<>> /\ server[c] = "dead"
          /\ reader' = Set(reader, c, "gone") /\ UNCHANGED wire
    /\ UNCHANGED <<manager, server, open, lock, pending, pipes, asked, calls>>

\* ... and puts the answer without it; the put waits for a free place.
Put(c) ==
    /\ reader[c] \in Ids /\ box[reader[c]] = <<>>
    /\ box' = Set(box, reader[c], <<"answer">>)
    /\ reader' = Set(reader, c, "reading")
    /\ UNCHANGED <<manager, server, open, lock, pending, pipes, wire, asked, on, at>>

----------------------------------------------------------------------------
\* MCPStdioClient.close, of the current client and under the registry's lock:
\* self.process is cleared, the table is locked, every waiting request is told
\* (the put waits for a free place here too), the process is terminated.
Close(then) ==
    /\ registry' = then
    /\ open' = open \ {current}
    /\ UNCHANGED <<current, todo, server, reader, lock, pending, pipes, wire, asked, calls>>

RefreshBegins == registry = "idle" /\ current = 1 /\ Close("refresh: closing")
ShutdownBegins == registry = "idle" /\ current # None /\ Close("shutdown: closing")

Closing == registry \in {"refresh: closing", "shutdown: closing", "failed: closing"}

LockPending ==
    /\ Closing /\ lock[current] = None
    /\ lock' = Set(lock, current, "close")
    /\ todo' = pending[current]
    /\ UNCHANGED <<registry, current, server, open, reader, pending, pipes, wire, asked, calls>>

Tell(r) ==
    /\ Closing /\ lock[current] = "close" /\ r \in todo /\ box[r] = <<>>
    /\ box' = Set(box, r, <<"closed">>)
    /\ todo' = todo \ {r}
    /\ UNCHANGED <<registry, current, client, on, at>>

\* A refresh goes on with a new client, whose handshake is a request like any
\* other, made with the registry's lock held.
CloseEnds ==
    /\ Closing /\ lock[current] = "close" /\ todo = {}
    /\ lock' = Set(lock, current, None)
    /\ pending' = Set(pending, current, {})
    /\ IF registry = "refresh: closing"
       THEN /\ current' = 2 /\ registry' = "starting"
            /\ server' = [c \in Clients |-> IF c = 2 THEN "up" ELSE "dead"] /\ open' = {2}
            /\ reader' = Set(reader, 2, "reading")
       ELSE /\ current' = None /\ registry' = "idle"
            /\ server' = Set(server, current, "dead")
            /\ UNCHANGED <<open, reader>>
    /\ UNCHANGED <<todo, pipes, wire, asked, calls>>

Asking == registry \in {"starting", "notifying", "listing"}

\* start: initialize, then a notification that nobody answers, left out when the
\* process has ended. _list_paginated: a page, as long as there is a next one.
Ask ==
    /\ Asking /\ at[Handshake] = "new"
    /\ IF registry # "notifying" THEN Register(Handshake, 2)
       ELSE /\ at' = Set(at, Handshake, IF Alive(2) THEN "sending" ELSE "answered")
            /\ UNCHANGED <<client, box, on>>
    /\ UNCHANGED manager

\* A start that fails closes the client; a page that fails leaves it in _clients.
\* An answer can be an error too.
Answered(then) ==
    /\ at[Handshake] = "answered" /\ registry' = then
    /\ at' = Set(at, Handshake, "new") /\ UNCHANGED open

Over == registry' = "idle" /\ UNCHANGED <<open, at>>
Refused == registry' = "failed: closing" /\ open' = {} /\ UNCHANGED at

Hear ==
    /\ Asking /\ at[Handshake] \in Ended
    /\ \/ registry = "starting" /\ (Answered("notifying") \/ Refused)
       \/ registry = "notifying" /\ (Answered("listing") \/ (at[Handshake] = "failed" /\ Refused))
       \/ registry = "listing" /\ (Answered("listing") \/ Over)
    /\ UNCHANGED <<current, todo, server, reader, lock, pending, pipes, wire, asked, box, on>>

Thread(r) ==
    Call(r) \/ Request(r) \/ Send(r) \/ Write(r) \/ Receive(r) \/ TimeOut(r) \/ Leave(r)
Manager == LockPending \/ (\E r \in Ids : Tell(r)) \/ CloseEnds \/ Ask \/ Hear

Next ==
    \/ \E r \in Ids : Thread(r) \/ Taken(r)
    \/ \E c \in Clients :
         \/ \E r \in Ids : ServerAnswers(c, r)
         \/ ServerBabbles(c) \/ ServerTurnsDeaf(c) \/ ServerDies(c) \/ Read(c) \/ Put(c)
    \/ RefreshBegins \/ ShutdownBegins \/ Manager

Spec == Init /\ [][Next]_vars

\* Threads run and timeouts pass; nothing is assumed of the servers.
Fairness ==
    /\ \A r \in Ids : WF_vars(Thread(r))
    /\ \A c \in Clients : WF_vars(Read(c) \/ Put(c))
    /\ WF_vars(Manager)

FairSpec == Spec /\ Fairness

----------------------------------------------------------------------------
TypeOK ==
    /\ registry \in {"idle", "refresh: closing", "shutdown: closing", "failed: closing",
                     "starting", "notifying", "listing"}
    /\ current \in Clients \cup {None} /\ todo \subseteq Ids
    /\ server \in [Clients -> {"none", "up", "dead"}] /\ open \subseteq Clients
    /\ reader \in [Clients -> {"off", "reading", "gone"} \cup Ids]
    /\ lock \in [Clients -> {None, "close"}] /\ pending \in [Clients -> SUBSET Ids]
    /\ \A r \in Ids : box[r] \in {<<>>, <<"answer">>, <<"closed">>}
    /\ \A c \in Clients : wire[c] \in Seq(Ids \cup {Junk})
    /\ writer \in [Clients -> Ids \cup {None}] /\ deaf \subseteq Clients
    /\ asked \in [Clients -> SUBSET Ids] /\ on \in [Ids -> Clients \cup {None}]
    /\ at \in [Ids -> Ended \cup {"new", "looked up", "sending", "writing", "waiting", "leaving",
                                       "leaving well"}]

\* close() has met an answer that came after its caller's timeout and before
\* that caller took its entry out of the table: nobody empties its queue.
Jammed == Closing /\ \E r \in todo : box[r] # <<>> /\ at[r] # "waiting"

\* Someone writes to a server that does not read.
Clogged(c) == c \in deaf /\ writer[c] # None

\* The next page is about to be asked for.
Paging == registry = "listing" /\ at[Handshake] = "new"

\* Whatever the servers do, calls come to an end, and so do refreshes and the shutdown,
\* with the registry's lock. Kept for ever is only who waits for a close() that meets
\* such an answer; who writes, or waits to write, to a server that does not read, and
\* that is the registry only with the client it starts or lists; and a listing whose
\* server has always one more page.
NobodyHangs ==
    /\ \A r \in Calls : []<>(at[r] \in Ended \cup {"new"} \/ Jammed \/ Clogged(on[r]))
    /\ []<>(registry = "idle" \/ Jammed \/ Paging \/ (Asking /\ Clogged(current)))
=============================================================================

------------------------------ MODULE WebRequest ------------------------------
(***************************************************************************)
(* The requests of the web tools (core/tools/web_search.py): calls in       *)
(* parallel threads, each with the controller of its request, the pool that *)
(* resolves names, the timer of the synthesis deadline, and the user who    *)
(* cancels.  Neither names nor the network need ever answer.                *)
(***************************************************************************)
EXTENDS Naturals, Sequences

CONSTANTS Calls,
          DeepCalls,   \* calls of a research session: they have a deadline
          Resolvers,   \* threads of the resolver pool
          MaxPending,  \* places of its queue
          MaxAttempts, \* attempts of one call
          Nil

\* Nil is no reason of an abort and no call under cancellation.
RequestAssumption ==
    /\ DeepCalls \subseteq Calls /\ Nil \notin Calls
    /\ MaxPending \in Nat /\ MaxAttempts \in Nat \ {0}
    /\ Nil \notin {"cancelled", "synthesis"}
    /\ Nil \notin [call : Calls, controller : BOOLEAN, found : BOOLEAN]

GivenUp == "given up" \* a job whose caller has left

VARIABLES
    stage,      \* where each calling thread is
    tries,
    stopped,    \* the call's event
    tracked,    \* calls the tracker knows
    controlled, \* calls that hold their controller
    past,       \* research calls whose deadline has passed
    timer,      \* the controller's timer is set
    reason,     \* why the controller has aborted
    closed,     \* the controller is closed
    sock,       \* the connection: "none", "open" or "shut"
    held,       \* the controller knows the socket
    waking,     \* the controller knows whom to wake in the resolver pool
    done,       \* the job's event
    answered,   \* the job has its result
    aborting,   \* what an abort has still to shut or wake
    jobs,       \* jobs of the resolver pool
    resolving,  \* the job each resolver is at
    reached,    \* calls the user's cancellation has still to reach
    target      \* the call it is at, and whether it has its controller

request == <<stage, tries, timer, reason, closed, sock, held, waking, done, answered, aborting>>
webCalls == <<stopped, tracked, controlled, past>>
resolver == <<jobs, resolving>>
canceller == <<reached, target>>
webVars == <<request, webCalls, resolver, canceller>>

Interrupted(c) == reason[c] # Nil \/ closed[c] \/ c \in past

WebInit ==
    /\ stage = [c \in Calls |-> "idle"] /\ tries = [c \in Calls |-> 0]
    /\ stopped = {} /\ tracked = {} /\ controlled = {} /\ past = {} /\ timer = {}
    /\ reason = [c \in Calls |-> Nil] /\ closed = [c \in Calls |-> TRUE]
    /\ sock = [c \in Calls |-> "none"] /\ held = {} /\ waking = {}
    /\ done = {} /\ answered = {}
    /\ aborting = [c \in Calls |-> {}]
    /\ jobs = <<>> /\ resolving = [w \in Resolvers |-> Nil]
    /\ reached = {} /\ target = Nil

Go(c, place) == stage' = [stage EXCEPT ![c] = place]

----------------------------------------------------------------------------
(***************************************************************************)
(* The controller                                                          *)
(***************************************************************************)
\* abort: the first reason counts; what is known then is shut and woken after it.
Abort(c, why) ==
    IF closed[c] \/ reason[c] # Nil
    THEN UNCHANGED <<reason, aborting>>
    ELSE /\ reason' = [reason EXCEPT ![c] = why]
         /\ aborting' = [aborting EXCEPT ![c] =
                (IF c \in held THEN {"socket"} ELSE {})
                \cup (IF c \in waking THEN {"resolution"} ELSE {})]

\* A socket the controller knows is shut, unless TLS has taken it over meanwhile.
ShutSocket(c) ==
    /\ "socket" \in aborting[c]
    /\ aborting' = [aborting EXCEPT ![c] = @ \ {"socket"}]
    /\ sock' = IF sock[c] = "open" /\ stage[c] \notin {"handshaking", "swapping"}
               THEN [sock EXCEPT ![c] = "shut"] ELSE sock
    /\ UNCHANGED <<stage, tries, timer, reason, closed, held, waking, done, answered,
                   webCalls, resolver, canceller>>

Wake(c) ==
    /\ aborting[c] = {"resolution"}
    /\ aborting' = [aborting EXCEPT ![c] = {}]
    /\ done' = done \cup {c}
    /\ UNCHANGED <<stage, tries, timer, reason, closed, sock, held, waking, answered,
                   webCalls, resolver, canceller>>

TimerFires(c) ==
    /\ c \in timer /\ c \in past
    /\ timer' = timer \ {c}
    /\ Abort(c, "synthesis")
    /\ UNCHANGED <<stage, tries, closed, sock, held, waking, done, answered,
                   webCalls, resolver, canceller>>

\* close: the timer is stopped, the connection closed with the response or with the
\* controller's sockets.  An abort that is under way finds nothing of this request.
Close(c) ==
    /\ timer' = timer \ {c}
    /\ closed' = [closed EXCEPT ![c] = TRUE]
    /\ sock' = [sock EXCEPT ![c] = "none"] /\ held' = held \ {c} /\ waking' = waking \ {c}
    /\ aborting' = [aborting EXCEPT ![c] = {}]

----------------------------------------------------------------------------
(***************************************************************************)
(* Opening a URL                                                           *)
(***************************************************************************)
BeginCall(c) ==
    /\ stage[c] = "idle"
    /\ Go(c, "checking")
    /\ tracked' = tracked \cup {c}
    /\ tries' = [tries EXCEPT ![c] = 1]
    /\ UNCHANGED <<timer, reason, closed, sock, held, waking, done, answered, aborting,
                   stopped, controlled, past, resolver, canceller>>

\* The head of the retry loop, and a new controller.
Check(c) ==
    /\ stage[c] = "checking"
    /\ \/ /\ c \in stopped \cup past
          /\ Go(c, "finishing")
          /\ UNCHANGED <<timer, closed, reason>>
       \/ /\ c \notin stopped \cup past
          /\ Go(c, "opening")
          /\ timer' = timer \cup ({c} \cap DeepCalls)
          /\ closed' = [closed EXCEPT ![c] = FALSE]
          /\ reason' = [reason EXCEPT ![c] = Nil]
    /\ UNCHANGED <<tries, sock, held, waking, done, answered, aborting,
                   webCalls, resolver, canceller>>

\* add_controller: a call that is cancelled aborts the new controller itself.
Control(c) ==
    /\ stage[c] = "opening"
    /\ Go(c, "resolving")
    /\ IF c \in stopped
       THEN Abort(c, "cancelled") /\ UNCHANGED controlled
       ELSE controlled' = controlled \cup {c} /\ UNCHANGED <<reason, aborting>>
    /\ UNCHANGED <<tries, timer, closed, sock, held, waking, done, answered,
                   stopped, tracked, past, resolver, canceller>>

\* A step of the thread that looks at the controller first.
Proceed(c, from, place) ==
    /\ stage[c] = from
    /\ IF Interrupted(c) THEN Go(c, "failing") ELSE Go(c, place)

\* resolve: a new job, whose event an abort is to set.
Resolve(c) ==
    /\ Proceed(c, "resolving", "queueing")
    /\ done' = done \ {c} /\ answered' = answered \ {c}
    /\ waking' = IF Interrupted(c) THEN waking ELSE waking \cup {c}
    /\ UNCHANGED <<tries, timer, reason, closed, sock, held, aborting,
                   webCalls, resolver, canceller>>

\* A full queue refuses.
Enqueue(c) ==
    /\ Proceed(c, "queueing", IF Len(jobs) < MaxPending THEN "waiting" ELSE "failing")
    /\ jobs' = IF Interrupted(c) \/ Len(jobs) = MaxPending THEN jobs ELSE Append(jobs, c)
    /\ waking' = IF stage'[c] = "failing" THEN waking \ {c} ELSE waking
    /\ UNCHANGED <<tries, timer, reason, closed, sock, held, done, answered, aborting,
                   webCalls, resolving, canceller>>

\* The caller is woken with addresses, an error, or for having been interrupted; then
\* its job is nobody's.  The first response of a redirect is closed by now.
Resolved(c) ==
    LET Left(j) == IF j = c THEN GivenUp ELSE j
    IN  /\ stage[c] = "waiting" /\ c \in done
        /\ IF Interrupted(c) \/ c \notin answered THEN Go(c, "failing")
           ELSE \E place \in {"addressing", "failing"} : Go(c, place)
        /\ sock' = IF stage'[c] = "addressing" THEN [sock EXCEPT ![c] = "none"] ELSE sock
        /\ waking' = waking \ {c}
        /\ jobs' = [i \in DOMAIN jobs |-> Left(jobs[i])]
        /\ resolving' = [w \in Resolvers |-> Left(resolving[w])]
        /\ UNCHANGED <<tries, timer, reason, closed, held, done, answered, aborting,
                       webCalls, canceller>>

Take(w) ==
    /\ resolving[w] = Nil /\ jobs # <<>>
    /\ resolving' = [resolving EXCEPT ![w] = Head(jobs)]
    /\ jobs' = Tail(jobs)
    /\ UNCHANGED <<request, webCalls, canceller>>

Deliver(w) ==
    /\ resolving[w] # Nil
    /\ done' = done \cup ({resolving[w]} \cap Calls)
    /\ answered' = answered \cup ({resolving[w]} \cap Calls)
    /\ resolving' = [resolving EXCEPT ![w] = Nil]
    /\ UNCHANGED <<stage, tries, timer, reason, closed, sock, held, waking, aborting,
                   webCalls, jobs, canceller>>

\* A socket for the next address: one that comes after an abort is shut at once.
Connect(c) ==
    /\ Proceed(c, "addressing", "connecting")
    /\ IF Interrupted(c) THEN UNCHANGED <<sock, held>>
       ELSE sock' = [sock EXCEPT ![c] = "open"] /\ held' = held \cup {c}
    /\ UNCHANGED <<tries, timer, reason, closed, waking, done, answered, aborting,
                   webCalls, resolver, canceller>>

\* The network answers, or the attempt fails: refused, timed out, or shut by an abort.
\* A failure tries the next address.
Connected(c) ==
    /\ stage[c] = "connecting"
    /\ \/ /\ sock[c] = "open"
          /\ \E place \in {"requesting", "handshaking"} : Go(c, place)
          /\ UNCHANGED <<sock, held>>
       \/ /\ Go(c, IF Interrupted(c) THEN "failing" ELSE "addressing")
          /\ sock' = [sock EXCEPT ![c] = "none"] /\ held' = held \ {c}
    /\ UNCHANGED <<tries, timer, reason, closed, waking, done, answered, aborting,
                   webCalls, resolver, canceller>>

\* The socket that the controller knows has given its descriptor to the TLS socket.
HandshakeEnds(c) ==
    /\ stage[c] = "handshaking"
    /\ \E place \in {"swapping", "failing"} : Go(c, place)
    /\ held' = held \ {c}
    /\ UNCHANGED <<tries, timer, reason, closed, sock, waking, done, answered, aborting,
                   webCalls, resolver, canceller>>

(* Fault: the TLS socket is registered without a look at an abort that came before. *)
SwapBlindly(c) ==
    /\ stage[c] = "swapping" /\ Go(c, "requesting")
    /\ held' = held \cup {c}
    /\ UNCHANGED <<tries, timer, reason, closed, sock, waking, done, answered, aborting,
                   webCalls, resolver, canceller>>

\* replace_socket
Swap(c) ==
    /\ Proceed(c, "swapping", "requesting")
    /\ held' = IF Interrupted(c) THEN held ELSE held \cup {c}
    /\ UNCHANGED <<tries, timer, reason, closed, sock, waking, done, answered, aborting,
                   webCalls, resolver, canceller>>

\* Headers: the answer, or a redirect, whose host is resolved beside the open response.
Headers(c) ==
    /\ stage[c] = "requesting"
    /\ IF sock[c] = "open" /\ ~Interrupted(c)
       THEN \E place \in {"reading", "resolving", "failing"} : Go(c, place)
       ELSE Go(c, "failing")
    /\ UNCHANGED <<tries, timer, reason, closed, sock, held, waking, done, answered,
                   aborting, webCalls, resolver, canceller>>

\* _read_limited_response up to its end, an error, the limit or an interruption.
Read(c) ==
    /\ stage[c] = "reading"
    /\ IF sock[c] = "open" /\ ~Interrupted(c) /\ c \notin stopped
       THEN \E place \in {"read", "broken"} : Go(c, place)
       ELSE Go(c, "broken")
    /\ UNCHANGED <<tries, timer, reason, closed, sock, held, waking, done, answered,
                   aborting, webCalls, resolver, canceller>>

----------------------------------------------------------------------------
\* release_response; where a fetch was redirected to is resolved once more, by the
\* calling thread, out of the reach of the deadline and of the user.
Release(c) ==
    /\ stage[c] \in {"read", "broken"}
    /\ Close(c)
    /\ controlled' = controlled \ {c}
    /\ IF stage[c] = "broken" THEN Go(c, "finishing")
       ELSE \E place \in {"finishing", "revalidating"} : Go(c, place)
    /\ UNCHANGED <<tries, reason, done, answered, stopped, tracked, past,
                   resolver, canceller>>

Revalidated(c) ==
    /\ stage[c] = "revalidating" /\ Go(c, "finishing")
    /\ UNCHANGED <<tries, timer, reason, closed, sock, held, waking, done, answered,
                   aborting, webCalls, resolver, canceller>>

\* _open_url without a response, and what a failure leads to: another attempt of a
\* research fetch or the second service of a search, or the end.
Fail(c) ==
    /\ stage[c] = "failing"
    /\ Close(c)
    /\ controlled' = controlled \ {c}
    /\ \/ /\ tries[c] < MaxAttempts
          /\ Go(c, "checking") /\ tries' = [tries EXCEPT ![c] = @ + 1]
       \/ Go(c, "finishing") /\ UNCHANGED tries
    /\ UNCHANGED <<reason, done, answered, stopped, tracked, past, resolver, canceller>>

\* The tracker forgets the call; its next one is a new one.
Finish(c) ==
    /\ stage[c] = "finishing" /\ Go(c, "idle")
    /\ tracked' = tracked \ {c} /\ stopped' = stopped \ {c} /\ past' = past \ {c}
    /\ reached' = reached \ {c}
    /\ target' = IF target # Nil /\ target.call = c THEN Nil ELSE target
    /\ UNCHANGED <<tries, timer, reason, closed, sock, held, waking, done, answered,
                   aborting, controlled, resolver>>

----------------------------------------------------------------------------
\* The deadline of the research passes.
Tick(c) ==
    /\ c \in DeepCalls /\ stage[c] # "idle"
    /\ past' = past \cup {c}
    /\ UNCHANGED <<request, stopped, tracked, controlled, resolver, canceller>>

\* The user cancels: the calls under way, one after the other, each in three steps.
CancelCalls ==
    /\ reached = {} /\ target = Nil /\ tracked # {}
    /\ reached' = tracked
    /\ UNCHANGED <<request, webCalls, resolver, target>>

CancelCall ==
    /\ target = Nil
    /\ \E c \in reached :
         /\ reached' = reached \ {c}
         /\ target' = [call |-> c, controller |-> FALSE, found |-> FALSE]
         /\ stopped' = stopped \cup {c}
    /\ UNCHANGED <<request, tracked, controlled, past, resolver>>

FindController ==
    /\ target # Nil /\ ~target.found
    /\ target' = [target EXCEPT !.found = TRUE, !.controller = target.call \in controlled]
    /\ UNCHANGED <<request, webCalls, resolver, reached>>

AbortController ==
    /\ target # Nil /\ target.found
    /\ target' = Nil
    /\ IF target.controller THEN Abort(target.call, "cancelled")
       ELSE UNCHANGED <<reason, aborting>>
    /\ UNCHANGED <<stage, tries, timer, closed, sock, held, waking, done, answered,
                   webCalls, resolver, reached>>

Thread(c) ==
    \/ BeginCall(c) \/ Check(c) \/ Control(c) \/ Resolve(c) \/ Enqueue(c) \/ Resolved(c)
    \/ Connect(c) \/ Connected(c) \/ HandshakeEnds(c) \/ Swap(c) \/ Headers(c) \/ Read(c)
    \/ Release(c) \/ Revalidated(c) \/ Fail(c) \/ Finish(c)
Cancellation == CancelCalls \/ CancelCall \/ FindController \/ AbortController

WebNext ==
    \/ \E c \in Calls : Thread(c) \/ ShutSocket(c) \/ Wake(c) \/ TimerFires(c) \/ Tick(c)
    \/ \E w \in Resolvers : Take(w) \/ Deliver(w)
    \/ Cancellation

WebSpec == WebInit /\ [][WebNext]_webVars

\* Own steps of a thread are fair; the network, the resolvers and the last look at an
\* address need not end, TLS gives up at its socket's timeout.
Blocked(c) ==
    \/ stage[c] \in {"connecting", "requesting", "reading"} /\ sock[c] = "open"
    \/ stage[c] \in {"idle", "revalidating"}
WebFairness ==
    /\ \A c \in Calls : /\ WF_webVars(Thread(c) /\ ~Blocked(c))
                        /\ WF_webVars(ShutSocket(c)) /\ WF_webVars(Wake(c))
                        /\ WF_webVars(TimerFires(c))
    /\ WF_webVars(CancelCall \/ FindController \/ AbortController)

----------------------------------------------------------------------------
Places == {"idle", "checking", "opening", "resolving", "queueing", "waiting", "addressing",
           "connecting", "handshaking", "swapping", "requesting", "reading", "read", "broken",
           "revalidating", "failing", "finishing"}
Resolutions == Calls \cup {GivenUp}

WebTypeOK ==
    /\ stage \in [Calls -> Places] /\ tries \in [Calls -> 0..MaxAttempts]
    /\ stopped \subseteq Calls /\ tracked \subseteq Calls /\ controlled \subseteq Calls
    /\ past \subseteq DeepCalls /\ timer \subseteq DeepCalls
    /\ reason \in [Calls -> {Nil, "cancelled", "synthesis"}] /\ closed \in [Calls -> BOOLEAN]
    /\ sock \in [Calls -> {"none", "open", "shut"}]
    /\ held \subseteq Calls /\ waking \subseteq Calls
    /\ done \subseteq Calls /\ answered \subseteq Calls
    /\ aborting \in [Calls -> SUBSET {"socket", "resolution"}]
    /\ jobs \in Seq(Resolutions) /\ Len(jobs) <= MaxPending
    /\ resolving \in [Resolvers -> Resolutions \cup {Nil}]
    /\ reached \subseteq Calls
    /\ target = Nil \/ target \in [call : Calls, controller : BOOLEAN, found : BOOLEAN]

\* An abort misses nobody: once it has shut and woken what it found, no thread of the
\* request sits in a wait that only the network or a resolver would end, and once a
\* cancellation has gone by, the request it was for is aborted or not begun.  A call that
\* is over has left no connection, timer or controller behind.
AbortMissesNobody ==
    \A c \in Calls :
        /\ reason[c] # Nil /\ aborting[c] = {} =>
              /\ stage[c] \in {"connecting", "requesting", "reading"} => sock[c] # "open"
              /\ stage[c] = "waiting" => c \in done
        /\ c \in stopped /\ c \in controlled =>
              reason[c] # Nil \/ (target # Nil /\ target.call = c)
        /\ stage[c] = "idle" => sock[c] = "none" /\ c \notin timer \cup controlled

\* A call that is cancelled or past its deadline comes back, though neither names nor the
\* network answer, unless it is looking at the final address of a fetch.
InterruptedCallsEnd ==
    \A c \in Calls :
        c \in stopped \cup past ~> (stage[c] = "idle" \/ [](stage[c] = "revalidating"))

----------------------------------------------------------------------------
(***************************************************************************)
(* The parts of the inductive invariant behind AbortMissesNobody.          *)
(***************************************************************************)
Outside == {"idle", "checking", "finishing", "revalidating"}

\* The controller is closed exactly where there is no request, and nothing is left of it.
ClosedIsEmpty ==
    \A c \in Calls :
        /\ closed[c] <=> stage[c] \in Outside
        /\ closed[c] => /\ sock[c] = "none" /\ aborting[c] = {}
                        /\ c \notin held \cup waking \cup timer \cup controlled

\* An open connection that is waited for is one the controller knows, and one that an
\* abort which has come is still to shut.
SocketsAreKnown ==
    \A c \in Calls :
        stage[c] \in {"connecting", "requesting", "reading"} /\ sock[c] = "open" =>
            c \in held /\ (reason[c] # Nil => "socket" \in aborting[c])

\* The same of the event of a resolution.
WaitersAreKnown ==
    \A c \in Calls :
        /\ stage[c] \in {"queueing", "waiting"} => c \in waking
        /\ stage[c] = "waiting" /\ reason[c] # Nil /\ c \notin done => "resolution" \in aborting[c]

\* A cancellation that found no controller is of a call that will find it is cancelled.
CancelReaches ==
    /\ target # Nil =>
          /\ target.call \in stopped
          /\ target.found /\ ~target.controller => target.call \notin controlled
    /\ \A c \in stopped \cap controlled : reason[c] # Nil \/ (target # Nil /\ target.call = c)

WebInv == WebTypeOK /\ ClosedIsEmpty /\ SocketsAreKnown /\ WaitersAreKnown /\ CancelReaches
=============================================================================

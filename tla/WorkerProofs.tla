---------------------------- MODULE WorkerProofs ----------------------------
(***************************************************************************)
(* The threads beside a turn: web requests and their aborts, the graph     *)
(* extraction queue and the sub-agents, for any calls, resolvers, jobs,    *)
(* threads and bounds.                                                     *)
(***************************************************************************)
EXTENDS WebRequest, GraphQueue, SequenceTheorems, TLAPS

(***************************************************************************)
(* Web requests and what an abort reaches.                                 *)
(***************************************************************************)
\* A function on 1..n is a sequence of that length.
LEMMA FunctionsAreSequences ==
  ASSUME NEW S, NEW n \in Nat, NEW f \in [1..n -> S]
  PROVE  f \in Seq(S) /\ Len(f) = n
  OBVIOUS

\* The steps that abort keep the types of what they change.
LEMMA AbortTypes ==
  ASSUME WebTypeOK, NEW c \in Calls, NEW why \in {"cancelled", "synthesis"}, Abort(c, why)
  PROVE  /\ reason' \in [Calls -> {Nil, "cancelled", "synthesis"}]
         /\ aborting' \in [Calls -> SUBSET {"socket", "resolution"}]
<1>1. CASE closed[c] \/ reason[c] # Nil
  BY <1>1 DEF Abort, WebTypeOK
<1>2. CASE ~(closed[c] \/ reason[c] # Nil)
  <2>1. reason' = [reason EXCEPT ![c] = why]
    BY <1>2 DEF Abort
  <2>2. PICK what \in SUBSET {"socket", "resolution"} :
               aborting' = [aborting EXCEPT ![c] = what]
    BY <1>2 DEF Abort
  <2>3. QED
    BY <2>1, <2>2 DEF WebTypeOK
<1>3. QED
  BY <1>1, <1>2

\* A thread that looks at its controller goes on, or fails.
LEMMA ProceedTypes ==
  ASSUME WebTypeOK, NEW c \in Calls, NEW from, NEW place \in Places, Proceed(c, from, place)
  PROVE  stage' \in [Calls -> Places]
<1>1. PICK to \in Places : stage' = [stage EXCEPT ![c] = to]
  BY DEF Proceed, Go, Places
<1>2. QED
  BY <1>1 DEF WebTypeOK

\* Every step keeps the types.
LEMMA WebTypeKept ==
  ASSUME RequestAssumption, WebTypeOK, [WebNext]_webVars
  PROVE  WebTypeOK'
<1> USE DEF WebTypeOK, RequestAssumption, Resolutions, Go, Places, webVars, request, webCalls,
   resolver, canceller
<1>1. ASSUME NEW c \in Calls, Thread(c) PROVE WebTypeOK'
  <2>1. CASE BeginCall(c)
    BY <2>1 DEF BeginCall
  <2>2. CASE Check(c)
    BY <2>2 DEF Check
  <2>3. CASE Control(c)
    <3>1. stage' \in [Calls -> Places] /\ controlled' \subseteq Calls
      BY <2>3 DEF Control
    <3>2. /\ reason' \in [Calls -> {Nil, "cancelled", "synthesis"}]
          /\ aborting' \in [Calls -> SUBSET {"socket", "resolution"}]
      BY <2>3, AbortTypes DEF Control
    <3>3. QED
      BY <2>3, <3>1, <3>2 DEF Control
  <2>4. CASE Resolve(c)
    BY <2>4 DEF Resolve, Proceed, Interrupted
  <2>5. CASE Enqueue(c)
    <3>1. stage' \in [Calls -> Places]
      BY <2>5, ProceedTypes DEF Enqueue
    <3>2. jobs' \in Seq(Resolutions) /\ Len(jobs') <= MaxPending
      BY <2>5 DEF Enqueue
    <3>3. waking' \subseteq Calls
      BY <2>5 DEF Enqueue
    <3>4. QED
      BY <2>5, <3>1, <3>2, <3>3 DEF Enqueue
  <2>6. CASE Resolved(c)
    <3> DEFINE Left(j) == IF j = c THEN GivenUp ELSE j
    <3>1. PICK to \in Places : stage' = [stage EXCEPT ![c] = to]
      BY <2>6 DEF Resolved
    <3>2. /\ jobs' = [i \in DOMAIN jobs |-> Left(jobs[i])]
          /\ resolving' = [w \in Resolvers |-> Left(resolving[w])]
      BY <2>6 DEF Resolved
    <3>3. jobs' \in Seq(Resolutions) /\ Len(jobs') = Len(jobs)
      <4>1. Len(jobs) \in Nat /\ DOMAIN jobs = 1..Len(jobs)
        OBVIOUS
      <4>2. \A i \in 1..Len(jobs) : Left(jobs[i]) \in Resolutions
        BY <4>1
      <4>3. jobs' \in [1..Len(jobs) -> Resolutions]
        BY <3>2, <4>1, <4>2
      <4>4. QED
        BY <4>1, <4>3, FunctionsAreSequences
    <3>4. resolving' \in [Resolvers -> Resolutions \cup {Nil}]
      BY <3>2
    <3>5. stage' \in [Calls -> Places] /\ sock' \in [Calls -> {"none", "open", "shut"}]
      BY <2>6, <3>1 DEF Resolved
    <3>6. QED
      BY <2>6, <3>3, <3>4, <3>5 DEF Resolved
  <2>7. CASE Connect(c)
    <3>1. stage' \in [Calls -> Places]
      BY <2>7, ProceedTypes DEF Connect
    <3>2. sock' \in [Calls -> {"none", "open", "shut"}] /\ held' \subseteq Calls
      <4>1. CASE Interrupted(c)
        BY <2>7, <4>1 DEF Connect
      <4>2. CASE ~Interrupted(c)
        <5>1. sock' = [sock EXCEPT ![c] = "open"] /\ held' = held \cup {c}
          BY <2>7, <4>2 DEF Connect
        <5>2. QED
          BY <5>1
      <4>3. QED
        BY <4>1, <4>2
    <3>3. QED
      BY <2>7, <3>1, <3>2 DEF Connect
  <2>8. CASE Connected(c)
    <3>1. PICK to \in Places : stage' = [stage EXCEPT ![c] = to]
      BY <2>8 DEF Connected
    <3>2. sock' \in [Calls -> {"none", "open", "shut"}] /\ held' \subseteq Calls
      BY <2>8 DEF Connected
    <3>3. QED
      BY <2>8, <3>1, <3>2 DEF Connected
  <2>9. CASE HandshakeEnds(c)
    BY <2>9 DEF HandshakeEnds
  <2>10. CASE Swap(c)
    BY <2>10 DEF Swap, Proceed, Interrupted
  <2>11. CASE Headers(c)
    BY <2>11 DEF Headers, Interrupted
  <2>12. CASE Read(c)
    BY <2>12 DEF Read, Interrupted
  <2>13. CASE Release(c)
    BY <2>13 DEF Release, Close
  <2>14. CASE Revalidated(c)
    BY <2>14 DEF Revalidated
  <2>15. CASE Fail(c)
    <3>1. stage' \in [Calls -> Places] /\ tries' \in [Calls -> 0..MaxAttempts]
      <4>1. tries[c] \in 0..MaxAttempts /\ MaxAttempts \in Nat
        OBVIOUS
      <4>2. CASE tries' = tries
        BY <2>15, <4>2 DEF Fail
      <4>3. CASE tries[c] < MaxAttempts /\ tries' = [tries EXCEPT ![c] = tries[c] + 1]
        <5>1. tries[c] + 1 \in 0..MaxAttempts
          BY <4>1, <4>3
        <5>2. tries' \in [Calls -> 0..MaxAttempts]
          BY <4>3, <5>1
        <5>3. QED
          BY <2>15, <5>2 DEF Fail
      <4>4. QED
        BY <2>15, <4>2, <4>3 DEF Fail
    <3>2. QED
      BY <2>15, <3>1 DEF Fail, Close
  <2>16. CASE Finish(c)
    BY <2>16 DEF Finish
  <2>17. QED
    BY <1>1, <2>1, <2>2, <2>3, <2>4, <2>5, <2>6, <2>7, <2>8, <2>9, <2>10, <2>11, <2>12, <2>13,
       <2>14, <2>15, <2>16 DEF Thread
<1>2. ASSUME NEW c \in Calls, ShutSocket(c) PROVE WebTypeOK'
  BY <1>2 DEF ShutSocket
<1>3. ASSUME NEW c \in Calls, Wake(c) PROVE WebTypeOK'
  BY <1>3 DEF Wake
<1>4. ASSUME NEW c \in Calls, TimerFires(c) PROVE WebTypeOK'
  BY <1>4, AbortTypes DEF TimerFires
<1>5. ASSUME NEW c \in Calls, Tick(c) PROVE WebTypeOK'
  BY <1>5 DEF Tick
<1>6. ASSUME NEW w \in Resolvers, Take(w) PROVE WebTypeOK'
  BY <1>6 DEF Take
<1>7. ASSUME NEW w \in Resolvers, Deliver(w) PROVE WebTypeOK'
  BY <1>7 DEF Deliver
<1>8. CASE CancelCalls
  BY <1>8 DEF CancelCalls
<1>9. CASE CancelCall
  BY <1>9 DEF CancelCall
<1>10. CASE FindController
  <2>1. target \in [call : Calls, controller : BOOLEAN, found : BOOLEAN]
    BY <1>10 DEF FindController
  <2>2. target' = [call |-> target.call, controller |-> target.call \in controlled,
                   found |-> TRUE]
    BY <1>10, <2>1, Zenon DEF FindController
  <2>3. target' \in [call : Calls, controller : BOOLEAN, found : BOOLEAN]
    BY <2>1, <2>2
  <2>4. QED
    BY <1>10, <2>3 DEF FindController
<1>11. CASE AbortController
  <2>1. target.call \in Calls
    BY <1>11 DEF AbortController
  <2>2. /\ reason' \in [Calls -> {Nil, "cancelled", "synthesis"}]
        /\ aborting' \in [Calls -> SUBSET {"socket", "resolution"}]
    BY <1>11, <2>1, AbortTypes DEF AbortController
  <2>3. QED
    BY <1>11, <2>2 DEF AbortController
<1>12. CASE UNCHANGED webVars
  BY <1>12
<1>13. QED
  BY <1>1, <1>2, <1>3, <1>4, <1>5, <1>6, <1>7, <1>8, <1>9, <1>10, <1>11, <1>12 DEF WebNext,
     Cancellation

\* What closes a controller takes everything with it, and nothing is registered at a closed one.
LEMMA ClosedKept ==
  ASSUME RequestAssumption, WebTypeOK, ClosedIsEmpty, [WebNext]_webVars
  PROVE  ClosedIsEmpty'
<1> USE DEF WebTypeOK, ClosedIsEmpty, Outside, RequestAssumption, Go, Places, webVars, request,
   webCalls, resolver, canceller
<1>1. ASSUME NEW c \in Calls, Thread(c) PROVE ClosedIsEmpty'
  <2>1. CASE BeginCall(c)
    BY <2>1 DEF BeginCall
  <2>2. CASE Check(c)
    BY <2>2 DEF Check
  <2>3. CASE Control(c)
    BY <2>3 DEF Control, Abort
  <2>4. CASE Resolve(c)
    BY <2>4 DEF Resolve, Proceed, Interrupted
  <2>5. CASE Enqueue(c)
    BY <2>5 DEF Enqueue, Proceed, Interrupted
  <2>6. CASE Resolved(c)
    BY <2>6 DEF Resolved, Interrupted
  <2>7. CASE Connect(c)
    BY <2>7 DEF Connect, Proceed, Interrupted
  <2>8. CASE Connected(c)
    <3>1. PICK to \in Places \ Outside : stage' = [stage EXCEPT ![c] = to]
      BY <2>8 DEF Connected
    <3>2. \/ sock' = sock /\ held' = held
          \/ sock' = [sock EXCEPT ![c] = "none"] /\ held' = held \ {c}
      BY <2>8 DEF Connected
    <3>3. ~closed[c] /\ UNCHANGED <<closed, aborting, waking, timer, controlled>>
      BY <2>8 DEF Connected
    <3>4. QED
      BY <3>1, <3>2, <3>3
  <2>9. CASE HandshakeEnds(c)
    BY <2>9 DEF HandshakeEnds
  <2>10. CASE Swap(c)
    BY <2>10 DEF Swap, Proceed, Interrupted
  <2>11. CASE Headers(c)
    <3>1. PICK to \in Places \ Outside : stage' = [stage EXCEPT ![c] = to]
      BY <2>11 DEF Headers
    <3>2. ~closed[c] /\ UNCHANGED <<closed, sock, aborting, held, waking, timer, controlled>>
      BY <2>11 DEF Headers
    <3>3. QED
      BY <3>1, <3>2
  <2>12. CASE Read(c)
    <3>1. PICK to \in Places \ Outside : stage' = [stage EXCEPT ![c] = to]
      BY <2>12 DEF Read
    <3>2. ~closed[c] /\ UNCHANGED <<closed, sock, aborting, held, waking, timer, controlled>>
      BY <2>12 DEF Read
    <3>3. QED
      BY <3>1, <3>2
  <2>13. CASE Release(c)
    BY <2>13 DEF Release, Close
  <2>14. CASE Revalidated(c)
    BY <2>14 DEF Revalidated
  <2>15. CASE Fail(c)
    BY <2>15 DEF Fail, Close
  <2>16. CASE Finish(c)
    BY <2>16 DEF Finish
  <2>17. QED
    BY <1>1, <2>1, <2>2, <2>3, <2>4, <2>5, <2>6, <2>7, <2>8, <2>9, <2>10, <2>11, <2>12, <2>13,
       <2>14, <2>15, <2>16 DEF Thread
<1>2. ASSUME NEW c \in Calls, ShutSocket(c) PROVE ClosedIsEmpty'
  BY <1>2 DEF ShutSocket
<1>3. ASSUME NEW c \in Calls, Wake(c) PROVE ClosedIsEmpty'
  BY <1>3 DEF Wake
<1>4. ASSUME NEW c \in Calls, TimerFires(c) PROVE ClosedIsEmpty'
  BY <1>4 DEF TimerFires, Abort
<1>5. ASSUME NEW c \in Calls, Tick(c) PROVE ClosedIsEmpty'
  BY <1>5 DEF Tick
<1>6. ASSUME NEW w \in Resolvers, Take(w) PROVE ClosedIsEmpty'
  BY <1>6 DEF Take
<1>7. ASSUME NEW w \in Resolvers, Deliver(w) PROVE ClosedIsEmpty'
  BY <1>7 DEF Deliver
<1>8. CASE CancelCalls
  BY <1>8 DEF CancelCalls
<1>9. CASE CancelCall
  BY <1>9 DEF CancelCall
<1>10. CASE FindController
  BY <1>10 DEF FindController
<1>11. CASE AbortController
  BY <1>11 DEF AbortController, Abort
<1>12. CASE UNCHANGED webVars
  BY <1>12
<1>13. QED
  BY <1>1, <1>2, <1>3, <1>4, <1>5, <1>6, <1>7, <1>8, <1>9, <1>10, <1>11, <1>12 DEF WebNext,
     Cancellation

\* A socket is registered before it is waited for, and shut by the abort that found it.
LEMMA SocketsKept ==
  ASSUME RequestAssumption, WebTypeOK, ClosedIsEmpty, SocketsAreKnown, [WebNext]_webVars
  PROVE  SocketsAreKnown'
<1> USE DEF WebTypeOK, ClosedIsEmpty, SocketsAreKnown, Outside, RequestAssumption, Go, Places,
   webVars, request, webCalls, resolver, canceller
<1>1. ASSUME NEW c \in Calls, Thread(c) PROVE SocketsAreKnown'
  <2>1. CASE BeginCall(c)
    BY <2>1 DEF BeginCall
  <2>2. CASE Check(c)
    BY <2>2 DEF Check
  <2>3. CASE Control(c)
    BY <2>3 DEF Control, Abort
  <2>4. CASE Resolve(c)
    BY <2>4 DEF Resolve, Proceed, Interrupted
  <2>5. CASE Enqueue(c)
    BY <2>5 DEF Enqueue, Proceed, Interrupted
  <2>6. CASE Resolved(c)
    BY <2>6 DEF Resolved, Interrupted
  <2>7. CASE Connect(c)
    BY <2>7 DEF Connect, Proceed, Interrupted
  <2>8. CASE Connected(c)
    BY <2>8 DEF Connected, Interrupted
  <2>9. CASE HandshakeEnds(c)
    BY <2>9 DEF HandshakeEnds
  <2>10. CASE Swap(c)
    BY <2>10 DEF Swap, Proceed, Interrupted
  <2>11. CASE Headers(c)
    BY <2>11 DEF Headers, Interrupted
  <2>12. CASE Read(c)
    BY <2>12 DEF Read, Interrupted
  <2>13. CASE Release(c)
    BY <2>13 DEF Release, Close
  <2>14. CASE Revalidated(c)
    BY <2>14 DEF Revalidated
  <2>15. CASE Fail(c)
    BY <2>15 DEF Fail, Close
  <2>16. CASE Finish(c)
    BY <2>16 DEF Finish
  <2>17. QED
    BY <1>1, <2>1, <2>2, <2>3, <2>4, <2>5, <2>6, <2>7, <2>8, <2>9, <2>10, <2>11, <2>12, <2>13,
       <2>14, <2>15, <2>16 DEF Thread
<1>2. ASSUME NEW c \in Calls, ShutSocket(c) PROVE SocketsAreKnown'
  BY <1>2 DEF ShutSocket
<1>3. ASSUME NEW c \in Calls, Wake(c) PROVE SocketsAreKnown'
  BY <1>3 DEF Wake
<1>4. ASSUME NEW c \in Calls, TimerFires(c) PROVE SocketsAreKnown'
  BY <1>4 DEF TimerFires, Abort
<1>5. ASSUME NEW c \in Calls, Tick(c) PROVE SocketsAreKnown'
  BY <1>5 DEF Tick
<1>6. ASSUME NEW w \in Resolvers, Take(w) PROVE SocketsAreKnown'
  BY <1>6 DEF Take
<1>7. ASSUME NEW w \in Resolvers, Deliver(w) PROVE SocketsAreKnown'
  BY <1>7 DEF Deliver
<1>8. CASE CancelCalls
  BY <1>8 DEF CancelCalls
<1>9. CASE CancelCall
  BY <1>9 DEF CancelCall
<1>10. CASE FindController
  BY <1>10 DEF FindController
<1>11. CASE AbortController
  BY <1>11 DEF AbortController, Abort
<1>12. CASE UNCHANGED webVars
  BY <1>12
<1>13. QED
  BY <1>1, <1>2, <1>3, <1>4, <1>5, <1>6, <1>7, <1>8, <1>9, <1>10, <1>11, <1>12 DEF WebNext,
     Cancellation

\* A resolution is registered before it is waited for, and woken by the abort that found it.
LEMMA WaitersKept ==
  ASSUME RequestAssumption, WebTypeOK, ClosedIsEmpty, WaitersAreKnown, [WebNext]_webVars
  PROVE  WaitersAreKnown'
<1> USE DEF WebTypeOK, ClosedIsEmpty, WaitersAreKnown, Outside, RequestAssumption, Go, Places,
   webVars, request, webCalls, resolver, canceller
<1>1. ASSUME NEW c \in Calls, Thread(c) PROVE WaitersAreKnown'
  <2>1. CASE BeginCall(c)
    BY <2>1 DEF BeginCall
  <2>2. CASE Check(c)
    BY <2>2 DEF Check
  <2>3. CASE Control(c)
    BY <2>3 DEF Control, Abort
  <2>4. CASE Resolve(c)
    BY <2>4 DEF Resolve, Proceed, Interrupted
  <2>5. CASE Enqueue(c)
    BY <2>5 DEF Enqueue, Proceed, Interrupted
  <2>6. CASE Resolved(c)
    BY <2>6 DEF Resolved, Interrupted
  <2>7. CASE Connect(c)
    BY <2>7 DEF Connect, Proceed, Interrupted
  <2>8. CASE Connected(c)
    BY <2>8 DEF Connected, Interrupted
  <2>9. CASE HandshakeEnds(c)
    BY <2>9 DEF HandshakeEnds
  <2>10. CASE Swap(c)
    BY <2>10 DEF Swap, Proceed, Interrupted
  <2>11. CASE Headers(c)
    BY <2>11 DEF Headers, Interrupted
  <2>12. CASE Read(c)
    BY <2>12 DEF Read, Interrupted
  <2>13. CASE Release(c)
    BY <2>13 DEF Release, Close
  <2>14. CASE Revalidated(c)
    BY <2>14 DEF Revalidated
  <2>15. CASE Fail(c)
    BY <2>15 DEF Fail, Close
  <2>16. CASE Finish(c)
    BY <2>16 DEF Finish
  <2>17. QED
    BY <1>1, <2>1, <2>2, <2>3, <2>4, <2>5, <2>6, <2>7, <2>8, <2>9, <2>10, <2>11, <2>12, <2>13,
       <2>14, <2>15, <2>16 DEF Thread
<1>2. ASSUME NEW c \in Calls, ShutSocket(c) PROVE WaitersAreKnown'
  BY <1>2 DEF ShutSocket
<1>3. ASSUME NEW c \in Calls, Wake(c) PROVE WaitersAreKnown'
  BY <1>3 DEF Wake
<1>4. ASSUME NEW c \in Calls, TimerFires(c) PROVE WaitersAreKnown'
  BY <1>4 DEF TimerFires, Abort
<1>5. ASSUME NEW c \in Calls, Tick(c) PROVE WaitersAreKnown'
  BY <1>5 DEF Tick
<1>6. ASSUME NEW w \in Resolvers, Take(w) PROVE WaitersAreKnown'
  BY <1>6 DEF Take
<1>7. ASSUME NEW w \in Resolvers, Deliver(w) PROVE WaitersAreKnown'
  BY <1>7 DEF Deliver
<1>8. CASE CancelCalls
  BY <1>8 DEF CancelCalls
<1>9. CASE CancelCall
  BY <1>9 DEF CancelCall
<1>10. CASE FindController
  BY <1>10 DEF FindController
<1>11. CASE AbortController
  BY <1>11 DEF AbortController, Abort
<1>12. CASE UNCHANGED webVars
  BY <1>12
<1>13. QED
  BY <1>1, <1>2, <1>3, <1>4, <1>5, <1>6, <1>7, <1>8, <1>9, <1>10, <1>11, <1>12 DEF WebNext,
     Cancellation

\* The call is marked before its controller is looked for, and looks at the mark when it
\* registers one.
LEMMA CancelKept ==
  ASSUME RequestAssumption, WebTypeOK, ClosedIsEmpty, CancelReaches, [WebNext]_webVars
  PROVE  CancelReaches'
<1> USE DEF WebTypeOK, ClosedIsEmpty, CancelReaches, Outside, RequestAssumption, Go, Places,
   webVars, request, webCalls, resolver, canceller
<1>1. ASSUME NEW c \in Calls, Thread(c) PROVE CancelReaches'
  <2>1. CASE BeginCall(c)
    BY <2>1 DEF BeginCall
  <2>2. CASE Check(c)
    BY <2>2 DEF Check
  <2>3. CASE Control(c)
    BY <2>3 DEF Control, Abort
  <2>4. CASE Resolve(c)
    BY <2>4 DEF Resolve, Proceed, Interrupted
  <2>5. CASE Enqueue(c)
    BY <2>5 DEF Enqueue, Proceed, Interrupted
  <2>6. CASE Resolved(c)
    BY <2>6 DEF Resolved, Interrupted
  <2>7. CASE Connect(c)
    BY <2>7 DEF Connect, Proceed, Interrupted
  <2>8. CASE Connected(c)
    BY <2>8 DEF Connected, Interrupted
  <2>9. CASE HandshakeEnds(c)
    BY <2>9 DEF HandshakeEnds
  <2>10. CASE Swap(c)
    BY <2>10 DEF Swap, Proceed, Interrupted
  <2>11. CASE Headers(c)
    BY <2>11 DEF Headers, Interrupted
  <2>12. CASE Read(c)
    BY <2>12 DEF Read, Interrupted
  <2>13. CASE Release(c)
    BY <2>13 DEF Release, Close
  <2>14. CASE Revalidated(c)
    BY <2>14 DEF Revalidated
  <2>15. CASE Fail(c)
    BY <2>15 DEF Fail, Close
  <2>16. CASE Finish(c)
    BY <2>16 DEF Finish
  <2>17. QED
    BY <1>1, <2>1, <2>2, <2>3, <2>4, <2>5, <2>6, <2>7, <2>8, <2>9, <2>10, <2>11, <2>12, <2>13,
       <2>14, <2>15, <2>16 DEF Thread
<1>2. ASSUME NEW c \in Calls, ShutSocket(c) PROVE CancelReaches'
  BY <1>2 DEF ShutSocket
<1>3. ASSUME NEW c \in Calls, Wake(c) PROVE CancelReaches'
  BY <1>3 DEF Wake
<1>4. ASSUME NEW c \in Calls, TimerFires(c) PROVE CancelReaches'
  BY <1>4 DEF TimerFires, Abort
<1>5. ASSUME NEW c \in Calls, Tick(c) PROVE CancelReaches'
  BY <1>5 DEF Tick
<1>6. ASSUME NEW w \in Resolvers, Take(w) PROVE CancelReaches'
  BY <1>6 DEF Take
<1>7. ASSUME NEW w \in Resolvers, Deliver(w) PROVE CancelReaches'
  BY <1>7 DEF Deliver
<1>8. CASE CancelCalls
  BY <1>8 DEF CancelCalls
<1>9. CASE CancelCall
  <2>1. PICK c \in reached : /\ target' = [call |-> c, controller |-> FALSE, found |-> FALSE]
                          /\ stopped' = stopped \cup {c}
    BY <1>9 DEF CancelCall
  <2>2. target' # Nil /\ target'.call = c /\ ~target'.found
    <3>1. c \in Calls
      BY <2>1
    <3>2. [call |-> c, controller |-> FALSE, found |-> FALSE]
             \in [call : Calls, controller : BOOLEAN, found : BOOLEAN]
      BY <3>1
    <3>3. QED
      BY <2>1, <3>2
  <2>3. target = Nil /\ controlled' = controlled /\ reason' = reason
    BY <1>9 DEF CancelCall
  <2>4. QED
    BY <2>1, <2>2, <2>3
<1>10. CASE FindController
  <2>1. target \in [call : Calls, controller : BOOLEAN, found : BOOLEAN]
    BY <1>10 DEF FindController
  <2>2. target' = [call |-> target.call, controller |-> target.call \in controlled,
                   found |-> TRUE]
    BY <1>10, <2>1, Zenon DEF FindController
  <2>3. /\ target'.call = target.call /\ target'.found
        /\ target'.controller <=> target.call \in controlled
    BY <2>2
  <2>a. target' \in [call : Calls, controller : BOOLEAN, found : BOOLEAN]
    BY <2>1, <2>2
  <2>b. target # Nil /\ target' # Nil
    BY <2>1, <2>a
  <2>4. target # Nil /\ target' # Nil /\ UNCHANGED <<stopped, controlled, reason>>
    BY <1>10, <2>b DEF FindController
  <2>5. QED
    BY <2>3, <2>4
<1>11. CASE AbortController
  BY <1>11 DEF AbortController, Abort
<1>12. CASE UNCHANGED webVars
  BY <1>12
<1>13. QED
  BY <1>1, <1>2, <1>3, <1>4, <1>5, <1>6, <1>7, <1>8, <1>9, <1>10, <1>11, <1>12 DEF WebNext,
     Cancellation

\* The initial states.
LEMMA InitWeb == RequestAssumption /\ WebInit => WebInv
<1> SUFFICES ASSUME RequestAssumption, WebInit PROVE WebInv
  OBVIOUS
<1>1. WebTypeOK
  BY DEF WebInit, WebTypeOK, RequestAssumption, Places, Resolutions
<1>2. ClosedIsEmpty /\ SocketsAreKnown /\ WaitersAreKnown /\ CancelReaches
  BY DEF WebInit, ClosedIsEmpty, SocketsAreKnown, WaitersAreKnown, CancelReaches, Outside
<1>3. QED
  BY <1>1, <1>2 DEF WebInv

\* Together.
LEMMA WebKept == RequestAssumption /\ WebInv /\ [WebNext]_webVars => WebInv'
<1> SUFFICES ASSUME RequestAssumption, WebInv, [WebNext]_webVars PROVE WebInv'
  OBVIOUS
<1>1. WebTypeOK /\ ClosedIsEmpty /\ SocketsAreKnown /\ WaitersAreKnown /\ CancelReaches
  BY DEF WebInv
<1>2. WebTypeOK' /\ ClosedIsEmpty' /\ SocketsAreKnown' /\ WaitersAreKnown' /\ CancelReaches'
  BY <1>1, WebTypeKept, ClosedKept, SocketsKept, WaitersKept, CancelKept
<1>3. QED
  BY <1>2 DEF WebInv

\* The inductive invariant gives what an abort promises: what it has found is what there
\* was to find, and what comes later looks at the controller first.
LEMMA InvariantReaches == RequestAssumption /\ WebInv => AbortMissesNobody
  BY DEF WebInv, WebTypeOK, ClosedIsEmpty, SocketsAreKnown, WaitersAreKnown, CancelReaches,
         AbortMissesNobody, Outside

(* The inductive invariant holds for any calls, resolvers, queue and attempts. *)
THEOREM WebInvariantHolds == RequestAssumption /\ WebSpec => []WebInv
<1>1. ASSUME RequestAssumption PROVE WebSpec => []WebInv
  <2>1. WebInit => WebInv
    BY <1>1, InitWeb
  <2>2. WebInv /\ [WebNext]_webVars => WebInv'
    BY <1>1, WebKept
  <2>3. QED
    BY <2>1, <2>2, PTL DEF WebSpec
<1>2. QED
  BY <1>1

(* However the deadline, the user and the thread interleave, an abort leaves no thread in a
   wait that only the network or a resolver would end, no cancellation is lost, and a call
   that is over has left nothing behind (_RequestController, _RequestTracker). *)
THEOREM NobodyIsMissed == RequestAssumption /\ WebSpec => []AbortMissesNobody
<1>1. ASSUME RequestAssumption PROVE WebInv => AbortMissesNobody
  BY <1>1, InvariantReaches
<1>2. ASSUME RequestAssumption PROVE WebSpec => []AbortMissesNobody
  <2>1. WebSpec => []WebInv
    BY <1>2, WebInvariantHolds
  <2>2. WebInv => AbortMissesNobody
    BY <1>2, <1>1
  <2>3. QED
    BY <2>1, <2>2, PTL
<1>3. QED
  BY <1>2

----------------------------------------------------------------------------
(***************************************************************************)
(* The graph extraction queue and the sub-agents, with any jobs, threads   *)
(* and bounds, through shutdowns and crashes.                              *)
(***************************************************************************)
Working == {"up", "draining", "canceling"}

\* A stopped application holds nothing in memory.
DownIsEmpty ==
    app = "down" => queue = <<>> /\ \A t \in Threads : thread[t] = "none"

\* The worker works while it is not cancelled; its job is running, and what it has left fits.
WorkerHolds ==
    /\ worker # "off" => app \in Working
    /\ worker \in {"extracting", "writing"} => hand \in Jobs /\ row[hand] = "running"
    /\ worker = "extracting" => left >= 1
    /\ worker \in {"idle", "off"} => hand = NoJob

\* What waits in the queue is queued in the store, once.
QueueHolds ==
    app \in Working =>
        /\ \A i \in 1 .. Len(queue) : row[queue[i]] = "queued"
        /\ \A i, k \in 1 .. Len(queue) : queue[i] = queue[k] => i = k

\* Until the last marking a thread's row says where it is.
ThreadsHold ==
    app \notin {"closed", "marking"} =>
        \A t \in Threads : /\ thread[t] = "pool" => row[t] = "queued"
                           /\ thread[t] = "running" => row[t] = "running"

\* After the worker is cancelled no job is open; only sub-agents are marked then.
JobsAreClosed ==
    /\ app \in {"closed", "marking"} => \A j \in Jobs : row[j] \notin Open
    /\ selected # {} => app = "marking"
    /\ selected \subseteq Threads

GraphInv ==
    /\ GraphTypeOK /\ DownIsEmpty /\ WorkerHolds /\ QueueHolds /\ ThreadsHold
    /\ JobsAreClosed /\ OpenTasksAreHeld

LEMMA InitGraph == GraphInit => GraphInv
<1> SUFFICES ASSUME GraphInit PROVE GraphInv
  OBVIOUS
<1>1. <<>> \in Seq(Jobs)
  OBVIOUS
<1>2. /\ {} \subseteq Jobs /\ {} \subseteq Tasks /\ FALSE \in BOOLEAN
      /\ 0 \in 0 .. MaxSegments /\ 0 \in 0 .. MaxExtractions
  BY QueueAssumption
<1>3. row \in [Tasks -> {"none"} \cup Open \cup Terminal]
  BY DEF GraphInit
<1>4. thread \in [Threads -> {"none", "pool", "running"}]
  BY DEF GraphInit
<1>5. GraphTypeOK
  BY <1>1, <1>2, <1>3, <1>4 DEF GraphInit, GraphTypeOK
<1>6. DownIsEmpty /\ WorkerHolds /\ QueueHolds
  BY DEF GraphInit, DownIsEmpty, WorkerHolds, QueueHolds, Working
<1>7. ThreadsHold /\ JobsAreClosed /\ OpenTasksAreHeld
  BY DEF GraphInit, ThreadsHold, JobsAreClosed, OpenTasksAreHeld, Open, Tasks
<1>8. QED
  BY <1>5, <1>6, <1>7 DEF GraphInv

\* A sequence of jobs without its first, and with one more.
LEMMA JobTaken ==
  ASSUME NEW q \in Seq(Jobs), q # <<>>
  PROVE  /\ Head(q) \in Jobs /\ Head(q) = q[1] /\ Tail(q) \in Seq(Jobs)
         /\ Len(q) \in Nat /\ Len(q) >= 1 /\ Len(Tail(q)) = Len(q) - 1
         /\ \A i \in 1 .. Len(Tail(q)) : Tail(q)[i] = q[i + 1]
         /\ \A j \in Range(q) : j = Head(q) \/ j \in Range(Tail(q))
<1>1. /\ Head(q) \in Jobs /\ Tail(q) \in Seq(Jobs) /\ Len(Tail(q)) = Len(q) - 1
      /\ \A i \in 1 .. Len(Tail(q)) : Tail(q)[i] = q[i + 1]
      /\ Head(q) = q[1]
  BY HeadTailProperties
<1>2. Len(q) \in Nat /\ Len(q) # 0 /\ DOMAIN q = 1 .. Len(q) /\ DOMAIN Tail(q) = 1 .. (Len(q) - 1)
  BY <1>1, LenProperties, EmptySeq
<1>3. ASSUME NEW j \in Range(q), j # Head(q) PROVE j \in Range(Tail(q))
  <2>1. PICK i \in 1 .. Len(q) : j = q[i]
    BY <1>2 DEF Range
  <2>2. i # 1
    BY <1>1, <1>3, <2>1
  <2>3. i - 1 \in 1 .. (Len(q) - 1) /\ j = Tail(q)[i - 1]
    BY <1>1, <1>2, <2>1, <2>2
  <2>4. QED
    BY <1>2, <2>3 DEF Range
<1>4. QED
  BY <1>1, <1>2, <1>3

LEMMA JobAdded ==
  ASSUME NEW q \in Seq(Jobs), NEW j \in Jobs
  PROVE  /\ Append(q, j) \in Seq(Jobs) /\ Len(q) \in Nat /\ Len(Append(q, j)) = Len(q) + 1
         /\ \A i \in 1 .. Len(q) : Append(q, j)[i] = q[i]
         /\ Append(q, j)[Len(q) + 1] = j
         /\ Range(Append(q, j)) = Range(q) \cup {j}
<1>1. /\ Append(q, j) \in Seq(Jobs) /\ Len(Append(q, j)) = Len(q) + 1
      /\ \A i \in 1 .. Len(q) : Append(q, j)[i] = q[i]
      /\ Append(q, j)[Len(q) + 1] = j
  BY AppendProperties
<1>2. Len(q) \in Nat /\ DOMAIN q = 1 .. Len(q) /\ DOMAIN Append(q, j) = 1 .. (Len(q) + 1)
  BY <1>1, LenProperties
<1>3. 1 .. (Len(q) + 1) = (1 .. Len(q)) \cup {Len(q) + 1}
  BY <1>2
<1>4. Range(Append(q, j)) = Range(q) \cup {j}
  BY <1>1, <1>2, <1>3 DEF Range
<1>5. QED
  BY <1>1, <1>2, <1>4

LEMMA GraphKept == GraphInv /\ [GraphNext]_graphVars => GraphInv'
<1> SUFFICES ASSUME GraphInv, [GraphNext]_graphVars PROVE GraphInv'
  OBVIOUS
<1> DEFINE Goal == GraphInv'
           Rest == /\ GraphTypeOK /\ DownIsEmpty /\ WorkerHolds /\ QueueHolds /\ ThreadsHold
                   /\ JobsAreClosed /\ OpenTasksAreHeld
<1>0. /\ Rest
      /\ Jobs \subseteq Tasks /\ Threads \subseteq Tasks
      /\ \A j \in Jobs : j \notin Threads
      /\ <<>> \in Seq(Jobs)
      /\ MaxSegments \in Nat /\ MaxExtractions \in Nat /\ MaxExtractions >= 1
      /\ queue \in Seq(Jobs) /\ Len(queue) \in Nat
      /\ \A i \in 1 .. Len(queue) : queue[i] \in Jobs
      /\ row \in [Tasks -> {"none", "queued", "running", "completed", "failed", "canceled",
                            "interrupted"}]
  <2>1. queue \in Seq(Jobs)
    BY DEF GraphInv, GraphTypeOK
  <2>2. Len(queue) \in Nat /\ \A i \in 1 .. Len(queue) : queue[i] \in Jobs
    BY <2>1, LenProperties, ElementOfSeq
  <2>3. row \in [Tasks -> {"none", "queued", "running", "completed", "failed", "canceled",
                           "interrupted"}]
    BY DEF GraphInv, GraphTypeOK, Open, Terminal
  <2>4. <<>> \in Seq(Jobs)
    OBVIOUS
  <2>5. QED
    BY <2>1, <2>2, <2>3, <2>4, QueueAssumption DEF GraphInv, Tasks
\* Steps of the rows: which statuses they leave and which they write.
<1>1. ASSUME NEW t \in Tasks, NEW s, Write(t, s)
      PROVE  \A u \in Tasks : row'[u] = IF u = t THEN s ELSE row[u]
  BY <1>0, <1>1 DEF Write
<1>2. ASSUME NEW S \in SUBSET Tasks, MarkIncomplete(S)
      PROVE  \A u \in Tasks : row'[u] = IF u \in S /\ row[u] \in Open THEN "interrupted" ELSE row[u]
  BY <1>0, <1>2 DEF MarkIncomplete, Incomplete
<1>3. ASSUME StartApp PROVE Goal
  <2>1. /\ app = "down" /\ app' = "up" /\ worker' \in {"idle", "off"}
        /\ enabled' \in BOOLEAN /\ closing' \in BOOLEAN
        /\ UNCHANGED <<facts, queue, hand, left, attempt, orphans, thread, selected>>
    BY <1>3 DEF StartApp
  <2>2. \A u \in Tasks : row'[u] = IF row[u] \in Open THEN "interrupted" ELSE row[u]
    BY <1>2, <1>3 DEF StartApp
  <2>3. row' \in [Tasks -> {"none"} \cup Open \cup Terminal]
    BY <1>0, <1>3 DEF StartApp, MarkIncomplete, Incomplete, Open, Terminal
  <2>4. GraphTypeOK'
    BY <1>0, <2>1, <2>3 DEF GraphTypeOK
  <2>5. queue' = <<>> /\ Len(queue') = 0 /\ \A t \in Threads : thread'[t] = "none"
    BY <1>0, <2>1 DEF DownIsEmpty
  <2>6. QueueHolds' /\ ThreadsHold' /\ DownIsEmpty' /\ WorkerHolds'
    BY <1>0, <2>1, <2>5 DEF QueueHolds, ThreadsHold, DownIsEmpty, WorkerHolds, Working
  <2>7. OpenTasksAreHeld' /\ JobsAreClosed'
    BY <1>0, <2>1, <2>2 DEF OpenTasksAreHeld, JobsAreClosed, Open
  <2>8. QED
    BY <2>4, <2>6, <2>7 DEF GraphInv
<1>4. ASSUME Vanish, UNCHANGED disk PROVE Goal
  <2>1. /\ app' = "down" /\ enabled' = FALSE /\ closing' = FALSE /\ queue' = <<>>
        /\ worker' = "off" /\ hand' = NoJob /\ left' = 0 /\ attempt' = 0 /\ orphans' = {}
        /\ thread' = [t \in Threads |-> "none"] /\ selected' = {} /\ UNCHANGED <<row, facts>>
    BY <1>4 DEF Vanish, LetGo, disk
  <2>2. GraphTypeOK'
    <3>1. /\ queue' \in Seq(Jobs) /\ {} \subseteq Jobs /\ {} \subseteq Tasks /\ FALSE \in BOOLEAN
          /\ 0 \in 0 .. MaxSegments /\ 0 \in 0 .. MaxExtractions
      BY <1>0, <2>1
    <3>2. thread' \in [Threads -> {"none", "pool", "running"}]
      BY <2>1
    <3>3. row' \in [Tasks -> {"none"} \cup Open \cup Terminal] /\ facts' \subseteq Jobs
      BY <1>0, <2>1 DEF GraphTypeOK
    <3>4. QED
      BY <2>1, <3>1, <3>2, <3>3 DEF GraphTypeOK
  <2>3. QED
    BY <1>0, <2>1, <2>2 DEF GraphInv, DownIsEmpty, WorkerHolds, QueueHolds, ThreadsHold,
       JobsAreClosed, OpenTasksAreHeld, Working
<1>5. ASSUME Configure PROVE Goal
  <2>1. /\ app = "up" /\ enabled' \in BOOLEAN /\ closing' \in BOOLEAN
        /\ worker' \in {worker, "idle"} /\ (worker' # worker => worker = "off")
        /\ UNCHANGED <<row, facts, app, queue, hand, left, attempt, orphans, thread, selected>>
    BY <1>0, <1>5 DEF Configure, GraphTypeOK, disk
  <2>2. GraphTypeOK'
    BY <1>0, <2>1 DEF GraphTypeOK
  <2>3. WorkerHolds'
    BY <1>0, <2>1 DEF WorkerHolds, Working
  <2>4. QED
    BY <1>0, <2>1, <2>2, <2>3 DEF GraphInv, DownIsEmpty, QueueHolds, ThreadsHold,
       JobsAreClosed, OpenTasksAreHeld, Working
<1>6. ASSUME NEW j \in Jobs, EnqueueJob(j) PROVE Goal
  <2>1. /\ app = "up" /\ row[j] = "none" /\ queue' = Append(queue, j)
        /\ Write(j, "queued")
        /\ UNCHANGED <<facts, app, enabled, closing, worker, hand, left, attempt, orphans,
                       thread, selected>>
    BY <1>6 DEF EnqueueJob, Create, config, work
  <2>2. \A u \in Tasks : row'[u] = IF u = j THEN "queued" ELSE row[u]
    BY <1>0, <1>1, <2>1
  <2>3. /\ queue' \in Seq(Jobs) /\ Len(queue') = Len(queue) + 1
        /\ \A i \in 1 .. Len(queue) : queue'[i] = queue[i]
        /\ queue'[Len(queue) + 1] = j
        /\ Range(queue') = Range(queue) \cup {j}
    BY <1>0, <2>1, JobAdded
  <2>4. row' \in [Tasks -> {"none"} \cup Open \cup Terminal]
    BY <1>0, <2>1 DEF Write, Open, Terminal
  <2>5. GraphTypeOK'
    BY <1>0, <2>1, <2>3, <2>4 DEF GraphTypeOK
  <2>6. \A i \in 1 .. Len(queue) : queue[i] # j
    BY <1>0, <2>1 DEF QueueHolds, Working
  <2>7. QueueHolds'
    <3>1. ASSUME NEW i \in 1 .. Len(queue')
          PROVE  i \in 1 .. Len(queue) \/ i = Len(queue) + 1
      BY <1>0, <2>3
    <3>2. \A i \in 1 .. Len(queue') : row'[queue'[i]] = "queued"
      BY <1>0, <2>1, <2>2, <2>3, <3>1 DEF QueueHolds, Working
    <3>3. \A i, k \in 1 .. Len(queue') : queue'[i] = queue'[k] => i = k
      BY <1>0, <2>1, <2>3, <2>6, <3>1 DEF QueueHolds, Working
    <3>4. QED
      BY <3>2, <3>3 DEF QueueHolds
  <2>8. OpenTasksAreHeld'
    BY <1>0, <2>1, <2>2, <2>3 DEF OpenTasksAreHeld
  <2>9. WorkerHolds'
    BY <1>0, <2>1, <2>2 DEF WorkerHolds
  <2>10. ThreadsHold' /\ JobsAreClosed' /\ DownIsEmpty'
    BY <1>0, <2>1, <2>2 DEF ThreadsHold, JobsAreClosed, DownIsEmpty
  <2>11. QED
    BY <2>5, <2>7, <2>8, <2>9, <2>10 DEF GraphInv
<1>7. ASSUME TakeJob PROVE Goal
  <2>1. /\ worker = "idle" /\ queue # <<>> /\ queue' = Tail(queue) /\ hand' = Head(queue)
        /\ left' \in 1 .. MaxSegments /\ attempt' = 1 /\ worker' = "extracting"
        /\ Write(Head(queue), "running")
        /\ UNCHANGED <<facts, app, enabled, closing, orphans, thread, selected>>
    BY <1>7 DEF TakeJob, Segments, config
  <2>2. /\ Head(queue) \in Jobs /\ Head(queue) = queue[1] /\ queue' \in Seq(Jobs)
        /\ Len(queue) >= 1 /\ Len(queue') = Len(queue) - 1
        /\ \A i \in 1 .. Len(queue') : queue'[i] = queue[i + 1]
        /\ \A j \in Range(queue) : j = Head(queue) \/ j \in Range(queue')
    BY <1>0, <2>1, JobTaken
  <2>3. \A u \in Tasks : row'[u] = IF u = queue[1] THEN "running" ELSE row[u]
    BY <1>0, <1>1, <2>1, <2>2
  <2>4. row' \in [Tasks -> {"none"} \cup Open \cup Terminal]
    BY <1>0, <2>1 DEF Write, Open, Terminal
  <2>5. GraphTypeOK'
    BY <1>0, <2>1, <2>2, <2>4 DEF GraphTypeOK
  <2>6. app \in Working
    BY <1>0, <2>1 DEF WorkerHolds
  <2>7. QueueHolds'
    <3>1. ASSUME NEW i \in 1 .. Len(queue')
          PROVE  /\ i + 1 \in 1 .. Len(queue) /\ 1 \in 1 .. Len(queue) /\ i + 1 # 1
                 /\ queue'[i] = queue[i + 1]
      BY <1>0, <2>2
    <3>2. ASSUME NEW i \in 1 .. Len(queue') PROVE row'[queue'[i]] = "queued"
      <4>1. queue[i + 1] # queue[1] /\ row[queue[i + 1]] = "queued" /\ queue[i + 1] \in Jobs
        BY <1>0, <2>6, <3>1 DEF QueueHolds
      <4>2. QED
        BY <1>0, <2>3, <3>1, <4>1
    <3>3. ASSUME NEW i \in 1 .. Len(queue'), NEW k \in 1 .. Len(queue'), queue'[i] = queue'[k]
          PROVE  i = k
      <4>1. i + 1 = k + 1
        BY <1>0, <2>6, <3>1, <3>3 DEF QueueHolds
      <4>2. QED
        BY <1>0, <2>2, <4>1
    <3>4. QED
      BY <3>2, <3>3 DEF QueueHolds
  <2>8. OpenTasksAreHeld'
    <3>1. ASSUME NEW j \in Jobs, app = "up", row'[j] \in Open PROVE j \in Range(queue') \cup {hand'}
      <4>1. CASE j = queue[1]
        BY <2>1, <2>2, <4>1
      <4>2. CASE j # queue[1]
        <5>1. row[j] \in Open
          BY <1>0, <2>3, <3>1, <4>2
        <5>2. j \in Range(queue) \/ j = hand
          BY <1>0, <3>1, <5>1 DEF OpenTasksAreHeld
        <5>3. CASE j \in Range(queue)
          BY <2>2, <4>2, <5>3
        <5>4. CASE j = hand
          BY <1>0, <2>1, <5>4, QueueAssumption DEF WorkerHolds
        <5>5. QED
          BY <5>2, <5>3, <5>4
      <4>3. QED
        BY <4>1, <4>2
    <3>2. QED
      BY <1>0, <2>1, <2>2, <2>3, <3>1 DEF OpenTasksAreHeld
  <2>9. WorkerHolds'
    BY <1>0, <2>1, <2>2, <2>3, <2>6 DEF WorkerHolds
  <2>10. ThreadsHold' /\ JobsAreClosed' /\ DownIsEmpty'
    BY <1>0, <2>1, <2>2, <2>3, <2>6 DEF ThreadsHold, JobsAreClosed, DownIsEmpty, Working
  <2>11. QED
    BY <2>5, <2>7, <2>8, <2>9, <2>10 DEF GraphInv
<1>8. ASSUME ExtractSucceeds \/ ExtractFails PROVE Goal
  <2>1. /\ worker = "extracting" /\ worker' \in {"extracting", "writing"}
        /\ worker' = "extracting" => left' >= 1
        /\ left' \in 0 .. MaxSegments /\ attempt' \in 0 .. MaxExtractions
        /\ UNCHANGED <<row, facts, app, enabled, closing, queue, hand, orphans, thread, selected>>
    <3>1. left \in 1 .. MaxSegments /\ attempt \in 0 .. MaxExtractions /\ worker = "extracting"
      BY <1>0, <1>8 DEF GraphTypeOK, WorkerHolds, ExtractSucceeds, ExtractFails
    <3>2. CASE NextSegment
      BY <1>0, <1>8, <3>1, <3>2 DEF ExtractSucceeds, ExtractFails, NextSegment, disk, config
    <3>3. CASE ~NextSegment
      BY <1>0, <1>8, <3>1, <3>3 DEF ExtractSucceeds, ExtractFails, disk, config
    <3>4. QED
      BY <3>2, <3>3
  <2>2. GraphTypeOK'
    BY <1>0, <2>1 DEF GraphTypeOK
  <2>3. WorkerHolds'
    BY <1>0, <2>1 DEF WorkerHolds
  <2>4. QED
    BY <1>0, <2>1, <2>2, <2>3 DEF GraphInv, DownIsEmpty, QueueHolds, ThreadsHold,
       JobsAreClosed, OpenTasksAreHeld
<1>9. ASSUME FactsWritten \/ WriteFails PROVE Goal
  <2>1. /\ worker = "writing" /\ worker' = "idle" /\ hand' = NoJob /\ left' = 0 /\ attempt' = 0
        /\ facts' \in {facts, facts \cup {hand}}
        /\ Write(hand, "completed") \/ Write(hand, "failed")
        /\ UNCHANGED <<app, enabled, closing, queue, orphans, thread, selected>>
    BY <1>9 DEF FactsWritten, WriteFails, LetGo, config
  <2>2. hand \in Jobs /\ row[hand] = "running" /\ app \in Working
    BY <1>0, <2>1 DEF WorkerHolds
  <2>3. PICK s \in {"completed", "failed"} : \A u \in Tasks : row'[u] = IF u = hand THEN s ELSE row[u]
    BY <1>0, <1>1, <2>1, <2>2
  <2>4. row' \in [Tasks -> {"none"} \cup Open \cup Terminal]
    BY <1>0, <2>1 DEF Write, Open, Terminal
  <2>5. GraphTypeOK'
    BY <1>0, <2>1, <2>2, <2>4 DEF GraphTypeOK
  <2>6. QueueHolds'
    BY <1>0, <2>1, <2>2, <2>3 DEF QueueHolds
  <2>7. OpenTasksAreHeld'
    BY <1>0, <2>1, <2>2, <2>3 DEF OpenTasksAreHeld, Open
  <2>8. WorkerHolds'
    BY <2>1, <2>2 DEF WorkerHolds
  <2>9. ThreadsHold' /\ JobsAreClosed' /\ DownIsEmpty'
    BY <1>0, <2>1, <2>2, <2>3 DEF ThreadsHold, JobsAreClosed, DownIsEmpty, Working
  <2>10. QED
    BY <2>5, <2>6, <2>7, <2>8, <2>9 DEF GraphInv
<1>10. ASSUME NEW j \in Jobs, OrphanWrites(j) PROVE Goal
  <2>1. /\ orphans' = orphans \ {j} /\ facts' = facts \cup {j}
        /\ UNCHANGED <<row, app, enabled, closing, queue, worker, hand, left, attempt, thread,
                       selected>>
    BY <1>10 DEF OrphanWrites, config
  <2>2. GraphTypeOK'
    BY <1>0, <2>1 DEF GraphTypeOK
  <2>3. QED
    BY <1>0, <2>1, <2>2 DEF GraphInv, DownIsEmpty, WorkerHolds, QueueHolds, ThreadsHold,
       JobsAreClosed, OpenTasksAreHeld
\* One thread moves: the rows of jobs stay.
<1>11. ASSUME NEW t \in Threads, NEW s \in {"queued", "running", "completed", "failed"},
              NEW p \in {"none", "pool", "running"}, Write(t, s), thread' = [thread EXCEPT ![t] = p],
              s \in Open => p # "none",
              p = "pool" => s = "queued", p = "running" => s = "running",
              app # "down" \/ p = "none",
              UNCHANGED <<facts, app, enabled, closing, queue, worker, hand, left, attempt,
                          orphans, selected>>
       PROVE  Goal
  <2>1. \A u \in Tasks : row'[u] = IF u = t THEN s ELSE row[u]
    BY <1>0, <1>1, <1>11
  <2>2. \A u \in Threads : thread'[u] = IF u = t THEN p ELSE thread[u]
    BY <1>0, <1>11 DEF GraphTypeOK
  <2>3. \A j \in Jobs : row'[j] = row[j]
    BY <1>0, <2>1
  <2>4. row' \in [Tasks -> {"none"} \cup Open \cup Terminal]
    BY <1>0, <1>11 DEF Write, Open, Terminal
  <2>5. GraphTypeOK'
    BY <1>0, <1>11, <2>4 DEF GraphTypeOK
  <2>6. QueueHolds' /\ WorkerHolds'
    BY <1>0, <1>11, <2>3 DEF QueueHolds, WorkerHolds
  <2>7. OpenTasksAreHeld'
    BY <1>0, <1>11, <2>1, <2>2, <2>3 DEF OpenTasksAreHeld
  <2>8. ThreadsHold'
    BY <1>0, <1>11, <2>1, <2>2 DEF ThreadsHold
  <2>9. JobsAreClosed' /\ DownIsEmpty'
    BY <1>0, <1>11, <2>2, <2>3 DEF JobsAreClosed, DownIsEmpty
  <2>10. QED
    BY <2>5, <2>6, <2>7, <2>8, <2>9 DEF GraphInv
<1>12. ASSUME NEW t \in Threads, DispatchAgent(t) PROVE Goal
  <2>1. /\ app # "down" /\ Write(t, "queued") /\ thread' = [thread EXCEPT ![t] = "pool"]
        /\ UNCHANGED <<facts, app, enabled, closing, queue, worker, hand, left, attempt,
                       orphans, selected>>
    BY <1>12 DEF DispatchAgent, Create, config, work
  <2>2. QED
    BY <1>11, <2>1
<1>13. ASSUME NEW t \in Threads, ThreadStarts(t) PROVE Goal
  <2>1. /\ thread[t] = "pool" /\ Write(t, "running") /\ thread' = [thread EXCEPT ![t] = "running"]
        /\ UNCHANGED <<facts, app, enabled, closing, queue, worker, hand, left, attempt,
                       orphans, selected>>
    BY <1>13 DEF ThreadStarts, config, work
  <2>2. app # "down"
    BY <1>0, <2>1 DEF DownIsEmpty
  <2>3. QED
    BY <1>11, <2>1, <2>2
<1>14. ASSUME NEW t \in Threads, ThreadEnds(t) PROVE Goal
  <2>1. /\ thread' = [thread EXCEPT ![t] = "none"]
        /\ UNCHANGED <<facts, app, enabled, closing, queue, worker, hand, left, attempt,
                       orphans, selected>>
    BY <1>14 DEF ThreadEnds, config, work
  <2>2. \E s \in {"completed", "failed"} : Write(t, s)
    BY <1>14 DEF ThreadEnds
  <2>3. QED
    BY <1>11, <2>1, <2>2 DEF Open
<1>15. ASSUME CloseBegins \/ DrainEnds PROVE Goal
  <2>1. /\ app \in Working /\ app' \in {"draining", "canceling"} /\ closing' \in BOOLEAN
        /\ UNCHANGED <<row, facts, enabled, queue, worker, hand, left, attempt, orphans, thread,
                       selected>>
    BY <1>0, <1>15 DEF CloseBegins, DrainEnds, disk, config, work, Working, GraphTypeOK
  <2>2. GraphTypeOK'
    BY <1>0, <2>1 DEF GraphTypeOK
  <2>3. QED
    BY <1>0, <2>1, <2>2 DEF GraphInv, DownIsEmpty, WorkerHolds, QueueHolds, ThreadsHold,
       JobsAreClosed, OpenTasksAreHeld, Working
<1>16. ASSUME CancelWorker PROVE Goal
  <2>1. /\ app = "canceling" /\ app' = "closed" /\ worker' = "off" /\ hand' = NoJob /\ left' = 0
        /\ attempt' = 0 /\ orphans' = IF worker = "writing" THEN orphans \cup {hand} ELSE orphans
        /\ UNCHANGED <<facts, enabled, closing, queue, thread, selected>>
    BY <1>16 DEF CancelWorker, LetGo, config
  <2>2. \A u \in Tasks : row'[u] = IF u \in Jobs /\ row[u] \in Open THEN "interrupted" ELSE row[u]
    BY <1>0, <1>2, <1>16 DEF CancelWorker
  <2>3. row' \in [Tasks -> {"none"} \cup Open \cup Terminal]
    BY <1>0, <1>16 DEF CancelWorker, MarkIncomplete, Incomplete, Open, Terminal
  <2>4. orphans' \subseteq Jobs
    BY <1>0, <2>1 DEF GraphTypeOK, WorkerHolds
  <2>5. GraphTypeOK'
    BY <1>0, <2>1, <2>3, <2>4 DEF GraphTypeOK
  <2>6. JobsAreClosed'
    BY <1>0, <2>1, <2>2 DEF JobsAreClosed, Open
  <2>7. QED
    BY <1>0, <2>1, <2>5, <2>6 DEF GraphInv, DownIsEmpty, WorkerHolds, QueueHolds, ThreadsHold,
       OpenTasksAreHeld, Working
<1>17. ASSUME SelectIncomplete PROVE Goal
  <2>1. /\ app = "closed" /\ app' = "marking" /\ selected' = Incomplete(Tasks)
        /\ UNCHANGED <<row, facts, enabled, closing, queue, worker, hand, left, attempt,
                       orphans, thread>>
    BY <1>17 DEF SelectIncomplete, disk, config, work
  <2>2. selected' \subseteq Threads /\ selected' \subseteq Tasks
    BY <1>0, <2>1 DEF Incomplete, JobsAreClosed, Tasks
  <2>3. GraphTypeOK'
    BY <1>0, <2>1, <2>2 DEF GraphTypeOK
  <2>4. QED
    BY <1>0, <2>1, <2>2, <2>3 DEF GraphInv, DownIsEmpty, WorkerHolds, QueueHolds, ThreadsHold,
       JobsAreClosed, OpenTasksAreHeld, Working
<1>18. ASSUME NEW t \in Tasks, MarkInterrupted(t) PROVE Goal
  <2>1. /\ t \in selected /\ selected' = selected \ {t} /\ Write(t, "interrupted")
        /\ UNCHANGED <<facts, app, enabled, closing, queue, worker, hand, left, attempt,
                       orphans, thread>>
    BY <1>18 DEF MarkInterrupted, config, work
  <2>2. app = "marking" /\ t \in Threads
    BY <1>0, <2>1 DEF JobsAreClosed
  <2>3. \A u \in Tasks : row'[u] = IF u = t THEN "interrupted" ELSE row[u]
    BY <1>1, <2>1
  <2>4. row' \in [Tasks -> {"none"} \cup Open \cup Terminal]
    BY <1>0, <2>1 DEF Write, Open, Terminal
  <2>5. GraphTypeOK'
    BY <1>0, <2>1, <2>4 DEF GraphTypeOK
  <2>6. worker = "off"
    BY <1>0, <2>2 DEF WorkerHolds, Working
  <2>7. JobsAreClosed'
    BY <1>0, <2>1, <2>2, <2>3 DEF JobsAreClosed
  <2>8. QED
    BY <1>0, <2>1, <2>2, <2>5, <2>6, <2>7 DEF GraphInv, DownIsEmpty, WorkerHolds, QueueHolds,
       ThreadsHold, OpenTasksAreHeld, Working
<1>19. ASSUME UNCHANGED graphVars PROVE Goal
  <2>1. GraphTypeOK'
    BY <1>0, <1>19 DEF graphVars, disk, config, work, GraphTypeOK
  <2>2. QED
    BY <1>0, <1>19, <2>1 DEF GraphInv, DownIsEmpty, WorkerHolds, QueueHolds, ThreadsHold,
       JobsAreClosed, OpenTasksAreHeld, graphVars, disk, config, work
<1> HIDE DEF Goal, Rest
<1>20. ASSUME AppCrashes \/ Stopped PROVE Goal
  BY <1>4, <1>20 DEF AppCrashes, Stopped
<1>21. ASSUME GraphNext PROVE Goal
  BY <1>3, <1>5, <1>6, <1>7, <1>8, <1>9, <1>10, <1>12, <1>13, <1>14, <1>15, <1>16, <1>17, <1>18,
     <1>20, <1>21
     DEF GraphNext
<1>22. Goal
  BY <1>19, <1>21
<1>23. QED
  BY <1>22 DEF Goal

\* The inductive invariant of the queue: who holds which task, and what its row says meanwhile
\* (graph_worker.py, agent_tool.py, tasks.py).
THEOREM GraphInvariantHolds == GraphSpec => []GraphInv
  BY InitGraph, GraphKept, PTL DEF GraphSpec

\* Only a sub-agent that races the last marking has its outcome overwritten.
LEMMA OnlyMarkingRaces ==
  ASSUME GraphInv, [GraphNext]_graphVars, NEW t \in Tasks,
         row[t] \in Terminal, row'[t] # row[t]
  PROVE  t \in Threads /\ app \in {"closed", "marking"}
<1> DEFINE Goal == t \in Threads /\ app \in {"closed", "marking"}
<1>0. /\ row \in [Tasks -> {"none"} \cup Open \cup Terminal] /\ row' # row
      /\ row[t] \notin {"none", "queued", "running"} /\ row[t] \notin Open
      /\ queue \in Seq(Jobs) /\ Jobs \subseteq Tasks /\ Threads \subseteq Tasks
      /\ \A u \in Tasks : \A s : Write(u, s) => u = t
  <2>1. row \in [Tasks -> {"none"} \cup Open \cup Terminal]
    BY DEF GraphInv, GraphTypeOK
  <2>2. QED
    BY <2>1 DEF GraphInv, GraphTypeOK, Open, Terminal, Tasks, Write
<1>1. ASSUME NEW u \in Threads, NEW s, Write(u, s), thread[u] # "none" PROVE Goal
  BY <1>0, <1>1 DEF GraphInv, GraphTypeOK, ThreadsHold
<1>2. ASSUME NEW u \in Threads, DispatchAgent(u) \/ ThreadStarts(u) \/ ThreadEnds(u) PROVE Goal
  BY <1>0, <1>1, <1>2 DEF DispatchAgent, Create, ThreadStarts, ThreadEnds
<1>3. ASSUME NEW u \in Tasks, MarkInterrupted(u) PROVE Goal
  BY <1>0, <1>3 DEF MarkInterrupted, GraphInv, JobsAreClosed
\* No other step does.
<1>4. ASSUME StartApp \/ CancelWorker PROVE FALSE
  BY <1>0, <1>4 DEF StartApp, CancelWorker, MarkIncomplete, Incomplete
<1>5. ASSUME NEW j \in Jobs, EnqueueJob(j) PROVE FALSE
  BY <1>0, <1>5 DEF EnqueueJob, Create
<1>6. ASSUME TakeJob PROVE FALSE
  <2>1. Head(queue) \in Jobs /\ Head(queue) = queue[1] /\ Len(queue) \in Nat /\ Len(queue) >= 1
    BY <1>0, <1>6, JobTaken DEF TakeJob
  <2>2. row[Head(queue)] = "queued"
    BY <1>6, <2>1 DEF TakeJob, GraphInv, WorkerHolds, QueueHolds
  <2>3. QED
    BY <1>0, <1>6, <2>1, <2>2 DEF TakeJob
<1>7. ASSUME FactsWritten \/ WriteFails PROVE FALSE
  BY <1>0, <1>7 DEF FactsWritten, WriteFails, GraphInv, WorkerHolds
<1>8. ASSUME UNCHANGED row PROVE FALSE
  BY <1>0, <1>8
<1>9. ASSUME \/ AppCrashes \/ Configure \/ ExtractSucceeds \/ ExtractFails \/ CloseBegins
             \/ DrainEnds \/ SelectIncomplete \/ Stopped \/ UNCHANGED graphVars
             \/ \E j \in Jobs : OrphanWrites(j)
      PROVE  FALSE
  BY <1>8, <1>9 DEF AppCrashes, Configure, ExtractSucceeds, ExtractFails, CloseBegins, DrainEnds,
     SelectIncomplete, Stopped, graphVars, OrphanWrites, disk
<1>10. QED
  BY <1>2, <1>3, <1>4, <1>5, <1>6, <1>7, <1>9 DEF GraphNext

\* While the application is up an open task has somebody to end it, and its outcome is final
\* unless a sub-agent races the last marking, for any jobs, threads and bounds (tasks.py).
THEOREM TasksStayAnswered == GraphSpec => TasksAreAnswered
<1>1. GraphInv => OpenTasksAreHeld
  BY DEF GraphInv
<1>2. GraphInv /\ [GraphNext]_graphVars =>
        [\A t \in Tasks : row[t] \in Terminal /\ row'[t] # row[t]
            => t \in Threads /\ app \in {"closed", "marking"}]_graphVars
  BY OnlyMarkingRaces
<1>3. QED
  BY <1>1, <1>2, GraphInvariantHolds, PTL DEF GraphSpec, TasksAreAnswered, OutcomeStands
=============================================================================

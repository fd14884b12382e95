---------------------------- MODULE ChatTurnProofs ----------------------------
(***************************************************************************)
(* What holds of ChatTurn for any sessions and requests: the turns of a    *)
(* session that nobody disturbs are serial, the register of active         *)
(* requests matches them, saved histories only grow, and a cancellation    *)
(* stops the agent it is meant for.                                        *)
(***************************************************************************)
EXTENDS ChatTurn, SequenceTheorems, TLAPS

Places == {"new", "waiting", "preparing", "chatting", "responding", "over"}

\* LocksHold of an arrangement of locks and places between two of a coroutine's statements.
Fits(locks, q, lk, place, runs, lost) ==
    LET Holds(r) == place[r] \in {"preparing", "chatting", "responding"}
        Queues(r) == Holds(r) \/ place[r] = "waiting"
    IN  /\ locks \in [Sessions -> Requests \cup {None}]
        /\ q \in [Requests -> Seq(Requests)]
        /\ lk \in [Requests -> Requests \cup {None}]
        /\ place \in [Requests -> Places]
        /\ \A s \in Sessions : locks[s] # None => SessionOf[locks[s]] = s
        /\ \A r \in Requests : Queues(r) =>
            /\ lk[r] # None /\ SessionOf[lk[r]] = SessionOf[r]
            /\ \E i \in DOMAIN q[lk[r]] : q[lk[r]][i] = r
        /\ \A r \in Requests : Holds(r) => Head(q[lk[r]]) = r
        /\ \A r \in Requests : SessionOf[r] \notin lost =>
            /\ Queues(r) => lk[r] = locks[SessionOf[r]]
            /\ runs[r] \in Working => place[r] = "chatting"

\* What is as it was still fits.
LEMMA FittingNext ==
    LockTypes' => (LocksHold' <=> Fits(session_locks', queue', lock', at', thread', disturbed'))
  BY DEF LockTypes, LocksHold, Fits, Queued, Holding, Places

LEMMA Fitting == LockTypes => (LocksHold <=> Fits(session_locks, queue, lock, at, thread, disturbed))
  BY DEF LockTypes, LocksHold, Fits, Queued, Holding, Places

\* A request that leaves the lock lets the others of its session move on.
LEMMA PoppedFits ==
    ASSUME NEW locks, NEW q, NEW lk, NEW place, NEW runs, NEW lost,
           Fits(locks, q, lk, place, runs, lost),
           NEW r \in Requests, place[r] \in {"waiting", "responding"}, Head(q[lk[r]]) = r
    PROVE  Fits(locks, [q EXCEPT ![lk[r]] = Tail(@)], lk, [place EXCEPT ![r] = "over"],
                runs, lost)
<1> DEFINE l == lk[r]
           popped == [q EXCEPT ![l] = Tail(@)]
           over == [place EXCEPT ![r] = "over"]
<1>1. /\ l \in Requests /\ SessionOf[l] = SessionOf[r] /\ SessionOf[r] \in Sessions
      /\ q[l] \in Seq(Requests) /\ q[l] # <<>>
  BY ChatAssumption DEF Fits
<1>2. over \in [Requests -> Places] /\ over[r] = "over"
  BY DEF Fits, Places
<1>3. \A x \in Requests : x # r => over[x] = place[x]
  BY DEF Fits
<1>4. popped \in [Requests -> Seq(Requests)]
  BY <1>1 DEF Fits
<1>5. popped[l] = Tail(q[l]) /\ \A m \in Requests : m # l => popped[m] = q[m]
  BY <1>1 DEF Fits
<1>6. \A i \in DOMAIN q[l] : q[l][i] # r => i - 1 \in DOMAIN Tail(q[l]) /\ Tail(q[l])[i - 1] = q[l][i]
  BY <1>1
<1>7. ASSUME NEW x \in Requests, x # r,
             place[x] \in {"preparing", "chatting", "responding"} \/ place[x] = "waiting"
      PROVE  /\ lk[x] # None /\ SessionOf[lk[x]] = SessionOf[x]
             /\ \E i \in DOMAIN popped[lk[x]] : popped[lk[x]][i] = x
  <2>1. lk[x] \in Requests /\ SessionOf[lk[x]] = SessionOf[x]
    BY <1>7 DEF Fits
  <2>2. PICK i \in DOMAIN q[lk[x]] : q[lk[x]][i] = x
    BY <1>7 DEF Fits
  <2>3. CASE lk[x] = l
    BY <1>5, <1>6, <1>7, <2>1, <2>2, <2>3, ChatAssumption
  <2>4. CASE lk[x] # l
    BY <1>5, <2>1, <2>2, <2>4, ChatAssumption
  <2>5. QED
    BY <2>3, <2>4
<1>8. ASSUME NEW x \in Requests, x # r, place[x] \in {"preparing", "chatting", "responding"}
      PROVE  Head(popped[lk[x]]) = x
  <2>1. Head(q[lk[x]]) = x /\ lk[x] \in Requests
    BY <1>8 DEF Fits
  <2>2. QED
    BY <1>5, <1>8, <2>1
<1>9. QED
  BY <1>2, <1>3, <1>4, <1>7, <1>8 DEF Fits, Working

\* Its next holder gets on.
LEMMA GrantedFits ==
    ASSUME NEW locks, NEW q, NEW lk, NEW place, NEW runs, NEW lost,
           Fits(locks, q, lk, place, runs, lost),
           NEW r \in Requests, place[r] = "waiting", Head(q[lk[r]]) = r
    PROVE  Fits(locks, q, lk, [place EXCEPT ![r] = "preparing"], runs, lost)
  BY DEF Fits, Places

\* A session that loses a lock in use is disturbed.
LEMMA ForsakenFits ==
    ASSUME NEW locks, NEW q, NEW lk, NEW place, NEW runs, NEW lost,
           Fits(locks, q, lk, place, runs, lost), NEW gone \in SUBSET Sessions
    PROVE  Fits([t \in Sessions |-> IF t \in gone THEN None ELSE locks[t]], q, lk, place, runs,
                lost \cup {t \in gone : InUse(locks[t], q)})
<1> DEFINE left == [t \in Sessions |-> IF t \in gone THEN None ELSE locks[t]]
           worse == lost \cup {t \in gone : InUse(locks[t], q)}
<1>1. left \in [Sessions -> Requests \cup {None}]
  BY DEF Fits
<1>2. \A s \in Sessions : left[s] # None => left[s] = locks[s]
  OBVIOUS
<1>3. ASSUME NEW x \in Requests, SessionOf[x] \notin worse,
             place[x] \in {"preparing", "chatting", "responding"} \/ place[x] = "waiting"
      PROVE  lk[x] = left[SessionOf[x]]
  <2>1. SessionOf[x] \in Sessions /\ SessionOf[x] \notin lost
    BY <1>3, ChatAssumption
  <2>2. lk[x] = locks[SessionOf[x]] /\ lk[x] # None /\ lk[x] \in Requests
    BY <1>3, <2>1 DEF Fits
  <2>3. PICK i \in DOMAIN q[lk[x]] : q[lk[x]][i] = x
    BY <1>3 DEF Fits
  <2>4. q[lk[x]] # <<>>
    BY <2>3
  <2>5. SessionOf[x] \notin gone
    BY <1>3, <2>1, <2>2, <2>4 DEF InUse
  <2>6. QED
    BY <2>1, <2>2, <2>5
<1>4. QED
  BY <1>1, <1>2, <1>3 DEF Fits

\* A request joins the queue of its session's lock, or of a new one.
LEMMA JoinedFits ==
    ASSUME Fits(session_locks, queue, lock, at, thread, disturbed),
           NEW r \in Requests, at[r] = "new", NEW l, l = LockFor(r)
    PROVE  Fits([session_locks EXCEPT ![SessionOf[r]] = l], [queue EXCEPT ![l] = Append(@, r)],
                [lock EXCEPT ![r] = l], [at EXCEPT ![r] = "waiting"], thread, disturbed)
<1> DEFINE s == SessionOf[r]
           locks == [session_locks EXCEPT ![s] = l]
           q == [queue EXCEPT ![l] = Append(@, r)]
           lk == [lock EXCEPT ![r] = l]
           place == [at EXCEPT ![r] = "waiting"]
<1>1. s \in Sessions /\ l \in Requests /\ SessionOf[l] = s /\ l # None
  BY ChatAssumption DEF LockFor, Fits
<1>2. session_locks[s] # None => l = session_locks[s]
  BY DEF LockFor
<1>3. queue[l] \in Seq(Requests)
  BY <1>1 DEF Fits
<1>4. /\ q \in [Requests -> Seq(Requests)]
      /\ q[l] = Append(queue[l], r) /\ \A m \in Requests : m # l => q[m] = queue[m]
  BY <1>1, <1>3 DEF Fits
<1>5. /\ locks \in [Sessions -> Requests \cup {None}] /\ lk \in [Requests -> Requests \cup {None}]
      /\ place \in [Requests -> Places]
  BY <1>1 DEF Fits, Places
<1>6. /\ locks[s] = l /\ \A t \in Sessions : t # s => locks[t] = session_locks[t]
      /\ lk[r] = l /\ place[r] = "waiting"
      /\ \A x \in Requests : x # r => lk[x] = lock[x] /\ place[x] = at[x]
  BY <1>1 DEF Fits
<1> HIDE DEF locks, q, lk, place
<1>7. /\ Len(queue[l]) + 1 \in DOMAIN q[l] /\ q[l][Len(queue[l]) + 1] = r
      /\ \A i \in DOMAIN queue[l] : i \in DOMAIN q[l] /\ q[l][i] = queue[l][i]
      /\ queue[l] # <<>> => Head(q[l]) = Head(queue[l])
  BY <1>3, <1>4
<1>8. ASSUME NEW x \in Requests, x # r,
             at[x] \in {"preparing", "chatting", "responding"} \/ at[x] = "waiting"
      PROVE  /\ lk[x] # None /\ SessionOf[lk[x]] = SessionOf[x]
             /\ \E i \in DOMAIN q[lk[x]] : q[lk[x]][i] = x
             /\ at[x] \in {"preparing", "chatting", "responding"} => Head(q[lk[x]]) = x
             /\ SessionOf[x] \notin disturbed => lk[x] = locks[SessionOf[x]]
  <2>1. /\ lock[x] # None /\ lock[x] \in Requests /\ SessionOf[lock[x]] = SessionOf[x]
        /\ SessionOf[x] \in Sessions
        /\ at[x] \in {"preparing", "chatting", "responding"} => Head(queue[lock[x]]) = x
        /\ SessionOf[x] \notin disturbed => lock[x] = session_locks[SessionOf[x]]
    BY <1>8, ChatAssumption DEF Fits
  <2>2. PICK i \in DOMAIN queue[lock[x]] : queue[lock[x]][i] = x
    BY <1>8 DEF Fits
  <2>3. lk[x] = lock[x] /\ queue[lock[x]] # <<>>
    BY <1>6, <1>8, <2>2
  <2>4. /\ \E j \in DOMAIN q[lk[x]] : q[lk[x]][j] = x
        /\ Head(q[lk[x]]) = Head(queue[lock[x]])
    BY <1>4, <1>7, <2>1, <2>2, <2>3
  <2>5. SessionOf[x] \notin disturbed => lk[x] = locks[SessionOf[x]]
    BY <1>2, <1>6, <2>1, <2>3
  <2>6. QED
    BY <2>1, <2>3, <2>4, <2>5
<1>9. SessionOf[r] \notin disturbed => thread[r] \notin Working
  BY DEF Fits
<1>10. \A t \in Sessions : locks[t] # None => SessionOf[locks[t]] = t
  <2>1. \A t \in Sessions : session_locks[t] # None => SessionOf[session_locks[t]] = t
    BY DEF Fits
  <2>2. QED
    BY <1>1, <1>6, <2>1
<1>11. /\ lk[r] # None /\ SessionOf[lk[r]] = SessionOf[r]
       /\ \E i \in DOMAIN q[lk[r]] : q[lk[r]][i] = r
       /\ lk[r] = locks[SessionOf[r]]
  BY <1>1, <1>6, <1>7
<1>12. \A x \in Requests \ {r} : SessionOf[x] \notin disturbed =>
           (thread[x] \in Working => place[x] = "chatting")
  BY <1>6 DEF Fits
<1>13. \A x \in Requests : place[x] \in {"preparing", "chatting", "responding"} => x # r
  BY <1>6
<1>14. \A x \in Requests \ {r} : place[x] = at[x]
  BY <1>6
<1>15. Fits(locks, q, lk, place, thread, disturbed)
  <2>1. ASSUME NEW x \in Requests,
               place[x] \in {"preparing", "chatting", "responding"} \/ place[x] = "waiting"
        PROVE  /\ lk[x] # None /\ SessionOf[lk[x]] = SessionOf[x]
               /\ \E i \in DOMAIN q[lk[x]] : q[lk[x]][i] = x
               /\ SessionOf[x] \notin disturbed => lk[x] = locks[SessionOf[x]]
    <3>1. CASE x = r
      BY <1>11, <3>1
    <3>2. CASE x # r
      BY <1>8, <1>14, <2>1, <3>2
    <3>3. QED
      BY <3>1, <3>2
  <2>2. \A x \in Requests :
            place[x] \in {"preparing", "chatting", "responding"} => Head(q[lk[x]]) = x
    BY <1>8, <1>13, <1>14
  <2>3. \A x \in Requests : SessionOf[x] \notin disturbed =>
            (thread[x] \in Working => place[x] = "chatting")
    BY <1>9, <1>12
  <2>4. QED
    BY <1>4, <1>5, <1>10, <2>1, <2>2, <2>3 DEF Fits
<1>16. QED
  BY <1>15 DEF locks, q, lk, place

\* Every step keeps the locks, and the types of what they are about.
LEMMA LocksKept == LockTypes /\ LocksHold /\ [Next]_vars => LockTypes' /\ LocksHold'
<1> SUFFICES ASSUME LockTypes, LocksHold, [Next]_vars PROVE LockTypes' /\ LocksHold'
  OBVIOUS
<1> DEFINE After == Fits(session_locks', queue', lock', at', thread', disturbed')
           Rest == /\ thread \in [Requests -> {"none"} \cup Working \cup Outcomes]
                   /\ active_request \in [Sessions -> Requests \cup {None}]
                   /\ active \in SUBSET Sessions /\ disturbed \in SUBSET Sessions
                   /\ stale \in SUBSET Sessions
<1>1. Fits(session_locks, queue, lock, at, thread, disturbed) /\ Rest
  BY Fitting DEF LockTypes
<1>2. ASSUME After, Rest' PROVE LockTypes' /\ LocksHold'
  <2>1. LockTypes'
    BY <1>2 DEF LockTypes, Fits, Places
  <2>2. QED
    BY <1>2, <2>1, FittingNext
<1>3. ASSUME NEW r \in Requests, NEW l, NEW locks, NEW q, NEW lk, NEW place,
             Fits(locks, q, lk, place, thread, disturbed), place[r] = "waiting",
             l = lk[r], Head(q[l]) = r, Start(r, l, locks, q), r \notin cancelled,
             lock' = lk, thread' = thread, at = [place EXCEPT ![r] = at[r]]
      PROVE  LockTypes' /\ LocksHold'
  <2>1. /\ GetAgent(r)
        /\ session_locks' = [t \in Sessions |-> IF t \in stale THEN None ELSE locks[t]]
        /\ queue' = q
        /\ disturbed' = disturbed \cup {t \in stale : InUse(locks[t], q)}
        /\ active' = active \cup {SessionOf[r]}
        /\ active_request' = [active_request EXCEPT ![SessionOf[r]] = r]
        /\ at' = [at EXCEPT ![r] = "preparing"]
    BY <1>3 DEF Start, Goto
  <2>2. at' = [place EXCEPT ![r] = "preparing"]
    BY <1>3, <2>1 DEF Fits
  <2>3. Fits(locks, q, lk, at', thread, disturbed)
    BY <1>3, <2>2, GrantedFits
  <2>4. After
    BY <1>1, <1>3, <2>1, <2>3, ForsakenFits
  <2>5. Rest'
    BY <1>1, <1>3, <2>1, ChatAssumption DEF GetAgent
  <2>6. QED
    BY <1>2, <2>4, <2>5
<1>4. ASSUME NEW r \in Requests, Arrive(r) PROVE LockTypes' /\ LocksHold'
  <2> DEFINE l == LockFor(r)
             locks == [session_locks EXCEPT ![SessionOf[r]] = l]
             q == [queue EXCEPT ![l] = Append(@, r)]
             lk == [lock EXCEPT ![r] = l]
             place == [at EXCEPT ![r] = "waiting"]
  <2>1. at[r] = "new" /\ r \notin cancelled /\ lock' = lk /\ thread' = thread
    BY <1>4 DEF Arrive
  <2>2. Fits(locks, q, lk, place, thread, disturbed)
    BY <1>1, <2>1, JoinedFits
  <2>3. CASE queue[l] = <<>>
    <3>1. Start(r, l, locks, q)
      BY <1>4, <2>3 DEF Arrive
    <3>2. l \in Requests /\ place[r] = "waiting" /\ lk[r] = l /\ at = [place EXCEPT ![r] = at[r]]
      <4>1. /\ session_locks \in [Sessions -> Requests \cup {None}] /\ at \in [Requests -> Places]
            /\ lock \in [Requests -> Requests \cup {None}]
        BY <1>1 DEF Fits
      <4>2. l \in Requests
        BY <4>1, ChatAssumption DEF LockFor
      <4>3. QED
        BY <4>1, <4>2
    <3>3. Head(q[l]) = r
      BY <1>1, <2>3, <3>2 DEF Fits
    <3>4. QED
      BY <1>3, <2>1, <2>2, <3>1, <3>2, <3>3
  <2>4. CASE queue[l] # <<>>
    <3>1. /\ session_locks' = locks /\ queue' = q /\ at' = place
          /\ UNCHANGED <<stale, register, disturbed>>
      BY <1>4, <2>4 DEF Arrive, Goto
    <3>2. Rest'
      BY <1>1, <2>1, <3>1 DEF register
    <3>3. After
      BY <2>1, <2>2, <3>1
    <3>4. QED
      BY <1>2, <3>2, <3>3
  <2>5. QED
    BY <2>3, <2>4
<1>5. ASSUME NEW r \in Requests, Drop(r) PROVE LockTypes' /\ LocksHold'
  BY <1>5 DEF Drop, Goto, cached, register, LockTypes, LocksHold, Queued, Holding, Working
<1>6. ASSUME NEW r \in Requests, Resume(r) PROVE LockTypes' /\ LocksHold'
  <2>1. /\ at[r] = "waiting" /\ Head(queue[lock[r]]) = r /\ lock' = lock /\ thread' = thread
        /\ Start(r, lock[r], session_locks, queue)
    BY <1>6 DEF Resume
  <2>2. CASE r \in cancelled
    <3>1. /\ session_locks' = session_locks /\ queue' = [queue EXCEPT ![lock[r]] = Tail(@)]
          /\ at' = [at EXCEPT ![r] = "over"] /\ UNCHANGED <<stale, register, disturbed>>
      BY <2>1, <2>2 DEF Start, Skip, Goto
    <3>2. After
      BY <1>1, <2>1, <3>1, PoppedFits
    <3>3. QED
      BY <1>1, <1>2, <2>1, <3>1, <3>2 DEF register
  <2>3. CASE r \notin cancelled
    <3>1. at = [at EXCEPT ![r] = at[r]]
      BY <1>1 DEF Fits
    <3>2. QED
      BY <1>1, <1>3, <2>1, <2>3, <3>1
  <2>4. QED
    BY <2>2, <2>3
<1>7. ASSUME NEW r \in Requests, Prepared(r) PROVE LockTypes' /\ LocksHold'
  BY <1>7 DEF Prepared, Goto, cached, register, LockTypes, LocksHold, Queued, Holding, Working
<1>8. ASSUME NEW r \in Requests, ChatBegins(r) PROVE LockTypes' /\ LocksHold'
  BY <1>8 DEF ChatBegins, register, LockTypes, LocksHold, Queued, Holding, Working
<1>8a. ASSUME NEW r \in Requests, ChatCalls(r) \/ HelperStarts(r) \/ HelperEnds(r)
       PROVE  LockTypes' /\ LocksHold'
  BY <1>8a DEF ChatCalls, HelperStarts, HelperEnds, cached, register, served, LockTypes, LocksHold,
               Queued, Holding
<1>9. ASSUME NEW r \in Requests, NEW o \in Outcomes, ChatEnds(r, o)
      PROVE  LockTypes' /\ LocksHold'
  BY <1>9 DEF ChatEnds, register, LockTypes, LocksHold, Queued, Holding, Working, Outcomes
<1>10. ASSUME NEW r \in Requests, Leave(r), InTurn(r),
              thread[r] = "running" => SessionOf[r] \in disturbed',
              disturbed' \in {disturbed, disturbed \cup {SessionOf[r]}},
              UNCHANGED <<session_locks, queue, lock, stale>>
       PROVE  LockTypes' /\ LocksHold'
  <2>1. Rest'
    BY <1>1, <1>10, ChatAssumption DEF Leave
  <2>2. /\ at' = [at EXCEPT ![r] = "responding"] /\ at[r] \in {"preparing", "chatting"}
        /\ thread' = [thread EXCEPT ![r] = IF @ = "running" THEN @ ELSE "none"]
    BY <1>10 DEF Leave, Goto, InTurn
  <2>3. After
    BY <1>1, <1>10, <2>2 DEF Fits, Places, Working
  <2>4. QED
    BY <1>2, <2>1, <2>3
<1>11. ASSUME NEW r \in Requests, Finish(r) \/ Fail(r) PROVE LockTypes' /\ LocksHold'
  <2>1. /\ Leave(r) /\ InTurn(r) /\ thread[r] # "running"
        /\ UNCHANGED <<session_locks, queue, lock, stale, disturbed>>
    BY <1>11 DEF Finish, Fail, InTurn, Working, Returned
  <2>2. QED
    BY <1>10, <2>1
<1>12. ASSUME NEW r \in Requests, DeadlinePasses(r) PROVE LockTypes' /\ LocksHold'
  <2>1. /\ Leave(r) /\ InTurn(r)
        /\ disturbed' = IF thread[r] = "running"
                        THEN disturbed \cup {SessionOf[r]} ELSE disturbed
        /\ UNCHANGED <<session_locks, queue, lock, stale>>
    BY <1>12 DEF DeadlinePasses, InTurn, cached
  <2>2. QED
    BY <1>10, <2>1
<1>13. ASSUME NEW r \in Requests, Respond(r) PROVE LockTypes' /\ LocksHold'
  <2>1. /\ at[r] = "responding" /\ queue' = [queue EXCEPT ![lock[r]] = Tail(@)]
        /\ at' = [at EXCEPT ![r] = "over"]
        /\ UNCHANGED <<session_locks, lock, thread, stale, disturbed, register>>
    BY <1>13 DEF Respond, Goto
  <2>2. Head(queue[lock[r]]) = r
    BY <2>1 DEF LocksHold, Holding
  <2>3. After
    BY <1>1, <2>1, <2>2, PoppedFits
  <2>4. QED
    BY <1>1, <1>2, <2>1, <2>3 DEF register
<1>14. ASSUME NEW s \in Sessions, Reset(s) PROVE LockTypes' /\ LocksHold'
  <2>1. /\ session_locks' = [session_locks EXCEPT ![s] = None]
        /\ disturbed' = IF InUse(session_locks[s], queue) THEN disturbed \cup {s} ELSE disturbed
        /\ stale' = stale \ {s} /\ UNCHANGED <<queue, lock, at, thread, register>>
    BY <1>14 DEF Reset, served
  <2>2. session_locks' = [t \in Sessions |-> IF t \in {s} THEN None ELSE session_locks[t]]
    BY <1>1, <2>1 DEF Fits
  <2>3. disturbed' = disturbed \cup {t \in {s} : InUse(session_locks[t], queue)}
    BY <2>1
  <2>4. Fits([t \in Sessions |-> IF t \in {s} THEN None ELSE session_locks[t]], queue, lock, at,
             thread, disturbed \cup {t \in {s} : InUse(session_locks[t], queue)})
    <3>1. {s} \in SUBSET Sessions
      OBVIOUS
    <3>2. QED
      BY <1>1, <3>1, ForsakenFits
  <2>5. After
    BY <2>1, <2>2, <2>3, <2>4
  <2>6. QED
    BY <1>1, <1>2, <2>1, <2>5 DEF register
<1>15. ASSUME NEW s \in Sessions, Stop(s) \/ Age(s) PROVE LockTypes' /\ LocksHold'
  BY <1>15 DEF Stop, Age, cached, register, served, LockTypes, LocksHold, Queued, Holding
<1>16. ASSUME NEW r \in Requests, GiveUp(r) PROVE LockTypes' /\ LocksHold'
  BY <1>16 DEF GiveUp, cached, register, served, LockTypes, LocksHold, Queued, Holding
<1>17. CASE UNCHANGED vars
  BY <1>17 DEF vars, cached, register, served, LockTypes, LocksHold, Queued, Holding
<1>18. QED
  BY <1>4, <1>5, <1>6, <1>7, <1>8, <1>8a, <1>9, <1>11, <1>12, <1>13, <1>14, <1>15, <1>16, <1>17
     DEF Next, Step

\* A lock that nobody has disturbed has one holder.
LEMMA OneHolder ==
    ASSUME LocksHold, NEW r \in Requests, NEW x \in Requests, Holding(r), Holding(x),
           SessionOf[r] = SessionOf[x], SessionOf[r] \notin disturbed
    PROVE  r = x
<1>1. lock[r] = session_locks[SessionOf[r]] /\ lock[x] = session_locks[SessionOf[r]]
  BY DEF LocksHold, Queued
<1>2. Head(queue[lock[r]]) = r /\ Head(queue[lock[x]]) = x
  BY DEF LocksHold
<1>3. QED
  BY <1>1, <1>2

LEMMA SerialTurns == LocksHold => TurnsAreSerial
<1> SUFFICES ASSUME LocksHold, NEW r \in Requests, NEW x \in Requests, Busy(r), Busy(x), r # x,
                    SessionOf[r] = SessionOf[x], SessionOf[r] \notin disturbed
             PROVE  FALSE
  BY DEF TurnsAreSerial
<1>1. Holding(r) /\ Holding(x)
  BY DEF Busy, InTurn, Holding, LocksHold
<1>2. QED
  BY <1>1, OneHolder

\* Every step keeps the register.
LEMMA RegisterKept ==
    LockTypes /\ LocksHold /\ RegisterHolds /\ [Next]_vars => RegisterHolds'
<1> SUFFICES ASSUME LockTypes, LocksHold, RegisterHolds, [Next]_vars PROVE RegisterHolds'
  OBVIOUS
<1>0. /\ at \in [Requests -> Places] /\ active \in SUBSET Sessions
      /\ active_request \in [Sessions -> Requests \cup {None}]
      /\ SessionOf \in [Requests -> Sessions] /\ None \notin Requests
  BY ChatAssumption DEF LockTypes, Places
<1> USE <1>0
<1>1. ASSUME UNCHANGED register, disturbed \subseteq disturbed',
             \A x \in Requests : InTurn(x)' <=> InTurn(x)
      PROVE  RegisterHolds'
  BY <1>1 DEF RegisterHolds, register
<1>2. ASSUME NEW r \in Requests, NEW l, NEW locks, NEW q, Start(r, l, locks, q), r \notin cancelled,
             \A x \in Requests : InTurn(x) /\ SessionOf[x] = SessionOf[r] => SessionOf[r] \in disturbed
      PROVE  RegisterHolds'
  <2>1. /\ disturbed \subseteq disturbed'
        /\ active' = active \cup {SessionOf[r]}
        /\ active_request' = [active_request EXCEPT ![SessionOf[r]] = r]
        /\ at' = [at EXCEPT ![r] = "preparing"]
    BY <1>2 DEF Start, Goto
  <2>2. \A x \in Requests : InTurn(x)' <=> x = r \/ InTurn(x)
    BY <2>1 DEF InTurn
  <2>3. ASSUME NEW s \in Sessions, active_request'[s] # None
        PROVE  SessionOf[active_request'[s]] = s
               /\ at'[active_request'[s]] \in {"preparing", "chatting"}
    <3>1. CASE s = SessionOf[r]
      BY <2>1, <3>1
    <3>2. CASE s # SessionOf[r]
      <4>1. active_request'[s] = active_request[s] /\ active_request[s] \in Requests
        BY <2>1, <2>3, <3>2
      <4>2. SessionOf[active_request[s]] = s /\ InTurn(active_request[s])
        BY <2>3, <4>1 DEF RegisterHolds
      <4>3. at'[active_request[s]] \in {"preparing", "chatting"}
        BY <2>1, <4>1, <4>2 DEF InTurn
      <4>4. QED
        BY <4>1, <4>2, <4>3
    <3>3. QED
      BY <3>1, <3>2
  <2>4. ASSUME NEW s \in active' PROVE \E x \in Requests : SessionOf[x] = s /\ InTurn(x)'
    BY <2>1, <2>2 DEF RegisterHolds
  <2>5. ASSUME NEW x \in Requests, InTurn(x)', SessionOf[x] \notin disturbed'
        PROVE  SessionOf[x] \in active' /\ active_request'[SessionOf[x]] = x
    BY <1>2, <2>1, <2>2, <2>5 DEF RegisterHolds
  <2>6. QED
    BY <2>3, <2>4, <2>5 DEF RegisterHolds, InTurn
<1>3. ASSUME NEW r \in Requests, Arrive(r) PROVE RegisterHolds'
  <2>1. at[r] = "new" /\ r \notin cancelled
    BY <1>3 DEF Arrive
  <2>2. CASE queue[LockFor(r)] = <<>>
    <3>1. ASSUME NEW x \in Requests, InTurn(x), SessionOf[x] = SessionOf[r],
                 SessionOf[r] \notin disturbed
          PROVE  FALSE
      <4>1. /\ lock[x] = session_locks[SessionOf[r]] /\ lock[x] # None
            /\ \E i \in DOMAIN queue[lock[x]] : queue[lock[x]][i] = x
        BY <3>1 DEF LocksHold, Queued, Holding, InTurn
      <4>2. QED
        BY <2>2, <4>1 DEF LockFor
    <3>2. QED
      BY <1>2, <1>3, <2>1, <2>2, <3>1 DEF Arrive
  <2>3. CASE queue[LockFor(r)] # <<>>
    <3>1. at' = [at EXCEPT ![r] = "waiting"] /\ UNCHANGED <<register, disturbed>>
      BY <1>3, <2>3 DEF Arrive, Goto
    <3>2. QED
      BY <1>1, <2>1, <3>1 DEF InTurn
  <2>4. QED
    BY <2>2, <2>3
<1>4. ASSUME NEW r \in Requests, Drop(r) PROVE RegisterHolds'
  BY <1>1, <1>4 DEF Drop, Goto, InTurn
<1>5. ASSUME NEW r \in Requests, Resume(r) PROVE RegisterHolds'
  <2>1. at[r] = "waiting" /\ Head(queue[lock[r]]) = r /\ Start(r, lock[r], session_locks, queue)
    BY <1>5 DEF Resume
  <2>2. CASE r \in cancelled
    <3>1. at' = [at EXCEPT ![r] = "over"] /\ UNCHANGED <<register, disturbed>>
      BY <2>1, <2>2 DEF Start, Skip, Goto
    <3>2. QED
      BY <1>1, <2>1, <3>1 DEF InTurn
  <2>3. CASE r \notin cancelled
    <3>1. ASSUME NEW x \in Requests, InTurn(x), SessionOf[x] = SessionOf[r],
                 SessionOf[r] \notin disturbed
          PROVE  FALSE
      <4>1. lock[x] = session_locks[SessionOf[r]] /\ lock[r] = session_locks[SessionOf[r]]
        BY <2>1, <3>1 DEF LocksHold, Queued, Holding, InTurn
      <4>2. Head(queue[lock[x]]) = x
        BY <3>1 DEF LocksHold, Holding, InTurn
      <4>3. QED
        BY <2>1, <3>1, <4>1, <4>2 DEF InTurn
    <3>2. QED
      BY <1>2, <2>1, <2>3, <3>1
  <2>4. QED
    BY <2>2, <2>3
<1>6. ASSUME NEW r \in Requests, Prepared(r) PROVE RegisterHolds'
  BY <1>1, <1>6 DEF Prepared, Goto, InTurn
<1>7. ASSUME NEW r \in Requests, ChatBegins(r) PROVE RegisterHolds'
  BY <1>1, <1>7 DEF ChatBegins, InTurn
<1>7a. ASSUME NEW r \in Requests, ChatCalls(r) \/ HelperStarts(r) \/ HelperEnds(r)
       PROVE  RegisterHolds'
  BY <1>1, <1>7a DEF ChatCalls, HelperStarts, HelperEnds, served, InTurn
<1>8. ASSUME NEW r \in Requests, NEW o \in Outcomes, ChatEnds(r, o) PROVE RegisterHolds'
  BY <1>1, <1>8 DEF ChatEnds, InTurn
<1>9. ASSUME NEW r \in Requests, Leave(r), InTurn(r), disturbed \subseteq disturbed'
      PROVE  RegisterHolds'
  <2>1. /\ active' = active \ {SessionOf[r]}
        /\ active_request' = IF active_request[SessionOf[r]] = r
                             THEN [active_request EXCEPT ![SessionOf[r]] = None]
                             ELSE active_request
        /\ at' = [at EXCEPT ![r] = "responding"]
    BY <1>9 DEF Leave, Goto
  <2>2. \A x \in Requests : InTurn(x)' <=> x # r /\ InTurn(x)
    BY <2>1 DEF InTurn
  <2>3. ASSUME NEW s \in Sessions, active_request'[s] # None
        PROVE  SessionOf[active_request'[s]] = s
               /\ at'[active_request'[s]] \in {"preparing", "chatting"}
    <3>1. CASE active_request[s] = r
      <4>1. s = SessionOf[r]
        BY <2>3, <3>1 DEF RegisterHolds
      <4>2. QED
        BY <2>1, <2>3, <3>1, <4>1
    <3>2. CASE active_request[s] # r
      <4>1. active_request'[s] = active_request[s] /\ active_request[s] \in Requests
        BY <2>1, <2>3, <3>2
      <4>2. SessionOf[active_request[s]] = s /\ InTurn(active_request[s])
        BY <2>3, <4>1 DEF RegisterHolds
      <4>3. at'[active_request[s]] \in {"preparing", "chatting"}
        BY <2>1, <3>2, <4>1, <4>2 DEF InTurn
      <4>4. QED
        BY <4>1, <4>2, <4>3
    <3>3. QED
      BY <3>1, <3>2
  <2>4. ASSUME NEW s \in active' PROVE \E x \in Requests : SessionOf[x] = s /\ InTurn(x)'
    BY <2>1, <2>2 DEF RegisterHolds
  <2>5. ASSUME NEW x \in Requests, InTurn(x)', SessionOf[x] \notin disturbed'
        PROVE  SessionOf[x] \in active' /\ active_request'[SessionOf[x]] = x
    <3>1. x # r /\ InTurn(x) /\ SessionOf[x] \notin disturbed
      BY <1>9, <2>2, <2>5
    <3>2. SessionOf[x] # SessionOf[r]
      BY <1>9, <3>1, OneHolder DEF InTurn, Holding
    <3>3. QED
      BY <2>1, <3>1, <3>2 DEF RegisterHolds
  <2>6. QED
    BY <2>3, <2>4, <2>5 DEF RegisterHolds, InTurn
<1>10. ASSUME NEW r \in Requests, Finish(r) \/ Fail(r) \/ DeadlinePasses(r) PROVE RegisterHolds'
  BY <1>9, <1>10 DEF Finish, Fail, DeadlinePasses, InTurn
<1>11. ASSUME NEW r \in Requests, Respond(r) PROVE RegisterHolds'
  BY <1>1, <1>11 DEF Respond, Goto, InTurn
<1>12. ASSUME NEW s \in Sessions, Stop(s) \/ Reset(s) \/ Age(s) PROVE RegisterHolds'
  BY <1>1, <1>12 DEF Stop, Reset, Age, served, InTurn
<1>13. ASSUME NEW r \in Requests, GiveUp(r) PROVE RegisterHolds'
  BY <1>1, <1>13 DEF GiveUp, served, InTurn
<1>14. CASE UNCHANGED vars
  BY <1>1, <1>14 DEF vars, served, InTurn
<1>15. QED
  BY <1>3, <1>4, <1>5, <1>6, <1>7, <1>7a, <1>8, <1>10, <1>11, <1>12, <1>13, <1>14 DEF Next, Step

----------------------------------------------------------------------------
(***************************************************************************)
(* The histories: questions, calls and answers, summaries and words that   *)
(* took another's place.                                                   *)
(***************************************************************************)
Histories == Seq(Entries)

\* What the entries of a history are.
LEMMA EntryFields ==
    ASSUME NEW r \in Requests, NEW who \in {"user", "calls", "assistant"}
    PROVE  /\ Entry(r, who) \in Entries
           /\ Entry(r, who).of = r /\ Entry(r, who).by = who /\ Entry(r, who).words = r
  BY DEF Entry, Entries

LEMMA EntryDropped ==
    ASSUME NEW e \in Entries
    PROVE  /\ [e EXCEPT !.kept = FALSE] \in Entries
           /\ [e EXCEPT !.kept = FALSE].of = e.of /\ [e EXCEPT !.kept = FALSE].by = e.by
           /\ [e EXCEPT !.kept = FALSE].words = e.words /\ ~[e EXCEPT !.kept = FALSE].kept
  BY DEF Entries

LEMMA EntryReplaced ==
    ASSUME NEW e \in Entries, NEW r \in Requests
    PROVE  /\ [e EXCEPT !.words = r] \in Entries
           /\ [e EXCEPT !.words = r].of = e.of /\ [e EXCEPT !.words = r].by = e.by
           /\ [e EXCEPT !.words = r].words = r /\ [e EXCEPT !.words = r].kept = e.kept
  BY DEF Entries

\* A history is a function on its places.
LEMMA HistoryFields ==
    ASSUME NEW h \in Histories
    PROVE  /\ Len(h) \in Nat /\ DOMAIN h = 1 .. Len(h)
           /\ \A i \in 1 .. Len(h) : h[i] \in Entries
           /\ h # <<>> => Len(h) >= 1 /\ Last(h) = h[Len(h)]
           /\ Len(h) >= 1 => h # <<>>
  BY DEF Histories, Last

LEMMA EntryTypes ==
    ASSUME NEW e \in Entries
    PROVE  /\ e.of \in Requests /\ e.words \in Requests
           /\ e.by \in {"user", "calls", "assistant"}
  BY DEF Entries

\* What is said is added to the end.
LEMMA AddedFields ==
    ASSUME NEW h \in Histories, NEW e \in Entries
    PROVE  /\ Append(h, e) \in Histories /\ Len(Append(h, e)) = Len(h) + 1
           /\ Append(h, e)[Len(h) + 1] = e
           /\ \A i \in 1 .. Len(h) : Append(h, e)[i] = h[i]
           /\ Append(h, e) # <<>> /\ Last(Append(h, e)) = e
  BY DEF Histories, Last

\* The same messages as before, but for what is kept of them, and their words.
Like(g, h) ==
    Len(g) = Len(h) /\ \A i \in 1 .. Len(h) : g[i].of = h[i].of /\ g[i].by = h[i].by

LEMMA SummarizedFields ==
    ASSUME NEW h \in Histories, NEW n \in Nat
    PROVE  /\ Summarized(h, n) \in Histories /\ Like(Summarized(h, n), h)
           /\ \A i \in 1 .. Len(h) : /\ Summarized(h, n)[i].words = h[i].words
                                     /\ i <= n => ~Summarized(h, n)[i].kept
                                     /\ i > n => Summarized(h, n)[i] = h[i]
<1> DEFINE g == Summarized(h, n)
<1>1. Len(h) \in Nat /\ DOMAIN h = 1 .. Len(h) /\ \A i \in 1 .. Len(h) : h[i] \in Entries
  BY HistoryFields
<1>2. g = [i \in 1 .. Len(h) |-> IF i <= n THEN [h[i] EXCEPT !.kept = FALSE] ELSE h[i]]
  BY <1>1 DEF Summarized
<1>3. ASSUME NEW i \in 1 .. Len(h)
      PROVE  /\ g[i] \in Entries /\ g[i].of = h[i].of /\ g[i].by = h[i].by /\ g[i].words = h[i].words
             /\ i <= n => ~g[i].kept
             /\ i > n => g[i] = h[i]
  <2>1. CASE i <= n
    <3>1. g[i] = [h[i] EXCEPT !.kept = FALSE] /\ h[i] \in Entries
      BY <1>1, <1>2, <2>1
    <3> HIDE DEF g
    <3>2. /\ [h[i] EXCEPT !.kept = FALSE] \in Entries
          /\ [h[i] EXCEPT !.kept = FALSE].of = h[i].of /\ [h[i] EXCEPT !.kept = FALSE].by = h[i].by
          /\ [h[i] EXCEPT !.kept = FALSE].words = h[i].words /\ ~[h[i] EXCEPT !.kept = FALSE].kept
      BY <3>1, EntryDropped, Zenon
    <3>3. g[i] \in Entries /\ g[i].of = h[i].of /\ g[i].by = h[i].by /\ g[i].words = h[i].words
      BY <3>1, <3>2, Zenon
    <3>4. ~g[i].kept
      BY <3>1, <3>2, Zenon
    <3>5. ~(i > n)
      BY <2>1, <1>1
    <3>6. QED
      BY <3>3, <3>4, <3>5, Zenon
  <2>2. CASE ~(i <= n)
    BY <1>1, <1>2, <2>2
  <2>3. QED
    BY <2>1, <2>2
<1> HIDE DEF g
<1>4. g \in [1 .. Len(h) -> Entries]
  BY <1>2, <1>3
<1>5. g \in Seq(Entries) /\ Len(g) = Len(h)
  BY <1>1, <1>4, SeqDef, LenProperties
<1>6. QED
  BY <1>3, <1>5 DEF g, Like, Histories

LEMMA ReplacedFields ==
    ASSUME NEW h \in Histories, NEW r \in Requests
    PROVE  /\ Replaced(h, r) \in Histories /\ Like(Replaced(h, r), h)
           /\ \A i \in 1 .. Len(h) :
                /\ Replaced(h, r)[i].kept = h[i].kept
                /\ \/ Replaced(h, r)[i].words = h[i].words
                   \/ /\ Replaced(h, r)[i].words = r /\ h[i].kept
                      /\ \A j \in 1 .. Len(h) : h[j].kept /\ h[j].by # "user" => j <= i
<1> DEFINE g == Replaced(h, r)
           Latest(i) == i \in Speaking(h) /\ \A j \in Speaking(h) : j <= i
<1>1. Len(h) \in Nat /\ DOMAIN h = 1 .. Len(h) /\ \A i \in 1 .. Len(h) : h[i] \in Entries
  BY HistoryFields
<1>2. g = [i \in 1 .. Len(h) |-> IF Latest(i) THEN [h[i] EXCEPT !.words = r] ELSE h[i]]
  BY <1>1 DEF Replaced
<1>3. \A i : Latest(i) => h[i].kept /\ \A j \in 1 .. Len(h) : h[j].kept /\ h[j].by # "user" => j <= i
  BY <1>1 DEF Speaking
<1> HIDE DEF g, Latest
<1>4. ASSUME NEW i \in 1 .. Len(h)
      PROVE  /\ g[i] \in Entries /\ g[i].of = h[i].of /\ g[i].by = h[i].by /\ g[i].kept = h[i].kept
             /\ g[i].words = h[i].words \/ (g[i].words = r /\ Latest(i))
  <2>1. CASE Latest(i)
    <3>1. g[i] = [h[i] EXCEPT !.words = r] /\ h[i] \in Entries
      BY <1>1, <1>2, <2>1
    <3>2. /\ [h[i] EXCEPT !.words = r] \in Entries
          /\ [h[i] EXCEPT !.words = r].of = h[i].of /\ [h[i] EXCEPT !.words = r].by = h[i].by
          /\ [h[i] EXCEPT !.words = r].words = r /\ [h[i] EXCEPT !.words = r].kept = h[i].kept
      BY <3>1, EntryReplaced, Zenon
    <3>3. QED
      BY <2>1, <3>1, <3>2, Zenon
  <2>2. CASE ~Latest(i)
    BY <1>1, <1>2, <2>2
  <2>3. QED
    BY <2>1, <2>2
<1>5. g \in [1 .. Len(h) -> Entries]
  BY <1>2, <1>4
<1>6. g \in Seq(Entries) /\ Len(g) = Len(h)
  BY <1>1, <1>5, SeqDef, LenProperties
<1>7. QED
  BY <1>3, <1>4, <1>6, Zenon DEF g, Like, Histories

\* Histories in which answers follow their questions, a summary comes first, and answers keep
\* their words but for those a turn that is closed has put in their place.
Sound(h, place) == Orderly(h) /\ Heard(h, place)

\* Continues, place by place.
LEMMA ContinuesFields ==
    ASSUME NEW g \in Histories, NEW h \in Histories
    PROVE  Continues(g, h) <=>
             /\ Len(h) <= Len(g)
             /\ \A i \in 1 .. Len(h) :
                  g[i].of = h[i].of /\ g[i].by = h[i].by /\ (g[i].kept => h[i].kept)
  BY HistoryFields DEF Continues

LEMMA ContinuesItself == ASSUME NEW h \in Histories PROVE Continues(h, h)
  BY HistoryFields, ContinuesFields

LEMMA AddedContinues ==
    ASSUME NEW g \in Histories, NEW h \in Histories, Continues(h, g), NEW e \in Entries
    PROVE  Continues(Append(h, e), g)
<1> DEFINE n == Append(h, e)
<1>1. n \in Histories /\ Len(n) = Len(h) + 1 /\ \A i \in 1 .. Len(h) : n[i] = h[i]
  BY AddedFields
<1>2. Len(g) \in Nat /\ Len(h) \in Nat
  BY HistoryFields
<1> HIDE DEF n
<1>3. /\ Len(g) <= Len(h)
      /\ \A i \in 1 .. Len(g) : h[i].of = g[i].of /\ h[i].by = g[i].by /\ (h[i].kept => g[i].kept)
  BY ContinuesFields
<1>4. Len(g) <= Len(n) /\ \A i \in 1 .. Len(g) : n[i] = h[i]
  BY <1>1, <1>2, <1>3
<1>5. \A i \in 1 .. Len(g) : n[i].of = g[i].of /\ n[i].by = g[i].by /\ (n[i].kept => g[i].kept)
  BY <1>3, <1>4, Zenon
<1>6. Continues(n, g)
  BY <1>1, <1>4, <1>5, ContinuesFields
<1>7. QED
  BY <1>6 DEF n

\* What is like the history, and keeps nothing it has not kept, continues what it continues.
LEMMA LikeContinues ==
    ASSUME NEW g \in Histories, NEW h \in Histories, Continues(h, g), NEW n \in Histories,
           Like(n, h), \A i \in 1 .. Len(h) : n[i].kept => h[i].kept
    PROVE  Continues(n, g)
<1>2. Len(g) \in Nat /\ Len(h) \in Nat
  BY HistoryFields
<1>3. /\ Len(g) <= Len(h)
      /\ \A i \in 1 .. Len(g) : h[i].of = g[i].of /\ h[i].by = g[i].by /\ (h[i].kept => g[i].kept)
  BY ContinuesFields
<1>4. Len(g) <= Len(n) /\ \A i \in 1 .. Len(g) : i \in 1 .. Len(h)
  BY <1>2, <1>3 DEF Like
<1>5. \A i \in 1 .. Len(g) : n[i].of = g[i].of /\ n[i].by = g[i].by /\ (n[i].kept => g[i].kept)
  BY <1>3, <1>4, Zenon DEF Like
<1>6. QED
  BY <1>4, <1>5, ContinuesFields

LEMMA LikePaired ==
    ASSUME NEW h \in Histories, NEW n \in Histories, Like(n, h), Paired(h) PROVE Paired(n)
<1>1. Len(n) = Len(h) /\ Len(h) \in Nat /\ DOMAIN n = 1 .. Len(h) /\ DOMAIN h = 1 .. Len(h)
  BY HistoryFields DEF Like
<1>2. \A i \in 1 .. Len(h) : n[i].of = h[i].of /\ n[i].by = h[i].by
  BY DEF Like
<1>3. \A i \in 1 .. Len(h) : i > 1 => i - 1 \in 1 .. Len(h)
  BY <1>1
<1>4. QED
  BY <1>1, <1>2, <1>3 DEF Paired

LEMMA SummarizedSound ==
    ASSUME NEW h \in Histories, NEW place, Sound(h, place), NEW n \in Nat
    PROVE  Sound(Summarized(h, n), place)
<1> DEFINE g == Summarized(h, n)
<1>1. Len(g) = Len(h) /\ Len(h) \in Nat /\ DOMAIN g = 1 .. Len(h) /\ DOMAIN h = 1 .. Len(h)
  BY HistoryFields, SummarizedFields DEF Like
<1>2. \A i \in 1 .. Len(h) : g[i].of = h[i].of /\ g[i].by = h[i].by /\ g[i].words = h[i].words
  BY SummarizedFields DEF Like
<1>3. \A i \in 1 .. Len(h) : /\ i <= n => ~g[i].kept
                             /\ i > n => g[i] = h[i]
  BY SummarizedFields
<1>4. g \in Histories /\ Like(g, h)
  BY SummarizedFields
<1> HIDE DEF g
<1>5. Paired(g)
  BY <1>4, LikePaired DEF Sound, Orderly
<1>6. ASSUME NEW i \in 1 .. Len(h), NEW j \in 1 .. Len(h), i < j, g[i].kept PROVE g[j].kept
  <2>1. i > n /\ j > n
    BY <1>1, <1>3, <1>6
  <2>2. g[i] = h[i] /\ g[j] = h[j]
    BY <1>3, <2>1
  <2>3. h[i].kept
    BY <1>6, <2>2, Zenon
  <2>4. h[j].kept
    BY <1>1, <1>6, <2>3 DEF Sound, Orderly, SummaryFirst
  <2>5. QED
    BY <2>2, <2>4, Zenon
<1>7. SummaryFirst(g)
  BY <1>1, <1>6 DEF SummaryFirst
<1>8. ASSUME NEW i \in 1 .. Len(h), g[i].by = "assistant", g[i].words # g[i].of
      PROVE  \E j \in i + 1 .. Len(g) :
                /\ g[j].of = g[i].words /\ g[j].of \in Research
                /\ \A k \in i + 1 .. j : g[k].by = "user"
                /\ j < Len(g) => g[j + 1].by = "user"
  <2>1. PICK j \in i + 1 .. Len(h) :
            /\ h[j].of = h[i].words /\ h[j].of \in Research
            /\ \A k \in i + 1 .. j : h[k].by = "user"
            /\ j < Len(h) => h[j + 1].by = "user"
    BY <1>1, <1>2, <1>8 DEF Sound, Orderly, OwnWords
  <2>2. j \in 1 .. Len(h) /\ (\A k \in i + 1 .. j : k \in 1 .. Len(h)) /\ (j < Len(h) => j + 1 \in 1 .. Len(h))
    BY <1>1, <2>1
  <2>3. QED
    BY <1>1, <1>2, <2>1, <2>2
<1>9. OwnWords(g)
  BY <1>1, <1>8 DEF OwnWords
<1>10. Heard(g, place)
  BY <1>1, <1>2 DEF Sound, Heard
<1>11. QED
  BY <1>5, <1>7, <1>9, <1>10 DEF Sound, Orderly, g

\* The words of a research take another's place only after the last answer or round there is.
LEMMA ReplacedSound ==
    ASSUME NEW h \in Histories, NEW place \in [Requests -> Places], Sound(h, place),
           NEW r \in Research, r \in Requests, h # <<>>, Last(h).of = r
    PROVE  Sound(Replaced(h, r), [place EXCEPT ![r] = "responding"])
<1> DEFINE g == Replaced(h, r)
           after == [place EXCEPT ![r] = "responding"]
<1>1. /\ Len(g) = Len(h) /\ Len(h) \in Nat /\ DOMAIN g = 1 .. Len(h) /\ DOMAIN h = 1 .. Len(h)
      /\ Len(h) >= 1 /\ h[Len(h)].of = r
  BY HistoryFields, ReplacedFields DEF Like
<1>2. \A i \in 1 .. Len(h) : g[i].of = h[i].of /\ g[i].by = h[i].by
  BY ReplacedFields DEF Like
<1>3. \A i \in 1 .. Len(h) : g[i].kept = h[i].kept
  BY ReplacedFields
<1>4. \A i \in 1 .. Len(h) :
          \/ g[i].words = h[i].words
          \/ /\ g[i].words = r /\ h[i].kept
             /\ \A j \in 1 .. Len(h) : h[j].kept /\ h[j].by # "user" => j <= i
  BY ReplacedFields
<1>5. g \in Histories /\ Like(g, h)
  BY ReplacedFields
<1> HIDE DEF g
<1>6. Paired(g)
  BY <1>5, LikePaired DEF Sound, Orderly
<1>7. SummaryFirst(g)
  BY <1>1, <1>3 DEF Sound, Orderly, SummaryFirst
<1>8. ASSUME NEW i \in 1 .. Len(h), g[i].by = "assistant", g[i].words # g[i].of
      PROVE  \E j \in i + 1 .. Len(g) :
                /\ g[j].of = g[i].words /\ g[j].of \in Research
                /\ \A k \in i + 1 .. j : g[k].by = "user"
                /\ j < Len(g) => g[j + 1].by = "user"
  <2>1. CASE g[i].words = h[i].words
    <3>1. PICK j \in i + 1 .. Len(h) :
              /\ h[j].of = h[i].words /\ h[j].of \in Research
              /\ \A k \in i + 1 .. j : h[k].by = "user"
              /\ j < Len(h) => h[j + 1].by = "user"
      BY <1>1, <1>2, <1>8, <2>1 DEF Sound, Orderly, OwnWords
    <3>2. j \in 1 .. Len(h) /\ (\A k \in i + 1 .. j : k \in 1 .. Len(h)) /\ (j < Len(h) => j + 1 \in 1 .. Len(h))
      BY <1>1, <3>1
    <3>3. QED
      BY <1>1, <1>2, <2>1, <3>1, <3>2
  <2>2. CASE g[i].words # h[i].words
    <3>1. /\ g[i].words = r /\ h[i].kept
          /\ \A j \in 1 .. Len(h) : h[j].kept /\ h[j].by # "user" => j <= i
      BY <1>4, <2>2
    <3>2. i # Len(h)
      BY <1>1, <1>2, <1>8, <3>1
    <3>3. ASSUME NEW k \in i + 1 .. Len(h) PROVE k \in 1 .. Len(h) /\ h[k].by = "user"
      <4>1. k \in 1 .. Len(h) /\ i < k /\ ~(k <= i)
        BY <1>1
      <4>2. h[k].kept
        BY <1>1, <3>1, <4>1 DEF Sound, Orderly, SummaryFirst
      <4>3. QED
        BY <3>1, <4>1, <4>2, Zenon
    <3>4. Len(h) \in i + 1 .. Len(g) /\ ~(Len(h) < Len(g)) /\ Len(h) \in 1 .. Len(h)
      <4>1. Len(h) \in Nat /\ Len(g) = Len(h)
        BY <1>1
      <4>2. QED
        BY <3>2, <4>1
    <3>5. g[Len(h)].of = g[i].words /\ g[Len(h)].of \in Research
      BY <1>1, <1>2, <3>1, <3>4
    <3>6. \A k \in i + 1 .. Len(h) : g[k].by = "user"
      BY <1>2, <3>3
    <3>7. QED
      BY <3>4, <3>5, <3>6
  <2>3. QED
    BY <2>1, <2>2
<1>9. OwnWords(g)
  BY <1>1, <1>8 DEF OwnWords
<1>10. ASSUME NEW i \in 1 .. Len(h), g[i].words # g[i].of
       PROVE  after[g[i].words] \in {"responding", "over"}
  <2>1. CASE g[i].words = r
    BY <2>1
  <2>2. CASE g[i].words # r
    <3>1. g[i].words = h[i].words /\ h[i].words # h[i].of /\ h[i] \in Entries
      BY <1>2, <1>4, <1>10, <2>2, HistoryFields
    <3>2. h[i].words \in Requests /\ place[h[i].words] \in {"responding", "over"}
      BY <1>1, <3>1, EntryTypes DEF Sound, Heard
    <3>3. QED
      BY <2>2, <3>1, <3>2
  <2>3. QED
    BY <2>1, <2>2
<1>11. Heard(g, after)
  BY <1>1, <1>10 DEF Heard
<1>12. QED
  BY <1>6, <1>7, <1>9, <1>11 DEF Sound, Orderly, g

\* A turn that goes on unsettles nothing.
LEMMA SoundLater ==
    ASSUME NEW h \in Histories, NEW place, NEW later, Sound(h, place),
           \A x \in Requests : place[x] \in {"responding", "over"} => later[x] \in {"responding", "over"}
    PROVE  Sound(h, later)
  BY HistoryFields, EntryTypes DEF Sound, Heard

\* A question may follow anything, calls their question, and an answer both.
Follows(h, r, who) ==
    /\ h # <<>> /\ Last(h).of = r
    /\ Last(h).by \in IF who = "calls" THEN {"user"} ELSE {"user", "calls"}

LEMMA AddedSound ==
    ASSUME NEW h \in Histories, NEW place, Sound(h, place), NEW r \in Requests,
           NEW who \in {"user", "calls", "assistant"},
           who # "user" => Follows(h, r, who) /\ place[r] \notin {"responding", "over"}
    PROVE  Sound(Append(h, Entry(r, who)), place)
<1> DEFINE e == Entry(r, who)
           n == Append(h, e)
<1>0. e \in Entries /\ e.of = r /\ e.by = who /\ e.words = r
  BY EntryFields
<1>k. e.kept
  BY DEF Entry
<1> HIDE DEF e
<1>1. /\ n \in Histories /\ Len(n) = Len(h) + 1 /\ n[Len(h) + 1] = e
      /\ \A i \in 1 .. Len(h) : n[i] = h[i]
  BY <1>0, AddedFields
<1> HIDE DEF n
<1>2. /\ Len(h) \in Nat /\ DOMAIN n = 1 .. Len(h) + 1 /\ DOMAIN h = 1 .. Len(h)
      /\ h # <<>> => Len(h) >= 1 /\ Last(h) = h[Len(h)]
  BY <1>1, HistoryFields
<1>3. ASSUME NEW i \in 1 .. Len(h) + 1, n[i].by # "user"
      PROVE  /\ i > 1 /\ n[i - 1].of = n[i].of
             /\ n[i - 1].by \in IF n[i].by = "calls" THEN {"user"} ELSE {"user", "calls"}
  <2>1. CASE i = Len(h) + 1
    BY <1>0, <1>1, <1>2, <1>3, <2>1 DEF Follows
  <2>2. CASE i # Len(h) + 1
    <3>1. i \in 1 .. Len(h) /\ n[i] = h[i]
      BY <1>1, <1>2, <2>2
    <3>2. /\ i > 1 /\ h[i - 1].of = h[i].of
          /\ h[i - 1].by \in IF h[i].by = "calls" THEN {"user"} ELSE {"user", "calls"}
      BY <1>2, <1>3, <3>1 DEF Sound, Orderly, Paired
    <3>3. n[i - 1] = h[i - 1]
      BY <1>1, <1>2, <3>1, <3>2
    <3>4. QED
      BY <3>1, <3>2, <3>3
  <2>3. QED
    BY <2>1, <2>2
<1>4. Paired(n)
  BY <1>2, <1>3 DEF Paired
<1>5. ASSUME NEW i \in 1 .. Len(h) + 1, NEW j \in 1 .. Len(h) + 1, i < j, n[i].kept PROVE n[j].kept
  <2>1. CASE j = Len(h) + 1
    BY <1>1, <1>k, <2>1, Zenon
  <2>2. CASE j # Len(h) + 1
    <3>1. i \in 1 .. Len(h) /\ j \in 1 .. Len(h)
      BY <1>2, <1>5, <2>2
    <3>2. n[i] = h[i] /\ n[j] = h[j]
      BY <1>1, <3>1
    <3>3. h[i].kept
      BY <1>5, <3>2, Zenon
    <3>4. h[j].kept
      BY <1>2, <1>5, <3>1, <3>3 DEF Sound, Orderly, SummaryFirst
    <3>5. QED
      BY <3>2, <3>4, Zenon
  <2>3. QED
    BY <2>1, <2>2
<1>6. SummaryFirst(n)
  BY <1>2, <1>5 DEF SummaryFirst
<1>7. ASSUME NEW i \in 1 .. Len(h) + 1, n[i].by = "assistant", n[i].words # n[i].of
      PROVE  \E j \in i + 1 .. Len(n) :
                /\ n[j].of = n[i].words /\ n[j].of \in Research
                /\ \A k \in i + 1 .. j : n[k].by = "user"
                /\ j < Len(n) => n[j + 1].by = "user"
  <2>1. i \in 1 .. Len(h) /\ n[i] = h[i]
    BY <1>0, <1>1, <1>2, <1>7
  <2>2. PICK j \in i + 1 .. Len(h) :
            /\ h[j].of = h[i].words /\ h[j].of \in Research
            /\ \A k \in i + 1 .. j : h[k].by = "user"
            /\ j < Len(h) => h[j + 1].by = "user"
    BY <1>2, <1>7, <2>1 DEF Sound, Orderly, OwnWords
  <2>3. /\ j \in 1 .. Len(h) /\ j \in i + 1 .. Len(n)
        /\ \A k \in i + 1 .. j : k \in 1 .. Len(h)
        /\ j # Len(h) => j < Len(h) /\ j + 1 \in 1 .. Len(h)
    BY <1>1, <1>2, <2>2
  <2>4. n[j] = h[j] /\ \A k \in i + 1 .. j : n[k] = h[k]
    BY <1>1, <2>3
  <2>5. n[j + 1].by = "user"
    <3>1. CASE j # Len(h)
      BY <1>1, <2>2, <2>3, <3>1
    <3>2. CASE j = Len(h)
      <4>1. CASE who = "user"
        BY <1>0, <1>1, <3>2, <4>1
      <4>2. CASE who # "user"
        <5>1. h[Len(h)].of = r /\ place[r] \notin {"responding", "over"}
          BY <1>2, <4>2 DEF Follows
        <5>2. h[i].words = r
          BY <2>2, <3>2, <5>1
        <5>3. place[h[i].words] \in {"responding", "over"}
          BY <1>2, <1>7, <2>1 DEF Sound, Heard
        <5>4. QED
          BY <5>1, <5>2, <5>3
      <4>3. QED
        BY <4>1, <4>2
    <3>3. QED
      BY <3>1, <3>2
  <2>6. QED
    BY <2>1, <2>2, <2>3, <2>4, <2>5
<1>8. OwnWords(n)
  BY <1>2, <1>7 DEF OwnWords
<1>9. ASSUME NEW i \in 1 .. Len(h) + 1, n[i].words # n[i].of
      PROVE  place[n[i].words] \in {"responding", "over"}
  <2>1. i \in 1 .. Len(h) /\ n[i] = h[i]
    BY <1>0, <1>1, <1>2, <1>9
  <2>2. QED
    BY <1>2, <1>9, <2>1 DEF Sound, Heard
<1>10. Heard(n, place)
  BY <1>2, <1>9 DEF Heard
<1>11. QED
  BY <1>4, <1>6, <1>8, <1>10 DEF Sound, Orderly, n, e

\* What a chat says, compressed or not.
LEMMA SaidHistory ==
    ASSUME NEW h \in Histories, NEW g \in Histories, NEW place, NEW r \in Requests,
           NEW who \in {"user", "calls", "assistant"},
           NEW n \in Compressed(Append(h, Entry(r, who)))
    PROVE  /\ n \in Histories /\ n # <<>> /\ Last(n).of = r /\ Last(n).by = who
           /\ Continues(h, g) => Continues(n, g)
           /\ Sound(h, place)
              /\ (who # "user" => Follows(h, r, who) /\ place[r] \notin {"responding", "over"})
                  => Sound(n, place)
<1> DEFINE f == Append(h, Entry(r, who))
<1>1. /\ f \in Histories /\ Len(f) = Len(h) + 1 /\ f # <<>>
      /\ Last(f).of = r /\ Last(f).by = who
  <2>1. Entry(r, who) \in Entries /\ Entry(r, who).of = r /\ Entry(r, who).by = who
    BY EntryFields
  <2>2. f \in Histories /\ Len(f) = Len(h) + 1 /\ f # <<>> /\ Last(f) = Entry(r, who)
    BY <2>1, AddedFields, Zenon
  <2>3. QED
    BY <2>1, <2>2, Zenon
<1>2. Continues(h, g) => Continues(f, g)
  BY EntryFields, AddedContinues
<1>3. Sound(h, place)
      /\ (who # "user" => Follows(h, r, who) /\ place[r] \notin {"responding", "over"})
          => Sound(f, place)
  BY AddedSound
<1>4. n \in Compressed(f)
  OBVIOUS
<1> HIDE DEF f
<1>5. CASE n = f
  BY <1>1, <1>2, <1>3, <1>5, Zenon
<1>6. CASE n # f
  <2>1. PICK m \in 1 .. Len(f) : n = Summarized(f, m)
    BY <1>4, <1>6 DEF Compressed
  <2>2. m \in Nat /\ Len(f) \in Nat /\ Len(f) \in 1 .. Len(f)
    BY <1>1, <2>1, HistoryFields
  <2>3. n \in Histories /\ Like(n, f)
    BY <1>1, <2>1, <2>2, SummarizedFields
  <2>4. \A i \in 1 .. Len(f) : n[i].kept => f[i].kept
    <3>1. \A i \in 1 .. Len(f) : /\ i <= m => ~n[i].kept
                                 /\ i > m => n[i] = f[i]
      BY <1>1, <2>1, <2>2, SummarizedFields
    <3>2. \A i \in 1 .. Len(f) : i <= m \/ i > m
      BY <2>2
    <3>3. QED
      BY <3>1, <3>2, Zenon
  <2>5. Len(n) = Len(f) /\ n[Len(f)].of = f[Len(f)].of /\ n[Len(f)].by = f[Len(f)].by
    BY <2>2, <2>3 DEF Like
  <2>6. n # <<>> /\ Last(n).of = r /\ Last(n).by = who
    <3>1. Last(f) = f[Len(f)] /\ n # <<>> /\ Last(n) = n[Len(n)]
      BY <1>1, <2>2, <2>3, <2>5, HistoryFields
    <3>2. QED
      BY <1>1, <2>5, <3>1
  <2>7. Continues(f, g) => Continues(n, g)
    BY <1>1, <2>3, <2>4, LikeContinues
  <2>8. Sound(f, place) => Sound(n, place)
    BY <1>1, <2>1, <2>2, SummarizedSound
  <2>9. QED
    BY <1>2, <1>3, <2>3, <2>6, <2>7, <2>8
<1>7. QED
  BY <1>5, <1>6

\* What a research makes of the history when it closes.
LEMMA ReplacedHistory ==
    ASSUME NEW h \in Histories, NEW g \in Histories, Continues(h, g), NEW r \in Requests
    PROVE  Replaced(h, r) \in Histories /\ Continues(Replaced(h, r), g)
<1>1. Replaced(h, r) \in Histories /\ Like(Replaced(h, r), h)
  BY ReplacedFields
<1>2. \A i \in 1 .. Len(h) : Replaced(h, r)[i].kept = h[i].kept
  BY ReplacedFields
<1>3. QED
  BY <1>1, <1>2, LikeContinues

----------------------------------------------------------------------------
(***************************************************************************)
(* The types of the agents and the histories.                              *)
(***************************************************************************)

\* Whoever gets an agent has one, with a history.
LEMMA AgentGot ==
    ASSUME AgentTypes, NEW r \in Requests, GetAgent(r)
    PROVE  /\ agents' \in [Sessions -> Requests \cup {None}]
           /\ agent' \in [Requests -> Requests \cup {None}]
           /\ agent'[r] # None
           /\ \A x \in Requests : x # r => agent'[x] = agent[x]
           /\ messages' \in [Requests -> Histories]
<1>0. SessionOf[r] \in Sessions /\ None \notin Requests
  BY ChatAssumption
<1>1. agents' \in [Sessions -> Requests \cup {None}] /\ agents'[SessionOf[r]] # None
  BY <1>0 DEF GetAgent, AgentTypes
<1>2. agent' = [agent EXCEPT ![r] = agents'[SessionOf[r]]]
  BY DEF GetAgent
<1>3. messages' \in [Requests -> Histories]
  BY <1>0 DEF GetAgent, AgentTypes, Histories
<1>4. QED
  BY <1>0, <1>1, <1>2, <1>3 DEF AgentTypes

\* What a chat says is a history, and what is left of it when its turn is closed.
LEMMA SaysTyped ==
    ASSUME messages \in [Requests -> Histories], NEW r \in Requests,
           NEW who \in {"user", "calls", "assistant"}, agent[r] \in Requests, Says(r, who)
    PROVE  messages' \in [Requests -> Histories]
<1>1. PICK n \in Compressed(Append(messages[agent[r]], Entry(r, who))) :
          messages' = [messages EXCEPT ![agent[r]] = n]
  BY DEF Says
<1>2. messages[agent[r]] \in Histories
  OBVIOUS
<1>3. n \in Histories
  BY <1>1, <1>2, SaidHistory
<1>4. QED
  BY <1>1, <1>3

LEMMA FinalizedTyped ==
    ASSUME messages \in [Requests -> Histories], NEW r \in Requests, agent[r] \in Requests
    PROVE  Finalized(r) \in [Requests -> Histories]
<1>1. Replaced(messages[agent[r]], r) \in Histories
  BY ReplacedFields
<1>2. QED
  BY <1>1 DEF Finalized

\* Whose agent is cancelled has one.
LEMMA SignalsTyped ==
    ASSUME AgentTypes, NEW a \in Requests \cup {None}, CancelAgent(a)
    PROVE  /\ cancel_event' \in SUBSET Requests
           /\ helper' \in [Requests -> {"none", "queued", "running", "stopped"}]
  BY DEF AgentTypes, CancelAgent, StopHelpers, signals

LEMMA AgentTypesKept ==
    LockTypes /\ AgentTypes /\ AgentsHold /\ [Next]_vars => AgentTypes'
<1> SUFFICES ASSUME LockTypes, AgentTypes, AgentsHold, [Next]_vars PROVE AgentTypes'
  OBVIOUS
<1>0. /\ at \in [Requests -> Places]
      /\ SessionOf \in [Requests -> Sessions] /\ None \notin Requests
      /\ agents \in [Sessions -> Requests \cup {None}]
      /\ agent \in [Requests -> Requests \cup {None}]
      /\ messages \in [Requests -> Histories] /\ saved \in [Sessions -> Histories]
      /\ <<>> \in Histories
  BY ChatAssumption DEF LockTypes, AgentTypes, Places, Histories
<1> USE <1>0
<1> HIDE DEF Histories
<1>1. ASSUME UNCHANGED <<agents, agent, messages, signals, saved, outside>>,
             \A x \in Requests : InTurn(x)' => InTurn(x)
      PROVE  AgentTypes'
  BY <1>1 DEF AgentTypes, outside, signals
<1>2. ASSUME NEW r \in Requests, NEW l, NEW locks, NEW q, Start(r, l, locks, q),
             at[r] \in {"new", "waiting"}, UNCHANGED <<signals, saved, outside>>
      PROVE  AgentTypes'
  <2>1. CASE r \in cancelled
    <3>1. UNCHANGED <<agents, messages, agent>> /\ at' = [at EXCEPT ![r] = "over"]
      BY <1>2, <2>1 DEF Start, Skip, Goto
    <3>2. QED
      BY <1>1, <1>2, <3>1 DEF InTurn
  <2>2. CASE r \notin cancelled
    <3>1. GetAgent(r) /\ at' = [at EXCEPT ![r] = "preparing"]
      BY <1>2, <2>2 DEF Start, Goto
    <3>2. /\ agents' \in [Sessions -> Requests \cup {None}]
          /\ agent' \in [Requests -> Requests \cup {None}]
          /\ agent'[r] # None
          /\ \A x \in Requests : x # r => agent'[x] = agent[x]
          /\ messages' \in [Requests -> Histories]
      BY <3>1, AgentGot
    <3>3. \A x \in Requests : InTurn(x)' => x = r \/ InTurn(x)
      BY <3>1 DEF InTurn
    <3>4. \A x \in Requests : InTurn(x)' => agent'[x] # None
      BY <3>2, <3>3 DEF AgentTypes
    <3>5. QED
      BY <1>2, <3>2, <3>4 DEF AgentTypes, outside, signals, Histories
  <2>3. QED
    BY <2>1, <2>2
<1>3. ASSUME NEW r \in Requests, Arrive(r) PROVE AgentTypes'
  <2>1. at[r] = "new" /\ UNCHANGED <<signals, saved, outside>>
    BY <1>3 DEF Arrive
  <2>2. CASE queue[LockFor(r)] = <<>>
    BY <1>2, <1>3, <2>1, <2>2 DEF Arrive
  <2>3. CASE queue[LockFor(r)] # <<>>
    <3>1. at' = [at EXCEPT ![r] = "waiting"] /\ UNCHANGED <<agents, messages, agent>>
      BY <1>3, <2>3 DEF Arrive, Goto
    <3>2. QED
      BY <1>1, <2>1, <3>1 DEF InTurn
  <2>4. QED
    BY <2>2, <2>3
<1>4. ASSUME NEW r \in Requests, Drop(r) PROVE AgentTypes'
  BY <1>1, <1>4 DEF Drop, Goto, cached, InTurn
<1>5. ASSUME NEW r \in Requests, Resume(r) PROVE AgentTypes'
  BY <1>2, <1>5 DEF Resume
<1>6. ASSUME NEW r \in Requests, Prepared(r) PROVE AgentTypes'
  BY <1>1, <1>6 DEF Prepared, Goto, cached, InTurn
<1>7. ASSUME NEW r \in Requests, ChatBegins(r), agent[r] \in Requests PROVE AgentTypes'
  <2>1. messages' \in [Requests -> Histories]
    BY <1>7, SaysTyped DEF ChatBegins
  <2>2. /\ UNCHANGED <<agents, agent, at, saved, outside, helper>>
        /\ cancel_event' \subseteq cancel_event
    BY <1>7 DEF ChatBegins
  <2>3. QED
    BY <2>1, <2>2 DEF AgentTypes, InTurn, outside, Histories
<1>7a. ASSUME NEW r \in Requests, ChatCalls(r), agent[r] \in Requests PROVE AgentTypes'
  <2>1. messages' \in [Requests -> Histories]
    BY <1>7a, SaysTyped DEF ChatCalls
  <2>2. helper' \in [Requests -> {"none", "queued", "running", "stopped"}]
    BY <1>7a DEF ChatCalls, AgentTypes
  <2>3. UNCHANGED <<agents, agent, at, saved, outside, cancel_event>>
    BY <1>7a DEF ChatCalls, served
  <2>4. QED
    BY <2>1, <2>2, <2>3 DEF AgentTypes, InTurn, outside, Histories
<1>8. ASSUME NEW r \in Requests, NEW o \in Outcomes, ChatEnds(r, o), agent[r] \in Requests
      PROVE  AgentTypes'
  <2>1. messages' \in [Requests -> Histories]
    <3>1. Append(messages[agent[r]], Entry(r, "assistant")) \in Histories
      BY <1>8, EntryFields, AddedFields
    <3>2. QED
      BY <1>8, <3>1 DEF ChatEnds
  <2>2. UNCHANGED <<agents, agent, at, saved, outside, signals>>
    BY <1>8 DEF ChatEnds
  <2>3. QED
    BY <2>1, <2>2 DEF AgentTypes, InTurn, outside, signals, Histories
<1>9. ASSUME NEW r \in Requests, Finish(r) PROVE AgentTypes'
  <2>1. InTurn(r) /\ agent[r] \in Requests /\ SessionOf[r] \in Sessions
    BY <1>9 DEF Finish, InTurn, AgentTypes
  <2>2. messages' \in [Requests -> Histories]
    BY <1>9, <2>1, FinalizedTyped DEF Finish
  <2>3. saved' \in [Sessions -> Histories]
    BY <1>9, <2>1, <2>2 DEF Finish
  <2>4. /\ UNCHANGED <<agents, agent, outside, signals>>
        /\ \A x \in Requests : InTurn(x)' => InTurn(x)
    BY <1>9 DEF Finish, Leave, Goto, InTurn
  <2>5. QED
    BY <2>2, <2>3, <2>4 DEF AgentTypes, outside, signals, Histories
<1>10. ASSUME NEW r \in Requests, Fail(r) PROVE AgentTypes'
  <2>1. InTurn(r) /\ agent[r] \in Requests
    BY <1>10 DEF Fail, AgentTypes
  <2>2. messages' \in [Requests -> Histories]
    BY <1>10, <2>1, FinalizedTyped DEF Fail
  <2>3. /\ UNCHANGED <<agents, agent, saved, outside, signals>>
        /\ \A x \in Requests : InTurn(x)' => InTurn(x)
    BY <1>10 DEF Fail, Leave, Goto, InTurn
  <2>4. QED
    BY <2>2, <2>3 DEF AgentTypes, outside, signals, Histories
<1>11. ASSUME NEW r \in Requests, DeadlinePasses(r) PROVE AgentTypes'
  <2>1. InTurn(r) /\ agent[r] \in Requests
    BY <1>11 DEF DeadlinePasses, InTurn, AgentTypes
  <2>2. /\ cancel_event' \in SUBSET Requests
        /\ helper' \in [Requests -> {"none", "queued", "running", "stopped"}]
    BY <1>11, <2>1, SignalsTyped DEF DeadlinePasses
  <2>3. /\ UNCHANGED <<agents, agent, messages, saved, outside>>
        /\ \A x \in Requests : InTurn(x)' => InTurn(x)
    BY <1>11 DEF DeadlinePasses, Leave, Goto, cached, InTurn
  <2>4. QED
    BY <2>2, <2>3 DEF AgentTypes, outside
<1>12. ASSUME NEW r \in Requests, Respond(r) PROVE AgentTypes'
  BY <1>1, <1>12 DEF Respond, Goto, InTurn
<1>13. ASSUME NEW s \in Sessions, Stop(s) PROVE AgentTypes'
  <2>1. /\ cancel_event' \in SUBSET Requests
        /\ helper' \in [Requests -> {"none", "queued", "running", "stopped"}]
    BY <1>13, SignalsTyped DEF Stop
  <2>2. /\ UNCHANGED <<agents, agent, messages, saved, at, cancelled>>
        /\ interventions' \in Nat
    BY <1>13 DEF Stop, Intervene, cached, served, AgentTypes
  <2>3. QED
    BY <2>1, <2>2 DEF AgentTypes, InTurn
<1>14. ASSUME NEW s \in Sessions, Reset(s) PROVE AgentTypes'
  <2>1. /\ saved' \in [Sessions -> Histories] /\ messages' \in [Requests -> Histories]
        /\ agents' \in [Sessions -> Requests \cup {None}]
    BY <1>14 DEF Reset
  <2>2. UNCHANGED <<agent, at, cancel_event, helper, cancelled>> /\ interventions' \in Nat
    BY <1>14 DEF Reset, Intervene, served, signals, AgentTypes
  <2>3. QED
    BY <2>1, <2>2 DEF AgentTypes, InTurn, Histories
<1>15. ASSUME NEW s \in Sessions, Age(s) PROVE AgentTypes'
  BY <1>15 DEF Age, Intervene, served, signals, AgentTypes, InTurn
<1>16. ASSUME NEW r \in Requests, GiveUp(r) PROVE AgentTypes'
  <2>0. agents[SessionOf[r]] \in Requests \cup {None}
    OBVIOUS
  <2>1. /\ cancel_event' \in SUBSET Requests
        /\ helper' \in [Requests -> {"none", "queued", "running", "stopped"}]
    BY <1>16, <2>0, SignalsTyped DEF GiveUp, CancelRequest, signals, AgentTypes
  <2>2. /\ UNCHANGED <<agents, agent, messages, saved, at>>
        /\ cancelled' \in SUBSET Requests /\ interventions' \in Nat
    BY <1>16 DEF GiveUp, Intervene, cached, served, AgentTypes
  <2>3. QED
    BY <2>1, <2>2 DEF AgentTypes, InTurn
<1>17. CASE UNCHANGED vars
  BY <1>1, <1>17 DEF vars, cached, served, InTurn
<1>18. ASSUME NEW r \in Requests, HelperStarts(r) \/ HelperEnds(r) PROVE AgentTypes'
  <2>1. /\ UNCHANGED <<agents, agent, messages, cancel_event, saved, outside, at>>
        /\ helper' \in [Requests -> {"none", "queued", "running", "stopped"}]
    BY <1>18 DEF HelperStarts, HelperEnds, cached, served, AgentTypes
  <2>2. QED
    BY <2>1 DEF AgentTypes, InTurn, outside
<1>19. ASSUME NEW r \in Requests, thread[r] \in Working PROVE agent[r] \in Requests
  BY <1>19 DEF AgentsHold
<1>20. QED
  <2>1. ASSUME NEW r \in Requests, ChatBegins(r) \/ ChatCalls(r) \/ \E o \in Outcomes : ChatEnds(r, o)
        PROVE  thread[r] \in Working
    BY <2>1 DEF ChatBegins, ChatCalls, ChatEnds, Working
  <2>2. QED
    BY <1>3, <1>4, <1>5, <1>6, <1>7, <1>7a, <1>8, <1>9, <1>10, <1>11, <1>12, <1>13, <1>14, <1>15,
       <1>16, <1>17, <1>18, <1>19, <2>1 DEF Next, Step

----------------------------------------------------------------------------
(***************************************************************************)
(* The agents: who serves whom.                                            *)
(***************************************************************************)
\* Who gets a free lock is alone in its session, and the locks of the other turns are in use.
LEMMA ArrivesAlone ==
    ASSUME LockTypes, LocksHold, NEW r \in Requests, queue[LockFor(r)] = <<>>,
           NEW x \in Requests, InTurn(x), SessionOf[x] \notin disturbed
    PROVE  /\ SessionOf[x] # SessionOf[r]
           /\ InUse([session_locks EXCEPT ![SessionOf[r]] = LockFor(r)][SessionOf[x]],
                    [queue EXCEPT ![LockFor(r)] = Append(@, r)])
<1> DEFINE l == LockFor(r)
           t == SessionOf[x]
<1>0. /\ t \in Sessions /\ SessionOf[r] \in Sessions
      /\ session_locks \in [Sessions -> Requests \cup {None}] /\ queue \in [Requests -> Seq(Requests)]
  BY ChatAssumption DEF LockTypes
<1>1. /\ lock[x] = session_locks[t] /\ lock[x] # None
      /\ \E i \in DOMAIN queue[lock[x]] : queue[lock[x]][i] = x
  BY DEF LocksHold, Queued, Holding, InTurn
<1>2. session_locks[t] \in Requests /\ queue[session_locks[t]] # <<>>
  BY <1>0, <1>1
<1>3. t # SessionOf[r]
  BY <1>1, <1>2 DEF LockFor
<1>4. l # session_locks[t]
  BY <1>2
<1>5. [session_locks EXCEPT ![SessionOf[r]] = l][t] = session_locks[t]
  BY <1>0, <1>3
<1>6. [queue EXCEPT ![l] = Append(@, r)][session_locks[t]] = queue[session_locks[t]]
  BY <1>0, <1>2, <1>4
<1>7. QED
  BY <1>1, <1>2, <1>3, <1>5, <1>6 DEF InUse

\* So is who comes to hold the lock it has waited for.
LEMMA ResumesAlone ==
    ASSUME LockTypes, LocksHold, NEW r \in Requests, at[r] = "waiting", Head(queue[lock[r]]) = r,
           NEW x \in Requests, InTurn(x), SessionOf[x] \notin disturbed
    PROVE  SessionOf[x] # SessionOf[r] /\ InUse(session_locks[SessionOf[x]], queue)
<1>1. /\ lock[x] = session_locks[SessionOf[x]] /\ lock[x] # None
      /\ \E i \in DOMAIN queue[lock[x]] : queue[lock[x]][i] = x
      /\ Head(queue[lock[x]]) = x
  BY DEF LocksHold, Queued, Holding, InTurn
<1>2. SessionOf[x] = SessionOf[r] => lock[r] = lock[x]
  BY <1>1 DEF LocksHold, Queued
<1>3. x # r
  BY DEF InTurn
<1>4. QED
  BY <1>1, <1>2, <1>3 DEF InUse

\* The start of a turn: the agents of the turns under way in other sessions stay.
LEMMA AgentsAfterStart ==
    ASSUME LockTypes, AgentTypes, NEW r \in Requests, NEW l, NEW locks, NEW q,
           Start(r, l, locks, q), r \notin cancelled,
           \A x \in Requests : InTurn(x) /\ SessionOf[x] \notin disturbed =>
               SessionOf[x] # SessionOf[r] /\ InUse(locks[SessionOf[x]], q)
    PROVE  /\ agents'[SessionOf[r]] = agent'[r]
           /\ agents'[SessionOf[r]] \in {r, agents[SessionOf[r]]} \ {None}
           /\ \A t \in Sessions : t # SessionOf[r] => agents'[t] \in {None, agents[t]}
           /\ \A x \in Requests : x # r => agent'[x] = agent[x]
           /\ disturbed \subseteq disturbed'
           /\ \A x \in Requests : InTurn(x) /\ SessionOf[x] \notin disturbed' =>
                  /\ SessionOf[x] # SessionOf[r]
                  /\ agents'[SessionOf[x]] = agents[SessionOf[x]]
           /\ \/ messages' = messages /\ agents'[SessionOf[r]] = agents[SessionOf[r]]
              \/ /\ messages' = [messages EXCEPT ![r] = saved[SessionOf[r]]]
                 /\ agents'[SessionOf[r]] = r
<1> DEFINE s == SessionOf[r]
           fresh == agents[s] = None \/ s \in stale
<1>0. /\ s \in Sessions /\ None \notin Requests /\ SessionOf \in [Requests -> Sessions]
      /\ agent \in [Requests -> Requests \cup {None}]
      /\ stale \in SUBSET Sessions
  BY ChatAssumption DEF AgentTypes, LockTypes
<1>1. /\ agents' = [t \in Sessions |-> IF t = s THEN (IF fresh THEN r ELSE agents[s])
                                       ELSE IF t \in stale THEN None ELSE agents[t]]
      /\ agent' = [agent EXCEPT ![r] = agents'[s]]
      /\ messages' = IF fresh THEN [messages EXCEPT ![r] = saved[s]] ELSE messages
      /\ disturbed' = disturbed \cup {t \in stale : InUse(locks[t], q)}
  BY DEF Start, GetAgent
<1>2. agents'[s] = IF fresh THEN r ELSE agents[s]
  BY <1>0, <1>1
<1>3. \A t \in Sessions : t # s => agents'[t] = IF t \in stale THEN None ELSE agents[t]
  BY <1>1
<1>4. agent'[r] = agents'[s] /\ \A x \in Requests : x # r => agent'[x] = agent[x]
  BY <1>0, <1>1
<1>5. ASSUME NEW x \in Requests, InTurn(x), SessionOf[x] \notin disturbed'
      PROVE  SessionOf[x] # s /\ agents'[SessionOf[x]] = agents[SessionOf[x]]
  <2>1. SessionOf[x] # s /\ InUse(locks[SessionOf[x]], q)
    BY <1>1, <1>5
  <2>2. SessionOf[x] \notin stale
    BY <1>1, <1>5, <2>1
  <2>3. QED
    BY <1>0, <1>3, <2>1, <2>2
<1>6. agents'[s] \in {r, agents[s]} \ {None}
  BY <1>0, <1>2
<1>7. \A t \in Sessions : t # s => agents'[t] \in {None, agents[t]}
  BY <1>3
<1>8. \/ messages' = messages /\ agents'[s] = agents[s]
      \/ messages' = [messages EXCEPT ![r] = saved[s]] /\ agents'[s] = r
  BY <1>1, <1>2
<1>9. disturbed \subseteq disturbed'
  BY <1>1
<1> HIDE DEF s, fresh
<1>10. QED
  BY <1>4, <1>5, <1>6, <1>7, <1>8, <1>9 DEF s

\* Every step keeps who serves whom.
LEMMA AgentsKept ==
    LockTypes /\ AgentTypes /\ LocksHold /\ RegisterHolds /\ AgentsHold /\ [Next]_vars
        => AgentsHold'
<1> SUFFICES ASSUME LockTypes, AgentTypes, LocksHold, RegisterHolds, AgentsHold, [Next]_vars
             PROVE  AgentsHold'
  OBVIOUS
<1>0. /\ SessionOf \in [Requests -> Sessions] /\ None \notin Requests
      /\ at \in [Requests -> Places]
      /\ thread \in [Requests -> {"none"} \cup Working \cup Outcomes]
      /\ active_request \in [Sessions -> Requests \cup {None}]
      /\ agents \in [Sessions -> Requests \cup {None}]
      /\ agent \in [Requests -> Requests \cup {None}]
  BY ChatAssumption DEF LockTypes, AgentTypes, Places
<1> USE <1>0
<1>1. ASSUME UNCHANGED <<agents, agent>>, disturbed \subseteq disturbed',
             \A x \in Requests : InTurn(x)' => InTurn(x),
             \A x \in Requests : thread'[x] \in Working => thread[x] \in Working \/ InTurn(x),
             \A s \in Sessions : active_request'[s] \in {None, active_request[s]}
      PROVE  AgentsHold'
  <2>1. \A x \in Requests : InTurn(x) => agent[x] # None
    BY DEF AgentTypes
  <2>2. QED
    BY <1>1, <2>1 DEF AgentsHold
<1>2. ASSUME NEW r \in Requests, NEW l, NEW locks, NEW q, Start(r, l, locks, q),
             thread' = thread, at[r] \in {"new", "waiting"},
             \A x \in Requests : InTurn(x) /\ SessionOf[x] \notin disturbed =>
                 SessionOf[x] # SessionOf[r] /\ InUse(locks[SessionOf[x]], q)
      PROVE  AgentsHold'
  <2>1. CASE r \in cancelled
    <3>1. /\ UNCHANGED <<agents, agent, disturbed, active_request>>
          /\ at' = [at EXCEPT ![r] = "over"]
      BY <1>2, <2>1 DEF Start, Skip, Goto, register
    <3>2. QED
      BY <1>1, <1>2, <3>1 DEF InTurn
  <2>2. CASE r \notin cancelled
    <3>0. at' = [at EXCEPT ![r] = "preparing"] /\ active_request' = [active_request EXCEPT ![SessionOf[r]] = r]
      BY <1>2, <2>2 DEF Start, Goto
    <3>1. /\ agents'[SessionOf[r]] = agent'[r]
          /\ agents'[SessionOf[r]] \in {r, agents[SessionOf[r]]} \ {None}
          /\ \A t \in Sessions : t # SessionOf[r] => agents'[t] \in {None, agents[t]}
          /\ \A x \in Requests : x # r => agent'[x] = agent[x]
          /\ disturbed \subseteq disturbed'
          /\ \A x \in Requests : InTurn(x) /\ SessionOf[x] \notin disturbed' =>
                 /\ SessionOf[x] # SessionOf[r]
                 /\ agents'[SessionOf[x]] = agents[SessionOf[x]]
      BY <1>2, <2>2, AgentsAfterStart
    <3>2. \A s \in Sessions : agents'[s] # None => SessionOf[agents'[s]] = s
      <4> SUFFICES ASSUME NEW s \in Sessions, agents'[s] # None PROVE SessionOf[agents'[s]] = s
        OBVIOUS
      <4>1. agents'[s] = agents[s] \/ (s = SessionOf[r] /\ agents'[s] = r)
        BY <3>1
      <4>2. QED
        BY <4>1 DEF AgentsHold
    <3>3. \A x \in Requests : agent'[x] # None => SessionOf[agent'[x]] = SessionOf[x]
      <4> SUFFICES ASSUME NEW x \in Requests, agent'[x] # None
                   PROVE  SessionOf[agent'[x]] = SessionOf[x]
        OBVIOUS
      <4>1. CASE x = r
        BY <3>1, <3>2, <4>1
      <4>2. CASE x # r
        BY <3>1, <4>2 DEF AgentsHold
      <4>3. QED
        BY <4>1, <4>2
    <3>4. \A x \in Requests : thread'[x] \in Working => agent'[x] # None
      BY <1>2, <3>1 DEF AgentsHold
    <3>5. ASSUME NEW s \in Sessions, active_request'[s] # None
          PROVE  agents'[s] \in {None, agent'[active_request'[s]]}
      <4>1. CASE s = SessionOf[r]
        BY <3>0, <3>1, <4>1
      <4>2. CASE s # SessionOf[r]
        <5>1. active_request'[s] = active_request[s] /\ active_request[s] \in Requests
          BY <3>0, <3>5, <4>2
        <5>2. SessionOf[active_request[s]] = s
          BY <3>5, <5>1 DEF RegisterHolds
        <5>3. agent'[active_request[s]] = agent[active_request[s]]
          BY <3>1, <4>2, <5>1, <5>2
        <5>4. agents[s] \in {None, agent[active_request[s]]}
          BY <3>5, <5>1 DEF AgentsHold
        <5>5. QED
          BY <3>1, <4>2, <5>1, <5>3, <5>4
      <4>3. QED
        BY <4>1, <4>2
    <3>6. ASSUME NEW x \in Requests, InTurn(x)', SessionOf[x] \notin disturbed'
          PROVE  agents'[SessionOf[x]] = agent'[x]
      <4>1. CASE x = r
        BY <3>1, <4>1
      <4>2. CASE x # r
        <5>1. InTurn(x)
          BY <3>0, <3>6, <4>2 DEF InTurn
        <5>2. agents[SessionOf[x]] = agent[x]
          BY <3>1, <3>6, <5>1 DEF AgentsHold
        <5>3. QED
          BY <3>1, <3>6, <4>2, <5>1, <5>2
      <4>3. QED
        BY <4>1, <4>2
    <3>7. QED
      BY <3>2, <3>3, <3>4, <3>5, <3>6 DEF AgentsHold
  <2>3. QED
    BY <2>1, <2>2
<1>3. ASSUME NEW r \in Requests, Arrive(r) PROVE AgentsHold'
  <2>1. at[r] = "new" /\ thread' = thread
    BY <1>3 DEF Arrive
  <2>2. CASE queue[LockFor(r)] = <<>>
    BY <1>2, <1>3, <2>1, <2>2, ArrivesAlone DEF Arrive
  <2>3. CASE queue[LockFor(r)] # <<>>
    <3>1. /\ at' = [at EXCEPT ![r] = "waiting"]
          /\ UNCHANGED <<agents, agent, active_request, disturbed>>
      BY <1>3, <2>3 DEF Arrive, Goto, register
    <3>2. QED
      BY <1>1, <2>1, <3>1 DEF InTurn
  <2>4. QED
    BY <2>2, <2>3
<1>4. ASSUME NEW r \in Requests, Drop(r) PROVE AgentsHold'
  BY <1>1, <1>4 DEF Drop, Goto, cached, register, InTurn
<1>5. ASSUME NEW r \in Requests, Resume(r) PROVE AgentsHold'
  BY <1>2, <1>5, ResumesAlone DEF Resume
<1>6. ASSUME NEW r \in Requests, Prepared(r) PROVE AgentsHold'
  BY <1>1, <1>6 DEF Prepared, Goto, cached, register, InTurn
<1>7. ASSUME NEW r \in Requests, ChatBegins(r) PROVE AgentsHold'
  BY <1>1, <1>7 DEF ChatBegins, register, InTurn, Working
<1>7a. ASSUME NEW r \in Requests, ChatCalls(r) \/ HelperStarts(r) \/ HelperEnds(r)
       PROVE  AgentsHold'
  BY <1>1, <1>7a DEF ChatCalls, HelperStarts, HelperEnds, cached, served, register, InTurn
<1>8. ASSUME NEW r \in Requests, NEW o \in Outcomes, ChatEnds(r, o) PROVE AgentsHold'
  BY <1>1, <1>8 DEF ChatEnds, register, InTurn, Working, Outcomes
<1>9. ASSUME NEW r \in Requests, Leave(r), UNCHANGED <<agents, agent>>,
             disturbed \subseteq disturbed'
      PROVE  AgentsHold'
  BY <1>1, <1>9 DEF Leave, Goto, InTurn, Working
<1>10. ASSUME NEW r \in Requests, Finish(r) \/ Fail(r) \/ DeadlinePasses(r) PROVE AgentsHold'
  BY <1>9, <1>10 DEF Finish, Fail, DeadlinePasses, cached
<1>11. ASSUME NEW r \in Requests, Respond(r) PROVE AgentsHold'
  BY <1>1, <1>11 DEF Respond, Goto, register, InTurn
<1>12. ASSUME NEW s \in Sessions, Reset(s) PROVE AgentsHold'
  <2>1. /\ agents' = [agents EXCEPT ![s] = None]
        /\ UNCHANGED <<agent, at, thread, active_request>>
        /\ disturbed' = IF InUse(session_locks[s], queue) THEN disturbed \cup {s} ELSE disturbed
    BY <1>12 DEF Reset, served, register
  <2>2. ASSUME NEW x \in Requests, InTurn(x), SessionOf[x] \notin disturbed'
        PROVE  SessionOf[x] # s
    <3>1. /\ lock[x] = session_locks[SessionOf[x]] /\ lock[x] # None
          /\ \E i \in DOMAIN queue[lock[x]] : queue[lock[x]][i] = x
      BY <2>1, <2>2 DEF LocksHold, Queued, Holding, InTurn
    <3>2. QED
      BY <2>1, <2>2, <3>1 DEF InUse
  <2>3. \A x \in Requests : InTurn(x)' <=> InTurn(x)
    BY <2>1 DEF InTurn
  <2>4. QED
    BY <2>1, <2>2, <2>3 DEF AgentsHold
<1>13. ASSUME NEW s \in Sessions, Stop(s) \/ Age(s) PROVE AgentsHold'
  BY <1>1, <1>13 DEF Stop, Age, cached, served, register, InTurn
<1>14. ASSUME NEW r \in Requests, GiveUp(r) PROVE AgentsHold'
  BY <1>1, <1>14 DEF GiveUp, cached, served, register, InTurn
<1>15. CASE UNCHANGED vars
  BY <1>1, <1>15 DEF vars, cached, served, register, InTurn
<1>16. QED
  BY <1>3, <1>4, <1>5, <1>6, <1>7, <1>7a, <1>8, <1>10, <1>11, <1>12, <1>13, <1>14, <1>15 DEF Next, Step

----------------------------------------------------------------------------
(***************************************************************************)
(* The histories of the sessions.                                          *)
(***************************************************************************)
\* The invariants the histories rest on.
Settled == LockTypes /\ AgentTypes /\ LocksHold /\ RegisterHolds /\ AgentsHold

\* HistoriesHold, of one session and of one chat, between any two statements.
SessionFits(s, file, owner, lists, place) ==
    /\ Sound(file[s], place)
    /\ owner[s] # None => Sound(lists[owner[s]], place) /\ Continues(lists[owner[s]], file[s])

ChatFits(x, list, place, answered) ==
    /\ place[x] = "chatting"
    /\ list # <<>> /\ Last(list).of = x
    /\ Last(list).by \in IF answered THEN {"assistant"} ELSE {"user", "calls"}

Speaks == {"running"} \cup Returned

LEMMA HistoriesFit ==
    HistoriesHold <=>
        /\ \A s \in Sessions \ disturbed : SessionFits(s, saved, agents, messages, at)
        /\ \A x \in Requests : thread[x] \in Speaks /\ SessionOf[x] \notin disturbed =>
              ChatFits(x, messages[agent[x]], at, thread[x] = "text")
  BY DEF HistoriesHold, SessionFits, ChatFits, Sound, Speaks, LastOf

LEMMA HistoriesFitNext ==
    HistoriesHold' <=>
        /\ \A s \in Sessions \ disturbed' : SessionFits(s, saved', agents', messages', at')
        /\ \A x \in Requests : thread'[x] \in Speaks /\ SessionOf[x] \notin disturbed' =>
              ChatFits(x, messages'[agent'[x]], at', thread'[x] = "text")
  BY DEF HistoriesHold, SessionFits, ChatFits, Sound, Speaks, LastOf

\* A turn of a session that is not disturbed has the session's agent, and nobody else's turn
\* or chat has.
LEMMA TurnOwnsAgent ==
    ASSUME Settled, NEW r \in Requests, InTurn(r), SessionOf[r] \notin disturbed
    PROVE  /\ SessionOf[r] \in Sessions
           /\ agent[r] \in Requests /\ agents[SessionOf[r]] = agent[r]
           /\ \A x \in Requests : (InTurn(x) \/ thread[x] \in Working) /\ agent[x] = agent[r] => x = r
<1>2. SessionOf[r] \in Sessions
  BY ChatAssumption
<1>3. agent[r] \in Requests /\ SessionOf[agent[r]] = SessionOf[r]
  BY <1>2 DEF Settled, AgentTypes, AgentsHold
<1>4. agents[SessionOf[r]] = agent[r]
  BY <1>2 DEF Settled, AgentsHold
<1>5. ASSUME NEW x \in Requests, InTurn(x) \/ thread[x] \in Working, agent[x] = agent[r] PROVE x = r
  <2>1. SessionOf[x] = SessionOf[r]
    BY <1>3, <1>5, ChatAssumption DEF Settled, AgentsHold
  <2>2. Holding(x) /\ Holding(r)
    BY <1>5, <2>1 DEF Settled, LocksHold, Holding, InTurn
  <2>3. QED
    BY <2>1, <2>2, OneHolder DEF Settled
<1>6. QED
  BY <1>2, <1>3, <1>4, <1>5

\* Every step keeps the histories in order.
LEMMA HistoriesKept == Settled /\ HistoriesHold /\ [Next]_vars => HistoriesHold'
<1> SUFFICES ASSUME Settled, HistoriesHold, [Next]_vars PROVE HistoriesHold'
  OBVIOUS
<1>0. /\ SessionOf \in [Requests -> Sessions] /\ None \notin Requests
      /\ at \in [Requests -> Places]
      /\ thread \in [Requests -> {"none"} \cup Working \cup Outcomes]
      /\ agents \in [Sessions -> Requests \cup {None}]
      /\ agent \in [Requests -> Requests \cup {None}]
      /\ messages \in [Requests -> Histories] /\ saved \in [Sessions -> Histories]
      /\ \A s \in Sessions : agents[s] # None => agents[s] \in Requests /\ SessionOf[agents[s]] = s
  BY ChatAssumption DEF Settled, LockTypes, AgentTypes, AgentsHold, Places, Histories
<1> USE <1>0
<1> HIDE DEF Histories
<1>a. \A s \in Sessions \ disturbed : SessionFits(s, saved, agents, messages, at)
  BY HistoriesFit
<1>b. ASSUME NEW x \in Requests, thread[x] \in Speaks, SessionOf[x] \notin disturbed
      PROVE  /\ ChatFits(x, messages[agent[x]], at, thread[x] = "text")
             /\ InTurn(x) /\ agent[x] \in Requests
             /\ \A y \in Requests : (InTurn(y) \/ thread[y] \in Working) /\ agent[y] = agent[x] => y = x
  <2>1. ChatFits(x, messages[agent[x]], at, thread[x] = "text")
    BY <1>b, HistoriesFit
  <2>2. InTurn(x)
    BY <2>1 DEF ChatFits, InTurn
  <2>3. QED
    BY <1>b, <2>1, <2>2, TurnOwnsAgent
<1>c. ASSUME NEW t \in Sessions, SessionFits(t, saved, agents, messages, at),
             \A x \in Requests : at[x] \in {"responding", "over"} => at'[x] \in {"responding", "over"},
             saved'[t] = saved[t],
             agents'[t] # None => agents'[t] = agents[t] /\ messages'[agents'[t]] = messages[agents'[t]]
      PROVE  SessionFits(t, saved', agents', messages', at')
  <2>1. saved[t] \in Histories /\ Sound(saved[t], at)
    BY <1>c DEF SessionFits
  <2>2. Sound(saved'[t], at')
    BY <1>c, <2>1, SoundLater
  <2>3. ASSUME agents'[t] # None
        PROVE  Sound(messages'[agents'[t]], at') /\ Continues(messages'[agents'[t]], saved'[t])
    <3>1. /\ agents[t] # None /\ messages'[agents'[t]] = messages[agents[t]]
          /\ messages[agents[t]] \in Histories
      BY <1>c, <2>3
    <3>2. Sound(messages[agents[t]], at) /\ Continues(messages[agents[t]], saved[t])
      BY <1>c, <3>1 DEF SessionFits
    <3>3. Sound(messages[agents[t]], at')
      BY <1>c, <3>1, <3>2, SoundLater
    <3>4. QED
      BY <1>c, <3>1, <3>2, <3>3
  <2>4. QED
    BY <2>2, <2>3 DEF SessionFits
<1>1. ASSUME UNCHANGED <<messages, saved>>, disturbed \subseteq disturbed',
             \A s \in Sessions : agents'[s] \in {None, agents[s]},
             \A x \in Requests : at[x] \in {"responding", "over"} => at'[x] \in {"responding", "over"},
             \A x \in Requests : thread'[x] \in Speaks /\ SessionOf[x] \notin disturbed' =>
                 /\ thread[x] \in Speaks /\ (thread'[x] = "text" <=> thread[x] = "text")
                 /\ at'[x] = at[x] /\ agent'[x] = agent[x]
      PROVE  HistoriesHold'
  <2>1. ASSUME NEW t \in Sessions \ disturbed' PROVE SessionFits(t, saved', agents', messages', at')
    BY <1>1, <1>a, <1>c
  <2>2. ASSUME NEW x \in Requests, thread'[x] \in Speaks, SessionOf[x] \notin disturbed'
        PROVE  ChatFits(x, messages'[agent'[x]], at', thread'[x] = "text")
    BY <1>1, <1>b, <2>2 DEF ChatFits
  <2>3. QED
    BY <2>1, <2>2, HistoriesFitNext
<1>2. ASSUME NEW r \in Requests, NEW l, NEW locks, NEW q, Start(r, l, locks, q),
             UNCHANGED <<saved, thread>>, at[r] \in {"new", "waiting"},
             \A x \in Requests : InTurn(x) /\ SessionOf[x] \notin disturbed =>
                 SessionOf[x] # SessionOf[r] /\ InUse(locks[SessionOf[x]], q)
      PROVE  HistoriesHold'
  <2>0. /\ \E p \in {"over", "preparing"} : at' = [at EXCEPT ![r] = p]
        /\ \A x \in Requests : thread[x] \in Speaks /\ SessionOf[x] \notin disturbed => x # r
    <3>1. \E p \in {"over", "preparing"} : at' = [at EXCEPT ![r] = p]
      BY <1>2 DEF Start, Skip, Goto
    <3>2. \A x \in Requests : thread[x] \in Speaks /\ SessionOf[x] \notin disturbed => x # r
      BY <1>2, <1>b DEF InTurn
    <3>3. QED
      BY <3>1, <3>2
  <2>0a. /\ \A x \in Requests : at[x] \in {"responding", "over"} => at'[x] \in {"responding", "over"}
         /\ \A x \in Requests : x # r => at'[x] = at[x]
    BY <1>2, <2>0
  <2>1. CASE r \in cancelled
    <3>1. UNCHANGED <<agents, agent, messages, disturbed>>
      BY <1>2, <2>1 DEF Start, Skip
    <3>2. QED
      BY <1>1, <1>2, <2>0, <2>0a, <3>1
  <2>2. CASE r \notin cancelled
    <3> DEFINE s == SessionOf[r]
    <3>1. /\ agents'[s] \in {r, agents[s]} \ {None}
          /\ \A t \in Sessions : t # s => agents'[t] \in {None, agents[t]}
          /\ \A x \in Requests : x # r => agent'[x] = agent[x]
          /\ disturbed \subseteq disturbed'
          /\ \/ messages' = messages /\ agents'[s] = agents[s]
             \/ messages' = [messages EXCEPT ![r] = saved[s]] /\ agents'[s] = r
      BY <1>2, <2>2, AgentsAfterStart DEF Settled
    <3>2. ASSUME NEW x \in Requests, thread'[x] \in Speaks, SessionOf[x] \notin disturbed'
          PROVE  /\ thread'[x] = thread[x] /\ thread[x] \in Speaks /\ SessionOf[x] \notin disturbed
                 /\ at'[x] = at[x] /\ agent'[x] = agent[x] /\ agent[x] \in Requests /\ agent[x] # r
      <4>1. thread'[x] = thread[x] /\ thread[x] \in Speaks /\ SessionOf[x] \notin disturbed
        BY <1>2, <3>1, <3>2
      <4>2. InTurn(x) /\ agent[x] \in Requests /\ x # r
        BY <1>b, <2>0, <4>1
      <4>3. SessionOf[x] # s /\ SessionOf[agent[x]] = SessionOf[x]
        BY <1>2, <4>1, <4>2 DEF Settled, AgentsHold
      <4>4. QED
        BY <2>0a, <3>1, <4>1, <4>2, <4>3
    <3>3. CASE messages' = messages /\ agents'[s] = agents[s]
      <4>1. \A t \in Sessions : agents'[t] \in {None, agents[t]}
        BY <3>1, <3>3
      <4>2. QED
        BY <1>1, <1>2, <2>0a, <3>1, <3>2, <3>3, <4>1
    <3>4. CASE messages' = [messages EXCEPT ![r] = saved[s]] /\ agents'[s] = r
      <4>1. messages'[r] = saved[s] /\ \A a \in Requests : a # r => messages'[a] = messages[a]
        BY <3>4
      <4>2. ASSUME NEW t \in Sessions \ disturbed'
            PROVE  SessionFits(t, saved', agents', messages', at')
        <5>1. SessionFits(t, saved, agents, messages, at) /\ saved'[t] = saved[t]
          BY <1>2, <1>a, <3>1
        <5>2. CASE t = s
          <6>1. saved[t] \in Histories /\ Sound(saved[t], at)
            BY <5>1 DEF SessionFits
          <6>2. Continues(saved[t], saved[t])
            BY <6>1, ContinuesItself
          <6>3. Sound(saved[t], at')
            BY <2>0a, <6>1, SoundLater
          <6>4. messages'[agents'[t]] = saved[t]
            BY <3>4, <4>1, <5>2
          <6>5. QED
            BY <5>1, <6>2, <6>3, <6>4 DEF SessionFits
        <5>3. CASE t # s
          <6>1. agents'[t] # None => agents'[t] = agents[t] /\ messages'[agents'[t]] = messages[agents'[t]]
            BY <3>1, <4>1, <5>3
          <6>2. QED
            BY <1>c, <2>0a, <5>1, <6>1
        <5>4. QED
          BY <5>2, <5>3
      <4>3. ASSUME NEW x \in Requests, thread'[x] \in Speaks, SessionOf[x] \notin disturbed'
            PROVE  ChatFits(x, messages'[agent'[x]], at', thread'[x] = "text")
        <5>1. messages'[agent'[x]] = messages[agent[x]]
          BY <3>2, <4>1, <4>3
        <5>2. ChatFits(x, messages[agent[x]], at, thread[x] = "text")
          BY <1>b, <3>2, <4>3
        <5>3. QED
          BY <3>2, <4>3, <5>1, <5>2 DEF ChatFits
      <4>4. QED
        BY <4>2, <4>3, HistoriesFitNext
    <3>5. QED
      BY <3>1, <3>3, <3>4
  <2>3. QED
    BY <2>1, <2>2
<1>3. ASSUME NEW r \in Requests, Arrive(r) PROVE HistoriesHold'
  <2>1. at[r] = "new" /\ UNCHANGED <<saved, thread>>
    BY <1>3 DEF Arrive
  <2>2. CASE queue[LockFor(r)] = <<>>
    BY <1>2, <1>3, <2>1, <2>2, ArrivesAlone DEF Arrive, Settled
  <2>3. CASE queue[LockFor(r)] # <<>>
    <3>1. UNCHANGED <<agents, messages, agent, disturbed>> /\ at' = [at EXCEPT ![r] = "waiting"]
      BY <1>3, <2>3 DEF Arrive, Goto
    <3>2. \A x \in Requests : thread[x] \in Speaks /\ SessionOf[x] \notin disturbed => x # r
      BY <1>b, <2>1 DEF InTurn
    <3>3. /\ \A x \in Requests : at[x] \in {"responding", "over"} => at'[x] \in {"responding", "over"}
          /\ \A x \in Requests : x # r => at'[x] = at[x]
      BY <2>1, <3>1
    <3>4. QED
      BY <1>1, <2>1, <3>1, <3>2, <3>3
  <2>4. QED
    BY <2>2, <2>3
<1>4. ASSUME NEW r \in Requests, NEW p \in {"chatting", "over"}, at' = [at EXCEPT ![r] = p],
             at[r] # "chatting", p = "chatting" => at[r] = "preparing",
             UNCHANGED <<messages, saved, agents, agent, disturbed>>,
             \A x \in Requests : thread'[x] \in Speaks => thread'[x] = thread[x]
      PROVE  HistoriesHold'
  <2>1. \A x \in Requests : thread[x] \in Speaks /\ SessionOf[x] \notin disturbed => x # r
    BY <1>4, <1>b DEF ChatFits
  <2>2. /\ \A x \in Requests : at[x] \in {"responding", "over"} => at'[x] \in {"responding", "over"}
        /\ \A x \in Requests : x # r => at'[x] = at[x]
    BY <1>4
  <2>3. QED
    BY <1>1, <1>4, <2>1, <2>2
<1>5. ASSUME NEW r \in Requests, Drop(r) \/ Prepared(r) \/ Respond(r) PROVE HistoriesHold'
  <2>1. CASE Drop(r)
    BY <1>4, <2>1 DEF Drop, Goto, cached
  <2>2. CASE Prepared(r)
    <3>1. \A x \in Requests : thread'[x] \in Speaks => thread'[x] = thread[x]
      BY <2>2 DEF Prepared, Speaks, Returned
    <3>2. /\ at[r] = "preparing" /\ at' = [at EXCEPT ![r] = "chatting"]
          /\ UNCHANGED <<messages, saved, agents, agent, disturbed>>
      BY <2>2 DEF Prepared, Goto, cached
    <3>3. QED
      BY <1>4, <3>1, <3>2
  <2>3. CASE Respond(r)
    BY <1>4, <2>3 DEF Respond, Goto
  <2>4. QED
    BY <1>5, <2>1, <2>2, <2>3
<1>6. ASSUME NEW r \in Requests, Resume(r) PROVE HistoriesHold'
  BY <1>2, <1>6, ResumesAlone DEF Resume, Settled
<1>7. ASSUME NEW r \in Requests, NEW who \in {"user", "calls", "assistant"}, thread[r] \in Working,
             NEW n \in Compressed(Append(messages[agent[r]], Entry(r, who))),
             messages' = [messages EXCEPT ![agent[r]] = n],
             UNCHANGED <<agents, agent, saved, disturbed, at>>,
             \A x \in Requests : x # r => thread'[x] = thread[x],
             thread'[r] \in Speaks => (who = "assistant" <=> thread'[r] = "text"),
             who # "user" => thread[r] = "running",
             who = "calls" => ~Called(r)
      PROVE  HistoriesHold'
  <2> DEFINE a == agent[r]
             h == messages[a]
  <2>0. a \in Requests /\ h \in Histories /\ SessionOf[a] = SessionOf[r]
    BY <1>7 DEF Settled, AgentsHold
  <2>1. messages'[a] = n /\ \A b \in Requests : b # a => messages'[b] = messages[b]
    BY <1>7, <2>0
  <2>2. /\ n \in Histories /\ n # <<>> /\ Last(n).of = r /\ Last(n).by = who
        /\ \A g \in Histories : Continues(h, g) => Continues(n, g)
        /\ Sound(h, at) /\ (who # "user" => Follows(h, r, who) /\ at[r] \notin {"responding", "over"})
               => Sound(n, at)
    BY <1>7, <2>0, SaidHistory
  <2>3. ASSUME SessionOf[r] \notin disturbed
        PROVE  /\ at[r] = "chatting" /\ agents[SessionOf[r]] = a
               /\ Sound(h, at) /\ Continues(h, saved[SessionOf[r]])
               /\ who # "user" => Follows(h, r, who)
    <3>1. at[r] = "chatting"
      BY <1>7, <2>3 DEF Settled, LocksHold
    <3>2. agents[SessionOf[r]] = a
      BY <2>3, <3>1, TurnOwnsAgent DEF InTurn
    <3>3. SessionFits(SessionOf[r], saved, agents, messages, at)
      BY <1>a, <2>3
    <3>4. Sound(h, at) /\ Continues(h, saved[SessionOf[r]])
      BY <2>0, <3>2, <3>3 DEF SessionFits
    <3>5. ASSUME who # "user" PROVE Follows(h, r, who)
      <4>1. thread[r] = "running" /\ thread[r] \in Speaks /\ thread[r] # "text"
        BY <1>7, <3>5 DEF Speaks
      <4>2. h # <<>> /\ Last(h).of = r /\ Last(h).by \in {"user", "calls"}
        BY <1>b, <2>3, <4>1 DEF ChatFits
      <4>3. who = "calls" => Last(h).by = "user"
        BY <1>7, <4>2 DEF Called
      <4>4. QED
        BY <4>2, <4>3 DEF Follows
    <3>6. QED
      BY <3>1, <3>2, <3>4, <3>5
  <2>4. ASSUME NEW t \in Sessions \ disturbed' PROVE SessionFits(t, saved', agents', messages', at')
    <3>1. SessionFits(t, saved, agents, messages, at) /\ saved[t] \in Histories
      BY <1>7, <1>a, <2>4
    <3>2. CASE agents[t] # a
      BY <1>7, <1>c, <2>1, <3>1, <3>2
    <3>3. CASE agents[t] = a
      <4>1. t = SessionOf[r] /\ SessionOf[r] \notin disturbed
        BY <1>7, <2>0, <2>4, <3>3
      <4>2. Sound(n, at) /\ Continues(n, saved[t])
        BY <2>2, <2>3, <3>1, <4>1
      <4>3. messages'[agents'[t]] = n
        BY <1>7, <2>1, <3>3
      <4>4. QED
        BY <1>7, <3>1, <4>2, <4>3 DEF SessionFits
    <3>4. QED
      BY <3>2, <3>3
  <2>5. ASSUME NEW x \in Requests, thread'[x] \in Speaks, SessionOf[x] \notin disturbed'
        PROVE  ChatFits(x, messages'[agent'[x]], at', thread'[x] = "text")
    <3>1. CASE x = r
      <4>1. at'[r] = "chatting" /\ messages'[agent'[x]] = n
        BY <1>7, <2>1, <2>3, <2>5, <3>1
      <4>2. who \in IF thread'[r] = "text" THEN {"assistant"} ELSE {"user", "calls"}
        BY <1>7, <2>5, <3>1
      <4>3. QED
        BY <2>2, <3>1, <4>1, <4>2 DEF ChatFits
    <3>2. CASE x # r
      <4>1. thread[x] \in Speaks /\ thread'[x] = thread[x] /\ SessionOf[x] \notin disturbed
        BY <1>7, <2>5, <3>2
      <4>2. agent[x] # a /\ agent[x] \in Requests
        BY <1>7, <1>b, <3>2, <4>1
      <4>3. messages'[agent'[x]] = messages[agent[x]]
        BY <1>7, <2>1, <4>2
      <4>4. QED
        BY <1>7, <1>b, <4>1, <4>3
    <3>3. QED
      BY <3>1, <3>2
  <2>6. QED
    BY <2>4, <2>5, HistoriesFitNext
<1>8. ASSUME NEW r \in Requests, ChatBegins(r) PROVE HistoriesHold'
  <2>1. PICK n \in Compressed(Append(messages[agent[r]], Entry(r, "user"))) :
            messages' = [messages EXCEPT ![agent[r]] = n]
    BY <1>8 DEF ChatBegins, Says
  <2>2. /\ thread[r] \in Working /\ thread' = [thread EXCEPT ![r] = "running"]
        /\ UNCHANGED <<agents, agent, saved, disturbed, at>>
    BY <1>8 DEF ChatBegins, Working
  <2>3. thread'[r] # "text" /\ \A x \in Requests : x # r => thread'[x] = thread[x]
    BY <2>2
  <2>4. QED
    BY <1>7, <2>1, <2>2, <2>3
<1>9. ASSUME NEW r \in Requests, ChatCalls(r) PROVE HistoriesHold'
  <2>1. PICK n \in Compressed(Append(messages[agent[r]], Entry(r, "calls"))) :
            messages' = [messages EXCEPT ![agent[r]] = n]
    BY <1>9 DEF ChatCalls, Says
  <2>2. /\ thread[r] = "running" /\ thread[r] \in Working /\ ~Called(r)
        /\ UNCHANGED <<agents, agent, saved, disturbed, at, thread>>
    BY <1>9 DEF ChatCalls, Working, served
  <2>3. QED
    BY <1>7, <2>1, <2>2
<1>10. ASSUME NEW r \in Requests, NEW o \in Outcomes, ChatEnds(r, o) PROVE HistoriesHold'
  <2>1. /\ thread[r] = "running" /\ thread[r] \in Working
        /\ UNCHANGED <<agents, agent, saved, disturbed, at>>
        /\ thread' = [thread EXCEPT ![r] = IF at[r] = "chatting" THEN o ELSE "none"]
    BY <1>10 DEF ChatEnds, Working
  <2>2. thread'[r] \in {o, "none"} /\ \A x \in Requests : x # r => thread'[x] = thread[x]
    BY <2>1
  <2>3. CASE o = "text"
    <3>1. messages' = [messages EXCEPT ![agent[r]] = Append(@, Entry(r, "assistant"))]
      BY <1>10, <2>3 DEF ChatEnds
    <3>2. agent[r] \in Requests
      BY <2>1 DEF Settled, AgentsHold
    <3>3. messages' = [messages EXCEPT ![agent[r]] = Append(messages[agent[r]], Entry(r, "assistant"))]
      BY <3>1, <3>2
    <3>4. Append(messages[agent[r]], Entry(r, "assistant"))
              \in Compressed(Append(messages[agent[r]], Entry(r, "assistant")))
      BY DEF Compressed
    <3>5. thread'[r] \in Speaks => thread'[r] = "text"
      BY <2>2, <2>3 DEF Speaks, Returned
    <3>6. QED
      BY <1>7, <2>1, <2>2, <3>3, <3>4, <3>5
  <2>4. CASE o # "text"
    <3>1. messages' = messages
      BY <1>10, <2>4 DEF ChatEnds
    <3>2. thread[r] \in Speaks /\ thread[r] # "text" /\ thread'[r] # "text"
      BY <2>1, <2>2, <2>4 DEF Speaks
    <3>3. QED
      BY <1>1, <2>1, <2>2, <3>1, <3>2
  <2>5. QED
    BY <2>3, <2>4
<1>11. ASSUME NEW r \in Requests, Finish(r) \/ Fail(r) PROVE HistoriesHold'
  <2> DEFINE a == agent[r]
             t == SessionOf[r]
             h == messages[a]
             n == messages'[a]
  <2>1. /\ InTurn(r) /\ thread[r] # "running"
        /\ at' = [at EXCEPT ![r] = "responding"]
        /\ thread' = [thread EXCEPT ![r] = "none"]
        /\ saved' \in {saved, [saved EXCEPT ![t] = n]}
        /\ UNCHANGED <<agents, agent, disturbed>>
    <3>1. Leave(r) /\ InTurn(r) /\ thread[r] # "running" /\ UNCHANGED <<agents, agent, disturbed>>
      BY <1>11 DEF Finish, Fail, InTurn, Working, Returned
    <3>2. saved' \in {saved, [saved EXCEPT ![t] = n]}
      BY <1>11 DEF Finish, Fail
    <3>3. at' = [at EXCEPT ![r] = "responding"] /\ thread' = [thread EXCEPT ![r] = "none"]
      BY <3>1 DEF Leave, Goto
    <3>4. QED
      BY <3>1, <3>2, <3>3
  <2>2. a \in Requests /\ t \in Sessions /\ h \in Histories /\ SessionOf[a] = t
    BY <2>1 DEF Settled, AgentTypes, AgentsHold
  <2>3. \/ messages' = messages
        \/ /\ messages' = [messages EXCEPT ![a] = Replaced(h, r)]
           /\ r \in Research /\ thread[r] \in Speaks
    <3>1. messages' = messages \/ messages' = Finalized(r)
      BY <1>11 DEF Finish, Fail
    <3>2. \/ Finalized(r) = messages
          \/ /\ Finalized(r) = [messages EXCEPT ![a] = Replaced(h, r)]
             /\ r \in Research /\ thread[r] \in Speaks
      BY <2>2 DEF Finalized, Speaks
    <3>3. QED
      BY <3>1, <3>2
  <2>4. /\ n \in Histories /\ \A b \in Requests : b # a => messages'[b] = messages[b]
        /\ n = h \/ (n = Replaced(h, r) /\ r \in Research /\ thread[r] \in Speaks)
    <3>1. Replaced(h, r) \in Histories
      BY <2>2, ReplacedFields
    <3>2. QED
      BY <2>2, <2>3, <3>1
  <2>5. \A x \in Requests : at[x] \in {"responding", "over"} => at'[x] \in {"responding", "over"}
    BY <2>1
  <2> HIDE DEF a, t, h, n
  <2>6. ASSUME t \notin disturbed PROVE SessionFits(t, saved', agents', messages', at')
    <3>1. agents[t] = a /\ agents[t] # None
      BY <2>1, <2>2, <2>6, TurnOwnsAgent DEF a, t
    <3>2. SessionFits(t, saved, agents, messages, at) /\ saved[t] \in Histories
      BY <1>a, <2>2, <2>6
    <3>3. Sound(saved[t], at) /\ Sound(h, at) /\ Continues(h, saved[t])
      BY <3>1, <3>2 DEF SessionFits, h
    <3>4. Sound(saved[t], at')
      BY <2>5, <3>2, <3>3, SoundLater
    <3>5. Sound(n, at') /\ Continues(n, saved[t])
      <4>1. CASE n = h
        BY <2>2, <2>5, <3>3, <4>1, SoundLater
      <4>2. CASE n # h
        <5>1. n = Replaced(h, r) /\ r \in Research /\ thread[r] \in Speaks
          BY <2>4, <4>2
        <5>2. ChatFits(r, messages[agent[r]], at, thread[r] = "text")
          BY <1>b, <2>6, <5>1 DEF t
        <5>3. h # <<>> /\ Last(h).of = r
          BY <5>2 DEF ChatFits, a, h
        <5>4. Sound(n, at')
          BY <2>1, <2>2, <3>3, <5>1, <5>3, ReplacedSound
        <5>5. Continues(n, saved[t])
          BY <2>2, <3>2, <3>3, <5>1, ReplacedHistory
        <5>6. QED
          BY <5>4, <5>5
      <4>3. QED
        BY <4>1, <4>2
    <3>6. Continues(n, n)
      BY <2>4, ContinuesItself
    <3>7. saved'[t] \in {saved[t], n}
      BY <2>1, <2>2 DEF t, n
    <3>8. messages'[agents'[t]] = n
      BY <2>1, <3>1 DEF n
    <3>9. QED
      BY <3>4, <3>5, <3>6, <3>7, <3>8 DEF SessionFits
  <2>7. ASSUME NEW s \in Sessions \ disturbed' PROVE SessionFits(s, saved', agents', messages', at')
    <3>1. CASE s = t
      BY <2>1, <2>6, <2>7, <3>1
    <3>2. CASE s # t
      <4>1. saved'[s] = saved[s] /\ SessionFits(s, saved, agents, messages, at)
        BY <1>a, <2>1, <2>7, <3>2 DEF t
      <4>2. agents'[s] # None => agents'[s] = agents[s] /\ messages'[agents'[s]] = messages[agents'[s]]
        BY <2>1, <2>2, <2>4, <2>7, <3>2
      <4>3. QED
        BY <1>c, <2>5, <4>1, <4>2
    <3>3. QED
      BY <3>1, <3>2
  <2>8. ASSUME NEW x \in Requests, thread'[x] \in Speaks, SessionOf[x] \notin disturbed'
        PROVE  ChatFits(x, messages'[agent'[x]], at', thread'[x] = "text")
    <3>1. /\ x # r /\ thread'[x] = thread[x] /\ at'[x] = at[x] /\ agent'[x] = agent[x]
          /\ SessionOf[x] \notin disturbed
      BY <2>1, <2>8 DEF Speaks, Returned
    <3>2. agent[x] # a /\ agent[x] \in Requests
      BY <1>b, <2>1, <2>8, <3>1 DEF a
    <3>3. messages'[agent'[x]] = messages[agent[x]]
      BY <2>4, <3>1, <3>2
    <3>4. ChatFits(x, messages[agent[x]], at, thread[x] = "text")
      BY <1>b, <2>8, <3>1
    <3>5. QED
      BY <3>1, <3>3, <3>4 DEF ChatFits
  <2>9. QED
    BY <2>7, <2>8, HistoriesFitNext
<1>12. ASSUME NEW r \in Requests, DeadlinePasses(r) PROVE HistoriesHold'
  <2>1. /\ UNCHANGED <<agents, agent, messages, saved>> /\ at[r] = "chatting"
        /\ disturbed' = IF thread[r] = "running" THEN disturbed \cup {SessionOf[r]} ELSE disturbed
        /\ thread' = [thread EXCEPT ![r] = IF @ = "running" THEN @ ELSE "none"]
        /\ at' = [at EXCEPT ![r] = "responding"]
    BY <1>12 DEF DeadlinePasses, Leave, Goto, cached
  <2>2. /\ \A x \in Requests : at[x] \in {"responding", "over"} => at'[x] \in {"responding", "over"}
        /\ \A x \in Requests : x # r => at'[x] = at[x] /\ thread'[x] = thread[x]
        /\ disturbed \subseteq disturbed'
    BY <2>1
  <2>3. thread'[r] \in Speaks => SessionOf[r] \in disturbed'
    BY <2>1 DEF Speaks, Returned
  <2>4. QED
    BY <1>1, <2>1, <2>2, <2>3
<1>13. ASSUME NEW s \in Sessions, Reset(s) PROVE HistoriesHold'
  <2>1. /\ saved' = [saved EXCEPT ![s] = <<>>]
        /\ agents' = [agents EXCEPT ![s] = None]
        /\ messages' = IF agents[s] = None THEN messages ELSE [messages EXCEPT ![agents[s]] = <<>>]
        /\ disturbed' = IF InUse(session_locks[s], queue) THEN disturbed \cup {s} ELSE disturbed
        /\ UNCHANGED <<agent, thread, at>>
    BY <1>13 DEF Reset, served
  <2>2. Sound(<<>>, at')
    BY DEF Sound, Orderly, Paired, SummaryFirst, OwnWords, Heard
  <2>3. ASSUME NEW t \in Sessions \ disturbed' PROVE SessionFits(t, saved', agents', messages', at')
    <3>1. CASE t = s
      BY <2>1, <2>2, <3>1 DEF SessionFits
    <3>2. CASE t # s
      <4>1. /\ saved'[t] = saved[t] /\ agents'[t] = agents[t] /\ t \notin disturbed
            /\ \A x \in Requests : at[x] \in {"responding", "over"} => at'[x] \in {"responding", "over"}
        BY <2>1, <2>3, <3>2
      <4>2. agents[t] # None => messages'[agents[t]] = messages[agents[t]]
        BY <2>1, <3>2
      <4>3. QED
        BY <1>a, <1>c, <4>1, <4>2
    <3>3. QED
      BY <3>1, <3>2
  <2>4. ASSUME NEW x \in Requests, thread'[x] \in Speaks, SessionOf[x] \notin disturbed'
        PROVE  ChatFits(x, messages'[agent'[x]], at', thread'[x] = "text")
    <3>1. /\ thread'[x] = thread[x] /\ thread[x] \in Speaks /\ SessionOf[x] \notin disturbed
          /\ agent'[x] = agent[x]
      BY <2>1, <2>4
    <3>2. InTurn(x) /\ agent[x] \in Requests
      BY <1>b, <3>1
    <3>3. /\ lock[x] = session_locks[SessionOf[x]] /\ lock[x] # None
          /\ \E i \in DOMAIN queue[lock[x]] : queue[lock[x]][i] = x
      BY <3>1, <3>2 DEF Settled, LocksHold, Queued, Holding, InTurn
    <3>4. SessionOf[x] # s
      BY <2>1, <2>4, <3>3 DEF InUse
    <3>5. SessionOf[agent[x]] = SessionOf[x]
      BY <3>2 DEF Settled, AgentsHold
    <3>6. messages'[agent[x]] = messages[agent[x]]
      BY <2>1, <3>2, <3>4, <3>5
    <3>7. ChatFits(x, messages[agent[x]], at, thread[x] = "text")
      BY <1>b, <3>1
    <3>8. QED
      BY <2>1, <3>1, <3>6, <3>7
  <2>5. QED
    BY <2>3, <2>4, HistoriesFitNext
<1>14. ASSUME UNCHANGED <<messages, saved, agents, agent, at, thread, disturbed>> PROVE HistoriesHold'
  BY <1>1, <1>14
<1>15. ASSUME NEW s \in Sessions, Stop(s) \/ Age(s) PROVE HistoriesHold'
  BY <1>14, <1>15 DEF Stop, Age, cached, served
<1>16. ASSUME NEW r \in Requests, GiveUp(r) \/ HelperStarts(r) \/ HelperEnds(r) PROVE HistoriesHold'
  BY <1>14, <1>16 DEF GiveUp, HelperStarts, HelperEnds, cached, served
<1>17. CASE UNCHANGED vars
  BY <1>14, <1>17 DEF vars, cached, served
<1>18. QED
  BY <1>3, <1>5, <1>6, <1>8, <1>9, <1>10, <1>11, <1>12, <1>13, <1>15, <1>16, <1>17 DEF Next, Step

----------------------------------------------------------------------------
(***************************************************************************)
(* The theorems.                                                           *)
(***************************************************************************)
LEMMA InitInvariant == Init => IInv
<1> SUFFICES ASSUME Init PROVE IInv
  OBVIOUS
<1>1. LockTypes
  BY DEF Init, LockTypes
<1>2. <<>> \in Seq(Entries)
  OBVIOUS
<1>3. AgentTypes
  BY <1>2, ChatAssumption DEF Init, AgentTypes, InTurn
<1>4. LocksHold /\ RegisterHolds
  BY DEF Init, LocksHold, RegisterHolds, Queued, Holding, InTurn, Working
<1>5. AgentsHold
  BY DEF Init, AgentsHold, InTurn, Working
<1>6. Orderly(<<>>) /\ Heard(<<>>, at)
  BY DEF Orderly, Paired, SummaryFirst, OwnWords, Heard
<1>7. HistoriesHold
  BY <1>6 DEF Init, HistoriesHold, Returned
<1>8. QED
  BY <1>1, <1>3, <1>4, <1>5, <1>7 DEF IInv, TypeOK

LEMMA StepInvariant == IInv /\ [Next]_vars => IInv'
  BY LocksKept, RegisterKept, AgentTypesKept, AgentsKept, HistoriesKept DEF IInv, TypeOK, Settled

\* The inductive invariant holds in every behaviour of the pipeline.
THEOREM InvariantHolds == Spec => []IInv
  BY InitInvariant, StepInvariant, PTL DEF Spec

\* The types of the pipeline's state, and that no turn is without an agent.
THEOREM TypesAreKept == Spec => []TypeOK
<1>1. IInv => TypeOK
  BY DEF IInv
<1>2. QED
  BY <1>1, InvariantHolds, PTL

\* The turns of a session do not overlap, however many sessions and requests there are: not
\* unless its lock was thrown away in use or a research chat outlived its deadline.
THEOREM TurnsOfASessionAreSerial == Spec => []TurnsAreSerial
<1>1. IInv => TurnsAreSerial
  BY SerialTurns DEF IInv
<1>2. QED
  BY <1>1, InvariantHolds, PTL

\* The register of active requests knows no turn that is over, and every turn of a session
\* that nobody disturbs.
THEOREM RegisterIsTrue == Spec => []RegisterMatchesTurns
<1>1. IInv => RegisterMatchesTurns
  <2> SUFFICES ASSUME IInv, NEW s \in Sessions
               PROVE  LET turns == {r \in Requests : SessionOf[r] = s /\ InTurn(r)}
                      IN  /\ active_request[s] \in turns \cup {None}
                          /\ s \in active => turns # {}
                          /\ s \notin disturbed =>
                              \/ turns = {} /\ s \notin active
                              \/ turns = {active_request[s]} /\ s \in active
    BY DEF RegisterMatchesTurns
  <2> DEFINE turns == {r \in Requests : SessionOf[r] = s /\ InTurn(r)}
  <2>1. active_request[s] \in turns \cup {None}
    BY DEF IInv, TypeOK, LockTypes, RegisterHolds
  <2>2. s \in active => turns # {}
    BY DEF IInv, RegisterHolds
  <2>3. ASSUME s \notin disturbed, NEW r \in turns
        PROVE  turns = {active_request[s]} /\ s \in active
    BY <2>3 DEF IInv, RegisterHolds
  <2>4. QED
    BY <2>1, <2>2, <2>3
<1>2. QED
  BY <1>1, InvariantHolds, PTL

\* A save continues what was saved before.
LEMMA SavesGrow ==
    IInv /\ [Next]_vars =>
        \A s \in Sessions \ disturbed' : saved'[s] = <<>> \/ Continues(saved'[s], saved[s])
<1> SUFFICES ASSUME IInv, [Next]_vars, NEW s \in Sessions, s \notin disturbed'
             PROVE  saved'[s] = <<>> \/ Continues(saved'[s], saved[s])
  OBVIOUS
<1>0. /\ agents \in [Sessions -> Requests \cup {None}] /\ saved \in [Sessions -> Histories]
      /\ messages \in [Requests -> Histories]
      /\ None \notin Requests
  BY ChatAssumption DEF IInv, TypeOK, AgentTypes, Histories
<1> HIDE DEF Histories
<1>1. Continues(saved[s], saved[s])
  BY <1>0, ContinuesItself
<1>2. CASE saved' = saved
  BY <1>1, <1>2
<1>3. ASSUME NEW r \in Requests, Finish(r)
      PROVE  Continues(saved'[s], saved[s])
  <2>1. /\ InTurn(r) /\ UNCHANGED disturbed /\ messages' = Finalized(r)
        /\ saved' = [saved EXCEPT ![SessionOf[r]] = messages'[agent[r]]]
    BY <1>3 DEF Finish, InTurn
  <2>2. CASE s = SessionOf[r]
    <3>1. agents[s] = agent[r] /\ agent[r] \in Requests
      BY <1>0, <2>1, <2>2 DEF IInv, TypeOK, AgentTypes, AgentsHold
    <3>2. Continues(messages[agent[r]], saved[s])
      BY <1>0, <2>1, <3>1 DEF IInv, HistoriesHold
    <3>3. Continues(Replaced(messages[agent[r]], r), saved[s])
      BY <1>0, <3>1, <3>2, ReplacedHistory
    <3>4. messages'[agent[r]] \in {messages[agent[r]], Replaced(messages[agent[r]], r)}
      BY <1>0, <2>1, <3>1 DEF Finalized
    <3>5. QED
      BY <1>0, <2>1, <2>2, <3>2, <3>3, <3>4
  <2>3. CASE s # SessionOf[r]
    BY <1>0, <1>1, <2>1, <2>3
  <2>4. QED
    BY <2>2, <2>3
<1>4. ASSUME NEW t \in Sessions, Reset(t) PROVE saved'[s] = <<>> \/ Continues(saved'[s], saved[s])
  BY <1>0, <1>1, <1>4 DEF Reset
<1>5. CASE UNCHANGED vars
  BY <1>2, <1>5 DEF vars
<1>6. ASSUME NEW r \in Requests, Arrive(r) \/ Drop(r) \/ Resume(r) \/ Prepared(r) \/ ChatBegins(r)
             \/ ChatCalls(r) \/ (\E o \in Outcomes : ChatEnds(r, o)) \/ Fail(r) \/ DeadlinePasses(r)
             \/ Respond(r) \/ GiveUp(r) \/ HelperStarts(r) \/ HelperEnds(r)
      PROVE  saved' = saved
  BY <1>6 DEF Arrive, Drop, Resume, Prepared, ChatBegins, ChatCalls, ChatEnds, Fail, DeadlinePasses,
              Respond, GiveUp, HelperStarts, HelperEnds
<1>7. ASSUME NEW t \in Sessions, Stop(t) \/ Age(t) PROVE saved' = saved
  BY <1>7 DEF Stop, Age
<1>8. QED
  BY <1>2, <1>3, <1>4, <1>5, <1>6, <1>7 DEF Next, Step

\* What is saved of a session is a history of its turns in which every answer follows its
\* question, and a save only adds to it or sums it up.  An answer has words that are not its
\* own only if a research that asked after it was stopped before it had said anything itself.
THEOREM SavedHistoryHolds == Spec => HistoryHolds
<1>1. IInv => AnswersFollowQuestions
  BY DEF IInv, HistoriesHold, AnswersFollowQuestions
<1>2. IInv /\ [Next]_vars =>
        [\A s \in Sessions \ disturbed' : saved'[s] = <<>> \/ Continues(saved'[s], saved[s])]_vars
  BY SavesGrow
<1>3. QED
  BY <1>1, <1>2, InvariantHolds, PTL DEF Spec, HistoryHolds, HistoryGrows

\* Who gives up on a request stops the agent that serves it, and no other agent of a chat; the
\* sub-agents in the background, of all sessions, are told to stop only if a turn serves it.
THEOREM CancellationIsOwn == Spec => CancelIsOwn
<1> DEFINE Own(r) == /\ cancel_event' \subseteq cancel_event \cup {agent[r]}
                     /\ helper' # helper => InTurn(r)
                     /\ InTurn(r) /\ SessionOf[r] \notin disturbed => agent[r] \in cancel_event'
<1>1. ASSUME IInv, [Next]_vars, NEW r \in cancelled' \ cancelled PROVE Own(r)
  <2>1. ASSUME NEW x \in Requests, Arrive(x) \/ Step(x) PROVE cancelled' = cancelled
    BY <2>1 DEF Arrive, Step, Drop, Resume, Prepared, ChatBegins, ChatCalls, ChatEnds, Finish, Fail,
                DeadlinePasses, Respond, outside
  <2>1a. ASSUME NEW x \in Requests, HelperStarts(x) \/ HelperEnds(x) PROVE cancelled' = cancelled
    BY <2>1a DEF HelperStarts, HelperEnds, outside
  <2>2. ASSUME NEW s \in Sessions, Stop(s) \/ Reset(s) \/ Age(s) PROVE cancelled' = cancelled
    BY <2>2 DEF Stop, Reset, Age
  <2>3. UNCHANGED vars => cancelled' = cancelled
    BY DEF vars, outside
  <2>4. PICK x \in Requests : GiveUp(x)
    BY <1>1, <2>1, <2>1a, <2>2, <2>3 DEF Next
  <2>5. x = r /\ CancelRequest(r)
    BY <1>1, <2>4 DEF GiveUp
  <2>6. SessionOf[r] \in Sessions /\ r \in Requests /\ r # None
    BY <2>4, <2>5, ChatAssumption
  <2>7. CASE active_request[SessionOf[r]] = r
    <3>1. CancelAgent(agents[SessionOf[r]])
      BY <2>5, <2>7 DEF CancelRequest
    <3>2. InTurn(r) /\ agents[SessionOf[r]] \in {None, agent[r]}
      BY <1>1, <2>6, <2>7 DEF IInv, AgentsHold, RegisterHolds
    <3>3. SessionOf[r] \notin disturbed =>
              agents[SessionOf[r]] = agent[r] /\ agent[r] # None
      BY <1>1, <2>6, <3>2 DEF IInv, AgentsHold, TypeOK, AgentTypes
    <3>4. QED
      BY <3>1, <3>2, <3>3 DEF CancelAgent, signals
  <2>8. CASE active_request[SessionOf[r]] # r
    <3>1. UNCHANGED <<cancel_event, helper>>
      BY <2>5, <2>8 DEF CancelRequest, signals
    <3>2. ~(InTurn(r) /\ SessionOf[r] \notin disturbed)
      BY <1>1, <2>6, <2>8 DEF IInv, RegisterHolds
    <3>3. QED
      BY <3>1, <3>2
  <2>9. QED
    BY <2>7, <2>8
<1>2. IInv /\ [Next]_vars => [\A r \in cancelled' \ cancelled : Own(r)]_vars
  BY <1>1
<1>3. QED
  BY <1>2, InvariantHolds, PTL DEF Spec, CancelIsOwn
=============================================================================

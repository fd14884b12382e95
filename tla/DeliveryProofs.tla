--------------------------- MODULE DeliveryProofs ---------------------------
(***************************************************************************)
(* How an answer travels: the bus that carries a request, the replay of    *)
(* events to a page, and the recorder of the turn.  For any requests,      *)
(* events, lost connections and tool calls: a shutdown serves or cancels   *)
(* who waits, a page misses only what it will not ask for, an ended turn  *)
(* is closed.                                                              *)
(***************************************************************************)
EXTENDS EventBus, EventReplay, TurnRecorder, SequenceTheorems, TLAPS

(***************************************************************************)
(* The replay of events to a page.                                         *)
(***************************************************************************)
\* What Append does to a sequence.
LEMMA AppendIs ==
  ASSUME NEW S, NEW s \in Seq(S), NEW x
  PROVE  /\ Append(s, x) \in Seq(S \cup {x}) /\ Len(Append(s, x)) = Len(s) + 1
         /\ \A i \in 1..Len(s) : Append(s, x)[i] = s[i]
         /\ Append(s, x)[Len(s) + 1] = x
         /\ \A i \in 1..Len(Append(s, x)) :
              (i \in 1..Len(s) /\ Append(s, x)[i] = s[i]) \/ Append(s, x)[i] = x
         /\ x \in S => Append(s, x) \in Seq(S)
<1>1. s \in Seq(S \cup {x}) /\ x \in S \cup {x}
  OBVIOUS
<1>2. QED
  BY <1>1

\* And to what it contains.
LEMMA AppendContains ==
  ASSUME NEW S, NEW s \in Seq(S), NEW x
  PROVE  /\ Append(s, x) # <<>>
         /\ Head(Append(s, x)) = IF s = <<>> THEN x ELSE Head(s)
         /\ \A e : Contains(Append(s, x), e) <=> Contains(s, e) \/ e = x
<1> DEFINE t == Append(s, x)
<1>1. /\ t \in Seq(S \cup {x}) /\ Len(t) = Len(s) + 1 /\ Len(s) \in Nat /\ t[Len(s) + 1] = x
      /\ \A i \in 1..Len(s) : t[i] = s[i]
      /\ \A i \in 1..Len(t) : (i \in 1..Len(s) /\ t[i] = s[i]) \/ t[i] = x
  BY AppendIs
<1> HIDE DEF t
<1>2. \A e : Contains(t, e) <=> Contains(s, e) \/ e = x
  BY <1>1 DEF Contains
<1>3. t # <<>>
  BY <1>1
<1>4. Head(t) = IF s = <<>> THEN x ELSE Head(s)
  BY <1>1
<1>5. QED
  BY <1>2, <1>3, <1>4 DEF t

\* What Head and Tail do to it.
LEMMA TailContains ==
  ASSUME NEW S, NEW s \in Seq(S), s # <<>>
  PROVE  /\ Tail(s) \in Seq(S) /\ Head(s) \in S /\ Len(Tail(s)) = Len(s) - 1
         /\ Head(s) = s[1]
         /\ \A i \in 1..Len(Tail(s)) : Tail(s)[i] = s[i + 1] /\ i + 1 \in 1..Len(s)
         /\ \A e : Contains(s, e) <=> e = Head(s) \/ Contains(Tail(s), e)
<1>1. /\ Tail(s) \in Seq(S) /\ Head(s) \in S /\ Len(Tail(s)) = Len(s) - 1
      /\ Head(s) = s[1]
      /\ \A i \in 1..Len(Tail(s)) : Tail(s)[i] = s[i + 1] /\ i + 1 \in 1..Len(s)
  OBVIOUS
<1>2. ASSUME NEW e, Contains(s, e) PROVE e = Head(s) \/ Contains(Tail(s), e)
  <2>1. PICK i \in 1..Len(s) : s[i] = e
    BY <1>2 DEF Contains
  <2>2. CASE i # 1
    <3>1. i - 1 \in 1..Len(Tail(s)) /\ Tail(s)[i - 1] = s[i]
      BY <1>1, <2>1, <2>2
    <3>2. QED
      BY <2>1, <3>1 DEF Contains
  <2>3. QED
    BY <1>1, <2>1, <2>2
<1>3. ASSUME NEW e, e = Head(s) \/ Contains(Tail(s), e) PROVE Contains(s, e)
  <2>1. CASE e = Head(s)
    BY <1>1, <2>1 DEF Contains
  <2>2. CASE Contains(Tail(s), e)
    BY <1>1, <2>2 DEF Contains
  <2>3. QED
    BY <1>3, <2>1, <2>2
<1>4. QED
  BY <1>1, <1>2, <1>3

\* The same one by one, as the steps cite it.
LEMMA AppendHas ==
  ASSUME NEW S, NEW s \in Seq(S), NEW x, NEW e
  PROVE  Contains(Append(s, x), e) <=> Contains(s, e) \/ e = x
  BY AppendContains

LEMMA AppendFirst ==
  ASSUME NEW S, NEW s \in Seq(S), NEW x
  PROVE  Append(s, x) # <<>> /\ Head(Append(s, x)) = IF s = <<>> THEN x ELSE Head(s)
  BY AppendContains

LEMMA TailHas ==
  ASSUME NEW S, NEW s \in Seq(S), s # <<>>, NEW e
  PROVE  Contains(s, e) <=> e = Head(s) \/ Contains(Tail(s), e)
  BY TailContains

\* Events are numbers, from one on.
LEMMA EventsTyped ==
  ASSUME ReplayAssumption, ReplayTypeOK
  PROVE  /\ latest \in Nat /\ asked \in Nat /\ last \in Nat /\ Len(scheduled) \in Nat
         /\ \A e \in 1..MaxEvents : e \in Nat /\ e > 0
         /\ \A i \in 1..Len(wire) : wire[i] \in 1..MaxEvents
         /\ \A i \in 1..Len(replay) : replay[i] \in 1..MaxEvents
         /\ \A i \in 1..Len(scheduled) : scheduled[i] \in 1..MaxEvents
         /\ seen # <<>> => Head(seen) \in 1..MaxEvents
         /\ wire # <<>> => Head(wire) \in 1..MaxEvents
<1>1. /\ latest \in Nat /\ asked \in Nat /\ last \in Nat /\ MaxEvents \in Nat
      /\ \A e \in 1..MaxEvents : e \in Nat /\ e > 0
  BY DEF ReplayTypeOK, ReplayAssumption
<1>2. /\ scheduled \in Seq(1..MaxEvents) /\ wire \in Seq(1..MaxEvents)
      /\ replay \in Seq(1..MaxEvents) /\ seen \in Seq(1..MaxEvents)
  BY DEF ReplayTypeOK
<1>3. ASSUME NEW q \in Seq(1..MaxEvents)
      PROVE  /\ Len(q) \in Nat /\ \A i \in 1..Len(q) : q[i] \in 1..MaxEvents
             /\ q # <<>> => Head(q) \in 1..MaxEvents
  <2>1. Len(q) \in Nat /\ \A i \in 1..Len(q) : q[i] \in 1..MaxEvents
    BY LenProperties, ElementOfSeq
  <2>2. q # <<>> => Head(q) \in 1..MaxEvents
    BY HeadTailProperties
  <2>3. QED
    BY <2>1, <2>2
<1>4. QED
  BY <1>1, <1>2, <1>3

\* What a replay brings: the events up to some limit, and what it leaves out is missed.
LEMMA ReplayReads ==
  ASSUME ReplayAssumption, ReplayTypeOK, Numbered, ReadReplay
  PROVE  /\ replay' \in Seq(1..MaxEvents)
         /\ \A i \in 1..Len(replay') : replay'[i] <= latest
         /\ missed' \subseteq missed \cup 1..latest /\ missed \subseteq missed'
         /\ \A e \in Nat : asked < e /\ e <= latest =>
              Contains(replay', e) \/ Contains(wire, e) \/ Pending(e) \/ e \in missed'
<1> DEFINE to == IF latest - asked > ReplayLimit THEN asked + ReplayLimit ELSE latest
<1>1. /\ latest \in Nat /\ asked \in Nat /\ ReplayLimit \in Nat /\ asked <= latest
      /\ latest <= MaxEvents /\ MaxEvents \in Nat
  BY DEF ReplayTypeOK, ReplayAssumption, Numbered
<1>2. to \in Nat /\ asked <= to /\ to <= latest /\ to - asked \in Nat
  BY <1>1
<1>3. /\ replay' = [i \in 1..(to - asked) |-> asked + i]
      /\ missed' = missed \cup {e \in (to + 1)..latest : ~Contains(wire, e) /\ ~Pending(e)}
  BY DEF ReadReplay
<1> HIDE DEF to
<1>4. \A i \in 1..(to - asked) : asked + i \in 1..MaxEvents /\ asked + i <= latest
  BY <1>1, <1>2
<1>5. replay' \in Seq(1..MaxEvents) /\ Len(replay') = to - asked
  <2>1. PICK n \in Nat : n = to - asked
    BY <1>2
  <2>2. replay' = [i \in 1..n |-> asked + i] /\ \A i \in 1..n : asked + i \in 1..MaxEvents
    BY <1>3, <1>4, <2>1
  <2>3. replay' \in Seq(1..MaxEvents) /\ Len(replay') = n
    <3> DEFINE f == [i \in 1..n |-> asked + i]
    <3>1. f \in [1..n -> 1..MaxEvents]
      BY <2>2
    <3>2. replay' = f
      BY <2>2
    <3> HIDE DEF f
    <3>3. f \in Seq(1..MaxEvents)
      BY <2>1, <3>1, SeqDef
    <3>5. DOMAIN f = 1..n
      BY <3>1
    <3>6. Len(f) = n
      <4>1. Len(f) \in Nat /\ f \in [1..Len(f) -> 1..MaxEvents]
        BY <3>3, LenProperties
      <4>2. 1..Len(f) = 1..n
        BY <3>5, <4>1
      <4>3. QED
        BY <2>1, <4>1, <4>2
    <3>4. QED
      BY <3>2, <3>3, <3>6
  <2>4. QED
    BY <2>1, <2>3
<1>6. ASSUME NEW e \in Nat, asked < e, e <= to PROVE Contains(replay', e)
  <2>1. e - asked \in 1..(to - asked) /\ asked + (e - asked) = e
    BY <1>1, <1>2, <1>6
  <2>2. replay'[e - asked] = e
    BY <1>3, <2>1
  <2>3. QED
    BY <1>5, <2>1, <2>2 DEF Contains
<1>7. ASSUME NEW e \in Nat, to < e, e <= latest
      PROVE  Contains(wire, e) \/ Pending(e) \/ e \in missed'
  BY <1>1, <1>2, <1>3, <1>7
<1>8. missed' \subseteq missed \cup 1..latest /\ missed \subseteq missed'
  BY <1>1, <1>2, <1>3
<1>9. \A i \in 1..Len(replay') : replay'[i] <= latest
  BY <1>3, <1>4, <1>5
<1>10. QED
  BY <1>2, <1>5, <1>6, <1>7, <1>8, <1>9

\* Every step keeps the types.
LEMMA ReplayTypeKept ==
  ASSUME ReplayAssumption, ReplayTypeOK, Numbered, Remembered, [ReplayNext]_replayVars
  PROVE  ReplayTypeOK'
<1> DEFINE E == 1..MaxEvents
<1>0. /\ MaxEvents \in Nat /\ MaxDrops \in Nat /\ E \subseteq 0..MaxEvents
      /\ \A e \in 0..MaxEvents : e \in Nat
  BY DEF ReplayAssumption
<1>t. /\ latest \in 0..MaxEvents /\ recorded \in [Writers -> 0..MaxEvents]
      /\ scheduled \in Seq(E) /\ link \in {"down", "up"}
      /\ wire \in Seq(E) /\ asked \in 0..MaxEvents
      /\ replay \in Seq(E)
      /\ last \in 0..MaxEvents /\ seen \in Seq(E) /\ drops \in 0..MaxDrops
      /\ missed \subseteq E
  BY DEF ReplayTypeOK
<1>e. \A e \in 0..MaxEvents : e # 0 => e \in E
  OBVIOUS
<1>l. 1..latest \subseteq E
  BY <1>0, <1>t
<1> SUFFICES /\ latest' \in 0..MaxEvents /\ recorded' \in [Writers -> 0..MaxEvents]
             /\ scheduled' \in Seq(E) /\ link' \in {"down", "up"}
             /\ wire' \in Seq(E) /\ asked' \in 0..MaxEvents
             /\ replay' \in Seq(E)
             /\ last' \in 0..MaxEvents /\ seen' \in Seq(E) /\ drops' \in 0..MaxDrops
             /\ missed' \subseteq E
  BY DEF ReplayTypeOK
<1>em. <<>> \in Seq(E)
  OBVIOUS
<1>r. ReadReplay => replay' \in Seq(E) /\ missed' \subseteq missed \cup 1..latest
  BY ReplayReads
<1> HIDE DEF E
<1> USE <1>0, <1>t DEF connection, replayVars
<1>1. ASSUME NEW w \in Writers, Record(w)
      PROVE /\ latest' \in 0..MaxEvents /\ recorded' \in [Writers -> 0..MaxEvents]
  BY <1>1 DEF Record
<1>2. ASSUME NEW w \in Writers, HandOn(w)
      PROVE  scheduled' \in Seq(E) /\ recorded' \in [Writers -> 0..MaxEvents]
  <2>1. recorded[w] \in E
    BY <1>2, <1>e DEF HandOn
  <2>2. QED
    BY <1>2, <2>1, AppendIs DEF HandOn
<1>3. CASE Broadcast
  <2>1. Head(scheduled) \in E /\ scheduled' \in Seq(E)
    BY <1>3, TailContains DEF Broadcast
  <2>2. Append(wire, Head(scheduled)) \in Seq(E)
    BY <2>1, AppendIs
  <2>3. wire' \in Seq(E) /\ missed' \subseteq E
    BY <1>3, <2>1, <2>2 DEF Broadcast
  <2>4. QED
    BY <1>3, <2>1, <2>3 DEF Broadcast
<1>4. CASE Receive
  <2>1. Head(wire) \in E /\ wire' \in Seq(E) /\ seen' \in Seq(E)
    BY <1>4, TailContains, AppendIs DEF Receive
  <2>2. QED
    BY <1>4, <2>1 DEF Receive
<1>5. CASE Disconnect
  <2>1. missed' \subseteq E
    BY <1>5, <1>l DEF Disconnect
  <2>2. QED
    BY <1>5, <2>1, <1>em DEF Disconnect
<1>6. CASE Reconnect
  BY <1>6 DEF Reconnect
<1>7. CASE ReadReplay
  <2>1. missed' \subseteq E /\ replay' \in Seq(E)
    BY <1>7, <1>r, <1>l
  <2>2. asked' = 0 /\ UNCHANGED <<latest, recorded, scheduled, link, wire, last, seen, drops>>
    BY <1>7 DEF ReadReplay
  <2>3. QED
    BY <2>1, <2>2
<1>8. CASE SendReplay
  BY <1>8, TailContains, AppendIs DEF SendReplay
<1>9. CASE UNCHANGED replayVars
  BY <1>9
<1>10. ASSUME NEW w \in Writers, Record(w) \/ HandOn(w)
       PROVE  /\ UNCHANGED <<link, wire, asked, replay, last, seen, drops, missed>>
              /\ Record(w) => UNCHANGED scheduled
              /\ HandOn(w) => UNCHANGED latest
  BY <1>10 DEF Record, HandOn
<1>11. QED
  BY <1>1, <1>2, <1>3, <1>4, <1>5, <1>6, <1>7, <1>8, <1>9, <1>10 DEF ReplayNext

\* How each step changes what is recorded and not yet broadcast.
LEMMA PendingMoves ==
  ASSUME ReplayAssumption, ReplayTypeOK
  PROVE  /\ \A w \in Writers : Record(w) =>
                /\ \A e : e = latest' => Pending(e)'
                /\ \A e \in 1..MaxEvents : Pending(e) => Pending(e)'
                /\ \A e \in 1..MaxEvents : Pending(e)' => Pending(e) \/ e = latest'
         /\ \A w \in Writers : HandOn(w) => \A e \in 1..MaxEvents : Pending(e)' <=> Pending(e)
         /\ Broadcast => /\ Pending(Head(scheduled)) /\ Head(scheduled) \in 1..MaxEvents
                         /\ \A e : Pending(e) => Pending(e)' \/ e = Head(scheduled)
                         /\ \A e : Pending(e)' => Pending(e)
         /\ UNCHANGED <<recorded, scheduled>> => \A e : Pending(e)' <=> Pending(e)
<1>0. recorded \in [Writers -> 0..MaxEvents] /\ scheduled \in Seq(1..MaxEvents)
  BY DEF ReplayTypeOK
<1>1. ASSUME NEW w \in Writers, Record(w)
      PROVE  /\ \A e : e = latest' => Pending(e)'
             /\ \A e \in 1..MaxEvents : Pending(e) => Pending(e)'
             /\ \A e \in 1..MaxEvents : Pending(e)' => Pending(e) \/ e = latest'
  <2>1. /\ recorded[w] = 0 /\ recorded' = [recorded EXCEPT ![w] = latest'] /\ scheduled' = scheduled
    BY <1>1 DEF Record
  <2>2. recorded'[w] = latest' /\ \A v \in Writers : v # w => recorded'[v] = recorded[v]
    BY <1>0, <2>1
  <2>3. \A e \in 1..MaxEvents : e # 0
    BY DEF ReplayAssumption
  <2>4. QED
    BY <2>1, <2>2, <2>3 DEF Pending
<1>2. ASSUME NEW w \in Writers, HandOn(w), NEW e \in 1..MaxEvents PROVE Pending(e)' <=> Pending(e)
  <2>1. /\ recorded' = [recorded EXCEPT ![w] = 0] /\ scheduled' = Append(scheduled, recorded[w])
    BY <1>2 DEF HandOn
  <2>2. recorded'[w] = 0 /\ \A v \in Writers : v # w => recorded'[v] = recorded[v]
    BY <1>0, <2>1
  <2>3. Contains(scheduled', e) <=> Contains(scheduled, e) \/ e = recorded[w]
    BY <1>0, <2>1, AppendContains
  <2>4. e # 0
    BY DEF ReplayAssumption
  <2>5. QED
    BY <2>2, <2>3, <2>4 DEF Pending
<1>3. ASSUME Broadcast
      PROVE  /\ Pending(Head(scheduled)) /\ Head(scheduled) \in 1..MaxEvents
             /\ \A e : Pending(e) => Pending(e)' \/ e = Head(scheduled)
             /\ \A e : Pending(e)' => Pending(e)
  <2>1. scheduled # <<>> /\ scheduled' = Tail(scheduled) /\ recorded' = recorded
    BY <1>3 DEF Broadcast
  <2>2. /\ Head(scheduled) \in 1..MaxEvents
        /\ \A e : Contains(scheduled, e) <=> e = Head(scheduled) \/ Contains(scheduled', e)
    BY <1>0, <2>1, TailContains
  <2>3. QED
    BY <2>1, <2>2 DEF Pending
<1>4. UNCHANGED <<recorded, scheduled>> => \A e : Pending(e)' <=> Pending(e)
  BY DEF Pending
<1>5. QED
  BY <1>1, <1>2, <1>3, <1>4

\* Nothing has a number that was not given, and the mark never falls.
LEMMA NumbersKept ==
  ASSUME ReplayAssumption, ReplayTypeOK, Numbered, Remembered, [ReplayNext]_replayVars
  PROVE  Numbered'
<1>0. /\ latest \in Nat /\ asked \in Nat /\ last \in Nat /\ MaxEvents \in Nat
      /\ wire \in Seq(1..MaxEvents) /\ replay \in Seq(1..MaxEvents)
      /\ scheduled \in Seq(1..MaxEvents)
  BY DEF ReplayTypeOK, ReplayAssumption
<1>n. /\ \A i \in 1..Len(wire) : wire[i] \in Nat /\ wire[i] <= latest
      /\ \A i \in 1..Len(replay) : replay[i] \in Nat /\ replay[i] <= latest
      /\ \A i \in 1..Len(scheduled) : scheduled[i] \in Nat /\ scheduled[i] <= latest
      /\ asked <= last /\ last <= latest
  BY <1>0 DEF Numbered
<1>r. /\ recorded \in [Writers -> 0..MaxEvents]
      /\ \A w \in Writers : recorded[w] \in Nat /\ recorded[w] <= latest
  BY <1>0 DEF Numbered, ReplayTypeOK
<1> USE <1>0 DEF Numbered
<1>1. ASSUME NEW w \in Writers, Record(w) PROVE Numbered'
  <2>1. /\ latest' = latest + 1 /\ recorded' = [recorded EXCEPT ![w] = latest']
        /\ UNCHANGED <<scheduled, wire, asked, replay, last>>
    BY <1>1 DEF Record, connection
  <2>2. \A v \in Writers : recorded'[v] = latest' \/ recorded'[v] = recorded[v]
    BY <1>r, <2>1
  <2>3. QED
    BY <1>n, <1>r, <2>1, <2>2
<1>2. ASSUME NEW w \in Writers, HandOn(w) PROVE Numbered'
  <2>1. /\ recorded' = [recorded EXCEPT ![w] = 0] /\ scheduled' = Append(scheduled, recorded[w])
        /\ UNCHANGED <<latest, wire, asked, replay, last>> /\ recorded[w] # 0
    BY <1>2 DEF HandOn, connection
  <2>2. \A v \in Writers : recorded'[v] = 0 \/ recorded'[v] = recorded[v]
    BY <1>r, <2>1
  <2>3. recorded[w] \in 1..MaxEvents
    BY <1>r, <2>1
  <2>4. \A i \in 1..Len(scheduled') :
           (i \in 1..Len(scheduled) /\ scheduled'[i] = scheduled[i]) \/ scheduled'[i] = recorded[w]
    <3> DEFINE x == recorded[w]
    <3> HIDE DEF x
    <3>1. \A i \in 1..Len(Append(scheduled, x)) :
            \/ i \in 1..Len(scheduled) /\ Append(scheduled, x)[i] = scheduled[i]
            \/ Append(scheduled, x)[i] = x
      BY <1>0, AppendIs
    <3>2. QED
      BY <2>1, <3>1 DEF x
  <2>5. QED
    BY <1>n, <1>r, <2>1, <2>2, <2>4
<1>3. CASE Broadcast
  <2>0. scheduled # <<>> /\ scheduled' = Tail(scheduled) /\ UNCHANGED recorded
    BY <1>3 DEF Broadcast
  <2>1. /\ Head(scheduled) <= latest /\ Head(scheduled) \in 1..MaxEvents
        /\ \A i \in 1..Len(scheduled') : scheduled'[i] <= latest
    <3>1. /\ Head(scheduled) = scheduled[1] /\ 1 \in 1..Len(scheduled)
          /\ Head(scheduled) \in 1..MaxEvents
          /\ \A i \in 1..Len(scheduled') : scheduled'[i] = scheduled[i + 1] /\ i + 1 \in 1..Len(scheduled)
      BY <2>0, TailContains
    <3>2. QED
      BY <1>n, <3>1
  <2>2. CASE link = "up"
    <3>1. wire' = Append(wire, Head(scheduled)) /\ UNCHANGED <<latest, asked, replay, last>>
      BY <1>3, <2>2 DEF Broadcast
    <3>2. \A i \in 1..Len(wire') :
               (i \in 1..Len(wire) /\ wire'[i] = wire[i]) \/ wire'[i] = Head(scheduled)
      <4> DEFINE x == Head(scheduled)
      <4>1. wire \in Seq(1..MaxEvents) /\ x \in 1..MaxEvents
        BY <2>1, <1>0 DEF ReplayTypeOK
      <4> HIDE DEF x
      <4>2. \A i \in 1..Len(Append(wire, x)) :
              (i \in 1..Len(wire) /\ Append(wire, x)[i] = wire[i]) \/ Append(wire, x)[i] = x
        BY <4>1, AppendIs, Zenon
      <4>3. wire' = Append(wire, x)
        BY <3>1 DEF x
      <4>4. \A i \in 1..Len(wire') : (i \in 1..Len(wire) /\ wire'[i] = wire[i]) \/ wire'[i] = x
        BY <4>2, <4>3
      <4>5. QED
        BY <4>4 DEF x
    <3>3. QED
      BY <1>n, <1>r, <2>0, <2>1, <3>1, <3>2
  <2>3. CASE link # "up"
    <3>1. UNCHANGED <<latest, wire, asked, replay, last>>
      BY <1>3, <2>3 DEF Broadcast
    <3>2. QED
      BY <1>n, <1>r, <2>0, <2>1, <3>1
  <2>4. QED
    BY <2>2, <2>3
<1>4. CASE Receive
  <2>1. /\ wire # <<>> /\ wire' = Tail(wire)
        /\ UNCHANGED <<latest, recorded, scheduled, asked, replay>>
        /\ last' = IF Head(wire) > last THEN Head(wire) ELSE last
    BY <1>4 DEF Receive
  <2>2. /\ Head(wire) = wire[1] /\ 1 \in 1..Len(wire)
        /\ \A i \in 1..Len(wire') : wire'[i] = wire[i + 1] /\ i + 1 \in 1..Len(wire)
    BY <2>1, TailContains
  <2>3. Head(wire) \in Nat /\ Head(wire) <= latest
    BY <1>n, <2>2
  <2>4. last' \in Nat /\ asked <= last' /\ last' <= latest
    BY <1>n, <2>1, <2>3
  <2>5. QED
    BY <1>n, <1>r, <2>1, <2>2, <2>4
<1>5. CASE Disconnect
  BY <1>5, <1>n, <1>r DEF Disconnect
<1>6. CASE Reconnect
  BY <1>6, <1>n, <1>r DEF Reconnect
<1>7. CASE ReadReplay
  <2>2. \A i \in 1..Len(replay') : replay'[i] <= latest
    BY <1>7, ReplayReads
  <2>3. asked' = 0 /\ UNCHANGED <<latest, recorded, scheduled, wire, last>>
    BY <1>7 DEF ReadReplay
  <2>4. QED
    BY <1>n, <1>r, <2>2, <2>3
<1>8. CASE SendReplay
  <2>1. /\ replay # <<>> /\ replay' = Tail(replay)
        /\ UNCHANGED <<latest, recorded, scheduled, asked, last>>
        /\ wire' = Append(wire, Head(replay))
    BY <1>8 DEF SendReplay
  <2>2. /\ Head(replay) = replay[1] /\ 1 \in 1..Len(replay) /\ Head(replay) \in 1..MaxEvents
        /\ \A i \in 1..Len(replay') : replay'[i] = replay[i + 1] /\ i + 1 \in 1..Len(replay)
    BY <2>1, TailContains
  <2>3. \A i \in 1..Len(wire') :
             (i \in 1..Len(wire) /\ wire'[i] = wire[i]) \/ wire'[i] = Head(replay)
    <3> DEFINE x == Head(replay)
    <3>1. wire' = Append(wire, x)
      BY <2>1
    <3> HIDE DEF x
    <3>2. \A i \in 1..Len(Append(wire, x)) :
             (i \in 1..Len(wire) /\ Append(wire, x)[i] = wire[i]) \/ Append(wire, x)[i] = x
      BY <1>0, AppendIs
    <3>3. QED
      BY <3>1, <3>2 DEF x
  <2>4. QED
    BY <1>n, <1>r, <2>1, <2>2, <2>3
<1>9. CASE UNCHANGED replayVars
  BY <1>9, <1>n, <1>r DEF replayVars, connection
<1>10. QED
  BY <1>1, <1>2, <1>3, <1>4, <1>5, <1>6, <1>7, <1>8, <1>9 DEF ReplayNext

\* Every step keeps the mark the largest event the page has got.
LEMMA RememberedKept ==
  ASSUME ReplayAssumption, ReplayTypeOK, Numbered, Remembered, [ReplayNext]_replayVars
  PROVE  Remembered'
<1>0. /\ latest \in Nat /\ asked \in Nat /\ last \in Nat /\ MaxEvents \in Nat
      /\ wire \in Seq(1..MaxEvents) /\ replay \in Seq(1..MaxEvents)
      /\ seen \in Seq(1..MaxEvents) /\ link \in {"down", "up"}
  BY DEF ReplayTypeOK, ReplayAssumption
<1>n. asked <= last
  BY DEF Numbered
<1> USE <1>0 DEF Remembered
<1>1. ASSUME NEW w \in Writers, Record(w) \/ HandOn(w) PROVE Remembered'
  <2>1. UNCHANGED <<link, wire, asked, replay, last, seen>>
    BY <1>1 DEF Record, HandOn, connection
  <2>2. QED
    BY <2>1 DEF Contains
<1>3. CASE Broadcast
  <2>1. UNCHANGED <<link, asked, replay, last, seen>> /\ (link = "down" => wire' = wire)
    BY <1>3 DEF Broadcast
  <2>2. QED
    BY <2>1 DEF Contains
<1>4. CASE Receive
  <2>1. /\ wire # <<>> /\ seen' = Append(seen, Head(wire)) /\ UNCHANGED <<link, asked, replay>>
        /\ last' = IF Head(wire) > last THEN Head(wire) ELSE last
    BY <1>4 DEF Receive
  <2>2. Head(wire) \in 1..MaxEvents /\ Head(wire) > 0
    BY <2>1, TailContains
  <2>3. /\ seen' # <<>>
        /\ \A e : Contains(seen', e) <=> Contains(seen, e) \/ e = Head(wire)
    <3> DEFINE x == Head(wire)
    <3>1. x \in 1..MaxEvents /\ seen' = Append(seen, x)
      BY <2>1, <2>2
    <3> HIDE DEF x
    <3>2. /\ Append(seen, x) # <<>>
          /\ \A e : Contains(Append(seen, x), e) <=> Contains(seen, e) \/ e = x
      <4>1. seen \in Seq(1..MaxEvents)
        BY <1>0
      <4>2. \A e : Contains(Append(seen, x), e) <=> Contains(seen, e) \/ e = x
        BY <4>1, AppendHas, Zenon
      <4>3. Append(seen, x) # <<>>
        BY <4>1, AppendFirst, Zenon
      <4>4. QED
        BY <4>2, <4>3
    <3>3. QED
      BY <3>1, <3>2 DEF x
  <2>4. Contains(seen', last') /\ last' > 0
    <3>1. CASE last' = Head(wire)
      BY <2>2, <2>3, <3>1
    <3>2. CASE last' = last /\ last >= Head(wire)
      <4>1. seen # <<>>
        BY <2>2, <3>2
      <4>2. Contains(seen, last) /\ last > 0
        BY <4>1
      <4>3. Contains(seen', last)
        BY <2>3, <4>2
      <4>4. QED
        BY <3>2, <4>2, <4>3
    <3>3. QED
      BY <2>1, <2>2, <3>1, <3>2
  <2>5. (asked # 0 => replay = <<>>) /\ link # "down"
    BY <2>1
  <2>6. QED
    BY <2>1, <2>3, <2>4, <2>5
<1>5. CASE Disconnect
  <2>1. wire' = <<>> /\ asked' = 0 /\ replay' = <<>> /\ UNCHANGED <<last, seen>>
    BY <1>5 DEF Disconnect
  <2>2. QED
    BY <2>1 DEF Contains
<1>6. CASE Reconnect
  <2>1. link = "down" /\ link' = "up" /\ asked' = last /\ UNCHANGED <<wire, replay, last, seen>>
    BY <1>6 DEF Reconnect
  <2>2. QED
    BY <2>1 DEF Contains
<1>7. CASE ReadReplay
  <2>1. asked # 0 /\ asked' = 0 /\ UNCHANGED <<link, wire, last, seen>>
    BY <1>7 DEF ReadReplay
  <2>2. seen # <<>> /\ link # "down"
    BY <2>1
  <2>3. QED
    BY <2>1, <2>2 DEF Contains
<1>8. CASE SendReplay
  <2>1. replay # <<>> /\ UNCHANGED <<link, asked, last, seen>>
    BY <1>8 DEF SendReplay
  <2>2. seen # <<>> /\ link # "down" /\ asked = 0
    BY <2>1
  <2>3. QED
    BY <2>1, <2>2 DEF Contains
<1>9. CASE UNCHANGED replayVars
  BY <1>9 DEF replayVars, connection, Contains
<1>10. QED
  BY <1>1, <1>3, <1>4, <1>5, <1>6, <1>7, <1>8, <1>9 DEF ReplayNext

\* A step that drops nothing leaves accounted for what was.
LEMMA AccountStays ==
  ASSUME ReplayAssumption, ReplayTypeOK, Numbered, Remembered, [ReplayNext]_replayVars,
         ~Disconnect, NEW e \in 1..MaxEvents, e <= latest, Accounted(e),
         Broadcast => link = "up"
  PROVE  Accounted(e)'
<1>0. /\ wire \in Seq(1..MaxEvents) /\ replay \in Seq(1..MaxEvents) /\ asked \in Nat
      /\ seen \in Seq(1..MaxEvents) /\ link \in {"down", "up"} /\ e \in Nat
  BY DEF ReplayTypeOK, ReplayAssumption
<1>1. ASSUME UNCHANGED <<wire, asked, replay, seen, missed>>, Pending(e) => Pending(e)'
      PROVE  Accounted(e)'
  BY <1>1 DEF Accounted, UnderWay
<1>2. ASSUME NEW w \in Writers, Record(w) \/ HandOn(w) PROVE Accounted(e)'
  <2>1. UNCHANGED <<wire, asked, replay, seen, missed>>
    BY <1>2 DEF Record, HandOn, connection
  <2>2. Pending(e) => Pending(e)'
    BY <1>2, PendingMoves
  <2>3. QED
    BY <1>1, <2>1, <2>2
<1>3. CASE Broadcast
  <2>1. /\ wire' = Append(wire, Head(scheduled))
        /\ UNCHANGED <<asked, replay, seen, missed>>
    BY <1>3 DEF Broadcast
  <2>2. \A x : Contains(Append(wire, Head(scheduled)), x) <=> Contains(wire, x) \/ x = Head(scheduled)
    BY <1>0, AppendContains, Zenon
  <2>3. Pending(e) => Pending(e)' \/ e = Head(scheduled)
    BY <1>3, PendingMoves
  <2>4. QED
    BY <2>1, <2>2, <2>3 DEF Accounted, UnderWay
<1>4. CASE Receive
  <2>1. /\ wire # <<>> /\ wire' = Tail(wire) /\ seen' = Append(seen, Head(wire))
        /\ UNCHANGED <<recorded, scheduled, asked, replay, missed>>
    BY <1>4 DEF Receive
  <2>2. /\ Contains(Append(seen, Head(wire)), e) <=> Contains(seen, e) \/ e = Head(wire)
        /\ Contains(wire, e) <=> e = Head(wire) \/ Contains(Tail(wire), e)
    <3>1. Contains(Append(seen, Head(wire)), e) <=> Contains(seen, e) \/ e = Head(wire)
      BY <1>0, AppendHas, Zenon
    <3>2. Contains(wire, e) <=> e = Head(wire) \/ Contains(Tail(wire), e)
      BY <1>0, <2>1, TailHas, Zenon
    <3>3. QED
      BY <3>1, <3>2
  <2>3. Pending(e)' <=> Pending(e)
    BY <2>1, PendingMoves
  <2>4. QED
    BY <2>1, <2>2, <2>3 DEF Accounted, UnderWay
<1>5. CASE Reconnect
  <2>1. /\ link = "down" /\ UNCHANGED <<recorded, scheduled, wire, replay, seen, missed>>
    BY <1>5 DEF Reconnect
  <2>2. asked = 0
    BY <2>1 DEF Remembered
  <2>3. Pending(e)' <=> Pending(e)
    BY <2>1, PendingMoves
  <2>4. QED
    BY <2>1, <2>2, <2>3 DEF Accounted, UnderWay
<1>6. CASE ReadReplay
  <2>1. asked # 0 /\ UNCHANGED <<recorded, scheduled, wire, seen>>
    BY <1>6 DEF ReadReplay
  <2>2. \A x : ~Contains(replay, x)
    BY <2>1 DEF Remembered, Contains
  <2>3. Pending(e)' <=> Pending(e)
    BY <2>1, PendingMoves
  <2>4. /\ missed \subseteq missed'
        /\ asked < e => Contains(replay', e) \/ Contains(wire, e) \/ Pending(e) \/ e \in missed'
    BY <1>0, <1>6, ReplayReads
  <2>5. QED
    BY <2>1, <2>2, <2>3, <2>4 DEF Accounted, UnderWay
<1>7. CASE SendReplay
  <2>1. /\ replay # <<>> /\ replay' = Tail(replay) /\ wire' = Append(wire, Head(replay))
        /\ UNCHANGED <<recorded, scheduled, asked, seen, missed>>
    BY <1>7 DEF SendReplay
  <2>2. /\ Contains(Append(wire, Head(replay)), e) <=> Contains(wire, e) \/ e = Head(replay)
        /\ Contains(replay, e) <=> e = Head(replay) \/ Contains(Tail(replay), e)
    <3>1. Contains(Append(wire, Head(replay)), e) <=> Contains(wire, e) \/ e = Head(replay)
      BY <1>0, AppendHas, Zenon
    <3>2. Contains(replay, e) <=> e = Head(replay) \/ Contains(Tail(replay), e)
      BY <1>0, <2>1, TailHas, Zenon
    <3>3. QED
      BY <3>1, <3>2
  <2>3. Pending(e)' <=> Pending(e)
    BY <2>1, PendingMoves
  <2>4. QED
    BY <2>1, <2>2, <2>3 DEF Accounted, UnderWay
<1>8. CASE UNCHANGED replayVars
  <2>1. UNCHANGED <<recorded, scheduled, wire, asked, replay, seen, missed>>
    BY <1>8 DEF replayVars, connection
  <2>2. QED
    BY <1>1, <2>1, PendingMoves
<1>9. QED
  BY <1>2, <1>3, <1>4, <1>5, <1>6, <1>7, <1>8 DEF ReplayNext

\* A drop leaves accounted for what the page has or has gone past, and, before its first
\* event, what lies behind an event that is still to be broadcast.
LEMMA DropIsMissed ==
  ASSUME ReplayAssumption, ReplayTypeOK, Numbered, Remembered,
         Disconnect \/ (Broadcast /\ link = "down"),
         NEW e \in 1..MaxEvents, e <= latest, Accounted(e),
         \/ Contains(seen, e) \/ e < last
         \/ last = 0 /\ \E p \in 1..(e - 1) : Pending(p)
  PROVE  Accounted(e)'
<1>0. latest \in Nat /\ e \in 1..latest
  BY DEF ReplayTypeOK, ReplayAssumption
<1>1. Contains(seen, e) \/ Unasked(e)
  BY DEF Unasked
<1>2. CASE Disconnect
  <2>1. /\ missed' = missed \cup {x \in 1..latest : UnderWay(x) /\ Unasked(x) /\ ~Pending(x)}
        /\ UNCHANGED <<recorded, scheduled, seen>>
    BY <1>2 DEF Disconnect
  <2>2. Pending(e)' <=> Pending(e)
    BY <2>1, PendingMoves
  <2>3. QED
    BY <1>0, <1>1, <2>1, <2>2 DEF Accounted
<1>3. CASE Broadcast /\ link = "down"
  <2>1. /\ missed' = missed \cup {x \in {Head(scheduled)} : Unasked(x)}
        /\ UNCHANGED <<wire, asked, replay, seen>>
    BY <1>3 DEF Broadcast
  <2>2. Pending(e) => Pending(e)' \/ e = Head(scheduled)
    BY <1>3, PendingMoves
  <2>3. QED
    BY <1>1, <2>1, <2>2 DEF Accounted, UnderWay
<1>4. QED
  BY <1>2, <1>3

\* Nothing else drops, and only a page that has got an event has seen one.
LEMMA SeenMoves ==
  ASSUME ReplayAssumption, ReplayTypeOK, [ReplayNext]_replayVars
  PROVE  /\ ~Receive => UNCHANGED <<seen, last>>
         /\ Receive => /\ wire # <<>> /\ seen' # <<>> /\ link' = link /\ latest' = latest
                       /\ Head(seen') = IF seen = <<>> THEN Head(wire) ELSE Head(seen)
         /\ (\E w \in Writers : Record(w)) \/ latest' = latest
         /\ ~Reconnect /\ ~Disconnect => link' = link
<1>1. CASE Receive
  <2>1. wire # <<>> /\ seen' = Append(seen, Head(wire)) /\ UNCHANGED <<latest, link>>
    BY <1>1 DEF Receive
  <2>2. seen \in Seq(1..MaxEvents)
    BY DEF ReplayTypeOK
  <2>3. /\ Append(seen, Head(wire)) # <<>>
        /\ Head(Append(seen, Head(wire))) = IF seen = <<>> THEN Head(wire) ELSE Head(seen)
    BY <2>2, AppendFirst, Zenon
  <2>4. QED
    BY <1>1, <2>1, <2>3
<1>2. CASE ~Receive
  BY <1>2 DEF ReplayNext, Record, HandOn, Broadcast, Disconnect, Reconnect, ReadReplay,
              SendReplay, replayVars, connection
<1>3. QED
  BY <1>1, <1>2

\* What is accounted for stays so, but for what a drop may take.
LEMMA Stays ==
  ASSUME ReplayAssumption, ReplayTypeOK, Numbered, Remembered, [ReplayNext]_replayVars,
         NEW e \in 1..MaxEvents, e <= latest, Accounted(e),
         \/ ~Disconnect /\ (Broadcast => link = "up")
         \/ Contains(seen, e) \/ e < last
         \/ last = 0 /\ \E p \in 1..(e - 1) : Pending(p)
  PROVE  Accounted(e)'
<1>1. CASE ~Disconnect /\ (Broadcast => link = "up")
  BY <1>1, AccountStays
<1>2. CASE Disconnect \/ (Broadcast /\ link # "up")
  <2>1. link # "up" => link = "down"
    BY DEF ReplayTypeOK
  <2>2. QED
    BY <1>2, <2>1, DropIsMissed
<1>3. QED
  BY <1>1, <1>2

\* Every step keeps the events of the page without a gap.
LEMMA NoGapKept ==
  ASSUME ReplayAssumption, ReplayTypeOK, Numbered, Remembered, NoGap, [ReplayNext]_replayVars,
         ReplayTypeOK', Numbered'
  PROVE  NoGap'
<1>0. /\ latest \in Nat /\ latest <= MaxEvents /\ MaxEvents \in Nat /\ last \in Nat
      /\ last <= latest /\ link \in {"down", "up"} /\ latest' <= MaxEvents /\ latest' \in Nat
  BY DEF ReplayTypeOK, ReplayAssumption, Numbered
<1>h. /\ seen # <<>> => Head(seen) \in 1..MaxEvents
      /\ wire # <<>> => Head(wire) \in 1..MaxEvents
      /\ seen' # <<>> => Head(seen') \in 1..MaxEvents
      /\ wire' # <<>> => Head(wire') \in 1..MaxEvents
  BY EventsTyped, HeadTailProperties DEF ReplayTypeOK
<1>r. ASSUME NEW w \in Writers, Record(w)
      PROVE  latest' = latest + 1 /\ \A e : e = latest' => Accounted(e)'
  <2>1. latest' = latest + 1
    BY <1>r DEF Record
  <2>2. \A e : e = latest' => Pending(e)'
    BY <1>r, PendingMoves
  <2>3. QED
    BY <2>1, <2>2 DEF Accounted
<1>n. ASSUME NEW e \in Nat, e <= latest' PROVE e <= latest \/ Accounted(e)'
  BY <1>0, <1>r, <1>n, SeenMoves
<1>1. ASSUME link' = "up", seen' # <<>>, NEW e \in Head(seen')..latest' PROVE Accounted(e)'
  <2>1. e \in 1..MaxEvents
    BY <1>0, <1>1, <1>h
  <2>2. SUFFICES ASSUME e <= latest PROVE Accounted(e)'
    BY <1>n, <2>1
  <2>3. ~Disconnect
    BY <1>1 DEF Disconnect
  <2>4. CASE Reconnect
    <3>1. link = "down" /\ asked' = last /\ seen' = seen
      BY <2>4 DEF Reconnect
    <3>2. CASE e <= last
      <4>1. Accounted(e)
        BY <1>1, <3>1, <3>2, <2>1, <1>0 DEF NoGap
      <4>2. ~Broadcast
        BY <2>4 DEF Reconnect, Broadcast
      <4>3. QED
        BY <2>1, <2>2, <2>3, <4>1, <4>2, Stays
    <3>3. CASE e > last
      <4>1. last > 0
        BY <1>1, <3>1 DEF Remembered
      <4>2. UnderWay(e)'
        BY <3>1, <3>3, <4>1 DEF UnderWay
      <4>3. QED
        BY <4>2 DEF Accounted
    <3>4. QED
      BY <1>0, <2>1, <3>2, <3>3
  <2>5. CASE ~Reconnect
    <3>1. link = "up"
      BY <1>1, <2>3, <2>5, SeenMoves
    <3>2. Accounted(e)
      <4>1. CASE seen # <<>>
        <5>1. Head(seen') = Head(seen)
          BY <4>1, SeenMoves
        <5>2. e \in Head(seen)..latest
          BY <1>0, <1>1, <1>h, <2>1, <2>2, <5>1
        <5>3. QED
          BY <3>1, <4>1, <5>2 DEF NoGap
      <4>2. CASE seen = <<>>
        <5>1. wire # <<>> /\ Head(seen') = Head(wire)
          BY <1>1, <4>2, SeenMoves
        <5>2. e \in Head(wire)..latest
          BY <1>0, <1>1, <1>h, <2>1, <2>2, <5>1
        <5>3. QED
          BY <4>2, <5>1, <5>2 DEF NoGap
      <4>3. QED
        BY <4>1, <4>2
    <3>3. QED
      BY <2>1, <2>2, <2>3, <3>1, <3>2, Stays
  <2>6. QED
    BY <2>4, <2>5
<1>2. ASSUME link' = "down", seen' # <<>>, NEW e \in Head(seen')..last' PROVE Accounted(e)'
  <2>1. ~Receive /\ ~Reconnect
    BY <1>2 DEF Receive, Reconnect, Remembered
  <2>2. seen' = seen /\ last' = last
    BY <2>1, SeenMoves
  <2>3. e \in 1..MaxEvents /\ e <= last /\ e <= latest
    BY <1>0, <1>2, <1>h, <2>2
  <2>4. Contains(seen, e) \/ e < last
    BY <1>2, <2>2, <2>3, <1>0 DEF Remembered
  <2>5. Accounted(e)
    <3>1. e \in Head(seen)..last /\ e \in Head(seen)..latest
      BY <1>0, <1>2, <1>h, <2>2, <2>3
    <3>2. QED
      BY <1>0, <1>2, <2>2, <3>1 DEF NoGap
  <2>6. QED
    BY <2>3, <2>4, <2>5, Stays
<1>3. ASSUME seen' = <<>>, wire' # <<>>, NEW e \in Head(wire')..latest' PROVE Accounted(e)'
  <2>1. e \in 1..MaxEvents
    BY <1>0, <1>3, <1>h
  <2>2. SUFFICES ASSUME e <= latest PROVE Accounted(e)'
    BY <1>n, <2>1
  <2>3. seen = <<>> /\ ~Receive
    BY <1>3, SeenMoves
  <2>4. ~Disconnect /\ ~SendReplay
    BY <1>3, <2>3 DEF Disconnect, SendReplay, Remembered
  <2>5. CASE Broadcast
    <3>1. link = "up" /\ wire' = Append(wire, Head(scheduled))
      <4>1. link = "down" => wire = <<>>
        BY DEF Remembered
      <4>2. IF link = "up" THEN wire' = Append(wire, Head(scheduled)) ELSE wire' = wire
        BY <2>5 DEF Broadcast
      <4>3. QED
        BY <1>0, <1>3, <4>1, <4>2
    <3>2. /\ Pending(Head(scheduled)) /\ Head(scheduled) \in 1..MaxEvents
      BY <2>5, PendingMoves
    <3>3. wire \in Seq(1..MaxEvents)
      BY DEF ReplayTypeOK
    <3>4. /\ Head(Append(wire, Head(scheduled))) = IF wire = <<>> THEN Head(scheduled) ELSE Head(wire)
      BY <3>3, AppendFirst, Zenon
    <3>5. Accounted(e)
      <4>1. CASE wire = <<>>
        <5>1. e \in Head(scheduled)..latest
          BY <1>0, <1>3, <2>1, <2>2, <3>1, <3>2, <3>4, <4>1
        <5>2. QED
          BY <2>3, <3>2, <5>1 DEF NoGap
      <4>2. CASE wire # <<>>
        <5>1. e \in Head(wire)..latest
          BY <1>0, <1>3, <1>h, <2>1, <2>2, <3>1, <3>4, <4>2
        <5>2. QED
          BY <2>3, <4>2, <5>1 DEF NoGap
      <4>3. QED
        BY <4>1, <4>2
    <3>6. QED
      BY <2>1, <2>2, <2>4, <3>1, <3>5, Stays
  <2>6. CASE ~Broadcast
    <3>1. wire' = wire
      BY <2>3, <2>4, <2>6 DEF ReplayNext, Record, HandOn, Reconnect, ReadReplay, replayVars, connection
    <3>2. e \in Head(wire)..latest
      BY <1>0, <1>3, <1>h, <2>1, <2>2, <3>1
    <3>3. Accounted(e)
      BY <1>3, <2>3, <3>1, <3>2 DEF NoGap
    <3>4. QED
      BY <2>1, <2>2, <2>4, <2>6, <3>3, Stays
  <2>7. QED
    BY <2>5, <2>6
<1>4. ASSUME seen' = <<>>, NEW p \in 1..MaxEvents, Pending(p)', NEW e \in p..latest'
      PROVE  Accounted(e)'
  <2>1. e \in 1..MaxEvents /\ p \in Nat
    BY <1>0, <1>4
  <2>2. SUFFICES ASSUME e <= latest PROVE Accounted(e)'
    BY <1>n, <2>1
  <2>3. seen = <<>> /\ ~Receive
    BY <1>4, SeenMoves
  <2>4. CASE p = e
    BY <1>4, <2>4 DEF Accounted
  <2>5. CASE p # e
    <3>1. Pending(p)
      <4>1. p < latest + 1
        BY <1>0, <1>4, <2>1, <2>2
      <4>2. \A w \in Writers : Record(w) => Pending(p)
        BY <1>0, <1>4, <1>r, <2>1, <4>1, PendingMoves
      <4>3. QED
        BY <1>4, <2>3, <4>2, PendingMoves
           DEF ReplayNext, Disconnect, Reconnect, ReadReplay, SendReplay, replayVars
    <3>2. e \in p..latest /\ p \in 1..(e - 1)
      BY <1>0, <1>4, <2>1, <2>2, <2>5
    <3>3. Accounted(e)
      BY <2>3, <3>1, <3>2 DEF NoGap
    <3>4. last = 0
      BY <2>3 DEF Remembered
    <3>5. QED
      BY <2>1, <2>2, <3>1, <3>2, <3>3, <3>4, Stays
  <2>6. QED
    BY <2>4, <2>5
<1>5. QED
  BY <1>1, <1>2, <1>3, <1>4 DEF NoGap

\* The initial states.
LEMMA InitReplay == ReplayAssumption /\ ReplayInit => ReplayInv
<1> SUFFICES ASSUME ReplayAssumption, ReplayInit PROVE ReplayInv
  OBVIOUS
<1>1. /\ latest = 0 /\ recorded = [w \in Writers |-> 0] /\ scheduled = <<>>
      /\ link = "up" /\ wire = <<>> /\ asked = 0 /\ replay = <<>>
      /\ last = 0 /\ seen = <<>> /\ drops = 0 /\ missed = {}
  BY DEF ReplayInit
<1>2. MaxEvents \in Nat /\ MaxDrops \in Nat
  BY DEF ReplayAssumption
<1>3. ReplayTypeOK
  <2>1. \A S : <<>> \in Seq(S)
    OBVIOUS
  <2>2. 0 \in 0..MaxEvents /\ 0 \in 0..MaxDrops
    BY <1>2
  <2>3. recorded \in [Writers -> 0..MaxEvents]
    BY <1>1, <2>2
  <2>4. QED
    BY <1>1, <2>1, <2>2, <2>3 DEF ReplayTypeOK
<1>4. Numbered /\ Remembered
  BY <1>1 DEF Numbered, Remembered
<1>5. NoGap
  <2>1. \A p \in 1..MaxEvents : ~Pending(p)
    BY <1>1, <1>2 DEF Pending, Contains
  <2>2. QED
    BY <1>1, <2>1 DEF NoGap
<1>6. QED
  BY <1>3, <1>4, <1>5 DEF ReplayInv

\* Together.
LEMMA ReplayKept == ReplayAssumption /\ ReplayInv /\ [ReplayNext]_replayVars => ReplayInv'
<1> SUFFICES ASSUME ReplayAssumption, ReplayInv, [ReplayNext]_replayVars PROVE ReplayInv'
  OBVIOUS
<1>1. ReplayTypeOK /\ Numbered /\ Remembered /\ NoGap
  BY DEF ReplayInv
<1>2. ReplayTypeOK' /\ Numbered' /\ Remembered'
  BY <1>1, ReplayTypeKept, NumbersKept, RememberedKept
<1>3. NoGap'
  BY <1>1, <1>2, NoGapKept
<1>4. QED
  BY <1>2, <1>3 DEF ReplayInv

\* What lies up to the last event is accounted for, with a connection or without.
LEMMA InvariantLosesNothing == ReplayAssumption /\ ReplayInv => OnlyMissedAreSkipped
<1> SUFFICES ASSUME ReplayAssumption, ReplayInv, seen # <<>>, NEW e \in Head(seen)..last
             PROVE  Accounted(e)
  BY DEF OnlyMissedAreSkipped
<1>1. /\ latest \in Nat /\ last \in Nat /\ last <= latest /\ link \in {"down", "up"}
      /\ Head(seen) \in 1..MaxEvents
  BY EventsTyped DEF ReplayInv, ReplayTypeOK, Numbered
<1>2. e \in Head(seen)..latest
  BY <1>1 DEF ReplayAssumption
<1>3. QED
  BY <1>1, <1>2 DEF ReplayInv, NoGap

(* The inductive invariant holds for any writers, events, lost connections and limit. *)
THEOREM ReplayInvariantHolds == ReplayAssumption /\ ReplaySpec => []ReplayInv
<1>1. ASSUME ReplayAssumption PROVE ReplaySpec => []ReplayInv
  <2>1. ReplayInit => ReplayInv
    BY <1>1, InitReplay
  <2>2. ReplayInv /\ [ReplayNext]_replayVars => ReplayInv'
    BY <1>1, ReplayKept
  <2>3. QED
    BY <2>1, <2>2, PTL DEF ReplaySpec
<1>2. QED
  BY <1>1

(* However many threads record, broadcasts, replays and lost connections interleave, and
   long the page is away: an event between its first and its last has come or comes, or it
   was dropped or cut off by the limit where the page does not ask for it (events_since,
   rememberRuntimeSeq). *)
THEOREM OnlyMissedEventsAreSkipped == ReplayAssumption /\ ReplaySpec => []OnlyMissedAreSkipped
<1>1. ASSUME ReplayAssumption PROVE ReplaySpec => []OnlyMissedAreSkipped
  <2>1. ReplaySpec => []ReplayInv
    BY <1>1, ReplayInvariantHolds
  <2>2. ReplayInv => OnlyMissedAreSkipped
    BY <1>1, InvariantLosesNothing
  <2>3. QED
    BY <2>1, <2>2, PTL
<1>2. QED
  BY <1>1

(***************************************************************************)
(* The bus, with any requests, through its shutdown.                       *)
(***************************************************************************)
\* The dispatcher has an event in its hand exactly between taking it and its task.
HandIsFull ==
    /\ dispatcher \in {"got", "handing"} => carried \in Requests
    /\ dispatcher \in {"waiting", "stopped"} => carried = NoEvent

BusInv == BusTypeOK /\ HandIsFull /\ WaitersAreServed

\* A queue of requests after one is appended, and after its first is taken.
LEMMA QueueGrows ==
  ASSUME NEW q \in Seq(Requests), NEW r \in Requests
  PROVE  Append(q, r) \in Seq(Requests) /\ Range(Append(q, r)) = Range(q) \cup {r}
<1>1. /\ Append(q, r) \in Seq(Requests) /\ Len(Append(q, r)) = Len(q) + 1
      /\ \A i \in 1 .. Len(q) : Append(q, r)[i] = q[i]
      /\ Append(q, r)[Len(q) + 1] = r
  BY AppendProperties
<1>2. Len(q) \in Nat /\ DOMAIN q = 1 .. Len(q) /\ DOMAIN Append(q, r) = 1 .. (Len(q) + 1)
  BY <1>1, LenProperties
<1>3. 1 .. (Len(q) + 1) = (1 .. Len(q)) \cup {Len(q) + 1}
  BY <1>2
<1>4. QED
  BY <1>1, <1>2, <1>3 DEF Range

LEMMA QueueShrinks ==
  ASSUME NEW q \in Seq(Requests), q # <<>>
  PROVE  /\ Head(q) \in Requests /\ Tail(q) \in Seq(Requests)
         /\ Range(q) = Range(Tail(q)) \cup {Head(q)}
<1>1. /\ Head(q) \in Requests /\ Tail(q) \in Seq(Requests) /\ Len(Tail(q)) = Len(q) - 1
      /\ \A i \in 1 .. Len(Tail(q)) : Tail(q)[i] = q[i + 1]
      /\ Head(q) = q[1]
  BY HeadTailProperties
<1>2. Len(q) \in Nat \ {0} /\ DOMAIN q = 1 .. Len(q) /\ DOMAIN Tail(q) = 1 .. (Len(q) - 1)
  BY <1>1, LenProperties, EmptySeq
<1>3. ASSUME NEW i \in 1 .. Len(q) PROVE i = 1 \/ (i - 1 \in 1 .. (Len(q) - 1) /\ q[i] = Tail(q)[i - 1])
  BY <1>1, <1>2
<1>4. ASSUME NEW x \in Range(q) PROVE x \in Range(Tail(q)) \cup {Head(q)}
  <2>1. PICK i \in 1 .. Len(q) : x = q[i]
    BY <1>2 DEF Range
  <2>2. CASE i = 1
    BY <1>1, <2>1, <2>2
  <2>3. CASE i # 1
    <3>1. i - 1 \in 1 .. (Len(q) - 1) /\ x = Tail(q)[i - 1]
      BY <1>3, <2>1, <2>3
    <3>2. QED
      BY <1>2, <3>1 DEF Range
  <2>4. QED
    BY <2>2, <2>3
<1>5. Range(Tail(q)) \cup {Head(q)} \subseteq Range(q)
  BY <1>1, <1>2 DEF Range
<1>6. QED
  BY <1>1, <1>4, <1>5

\* Who waits is settled, or stays.
LEMMA Settled ==
  ASSUME BusTypeOK, NEW S \in SUBSET Requests, NEW how \in {"answered", "timed out", "canceled"},
         Settle(S, how)
  PROVE  /\ waiter' \in [Requests -> {"none", "waiting", "answered", "timed out", "canceled"}]
         /\ Waiting' = Waiting \ S
         /\ \A r \in Requests : waiter[r] = "none" <=> waiter'[r] = "none"
  BY DEF Settle, Waiting, BusTypeOK

LEMMA InitBus == BusInit => BusInv
<1>1. <<>> \in Seq(Requests)
  OBVIOUS
<1>2. QED
  BY <1>1 DEF BusInit, BusInv, BusTypeOK, HandIsFull, WaitersAreServed, Waiting

LEMMA BusKept == BusInv /\ [BusNext]_busVars => BusInv'
<1> SUFFICES ASSUME BusInv, [BusNext]_busVars PROVE BusInv'
  OBVIOUS
<1> DEFINE Goal == BusInv'
<1>0. /\ waiter \in [Requests -> {"none", "waiting", "answered", "timed out", "canceled"}]
      /\ pending \subseteq Requests /\ withdrawn \subseteq Requests
      /\ events \in Seq(Requests) /\ Range(events) \subseteq Requests
      /\ turn \in [Requests -> {"none", "running", "canceling", "ended"}]
      /\ lost \subseteq Requests /\ shutdown \in BOOLEAN /\ serving \in BOOLEAN
      /\ stop \in {"no", "grace", "tasks", "over"}
      /\ BusTypeOK /\ HandIsFull /\ WaitersAreServed
  <2>1. BusTypeOK /\ HandIsFull /\ WaitersAreServed
    BY DEF BusInv
  <2>2. events \in Seq(Requests)
    BY <2>1 DEF BusTypeOK
  <2>3. \A i \in DOMAIN events : events[i] \in Requests
    BY <2>2
  <2>4. Range(events) \subseteq Requests
    BY <2>3 DEF Range
  <2>5. QED
    BY <2>1, <2>2, <2>4 DEF BusTypeOK
<1>1. ASSUME NEW r \in Requests, Request(r) PROVE Goal
  <2>1. /\ waiter[r] = "none" /\ waiter' = [waiter EXCEPT ![r] = "waiting"]
        /\ pending' = pending \cup {r} /\ events' = Append(events, r)
        /\ UNCHANGED <<withdrawn, serving, dispatcher, carried, turn, lost, shutdown, stop>>
    BY <1>1 DEF Request, loop
  <2>2. events' \in Seq(Requests) /\ Range(events') = Range(events) \cup {r}
    BY <1>0, <2>1, QueueGrows
  <2>3. Waiting' = Waiting \cup {r}
    BY <1>0, <2>1 DEF Waiting
  <2>4. WaitersAreServed'
    BY <1>0, <2>1, <2>2, <2>3 DEF WaitersAreServed
  <2>5. HandIsFull'
    BY <1>0, <2>1 DEF HandIsFull
  <2>6. QED
    BY <1>0, <2>1, <2>2, <2>4, <2>5 DEF BusInv, BusTypeOK
<1>2. ASSUME NEW S \in SUBSET Requests, NEW how \in {"answered", "timed out", "canceled"},
             Settle(S, how), pending \ S \subseteq pending', pending' \subseteq pending,
             withdrawn' \subseteq Requests,
             turn' \in [Requests -> {"none", "running", "canceling", "ended"}],
             \A r \in Requests : turn[r] # "none" => turn'[r] # "none",
             UNCHANGED <<serving, events, dispatcher, carried, lost, shutdown, stop>>
      PROVE  Goal
  <2>1. /\ waiter' \in [Requests -> {"none", "waiting", "answered", "timed out", "canceled"}]
        /\ Waiting' = Waiting \ S
    BY <1>0, <1>2, Settled
  <2>2. WaitersAreServed'
    BY <1>0, <1>2, <2>1 DEF WaitersAreServed, Waiting
  <2>3. QED
    BY <1>0, <1>2, <2>1, <2>2 DEF BusInv, BusTypeOK, HandIsFull
<1>3. ASSUME NEW r \in Requests, Timeout(r) \/ ClientLeaves(r) PROVE Goal
  <2>1. {r} \in SUBSET Requests
    OBVIOUS
  <2>2. CASE Timeout(r)
    BY <1>0, <1>2, <2>1, <2>2 DEF Timeout, loop
  <2>3. CASE ClientLeaves(r)
    BY <1>0, <1>2, <2>1, <2>3 DEF ClientLeaves, loop
  <2>4. QED
    BY <1>3, <2>2, <2>3
<1>4. ASSUME NEW r \in Requests, AnswerRequest(r) PROVE Goal
  <2>1. pending \cap {r} \in SUBSET Requests /\ pending \ {r} = pending \ (pending \cap {r})
    OBVIOUS
  <2>2. turn' = [turn EXCEPT ![r] = "ended"]
    BY <1>4 DEF AnswerRequest
  <2>3. QED
    BY <1>0, <1>2, <1>4, <2>1, <2>2 DEF AnswerRequest, loop
<1>5. ASSUME NEW r \in Requests, EndSilently(r) PROVE Goal
  <2>1. turn' = [turn EXCEPT ![r] = "ended"] /\ UNCHANGED <<http, events, loop, lost, shutdown, stop>>
    BY <1>5 DEF EndSilently
  <2>2. WaitersAreServed' /\ HandIsFull'
    BY <1>0, <2>1 DEF WaitersAreServed, HandIsFull, Waiting, http, loop
  <2>3. QED
    BY <1>0, <2>1, <2>2 DEF BusInv, BusTypeOK, http, loop
<1>6. ASSUME Get PROVE Goal
  <2>1. /\ dispatcher = "waiting" /\ events # <<>> /\ carried' = Head(events)
        /\ events' = Tail(events) /\ dispatcher' = "got"
        /\ UNCHANGED <<waiter, pending, withdrawn, serving, turn, lost, shutdown, stop>>
    BY <1>6 DEF Get, http
  <2>2. /\ carried' \in Requests /\ events' \in Seq(Requests)
        /\ Range(events) = Range(events') \cup {carried'}
    BY <1>0, <2>1, QueueShrinks
  <2>3. carried = NoEvent
    BY <1>0, <2>1 DEF HandIsFull
  <2>4. ASSUME NEW r \in Waiting' PROVE /\ r \in pending' /\ r \in Requests
                                        /\ \/ shutdown' \/ turn'[r] # "none"
                                           \/ r \in Range(events') \cup {carried'}
    <3>1. r \in Waiting /\ r \in Requests
      BY <2>1, <2>4 DEF Waiting
    <3>2. r \in pending /\ (shutdown \/ turn[r] # "none" \/ r \in Range(events) \cup {carried})
      BY <1>0, <3>1 DEF WaitersAreServed
    <3>3. r # carried
      BY <2>3, <3>1, BusAssumption
    <3>4. QED
      BY <2>1, <2>2, <3>1, <3>2, <3>3
  <2>5. WaitersAreServed'
    BY <2>4 DEF WaitersAreServed
  <2>6. QED
    BY <1>0, <2>1, <2>2, <2>5 DEF BusInv, BusTypeOK, HandIsFull
<1>7. ASSUME WakeLoop PROVE Goal
  <2>1. /\ UNCHANGED <<waiter, pending, withdrawn, serving, events, turn, shutdown, stop>>
        /\ dispatcher = "got" \/ (dispatcher = "waiting" /\ shutdown)
    BY <1>7 DEF WakeLoop, http
  <2>2. CASE shutdown
    <3>1. /\ dispatcher' = "stopped" /\ carried' = NoEvent
          /\ lost' = IF carried = NoEvent THEN lost ELSE lost \cup {carried}
      BY <1>7, <2>2 DEF WakeLoop
    <3>2. lost' \subseteq Requests
      BY <1>0, <2>1, <3>1 DEF HandIsFull
    <3>3. WaitersAreServed'
      BY <1>0, <2>1, <2>2 DEF WaitersAreServed, Waiting
    <3>4. QED
      BY <1>0, <2>1, <3>1, <3>2, <3>3 DEF BusInv, BusTypeOK, HandIsFull
  <2>3. CASE ~shutdown
    <3>1. dispatcher = "got" /\ dispatcher' = "handing" /\ UNCHANGED <<carried, lost>>
      BY <1>7, <2>1, <2>3 DEF WakeLoop
    <3>2. WaitersAreServed'
      BY <1>0, <2>1, <3>1 DEF WaitersAreServed, Waiting
    <3>3. QED
      BY <1>0, <2>1, <3>1, <3>2 DEF BusInv, BusTypeOK, HandIsFull
  <2>4. QED
    BY <2>2, <2>3
<1>8. ASSUME Dispatch PROVE Goal
  <2>1. /\ carried \in Requests /\ turn' = [turn EXCEPT ![carried] = "running"]
        /\ dispatcher' \in {"stopped", "waiting"} /\ carried' = NoEvent
        /\ UNCHANGED <<waiter, pending, withdrawn, serving, events, lost, shutdown, stop>>
    BY <1>0, <1>8 DEF Dispatch, HandIsFull, http
  <2>2. \A r \in Requests : turn'[r] = IF r = carried THEN "running" ELSE turn[r]
    BY <1>0, <2>1
  <2>3. WaitersAreServed'
    BY <1>0, <2>1, <2>2 DEF WaitersAreServed, Waiting
  <2>4. QED
    BY <1>0, <2>1, <2>3 DEF BusInv, BusTypeOK, HandIsFull
<1>9. ASSUME Stop PROVE Goal
  <2>1. /\ Settle(pending, "canceled") /\ pending' = {} /\ shutdown' = TRUE
        /\ lost' = lost \cup Range(events) /\ events' = <<>>
        /\ turn' = [r \in Requests |-> IF turn[r] = "running" THEN "canceling" ELSE turn[r]]
        /\ stop' \in {"tasks", "grace"}
        /\ UNCHANGED <<withdrawn, serving, dispatcher, carried>>
    BY <1>9 DEF Stop, ShutdownBus, loop
  <2>2. /\ waiter' \in [Requests -> {"none", "waiting", "answered", "timed out", "canceled"}]
        /\ Waiting' = Waiting \ pending
    BY <1>0, <2>1, Settled
  <2>3. Waiting' = {}
    BY <1>0, <2>2 DEF WaitersAreServed
  <2>4. WaitersAreServed'
    BY <2>3 DEF WaitersAreServed
  <2>5. turn' \in [Requests -> {"none", "running", "canceling", "ended"}]
    BY <1>0, <2>1
  <2>6. <<>> \in Seq(Requests)
    OBVIOUS
  <2>7. lost' \subseteq Requests
    BY <1>0, <2>1
  <2>8. HandIsFull'
    BY <1>0, <2>1 DEF HandIsFull
  <2>9. BusTypeOK'
    BY <1>0, <2>1, <2>2, <2>5, <2>6, <2>7 DEF BusTypeOK
  <2>10. QED
    BY <2>4, <2>8, <2>9 DEF BusInv
<1>10. ASSUME GraceEnds \/ ServerStops PROVE Goal
  <2>1. /\ UNCHANGED <<waiter, pending, withdrawn, events, dispatcher, carried, turn, lost, shutdown>>
        /\ stop' \in {"no", "grace", "tasks", "over"} /\ serving' \in BOOLEAN
    BY <1>0, <1>10 DEF GraceEnds, ServerStops, http, loop
  <2>2. WaitersAreServed'
    BY <1>0, <2>1 DEF WaitersAreServed, Waiting
  <2>3. QED
    BY <1>0, <2>1, <2>2 DEF BusInv, BusTypeOK, HandIsFull
<1>11. ASSUME CancelTasks PROVE Goal
  <2>1. /\ Settle(Requests, "canceled") /\ stop' = "over" /\ serving' = FALSE
        /\ dispatcher' = IF dispatcher = "handing" THEN dispatcher ELSE "stopped"
        /\ carried' = IF dispatcher = "handing" THEN carried ELSE NoEvent
        /\ lost' = IF dispatcher = "got" THEN lost \cup {carried} ELSE lost
        /\ UNCHANGED <<pending, withdrawn, events, turn, shutdown>>
    BY <1>11 DEF CancelTasks
  <2>2. /\ waiter' \in [Requests -> {"none", "waiting", "answered", "timed out", "canceled"}]
        /\ Waiting' = Waiting \ Requests
    BY <1>0, <2>1, Settled
  <2>3. WaitersAreServed'
    BY <2>2 DEF WaitersAreServed, Waiting
  <2>4. HandIsFull' /\ lost' \subseteq Requests
    BY <1>0, <2>1 DEF HandIsFull
  <2>5. carried' \in Requests \cup {NoEvent} /\ dispatcher' \in {"waiting", "got", "handing", "stopped"}
    BY <1>0, <2>1 DEF BusTypeOK
  <2>6. QED
    BY <1>0, <2>1, <2>2, <2>3, <2>4, <2>5 DEF BusInv, BusTypeOK
<1>12. ASSUME UNCHANGED busVars PROVE Goal
  <2>1. WaitersAreServed' /\ HandIsFull'
    BY <1>0, <1>12 DEF busVars, http, loop, WaitersAreServed, HandIsFull, Waiting
  <2>2. QED
    BY <1>0, <1>12, <2>1 DEF busVars, http, loop, BusInv, BusTypeOK
<1> HIDE DEF Goal
<1>13. ASSUME BusNext PROVE Goal
  BY <1>1, <1>3, <1>4, <1>5, <1>6, <1>7, <1>8, <1>9, <1>10, <1>11, <1>13 DEF BusNext
<1>14. Goal
  BY <1>12, <1>13
<1>15. QED
  BY <1>14 DEF Goal

\* The inductive invariant of the bus: whoever waits, its future is where an answer looks and
\* its event is on its way (event_bus.py, webchat.py).
THEOREM BusInvariantHolds == BusSpec => []BusInv
  BY InitBus, BusKept, PTL DEF BusSpec

\* Only the dispatcher starts a turn, of the event in its hand.
LEMMA OnlyDispatchStarts ==
  ASSUME BusInv, [BusNext]_busVars, NEW r \in Requests,
         shutdown, turn[r] = "none", turn'[r] = "running"
  PROVE  r = carried /\ dispatcher' = "stopped"
<1> DEFINE Goal == r = carried /\ dispatcher' = "stopped"
<1>0. turn \in [Requests -> {"none", "running", "canceling", "ended"}] /\ turn' # turn
  BY DEF BusInv, BusTypeOK
<1>1. ASSUME Dispatch PROVE Goal
  BY <1>0, <1>1 DEF Dispatch
<1>2. ASSUME NEW x \in Requests,
             Request(x) \/ Timeout(x) \/ ClientLeaves(x) \/ AnswerRequest(x) \/ EndSilently(x)
      PROVE  FALSE
  BY <1>0, <1>2 DEF Request, Timeout, ClientLeaves, AnswerRequest, EndSilently
<1>3. ASSUME Stop PROVE FALSE
  <2>1. turn' = [x \in Requests |-> IF turn[x] = "running" THEN "canceling" ELSE turn[x]]
    BY <1>3 DEF Stop, ShutdownBus
  <2>2. QED
    BY <2>1
<1>4. ASSUME Get \/ WakeLoop \/ GraceEnds \/ ServerStops \/ CancelTasks \/ UNCHANGED busVars PROVE FALSE
  BY <1>0, <1>4 DEF Get, WakeLoop, GraceEnds, ServerStops, CancelTasks, busVars
<1>5. QED
  BY <1>1, <1>2, <1>3, <1>4 DEF BusNext

\* Whoever waits can be answered, and once the bus has been told to stop at most the event in
\* its hand still starts a turn, for any requests (event_bus.py, lifecycle.py).
THEOREM ShutdownStaysOrderly == BusSpec => ShutdownIsOrderly
<1>1. BusInv => WaitersAreServed
  BY DEF BusInv
<1>2. BusInv /\ [BusNext]_busVars =>
        [\A r \in Requests : shutdown /\ turn[r] = "none" /\ turn'[r] = "running"
            => r = carried /\ dispatcher' = "stopped"]_busVars
  BY OnlyDispatchStarts
<1>3. QED
  BY <1>1, <1>2, BusInvariantHolds, PTL DEF BusSpec, ShutdownIsOrderly, AtMostOneStartsLate

----------------------------------------------------------------------------
(***************************************************************************)
(* The recorder of a turn, with any tool calls.                            *)
(***************************************************************************)
\* Before a turn starts it has no rows.
NothingBefore ==
    pipeline = "idle" =>
        /\ turnRow = "none" /\ thinking = "none" /\ response = "none"
        /\ chatThread = "none" /\ \A k \in Tools : tools[k] = "none"

\* The chat thread is over before the pipeline announces its answer, and has no call left.
ChatIsOver ==
    /\ pipeline \in {"announcing", "saving"} => chatThread = "over"
    /\ chatThread # "running" => toolCalls = {}

\* The outcome of a turn is written where the pipeline ends it.
OutcomeIsLast ==
    /\ pipeline \in {"idle", "waiting", "announcing"} => turnRow \in {"none", InProgress}
    /\ turnRow \in {"completed", "canceled"} =>
         pipeline \in {"saving", "over"} /\ chatThread = "over"

\* A recorder that has lost no write has an open item only where something is under way.
ItemsAreUnderWay ==
    ~broken =>
        /\ \A k \in Tools : tools[k] = InProgress /\ chatThread = "running" => k \in toolCalls
        /\ pipeline = "announcing" =>
             /\ thinking # InProgress /\ response # InProgress
             /\ \A k \in Tools : tools[k] # InProgress

RecorderInv ==
    /\ RecorderTypeOK /\ NothingBefore /\ ChatIsOver /\ OutcomeIsLast /\ ItemsAreUnderWay
    /\ NoItemIsOpen

LEMMA InitRecorder == RecorderInit => RecorderInv
  BY DEF RecorderInit, RecorderInv, RecorderTypeOK, NothingBefore, ChatIsOver, OutcomeIsLast,
         ItemsAreUnderWay, NoItemIsOpen, InProgress

LEMMA RecorderKept == RecorderInv /\ [RecorderNext]_recorderVars => RecorderInv'
<1> SUFFICES ASSUME RecorderInv, [RecorderNext]_recorderVars PROVE RecorderInv'
  OBVIOUS
<1> DEFINE Goal == RecorderInv'
<1> USE DEF RecorderInv, RecorderTypeOK, NothingBefore, ChatIsOver, OutcomeIsLast,
        ItemsAreUnderWay, NoItemIsOpen, InProgress, Written, rows
<1>1. ASSUME StartTurn PROVE Goal
  BY <1>1 DEF StartTurn
<1>2. ASSUME Think PROVE Goal
  BY <1>2 DEF Think
<1>3. ASSUME Token PROVE Goal
  BY <1>3 DEF Token, ThinkingDone, ThinkingMaybeDone
<1>4. ASSUME NEW k \in Tools, ToolStart(k) PROVE Goal
  BY <1>4 DEF ToolStart, ThinkingDone, ThinkingMaybeDone
<1>5. ASSUME NEW k \in Tools, ToolEnd(k) PROVE Goal
  BY <1>5 DEF ToolEnd
<1>6. ASSUME ChatFails PROVE Goal
  BY <1>6 DEF ChatFails
<1>7. ASSUME Deadline PROVE Goal
  BY <1>7 DEF Deadline
<1>8. ASSUME ChatReturnsLate PROVE Goal
  BY <1>8 DEF ChatReturnsLate
<1>9. ASSUME ChatReturns PROVE Goal
  BY <1>9 DEF ChatReturns, ThinkingDone, ThinkingMaybeDone
<1>10. ASSUME FinishTurn PROVE Goal
  BY <1>10 DEF FinishTurn
<1>11. ASSUME Save \/ SaveFails PROVE Goal
  BY <1>11 DEF Save, SaveFails
<1>12. ASSUME Crash PROVE Goal
  BY <1>12 DEF Crash
<1>13. ASSUME UNCHANGED recorderVars PROVE Goal
  BY <1>13 DEF recorderVars
<1> HIDE DEF Goal
<1>14. ASSUME RecorderNext PROVE Goal
  BY <1>1, <1>2, <1>3, <1>4, <1>5, <1>6, <1>7, <1>8, <1>9, <1>10, <1>11, <1>12, <1>14
     DEF RecorderNext
<1>15. Goal
  BY <1>13, <1>14
<1>16. QED
  BY <1>15 DEF Goal

\* The inductive invariant of the recorder: what is open while who works, and that an outcome
\* is the last thing written (_RuntimeTurnRecorder).
THEOREM RecorderInvariantHolds == RecorderSpec => []RecorderInv
  BY InitRecorder, RecorderKept, PTL DEF RecorderSpec

\* Only a failure to save replaces an outcome.
LEMMA OnlySavingFails ==
  ASSUME RecorderInv, [RecorderNext]_recorderVars,
         turnRow \in {"completed", "canceled", "failed"}, turnRow' # turnRow
  PROVE  turnRow # "failed" /\ turnRow' = "failed" /\ pipeline = "saving"
<1> DEFINE Goal == turnRow # "failed" /\ turnRow' = "failed" /\ pipeline = "saving"
<1>0. pipeline \in {"saving", "over"}
  BY DEF RecorderInv, RecorderTypeOK, OutcomeIsLast, InProgress
<1>1. ASSUME SaveFails PROVE Goal
  BY <1>1 DEF SaveFails, Written
<1>2. ASSUME StartTurn \/ Deadline \/ FinishTurn \/ ChatFails PROVE FALSE
  BY <1>0, <1>2 DEF StartTurn, Deadline, FinishTurn, ChatFails
<1>3. ASSUME Think \/ Token \/ \E k \in Tools : ToolStart(k) \/ ToolEnd(k) PROVE FALSE
  BY <1>3 DEF Think, Token, ToolStart, ToolEnd
<1>4. ASSUME ChatReturnsLate \/ ChatReturns \/ Save \/ Crash \/ UNCHANGED recorderVars PROVE FALSE
  BY <1>4 DEF ChatReturnsLate, ChatReturns, Save, Crash, recorderVars, rows
<1>5. QED
  BY <1>1, <1>2, <1>3, <1>4 DEF RecorderNext

\* A turn that ended well has no item under way, and only a failure to save its history
\* changes an outcome, for any number of tools (process.py, timeline.py).
THEOREM EndedTurnsStayClosed == RecorderSpec => EndedTurnsAreClosed
<1>1. RecorderInv => NoItemIsOpen
  BY DEF RecorderInv
<1>2. RecorderInv /\ [RecorderNext]_recorderVars =>
        [(turnRow \in {"completed", "canceled", "failed"} /\ turnRow' # turnRow)
           => turnRow # "failed" /\ turnRow' = "failed" /\ pipeline = "saving"]_recorderVars
  BY OnlySavingFails
<1>3. QED
  BY <1>1, <1>2, RecorderInvariantHolds, PTL DEF RecorderSpec, EndedTurnsAreClosed, OutcomeOnlyFails
=============================================================================

------------------------------ MODULE AgentProofs ------------------------------
(***************************************************************************)
(* What holds of AgentLoop for any turns, rounds, tool calls and lengths of *)
(* the history: the binding of the turn that is served, and the pairing of *)
(* tool calls and results through compression.  And of Approvals, for any  *)
(* requests and operations: what is run of what tools hold back.           *)
(***************************************************************************)
EXTENDS AgentLoop, SequenceTheorems, TLAPS

----------------------------------------------------------------------------
(***************************************************************************)
(* Messages and pieces of the history.                                     *)
(***************************************************************************)
LEMMA MessagesTyped ==
  ASSUME LoopAssumption, TypeOK, NEW t \in Turns
  PROVE  /\ User(t) \in Messages /\ Summary \in Messages
         /\ \A n \in 0..MaxCalls : Answer(t, n) \in Messages
         /\ \A k \in 1..calls[t] : Result(t, round[t], k) \in Messages
<1>1. /\ 0 \in 0..MaxRounds /\ 0 \in 0..MaxCalls /\ round[t] \in 0..MaxRounds
      /\ \A k \in 1..calls[t] : k \in 0..MaxCalls
  BY DEF LoopAssumption, TypeOK
<1>2. QED
  BY <1>1 DEF User, Summary, Answer, Result, Message, Messages

LEMMA ResultsProperties ==
  ASSUME LoopAssumption, TypeOK, NEW t \in Turns
  PROVE  /\ Results(t) \in Seq(Messages) /\ Len(Results(t)) = calls[t]
         /\ \A k \in 1..calls[t] : Results(t)[k] = Result(t, round[t], k)
<1>1. calls[t] \in Nat
  BY DEF TypeOK, LoopAssumption
<1>2. \A k \in 1..calls[t] : Result(t, round[t], k) \in Messages
  BY MessagesTyped
<1>3. Results(t) = [k \in 1..calls[t] |-> Result(t, round[t], k)]
  BY DEF Results
<1> HIDE DEF Messages
<1>4. Results(t) \in [1..calls[t] -> Messages]
  BY <1>2, <1>3
<1>5. QED
  BY <1>1, <1>3, <1>4

LEMMA LastProperties ==
  ASSUME HistoryTyped, NEW n \in 0..Len(messages)
  PROVE  /\ Newest(n) \in Seq(Messages) /\ Len(Newest(n)) = n
         /\ \A i \in 1..n : Newest(n)[i] = messages[Len(messages) - n + i]
<1>1. messages \in Seq(Messages) /\ Len(messages) \in Nat
  BY DEF HistoryTyped
<1> DEFINE m == Len(messages) - n + 1
<1>2. m \in Int /\ Len(messages) \in Int /\ \A i \in m..Len(messages) : messages[i] \in Messages
  BY <1>1
<1>3. /\ Newest(n) = SubSeq(messages, m, Len(messages))
      /\ Len(messages) - m + 1 = n
  BY <1>1 DEF Newest
<1>4. /\ Newest(n) \in Seq(Messages)
      /\ Len(Newest(n)) = IF m <= Len(messages) THEN Len(messages) - m + 1 ELSE 0
      /\ \A i \in 1..(Len(messages) - m + 1) : Newest(n)[i] = messages[m + i - 1]
  BY <1>2, <1>3, SubSeqProperties
<1>5. QED
  BY <1>1, <1>3, <1>4

(* A compressed history: the summary, its acknowledgement and the tail. *)
LEMMA ReplacedProperties ==
  ASSUME LoopAssumption, TypeOK, NEW tail \in Seq(Messages), NEW t \in Turns,
         NEW h, h = <<Summary, Summary>> \o tail
  PROVE  /\ h \in Seq(Messages) /\ Len(h) = Len(tail) + 2
         /\ h[1] = Summary /\ h[2] = Summary
         /\ \A i \in 3..Len(h) : h[i] = tail[i - 2]
<1>1. Summary \in Messages
  BY MessagesTyped
<1> HIDE DEF Messages
<1>2. /\ <<Summary, Summary>> \in Seq(Messages) /\ Len(<<Summary, Summary>>) = 2
      /\ <<Summary, Summary>>[1] = Summary /\ <<Summary, Summary>>[2] = Summary
      /\ Len(tail) \in Nat
  BY <1>1
<1> DEFINE s == <<Summary, Summary>>
<1> HIDE DEF s
<1>3. /\ s \in Seq(Messages) /\ Len(s) = 2 /\ s[1] = Summary /\ s[2] = Summary /\ h = s \o tail
  BY <1>2 DEF s
<1>4. /\ h \in Seq(Messages) /\ Len(h) = 2 + Len(tail)
      /\ \A i \in 1..(2 + Len(tail)) : h[i] = IF i <= 2 THEN s[i] ELSE tail[i - 2]
  BY <1>3, ConcatProperties
<1>5. QED
  BY <1>2, <1>3, <1>4

LEMMA TypedMessages ==
  ASSUME NEW h \in Seq(Messages), NEW i \in DOMAIN h
  PROVE  /\ h[i] \in Messages /\ i \in 1..Len(h)
         /\ h[i].role \in {"user", "assistant", "tool", "summary"}
         /\ h[i].turn \in Turns \cup {None} /\ h[i].round \in 0..MaxRounds
         /\ h[i].n \in 0..MaxCalls
<1>1. h[i] \in Messages /\ i \in 1..Len(h)
  BY LenProperties, ElementOfSeq
<1>2. QED
  BY <1>1 DEF Messages

----------------------------------------------------------------------------
(***************************************************************************)
(* Types.                                                                  *)
(***************************************************************************)
Stages == {"new", "compressing", "summarizing", "collapsing", "calling", "streaming", "tools",
           "over"}

(* TypeOK without the history. *)
CountersTyped ==
    /\ cancelled \in BOOLEAN /\ interrupted \in BOOLEAN /\ torn \in BOOLEAN
    /\ bound \in Turns \cup {None} /\ holder \in Turns \cup {None}
    /\ at \in [Turns -> Stages]
    /\ round \in [Turns -> 0..MaxRounds] /\ calls \in [Turns -> 0..MaxCalls]
    /\ abandoned \subseteq Research

LEMMA TypeOfParts ==
  ASSUME HistoryTyped, CountersTyped
  PROVE  TypeOK
<1>1. messages \in Seq(Messages)
  BY DEF HistoryTyped
<1>2. ASSUME NEW i \in DOMAIN messages
      PROVE  /\ messages[i].role \in {"user", "assistant", "tool", "summary"}
             /\ messages[i].turn \in Turns \cup {None}
             /\ messages[i].round \in 0..MaxRounds /\ messages[i].n \in 0..MaxCalls
  BY <1>1, TypedMessages
<1>3. QED
  BY <1>2 DEF TypeOK, CountersTyped, Stages

LEMMA PartsOfType == TypeOK => CountersTyped
  BY DEF TypeOK, CountersTyped, Stages

LEMMA HistoryKept ==
  ASSUME LoopAssumption, TypeOK, HistoryTyped, [Next]_vars
  PROVE  HistoryTyped'
<1>0. /\ messages \in Seq(Messages) /\ kept \in [Turns -> Seq(Messages)]
      /\ Len(messages) \in Nat
      /\ {SummarizeAbove, KeepRecent, KeepLast} \subseteq Nat /\ KeepRecent < SummarizeAbove
  BY DEF HistoryTyped, LoopAssumption
<1> HIDE DEF Messages
<1>1. ASSUME UNCHANGED <<messages, kept>> PROVE HistoryTyped'
  BY <1>0, <1>1 DEF HistoryTyped
<1>2. ASSUME NEW t \in Turns, Begin(t) PROVE HistoryTyped'
  <2>1. messages' = Append(messages, User(t)) /\ kept' = kept /\ User(t) \in Messages
    BY <1>2, MessagesTyped DEF Begin
  <2>2. QED
    BY <1>0, <2>1, AppendProperties DEF HistoryTyped
<1>3. ASSUME NEW t \in Turns, NEW how, NEW n \in 0..Len(messages), Cut(t, how, n)
      PROVE  HistoryTyped'
  <2>1. messages' = messages /\ kept' = [kept EXCEPT ![t] = Newest(n)] /\ Newest(n) \in Seq(Messages)
    BY <1>3, LastProperties DEF Cut
  <2>2. QED
    BY <1>0, <2>1 DEF HistoryTyped
<1>4. ASSUME NEW t \in Turns, Replace(t) PROVE HistoryTyped'
  <2>1. /\ messages' = <<Summary, Summary>> \o kept[t]
        /\ kept' = [kept EXCEPT ![t] = <<>>]
    BY <1>4 DEF Replace
  <2>2. messages' \in Seq(Messages)
    BY <1>0, <2>1, ReplacedProperties
  <2>3. kept' \in [Turns -> Seq(Messages)]
    BY <1>0, <2>1
  <2>4. QED
    BY <2>2, <2>3 DEF HistoryTyped
<1>5. ASSUME NEW t \in Turns, Reply(t) PROVE HistoryTyped'
  <2>1. kept' = kept /\ (messages' = messages \/ \E n \in 0..MaxCalls : messages' = Append(messages, Answer(t, n)))
    BY <1>5 DEF Reply
  <2>2. CASE \E n \in 0..MaxCalls : messages' = Append(messages, Answer(t, n))
    <3>1. PICK n \in 0..MaxCalls : messages' = Append(messages, Answer(t, n))
      BY <2>2
    <3>2. Answer(t, n) \in Messages
      BY MessagesTyped
    <3>3. QED
      BY <1>0, <2>1, <3>1, <3>2, AppendProperties DEF HistoryTyped
  <2>3. QED
    BY <1>1, <2>1, <2>2
<1>6. ASSUME NEW t \in Turns, ToolsEnd(t) PROVE HistoryTyped'
  <2>1. messages' = messages \o Results(t) /\ kept' = kept /\ Results(t) \in Seq(Messages)
    BY <1>6, ResultsProperties DEF ToolsEnd
  <2>2. messages' \in Seq(Messages)
    BY <1>0, <2>1, ConcatProperties
  <2>3. QED
    BY <1>0, <2>1, <2>2 DEF HistoryTyped
<1>7. ASSUME NEW t \in Turns, Summarize(t) PROVE HistoryTyped'
  BY <1>0, <1>3, <1>7 DEF Summarize
<1>8. ASSUME NEW t \in Turns, Collapse(t) PROVE HistoryTyped'
  BY <1>0, <1>3, <1>8 DEF Collapse
<1>9. ASSUME NEW t \in Turns, Skip(t) \/ Call(t) \/ ModelFails(t) \/ SpillFails(t) \/ Abandon(t)
      PROVE  HistoryTyped'
  BY <1>1, <1>9 DEF Skip, Call, ModelFails, SpillFails, Abandon, chat
<1>10. CASE Cancel
  BY <1>1, <1>10 DEF Cancel, chat
<1>11. CASE UNCHANGED vars
  BY <1>1, <1>11 DEF vars, chat
<1>12. QED
  BY <1>2, <1>4, <1>5, <1>6, <1>7, <1>8, <1>9, <1>10, <1>11 DEF Next, Step

(* The rounds and calls of a chat stay within their bounds. *)
LEMMA CountersKept ==
  ASSUME LoopAssumption, CountersTyped, CallsBounded, [Next]_vars
  PROVE  CountersTyped' /\ CallsBounded'
<1> USE DEF CountersTyped, Stages
<1>0. MaxRounds \in Nat /\ MaxCalls \in Nat /\ Research \subseteq Turns
  BY DEF LoopAssumption
<1> USE <1>0
<1>1. ASSUME UNCHANGED <<cancelled, interrupted, torn, bound, holder, at, round, calls, abandoned>>
      PROVE  CountersTyped' /\ CallsBounded'
  BY <1>1 DEF CallsBounded
<1>2. ASSUME NEW t \in Turns, ChatEnds(t), interrupted' \in BOOLEAN, torn' \in BOOLEAN,
             UNCHANGED <<cancelled, abandoned>>
      PROVE  CountersTyped' /\ CallsBounded'
  BY <1>2 DEF ChatEnds, Goto, CallsBounded
<1>3. ASSUME NEW t \in Turns, NEW s \in {"compressing", "summarizing", "collapsing", "calling"},
             Goto(t, s), UNCHANGED <<round, calls, bound, holder, abandoned>>,
             cancelled' \in BOOLEAN, interrupted' \in BOOLEAN, torn' \in BOOLEAN
      PROVE  CountersTyped' /\ CallsBounded'
  BY <1>3 DEF Goto, CallsBounded
<1>4. ASSUME NEW t \in Turns, Begin(t) PROVE CountersTyped' /\ CallsBounded'
  BY <1>4 DEF Begin, Goto, CallsBounded
<1>5. ASSUME NEW t \in Turns, Summarize(t) \/ Collapse(t) PROVE CountersTyped' /\ CallsBounded'
  BY <1>3, <1>5 DEF Summarize, Collapse, Cut, signals
<1>6. ASSUME NEW t \in Turns, Replace(t) PROVE CountersTyped' /\ CallsBounded'
  <2>1. \E s \in {"compressing", "calling"} : Goto(t, s)
    BY <1>6 DEF Replace
  <2>2. UNCHANGED <<cancelled, interrupted, bound, holder, round, calls, abandoned, torn>>
    BY <1>6 DEF Replace, signals
  <2>3. QED
    BY <1>3, <2>1, <2>2
<1>7. ASSUME NEW t \in Turns, Skip(t) PROVE CountersTyped' /\ CallsBounded'
  BY <1>3, <1>7 DEF Skip, signals
<1>8. ASSUME NEW t \in Turns, Call(t) PROVE CountersTyped' /\ CallsBounded'
  <2>1. UNCHANGED <<cancelled, abandoned, torn>> /\ interrupted' \in BOOLEAN
    BY <1>8 DEF Call
  <2>2. CASE round[t] = MaxRounds \/ cancelled
    <3>1. ChatEnds(t)
      BY <1>8, <2>2 DEF Call
    <3>2. QED
      BY <1>2, <2>1, <3>1
  <2>3. CASE ~(round[t] = MaxRounds \/ cancelled)
    <3>1. Goto(t, "streaming") /\ UNCHANGED <<bound, holder, round, calls>> /\ round[t] < MaxRounds
      BY <1>8, <2>3 DEF Call
    <3>2. QED
      BY <2>1, <3>1 DEF Goto, CallsBounded
  <2>4. QED
    BY <2>2, <2>3
<1>9. ASSUME NEW t \in Turns, Reply(t) PROVE CountersTyped' /\ CallsBounded'
  <2>1. /\ UNCHANGED <<cancelled, abandoned, torn>> /\ interrupted' \in BOOLEAN
        /\ round[t] < MaxRounds
    BY <1>9 DEF Reply, CallsBounded
  <2>2. \/ ChatEnds(t)
        \/ \E n \in 1..MaxCalls : /\ Goto(t, "tools") /\ calls' = [calls EXCEPT ![t] = n]
                                  /\ UNCHANGED <<bound, holder, round>>
    BY <1>9 DEF Reply
  <2>3. ASSUME NEW n \in 1..MaxCalls, Goto(t, "tools"), calls' = [calls EXCEPT ![t] = n],
               UNCHANGED <<bound, holder, round>>
        PROVE  CountersTyped' /\ CallsBounded'
    BY <2>1, <2>3 DEF Goto, CallsBounded
  <2>4. QED
    BY <1>2, <2>1, <2>2, <2>3
<1>10. ASSUME NEW t \in Turns, ModelFails(t) PROVE CountersTyped' /\ CallsBounded'
  BY <1>2, <1>10 DEF ModelFails, signals
<1>11. ASSUME NEW t \in Turns, ToolsEnd(t) PROVE CountersTyped' /\ CallsBounded'
  <2>1. /\ UNCHANGED <<cancelled, abandoned, torn>> /\ interrupted' \in BOOLEAN
        /\ round[t] < MaxRounds
    BY <1>11 DEF ToolsEnd, CallsBounded
  <2>2. \/ ChatEnds(t)
        \/ /\ Goto(t, "compressing") /\ UNCHANGED <<bound, holder>>
           /\ round' = [round EXCEPT ![t] = @ + 1] /\ calls' = [calls EXCEPT ![t] = 0]
    BY <1>11 DEF ToolsEnd
  <2>3. CASE /\ Goto(t, "compressing") /\ UNCHANGED <<bound, holder>>
             /\ round' = [round EXCEPT ![t] = @ + 1] /\ calls' = [calls EXCEPT ![t] = 0]
    BY <2>1, <2>3 DEF Goto, CallsBounded
  <2>4. QED
    BY <1>2, <2>1, <2>2, <2>3
<1>12. ASSUME NEW t \in Turns, SpillFails(t) PROVE CountersTyped' /\ CallsBounded'
  BY <1>2, <1>12 DEF SpillFails, signals
<1>13. ASSUME NEW t \in Turns, Abandon(t) PROVE CountersTyped' /\ CallsBounded'
  BY <1>13 DEF Abandon, chat, CallsBounded
<1>14. CASE Cancel
  BY <1>14 DEF Cancel, chat, CallsBounded
<1>15. CASE UNCHANGED vars
  BY <1>1, <1>15 DEF vars, signals, chat
<1>16. QED
  BY <1>4, <1>5, <1>6, <1>7, <1>8, <1>9, <1>10, <1>11, <1>12, <1>13, <1>14, <1>15 DEF Next, Step

(* A chat keeps its binding while the pipeline waits for it, and is the only one as long as
   nobody was given up. *)
LEMMA ChatsKept ==
  ASSUME LoopAssumption, CountersTyped, OneChat, BindingIsOwn, [Next]_vars
  PROVE  OneChat' /\ BindingIsOwn'
<1> USE DEF OneChat, BindingIsOwn
<1>0. at \in [Turns -> Stages] /\ None \notin Turns
  BY DEF CountersTyped, LoopAssumption
<1>1. ASSUME NEW t \in Turns, ChatEnds(t), abandoned' = abandoned PROVE OneChat' /\ BindingIsOwn'
  BY <1>0, <1>1 DEF ChatEnds, Goto
<1>2. ASSUME NEW t \in Turns, NEW s, Goto(t, s), at[t] \notin {"new", "over"},
             UNCHANGED <<bound, holder, abandoned>>
      PROVE  OneChat' /\ BindingIsOwn'
  BY <1>0, <1>2 DEF Goto
<1>3. ASSUME NEW t \in Turns, Begin(t) PROVE OneChat' /\ BindingIsOwn'
  BY <1>0, <1>3 DEF Begin, Goto
<1>4. ASSUME NEW t \in Turns, Summarize(t) \/ Collapse(t) PROVE OneChat' /\ BindingIsOwn'
  <2>1. at[t] = "compressing" /\ (Goto(t, "summarizing") \/ Goto(t, "collapsing"))
        /\ UNCHANGED <<bound, holder, abandoned>>
    BY <1>4 DEF Summarize, Collapse, Cut
  <2>2. QED
    BY <1>2, <2>1
<1>5. ASSUME NEW t \in Turns, Replace(t) PROVE OneChat' /\ BindingIsOwn'
  <2>1. at[t] \in {"summarizing", "collapsing"} /\ UNCHANGED <<bound, holder, abandoned>>
    BY <1>5 DEF Replace, Compressing
  <2>2. \E s \in {"compressing", "calling"} : Goto(t, s)
    BY <1>5 DEF Replace
  <2>3. QED
    BY <1>2, <2>1, <2>2
<1>6. ASSUME NEW t \in Turns, Skip(t) PROVE OneChat' /\ BindingIsOwn'
  BY <1>2, <1>6 DEF Skip
<1>7. ASSUME NEW t \in Turns, Call(t) PROVE OneChat' /\ BindingIsOwn'
  <2>1. /\ at[t] = "calling" /\ abandoned' = abandoned
        /\ ChatEnds(t) \/ (Goto(t, "streaming") /\ UNCHANGED <<bound, holder>>)
    BY <1>7 DEF Call
  <2>2. QED
    BY <1>1, <1>2, <2>1
<1>8. ASSUME NEW t \in Turns, Reply(t) PROVE OneChat' /\ BindingIsOwn'
  <2>1. /\ at[t] = "streaming" /\ abandoned' = abandoned
        /\ ChatEnds(t) \/ (Goto(t, "tools") /\ UNCHANGED <<bound, holder>>)
    BY <1>8 DEF Reply
  <2>2. QED
    BY <1>1, <1>2, <2>1
<1>9. ASSUME NEW t \in Turns, ToolsEnd(t) PROVE OneChat' /\ BindingIsOwn'
  <2>1. /\ at[t] = "tools" /\ abandoned' = abandoned
        /\ ChatEnds(t) \/ (Goto(t, "compressing") /\ UNCHANGED <<bound, holder>>)
    BY <1>9 DEF ToolsEnd
  <2>2. QED
    BY <1>1, <1>2, <2>1
<1>10. ASSUME NEW t \in Turns, ModelFails(t) \/ SpillFails(t) PROVE OneChat' /\ BindingIsOwn'
  BY <1>1, <1>10 DEF ModelFails, SpillFails
<1>11. ASSUME NEW t \in Turns, Abandon(t) PROVE OneChat' /\ BindingIsOwn'
  BY <1>11 DEF Abandon
<1>12. CASE Cancel
  BY <1>12 DEF Cancel, chat
<1>13. CASE UNCHANGED vars
  BY <1>13 DEF vars, chat
<1>14. QED
  BY <1>3, <1>4, <1>5, <1>6, <1>7, <1>8, <1>9, <1>10, <1>11, <1>12, <1>13 DEF Next, Step

----------------------------------------------------------------------------
(***************************************************************************)
(* What a step does to the history, as long as no turn has been given up   *)
(* and every result could be stored.                                       *)
(***************************************************************************)
Quiet == abandoned = {} /\ ~torn

\* Who runs tools goes on, and who has its tail set aside has had it or has it now.
Stays ==
    /\ messages' = messages
    /\ \A u \in Turns : at[u] = "tools" => at'[u] = "tools"
    /\ \A u \in Turns : at'[u] = "tools" =>
          at[u] = "tools" /\ round'[u] = round[u] /\ calls'[u] = calls[u]
    /\ \A u \in Compressing' :
          \/ u \in Compressing /\ kept'[u] = kept[u]
          \/ \E n \in KeepLast..(Len(messages) - 1) :
                kept'[u] = Newest(n) /\ (n = KeepLast \/ n + 2 <= Len(messages))

NobodyAt(places) == \A u \in Turns : at[u] \notin places

Asks(t) ==
    /\ messages' = Append(messages, User(t))
    /\ NobodyAt({"tools"}) /\ NobodyAt({"tools", "summarizing", "collapsing"})'

Replies(t, n) ==
    /\ messages' = Append(messages, Answer(t, n))
    /\ NobodyAt({"tools"}) /\ NobodyAt({"summarizing", "collapsing"})'
    /\ n > 0 => at'[t] = "tools" /\ round'[t] = round[t] /\ calls'[t] = n
    /\ \A u \in Turns : at'[u] = "tools" => u = t /\ n > 0

Records(t) ==
    /\ at[t] = "tools" /\ messages' = messages \o Results(t)
    /\ NobodyAt({"tools", "summarizing", "collapsing"})'

Compresses(t) ==
    /\ t \in Compressing /\ messages' = <<Summary, Summary>> \o kept[t]
    /\ NobodyAt({"tools"}) /\ NobodyAt({"tools", "summarizing", "collapsing"})'

LEMMA HistoryMoves ==
  ASSUME LoopAssumption, CountersTyped, HistoryTyped, OneChat, [Next]_vars, Quiet'
  PROVE  /\ Quiet
         /\ \/ Stays
            \/ \E t \in Turns : Asks(t) \/ Records(t) \/ Compresses(t)
            \/ \E t \in Turns : \E n \in 0..MaxCalls : Replies(t, n)
<1> DEFINE Moves == \/ Stays
                    \/ \E t \in Turns : Asks(t) \/ Records(t) \/ Compresses(t)
                    \/ \E t \in Turns : \E n \in 0..MaxCalls : Replies(t, n)
<1>0. /\ at \in [Turns -> Stages] /\ None \notin Turns /\ holder \in Turns \cup {None}
      /\ Len(messages) \in Nat /\ {SummarizeAbove, KeepRecent, KeepLast, MaxCalls} \subseteq Nat
      /\ KeepLast <= KeepRecent /\ KeepRecent < SummarizeAbove
      /\ round \in [Turns -> 0..MaxRounds] /\ calls \in [Turns -> 0..MaxCalls]
      /\ kept \in [Turns -> Seq(Messages)]
  BY DEF CountersTyped, LoopAssumption, HistoryTyped
<1>1. abandoned \subseteq abandoned' /\ (torn => torn')
  BY DEF Next, Step, Begin, Summarize, Collapse, Cut, Replace, Skip, Call, Reply, ModelFails,
         ToolsEnd, SpillFails, Abandon, Cancel, vars
<1>2. Quiet
  BY <1>1 DEF Quiet
<1>3. \A u \in Turns : at[u] \notin {"new", "over"} => holder = u
  BY <1>2 DEF OneChat, Quiet
<1>4. ASSUME NEW t \in Turns, Begin(t) PROVE Moves
  <2>1. /\ holder = None /\ messages' = Append(messages, User(t))
        /\ at' = [at EXCEPT ![t] = "compressing"]
    BY <1>4 DEF Begin, Goto
  <2>2. NobodyAt({"tools", "summarizing", "collapsing"})
    BY <1>0, <1>3, <2>1 DEF NobodyAt
  <2>3. NobodyAt({"tools", "summarizing", "collapsing"})'
    BY <1>0, <2>1, <2>2 DEF NobodyAt
  <2>4. QED
    BY <2>1, <2>2, <2>3 DEF Asks, NobodyAt
<1>5. ASSUME NEW t \in Turns, NEW how \in {"summarizing", "collapsing"}, at[t] = "compressing",
             NEW n \in KeepLast..(Len(messages) - 1), n = KeepLast \/ n + 2 <= Len(messages),
             Cut(t, how, n)
      PROVE  Moves
  <2>1. /\ messages' = messages /\ kept' = [kept EXCEPT ![t] = Newest(n)]
        /\ at' = [at EXCEPT ![t] = how] /\ UNCHANGED <<round, calls>>
    BY <1>5 DEF Cut, Goto
  <2>2. ASSUME NEW u \in Compressing'
        PROVE  \/ u \in Compressing /\ kept'[u] = kept[u]
               \/ \E k \in KeepLast..(Len(messages) - 1) :
                    kept'[u] = Newest(k) /\ (k = KeepLast \/ k + 2 <= Len(messages))
    <3>1. CASE u = t
      BY <1>0, <1>5, <2>1, <3>1
    <3>2. CASE u # t
      BY <1>0, <2>1, <2>2, <3>2 DEF Compressing
    <3>3. QED
      BY <3>1, <3>2
  <2>3. Stays
    BY <1>0, <1>5, <2>1, <2>2 DEF Stays
  <2>4. QED
    BY <2>3
<1>6. ASSUME NEW t \in Turns, Summarize(t) PROVE Moves
  <2>1. at[t] = "compressing" /\ Len(messages) > SummarizeAbove /\ Cut(t, "summarizing", KeepRecent)
    BY <1>6 DEF Summarize
  <2>2. KeepRecent \in KeepLast..(Len(messages) - 1) /\ KeepRecent + 2 <= Len(messages)
    BY <1>0, <2>1
  <2>3. QED
    BY <1>5, <2>1, <2>2
<1>7. ASSUME NEW t \in Turns, Collapse(t) PROVE Moves
  <2>1. at[t] = "compressing" /\ Len(messages) > KeepLast /\ Cut(t, "collapsing", KeepLast)
    BY <1>7 DEF Collapse
  <2>2. KeepLast \in KeepLast..(Len(messages) - 1)
    BY <1>0, <2>1
  <2>3. QED
    BY <1>5, <2>1, <2>2
<1>8. ASSUME NEW t \in Turns, Replace(t) PROVE Moves
  <2>1. t \in Compressing /\ messages' = <<Summary, Summary>> \o kept[t]
    BY <1>8 DEF Replace
  <2>2. \E next \in {"compressing", "calling"} : at' = [at EXCEPT ![t] = next]
    BY <1>8 DEF Replace, Goto
  <2>3. holder = t /\ at[t] \in {"summarizing", "collapsing"}
    BY <1>3, <2>1 DEF Compressing
  <2>4. NobodyAt({"tools"})
    BY <1>3, <2>3 DEF NobodyAt
  <2>5. NobodyAt({"tools", "summarizing", "collapsing"})'
    BY <1>0, <1>3, <2>2, <2>3 DEF NobodyAt
  <2>6. QED
    BY <2>1, <2>4, <2>5 DEF Compresses
<1>9. ASSUME messages' = messages, kept' = kept, NEW t \in Turns, NEW s,
             at' = [at EXCEPT ![t] = s], s \notin {"tools", "summarizing", "collapsing"},
             at[t] # "tools",
             \A u \in Turns : u # t => round'[u] = round[u] /\ calls'[u] = calls[u]
      PROVE  Moves
  <2>1. Stays
    BY <1>0, <1>9 DEF Stays, Compressing
  <2>2. QED
    BY <2>1
<1>10. ASSUME NEW t \in Turns, Skip(t) PROVE Moves
  BY <1>9, <1>10 DEF Skip, Goto
<1>11. ASSUME NEW t \in Turns, ChatEnds(t)
       PROVE  /\ at' = [at EXCEPT ![t] = "over"]
              /\ \A u \in Turns : u # t => round'[u] = round[u] /\ calls'[u] = calls[u]
  BY <1>0, <1>11 DEF ChatEnds, Goto
<1>12. ASSUME NEW t \in Turns, Call(t) PROVE Moves
  <2>1. /\ at[t] = "calling" /\ messages' = messages /\ kept' = kept
        /\ ChatEnds(t) \/ (Goto(t, "streaming") /\ UNCHANGED <<round, calls>>)
    BY <1>12 DEF Call
  <2>2. CASE ChatEnds(t)
    BY <1>9, <1>11, <2>1, <2>2
  <2>3. CASE Goto(t, "streaming") /\ UNCHANGED <<round, calls>>
    BY <1>9, <2>1, <2>3 DEF Goto
  <2>4. QED
    BY <2>1, <2>2, <2>3
<1>13. ASSUME NEW t \in Turns, ModelFails(t) PROVE Moves
  <2>1. at[t] = "streaming" /\ messages' = messages /\ kept' = kept /\ ChatEnds(t)
    BY <1>13 DEF ModelFails
  <2>2. QED
    BY <1>9, <1>11, <2>1
<1>14. ASSUME NEW t \in Turns, Reply(t) PROVE Moves
  <2>1. at[t] = "streaming" /\ kept' = kept /\ holder = t
    BY <1>3, <1>14 DEF Reply
  <2>2. NobodyAt({"tools", "summarizing", "collapsing"})
    BY <1>3, <2>1 DEF NobodyAt
  <2>3. CASE cancelled
    <3>1. ChatEnds(t) /\ messages' = messages
      BY <1>14, <2>3 DEF Reply
    <3>2. QED
      BY <1>9, <1>11, <2>1, <3>1
  <2>4. CASE ~cancelled
    <3>1. PICK n \in 0..MaxCalls :
            /\ messages' = Append(messages, Answer(t, n))
            /\ IF n = 0 THEN ChatEnds(t)
               ELSE /\ Goto(t, "tools") /\ calls' = [calls EXCEPT ![t] = n]
                    /\ UNCHANGED <<bound, holder, round>>
      BY <1>14, <2>4 DEF Reply
    <3>2. CASE n = 0
      <4>1. at' = [at EXCEPT ![t] = "over"]
        BY <1>11, <3>1, <3>2
      <4>2. NobodyAt({"tools", "summarizing", "collapsing"})'
        BY <1>0, <2>2, <4>1 DEF NobodyAt
      <4>3. Replies(t, n)
        BY <2>2, <3>1, <3>2, <4>2 DEF Replies, NobodyAt
      <4>4. QED
        BY <4>3
    <3>3. CASE n # 0
      <4>1. at' = [at EXCEPT ![t] = "tools"] /\ calls' = [calls EXCEPT ![t] = n] /\ round' = round
        BY <3>1, <3>3 DEF Goto
      <4>2. NobodyAt({"summarizing", "collapsing"})'
        BY <1>0, <2>2, <4>1 DEF NobodyAt
      <4>3. at'[t] = "tools" /\ calls'[t] = n /\ round'[t] = round[t] /\ n > 0
        BY <1>0, <3>3, <4>1
      <4>4. \A u \in Turns : at'[u] = "tools" => u = t
        BY <1>0, <2>2, <4>1 DEF NobodyAt
      <4>5. Replies(t, n)
        BY <2>2, <3>1, <4>2, <4>3, <4>4 DEF Replies, NobodyAt
      <4>6. QED
        BY <4>5
    <3>4. QED
      BY <3>2, <3>3
  <2>5. QED
    BY <2>3, <2>4
<1>15. ASSUME NEW t \in Turns, ToolsEnd(t) PROVE Moves
  <2>1. at[t] = "tools" /\ messages' = messages \o Results(t) /\ holder = t
    BY <1>3, <1>15 DEF ToolsEnd
  <2>2. \E s \in {"over", "compressing"} : at' = [at EXCEPT ![t] = s]
    BY <1>15 DEF ToolsEnd, ChatEnds, Goto
  <2>3. NobodyAt({"tools", "summarizing", "collapsing"})'
    BY <1>0, <1>3, <2>1, <2>2 DEF NobodyAt
  <2>4. QED
    BY <2>1, <2>3 DEF Records
<1>16. ASSUME NEW t \in Turns, SpillFails(t) \/ Abandon(t) PROVE FALSE
  BY <1>16 DEF SpillFails, Abandon, Quiet
<1>17. ASSUME UNCHANGED <<messages, at, round, calls, kept>> PROVE Moves
  <2>1. Stays
    BY <1>17 DEF Stays, Compressing
  <2>2. QED
    BY <2>1
<1>18. ASSUME Cancel PROVE Moves
  BY <1>17, <1>18 DEF Cancel, chat
<1>19. ASSUME UNCHANGED vars PROVE Moves
  BY <1>17, <1>19 DEF vars, chat
<1> HIDE DEF Moves
<1>20. Moves
  BY <1>4, <1>6, <1>7, <1>8, <1>10, <1>12, <1>13, <1>14, <1>15, <1>16, <1>18, <1>19 DEF Next, Step
<1>21. QED
  BY <1>2, <1>20 DEF Moves

----------------------------------------------------------------------------
(***************************************************************************)
(* The other parts of the inductive invariant.                             *)
(***************************************************************************)
\* What a step does, as the lemmas below take it.
Moved ==
    \/ Stays
    \/ \E t \in Turns : Asks(t) \/ Records(t) \/ Compresses(t)
    \/ \E t \in Turns : \E n \in 0..MaxCalls : Replies(t, n)

(* The pieces a step appends or puts in the place of the history. *)
LEMMA Appended ==
  ASSUME HistoryTyped, NEW m \in Messages, messages' = Append(messages, m)
  PROVE  /\ Len(messages') = Len(messages) + 1 /\ Len(messages) \in Nat
         /\ messages'[Len(messages) + 1] = m /\ messages' # <<>>
         /\ \A i \in 1..Len(messages) : messages'[i] = messages[i]
         /\ DOMAIN messages = 1..Len(messages) /\ DOMAIN messages' = 1..Len(messages')
<1>1. messages \in Seq(Messages)
  BY DEF HistoryTyped
<1> HIDE DEF Messages
<1>2. /\ messages' \in Seq(Messages) /\ Len(messages) \in Nat
      /\ Len(messages') = Len(messages) + 1 /\ messages' # <<>>
      /\ \A i \in 1..Len(messages) : messages'[i] = messages[i]
      /\ messages'[Len(messages) + 1] = m
  BY <1>1, AppendProperties
<1>3. QED
  BY <1>1, <1>2, LenProperties

LEMMA Recorded ==
  ASSUME LoopAssumption, TypeOK, HistoryTyped, NEW t \in Turns,
         messages' = messages \o Results(t)
  PROVE  /\ Len(messages') = Len(messages) + calls[t] /\ Len(messages) \in Nat /\ calls[t] \in Nat
         /\ \A i \in 1..Len(messages) : messages'[i] = messages[i]
         /\ \A k \in 1..calls[t] : messages'[Len(messages) + k] = Result(t, round[t], k)
         /\ DOMAIN messages = 1..Len(messages) /\ DOMAIN messages' = 1..Len(messages')
<1>1. messages \in Seq(Messages) /\ calls[t] \in Nat
  BY DEF HistoryTyped, TypeOK, LoopAssumption
<1>2. /\ Results(t) \in Seq(Messages) /\ Len(Results(t)) = calls[t]
      /\ \A k \in 1..calls[t] : Results(t)[k] = Result(t, round[t], k)
  BY ResultsProperties
<1> DEFINE more == Results(t)
<1> HIDE DEF Messages, more
<1>3. more \in Seq(Messages) /\ Len(more) = calls[t] /\ messages' = messages \o more
  BY <1>2 DEF more
<1>4. /\ messages' \in Seq(Messages) /\ Len(messages') = Len(messages) + calls[t]
      /\ Len(messages) \in Nat
      /\ \A i \in 1..(Len(messages) + calls[t]) :
            messages'[i] = IF i <= Len(messages) THEN messages[i] ELSE more[i - Len(messages)]
  BY <1>1, <1>3, ConcatProperties
<1>5. ASSUME NEW k \in 1..calls[t] PROVE messages'[Len(messages) + k] = more[k]
  <2>1. /\ Len(messages) + k \in 1..(Len(messages) + calls[t])
        /\ ~(Len(messages) + k <= Len(messages)) /\ Len(messages) + k - Len(messages) = k
    BY <1>1, <1>4
  <2>2. QED
    BY <1>4, <2>1
<1>6. \A i \in 1..Len(messages) : messages'[i] = messages[i]
  BY <1>1, <1>4
<1>7. DOMAIN messages = 1..Len(messages) /\ DOMAIN messages' = 1..Len(messages')
  BY <1>1, <1>4, LenProperties
<1>8. QED
  BY <1>1, <1>2, <1>4, <1>5, <1>6, <1>7 DEF more

LEMMA Compressed ==
  ASSUME LoopAssumption, TypeOK, HistoryTyped, NEW t \in Turns,
         NEW n \in KeepLast..(Len(messages) - 1), kept[t] = Newest(n),
         messages' = <<Summary, Summary>> \o kept[t]
  PROVE  /\ Len(messages') = n + 2 /\ Len(messages) \in Nat /\ n \in Nat /\ n < Len(messages)
         /\ messages'[1] = Summary /\ messages'[2] = Summary
         /\ \A i \in 3..Len(messages') :
               messages'[i] = messages[i + (Len(messages) - n - 2)]
         /\ DOMAIN messages = 1..Len(messages) /\ DOMAIN messages' = 1..Len(messages')
<1>1. messages \in Seq(Messages) /\ Len(messages) \in Nat /\ n \in 0..Len(messages) /\ n < Len(messages)
  BY DEF HistoryTyped, LoopAssumption
<1> DEFINE tail == kept[t]
<1> HIDE DEF Messages
<1>2. /\ tail \in Seq(Messages) /\ Len(tail) = n
      /\ \A i \in 1..n : tail[i] = messages[Len(messages) - n + i]
  BY <1>1, LastProperties
<1> HIDE DEF tail
<1>3. messages' = <<Summary, Summary>> \o tail
  BY DEF tail
<1>4. /\ messages' \in Seq(Messages) /\ Len(messages') = n + 2
      /\ messages'[1] = Summary /\ messages'[2] = Summary
      /\ \A i \in 3..Len(messages') : messages'[i] = tail[i - 2]
  BY <1>2, <1>3, ReplacedProperties
<1>5. \A i \in 3..Len(messages') : messages'[i] = messages[i + (Len(messages) - n - 2)]
  <2> SUFFICES ASSUME NEW i \in 3..Len(messages')
               PROVE  messages'[i] = messages[i + (Len(messages) - n - 2)]
    OBVIOUS
  <2>1. i - 2 \in 1..n /\ Len(messages) - n + (i - 2) = i + (Len(messages) - n - 2)
    BY <1>1, <1>4
  <2>2. messages'[i] = tail[i - 2] /\ tail[i - 2] = messages[Len(messages) - n + (i - 2)]
    BY <1>2, <1>4, <2>1
  <2>3. QED
    BY <2>1, <2>2
<1>6. DOMAIN messages = 1..Len(messages) /\ DOMAIN messages' = 1..Len(messages')
  BY <1>1, <1>4, LenProperties
<1>7. QED
  BY <1>1, <1>4, <1>5, <1>6

LEMMA CallStaysLast ==
  ASSUME LoopAssumption, TypeOK, HistoryTyped, CallIsLast, Moved, Quiet
  PROVE  CallIsLast'
<1> SUFFICES ASSUME NEW u \in Turns, at'[u] = "tools"
             PROVE  messages' # <<>> /\ messages'[Len(messages')] = Answer(u, calls[u])'
  BY DEF CallIsLast
<1>1. CASE Stays
  <2>1. /\ at[u] = "tools" /\ round'[u] = round[u] /\ calls'[u] = calls[u] /\ messages' = messages
    BY <1>1 DEF Stays
  <2>2. messages # <<>> /\ messages[Len(messages)] = Answer(u, calls[u])
    BY <2>1 DEF CallIsLast, Quiet
  <2>3. QED
    BY <2>1, <2>2 DEF Answer
<1>2. ASSUME NEW t \in Turns, Asks(t) \/ Records(t) \/ Compresses(t) PROVE FALSE
  BY <1>2 DEF Asks, Records, Compresses, NobodyAt
<1>3. ASSUME NEW t \in Turns, NEW n \in 0..MaxCalls, Replies(t, n)
      PROVE  messages' # <<>> /\ messages'[Len(messages')] = Answer(u, calls[u])'
  <2>1. u = t /\ round'[t] = round[t] /\ calls'[t] = n /\ messages' = Append(messages, Answer(t, n))
    BY <1>3 DEF Replies
  <2>2. Answer(t, n) \in Messages
    BY MessagesTyped
  <2>3. messages' # <<>> /\ messages'[Len(messages')] = Answer(t, n)
    BY <2>1, <2>2, Appended
  <2>4. QED
    BY <2>1, <2>3 DEF Answer
<1>4. QED
  BY <1>1, <1>2, <1>3 DEF Moved

LEMMA SummaryKeepsTail ==
  ASSUME LoopAssumption, TypeOK, HistoryTyped, SummaryHasTail, TailIsKept, Moved, Quiet
  PROVE  SummaryHasTail'
<1> SUFFICES ASSUME messages' # <<>>, messages'[1] = Summary
             PROVE  Len(messages') >= KeepLast + 2
  BY DEF SummaryHasTail, Summary
<1>0. /\ messages \in Seq(Messages) /\ Len(messages) \in Nat /\ KeepLast \in Nat
      /\ messages # <<>> => Len(messages) >= 1
  BY DEF HistoryTyped, LoopAssumption
<1>1. ASSUME messages # <<>>, messages'[1] = messages[1], Len(messages') \in Nat,
             Len(messages') >= Len(messages)
      PROVE  Len(messages') >= KeepLast + 2
  BY <1>0, <1>1 DEF SummaryHasTail, Quiet
<1>2. CASE Stays
  BY <1>0, <1>1, <1>2 DEF Stays
<1>3. ASSUME NEW m \in Messages, m # Summary, messages' = Append(messages, m)
      PROVE  Len(messages') >= KeepLast + 2
  <2>1. /\ Len(messages') = Len(messages) + 1 /\ messages'[Len(messages) + 1] = m
        /\ \A i \in 1..Len(messages) : messages'[i] = messages[i]
    BY <1>3, Appended
  <2>2. CASE messages = <<>>
    BY <1>3, <2>1, <2>2
  <2>3. CASE messages # <<>>
    BY <1>0, <1>1, <2>1, <2>3
  <2>4. QED
    BY <2>2, <2>3
<1>4. ASSUME NEW t \in Turns, Asks(t) PROVE Len(messages') >= KeepLast + 2
  <2>1. User(t) \in Messages /\ User(t) # Summary
    BY MessagesTyped DEF User, Summary, Message
  <2>2. QED
    BY <1>3, <1>4, <2>1 DEF Asks
<1>5. ASSUME NEW t \in Turns, NEW n \in 0..MaxCalls, Replies(t, n)
      PROVE  Len(messages') >= KeepLast + 2
  <2>1. Answer(t, n) \in Messages /\ Answer(t, n) # Summary
    BY MessagesTyped DEF Answer, Summary, Message
  <2>2. QED
    BY <1>3, <1>5, <2>1 DEF Replies
<1>6. ASSUME NEW t \in Turns, Records(t) PROVE Len(messages') >= KeepLast + 2
  <2>1. /\ Len(messages') = Len(messages) + calls[t] /\ calls[t] \in Nat
        /\ \A i \in 1..Len(messages) : messages'[i] = messages[i]
        /\ \A k \in 1..calls[t] : messages'[Len(messages) + k] = Result(t, round[t], k)
    BY <1>6, Recorded DEF Records
  <2>2. CASE messages = <<>>
    <3>1. Len(messages) = 0
      BY <2>2
    <3>2. CASE calls[t] = 0
      <4>1. Len(messages') = 0
        BY <2>1, <3>1, <3>2
      <4>2. messages' \in Seq(Messages)
        <5>1. Results(t) \in Seq(Messages) /\ messages' = messages \o Results(t)
          BY <1>6, ResultsProperties DEF Records
        <5>2. QED
          BY <1>0, <5>1, ConcatProperties
      <4>3. QED
        BY <4>1, <4>2, EmptySeq
    <3>3. CASE calls[t] # 0
      <4>1. messages'[1] = Result(t, round[t], 1)
        BY <2>1, <3>1, <3>3
      <4>2. QED
        BY <4>1 DEF Result, Summary, Message
    <3>4. QED
      BY <3>2, <3>3
  <2>3. CASE messages # <<>>
    BY <1>0, <1>1, <2>1, <2>3
  <2>4. QED
    BY <2>2, <2>3
<1>7. ASSUME NEW t \in Turns, Compresses(t) PROVE Len(messages') >= KeepLast + 2
  <2>1. PICK n \in KeepLast..(Len(messages) - 1) : kept[t] = Newest(n)
    BY <1>7 DEF Compresses, TailIsKept, Quiet
  <2>2. Len(messages') = n + 2
    BY <1>7, <2>1, Compressed DEF Compresses
  <2>3. QED
    BY <1>0, <2>1, <2>2
<1>8. QED
  BY <1>2, <1>4, <1>5, <1>6, <1>7 DEF Moved

LEMMA TailStaysKept ==
  ASSUME LoopAssumption, HistoryTyped, SummaryHasTail, TailIsKept, Moved, Quiet
  PROVE  TailIsKept'
<1>1. CASE Stays
  <2> SUFFICES ASSUME NEW u \in Compressing'
               PROVE  \E n \in KeepLast..(Len(messages) - 1) :
                        /\ kept'[u] = Newest(n)
                        /\ messages[1] = Summary => n + 2 <= Len(messages)
    BY <1>1 DEF Stays, TailIsKept, Newest, Summary, Message
  <2>1. CASE u \in Compressing /\ kept'[u] = kept[u]
    BY <2>1 DEF TailIsKept, Quiet
  <2>2. CASE \E n \in KeepLast..(Len(messages) - 1) :
                kept'[u] = Newest(n) /\ (n = KeepLast \/ n + 2 <= Len(messages))
    <3>1. PICK n \in KeepLast..(Len(messages) - 1) :
             kept'[u] = Newest(n) /\ (n = KeepLast \/ n + 2 <= Len(messages))
      BY <2>2
    <3>2. Len(messages) \in Nat /\ KeepLast \in Nat
      BY DEF HistoryTyped, LoopAssumption
    <3>3. messages # <<>>
      BY <3>1, <3>2
    <3>4. messages[1] = Summary => n + 2 <= Len(messages)
      BY <3>1, <3>2, <3>3 DEF SummaryHasTail, Quiet
    <3>5. QED
      BY <3>1, <3>4
  <2>3. QED
    BY <1>1, <2>1, <2>2 DEF Stays
<1>2. ASSUME NobodyAt({"summarizing", "collapsing"})' PROVE TailIsKept'
  BY <1>2 DEF NobodyAt, TailIsKept, Compressing
<1>3. QED
  BY <1>1, <1>2 DEF Moved, Asks, Records, Compresses, Replies, NobodyAt

----------------------------------------------------------------------------
(***************************************************************************)
(* Calls and results.                                                      *)
(***************************************************************************)
(* What has its calls or results in the history has them in a longer one. *)
LEMMA PairsStay ==
  ASSUME HistoryTyped, Len(messages') \in Nat, Len(messages') >= Len(messages),
         DOMAIN messages' = 1..Len(messages'),
         \A i \in 1..Len(messages) : messages'[i] = messages[i],
         NEW i \in 1..Len(messages)
  PROVE  /\ Answered(i) => Answered(i)'
         /\ messages[i].n \in Nat /\ HasCall(i) => HasCall(i)'
         /\ Orphaned(i) => Orphaned(i)'
<1>0. Len(messages) \in Nat /\ DOMAIN messages = 1..Len(messages) /\ messages'[i] = messages[i]
  BY LenProperties DEF HistoryTyped
<1>1. ASSUME Answered(i) PROVE Answered(i)'
  <2> SUFFICES ASSUME NEW k \in 1..messages'[i].n
               PROVE  /\ i + k \in DOMAIN messages'
                      /\ messages'[i + k] = Result(messages'[i].turn, messages'[i].round, k)
    BY DEF Answered, Result, Message
  <2>1. /\ i + k \in 1..Len(messages)
        /\ messages[i + k] = Result(messages[i].turn, messages[i].round, k)
    BY <1>0, <1>1 DEF Answered
  <2>2. QED
    BY <1>0, <2>1
<1>2. ASSUME messages[i].n \in Nat, HasCall(i) PROVE HasCall(i)'
  <2> DEFINE k == messages[i].n
  <2>1. /\ k \in Nat /\ i > k
        /\ messages[i - k].role = "assistant" /\ messages[i - k].n >= k
        /\ messages[i - k].turn = messages[i].turn /\ messages[i - k].round = messages[i].round
    BY <1>2 DEF HasCall
  <2>2. i - k \in 1..Len(messages)
    BY <1>0, <2>1
  <2>3. messages'[i].n = k /\ messages'[i - k] = messages[i - k]
    BY <1>0, <2>2
  <2> HIDE DEF k
  <2>4. QED
    BY <1>0, <2>1, <2>3 DEF HasCall
<1>3. ASSUME Orphaned(i) PROVE Orphaned(i)'
  BY <1>0, <1>3 DEF Orphaned, Summary, Message
<1>4. QED
  BY <1>1, <1>2, <1>3

(* Nobody runs tools: every call has its results. *)
LEMMA AllAnswered ==
  ASSUME HistoryTyped, CallsAndResultsPair, Quiet, NobodyAt({"tools"}),
         NEW i \in DOMAIN messages
  PROVE  /\ messages[i].role = "assistant" => Answered(i)
         /\ messages[i].role = "tool" => HasCall(i) \/ Orphaned(i)
  BY DEF CallsAndResultsPair, Quiet, NobodyAt

(* A message is added to a history in which every call has its results. *)
LEMMA PairsGrow ==
  ASSUME LoopAssumption, HistoryTyped, CallsAndResultsPair, Quiet, NobodyAt({"tools"}),
         NEW m \in Messages, messages' = Append(messages, m),
         m.role # "tool",
         m.role = "assistant" => m.n = 0 \/ \E t \in Turns : at'[t] = "tools"
  PROVE  CallsAndResultsPair'
<1>0. /\ Len(messages') = Len(messages) + 1 /\ Len(messages) \in Nat
      /\ messages'[Len(messages) + 1] = m
      /\ \A i \in 1..Len(messages) : messages'[i] = messages[i]
      /\ DOMAIN messages = 1..Len(messages) /\ DOMAIN messages' = 1..Len(messages')
  BY Appended
<1> SUFFICES ASSUME NEW i \in 1..Len(messages')
             PROVE  /\ messages'[i].role = "assistant" =>
                         Answered(i)' \/ (i = Len(messages') /\ \E t \in Turns : at'[t] = "tools")
                    /\ messages'[i].role = "tool" => HasCall(i)' \/ Orphaned(i)'
  BY <1>0 DEF CallsAndResultsPair
<1>1. CASE i \in 1..Len(messages)
  <2>1. messages[i].n \in Nat
    BY <1>1, <1>0, TypedMessages DEF HistoryTyped, LoopAssumption
  <2>2. /\ messages[i].role = "assistant" => Answered(i)
        /\ messages[i].role = "tool" => HasCall(i) \/ Orphaned(i)
    BY <1>0, <1>1, AllAnswered
  <2>3. /\ Answered(i) => Answered(i)'
        /\ HasCall(i) => HasCall(i)'
        /\ Orphaned(i) => Orphaned(i)'
    BY <1>0, <1>1, <2>1, PairsStay
  <2>4. QED
    BY <1>0, <1>1, <2>2, <2>3
<1>2. CASE i = Len(messages) + 1
  <2>1. messages'[i] = m /\ i = Len(messages')
    BY <1>0, <1>2
  <2>2. m.n = 0 => Answered(i)'
    BY <2>1 DEF Answered
  <2>3. QED
    BY <2>1, <2>2
<1>3. QED
  BY <1>0, <1>1, <1>2

(* The results of all calls of the last answer are appended. *)
LEMMA PairsRecorded ==
  ASSUME LoopAssumption, TypeOK, HistoryTyped, CallsAndResultsPair, CallIsLast, OneChat, Quiet,
         NEW t \in Turns, Records(t)
  PROVE  CallsAndResultsPair'
<1> DEFINE l == Len(messages)
<1>0. /\ Len(messages') = l + calls[t] /\ l \in Nat /\ calls[t] \in Nat
      /\ \A i \in 1..l : messages'[i] = messages[i]
      /\ \A k \in 1..calls[t] : messages'[l + k] = Result(t, round[t], k)
      /\ DOMAIN messages = 1..l /\ DOMAIN messages' = 1..Len(messages')
  BY Recorded DEF Records
<1>1. at[t] = "tools" /\ l >= 1 /\ messages[l] = Answer(t, calls[t])
  <2>1. at[t] = "tools" /\ messages # <<>> /\ messages[l] = Answer(t, calls[t])
    BY DEF Records, CallIsLast, Quiet
  <2>2. QED
    BY <1>0, <2>1 DEF HistoryTyped
<1>2. /\ messages[l].role = "assistant" /\ messages[l].n = calls[t]
      /\ messages[l].turn = t /\ messages[l].round = round[t]
  BY <1>1 DEF Answer, Message
<1> SUFFICES ASSUME NEW i \in 1..Len(messages')
             PROVE  /\ messages'[i].role = "assistant" => Answered(i)'
                    /\ messages'[i].role = "tool" => HasCall(i)' \/ Orphaned(i)'
  BY <1>0 DEF CallsAndResultsPair
<1> HIDE DEF l
<1>3. CASE i = l
  <2>1. messages'[i] = messages[l]
    BY <1>0, <1>1, <1>3
  <2>2. \A k \in 1..messages'[i].n :
           /\ i + k \in DOMAIN messages'
           /\ messages'[i + k] = Result(messages'[i].turn, messages'[i].round, k)
    BY <1>0, <1>2, <1>3, <2>1
  <2>3. Answered(i)'
    BY <2>2 DEF Answered, Result, Message
  <2>4. QED
    BY <1>2, <2>1, <2>3
<1>4. CASE i \in 1..(l - 1)
  <2>1. messages[i].n \in Nat
    BY <1>0, <1>4, TypedMessages DEF HistoryTyped, LoopAssumption
  <2>2. /\ messages[i].role = "assistant" => Answered(i)
        /\ messages[i].role = "tool" => HasCall(i) \/ Orphaned(i)
    BY <1>0, <1>4 DEF CallsAndResultsPair, Quiet, l
  <2>3. /\ Answered(i) => Answered(i)'
        /\ HasCall(i) => HasCall(i)'
        /\ Orphaned(i) => Orphaned(i)'
    BY <1>0, <1>4, <2>1, PairsStay DEF l
  <2>4. messages'[i] = messages[i]
    BY <1>0, <1>4
  <2>5. QED
    BY <2>2, <2>3, <2>4
<1>5. CASE i \in (l + 1)..(l + calls[t])
  <2> DEFINE k == i - l
  <2>1. k \in 1..calls[t] /\ l + k = i /\ i - k = l /\ i > k
    BY <1>0, <1>1, <1>5
  <2>2. messages'[i] = Result(t, round[t], k) /\ messages'[i - k] = messages[l]
    BY <1>0, <1>1, <2>1
  <2> HIDE DEF k
  <2>3. /\ messages'[i].role = "tool" /\ messages'[i].n = k
        /\ messages'[i].turn = t /\ messages'[i].round = round[t]
    BY <2>2 DEF Result, Message
  <2>4. HasCall(i)'
    BY <1>0, <1>2, <2>1, <2>2, <2>3 DEF HasCall
  <2>5. QED
    BY <2>3, <2>4
<1>6. QED
  BY <1>0, <1>1, <1>3, <1>4, <1>5

(* A history that is compressed between a call and its result leaves the result behind the
   summary, and otherwise both. *)
LEMMA PairsCompressed ==
  ASSUME LoopAssumption, TypeOK, HistoryTyped, CallsAndResultsPair, TailIsKept, Quiet,
         NEW t \in Turns, Compresses(t)
  PROVE  CallsAndResultsPair'
<1> DEFINE l == Len(messages)
<1>1. PICK n \in KeepLast..(l - 1) :
         kept[t] = Newest(n) /\ (messages[1] = Summary => n + 2 <= l)
  BY DEF Compresses, TailIsKept, Quiet
<1> DEFINE off == l - n - 2
<1>2. /\ Len(messages') = n + 2 /\ l \in Nat /\ n \in Nat /\ n < l
      /\ messages'[1] = Summary /\ messages'[2] = Summary
      /\ \A i \in 3..Len(messages') : messages'[i] = messages[i + off]
      /\ DOMAIN messages = 1..l /\ DOMAIN messages' = 1..Len(messages')
  BY <1>1, Compressed DEF Compresses
<1>3. /\ off \in Int /\ off >= -1 /\ n + 2 + off = l
      /\ messages[1] = Summary => off >= 0
  BY <1>1, <1>2
<1> HIDE DEF off, l
<1> SUFFICES ASSUME NEW i \in 1..Len(messages')
             PROVE  /\ messages'[i].role = "assistant" => Answered(i)'
                    /\ messages'[i].role = "tool" => HasCall(i)' \/ Orphaned(i)'
  BY <1>2 DEF CallsAndResultsPair
<1>4. CASE i \in {1, 2}
  <2>1. messages'[i].role = "summary"
    BY <1>2, <1>4 DEF Summary, Message
  <2>2. QED
    BY <2>1
<1>5. CASE i \in 3..(n + 2)
  <2> DEFINE o == i + off
  <2>1. o \in 1..l /\ o \in DOMAIN messages /\ messages'[i] = messages[o] /\ o >= 2
    BY <1>2, <1>3, <1>5
  <2>2. messages[o].n \in Nat
    BY <2>1, TypedMessages DEF HistoryTyped, LoopAssumption
  <2>3. /\ messages[o].role = "assistant" => Answered(o)
        /\ messages[o].role = "tool" => HasCall(o) \/ Orphaned(o)
    BY <2>1, AllAnswered DEF Compresses
  <2>4. ASSUME messages[o].role = "assistant" PROVE Answered(i)'
    <3>1. \A k \in 1..messages[o].n :
             /\ o + k \in 1..l /\ messages[o + k] = Result(messages[o].turn, messages[o].round, k)
      BY <1>2, <2>3, <2>4 DEF Answered
    <3>2. \A k \in 1..messages'[i].n :
             /\ i + k \in DOMAIN messages'
             /\ messages'[i + k] = Result(messages'[i].turn, messages'[i].round, k)
      <4> SUFFICES ASSUME NEW k \in 1..messages'[i].n
                   PROVE  /\ i + k \in DOMAIN messages'
                          /\ messages'[i + k] = Result(messages'[i].turn, messages'[i].round, k)
        OBVIOUS
      <4>1. o + k \in 1..l /\ messages[o + k] = Result(messages[o].turn, messages[o].round, k)
        BY <2>1, <3>1
      <4>2. i + k \in 3..(n + 2) /\ i + k + off = o + k
        BY <1>2, <1>3, <1>5, <4>1
      <4>3. messages'[i + k] = messages[o + k]
        BY <1>2, <4>2
      <4>4. QED
        BY <1>2, <2>1, <4>1, <4>2, <4>3
    <3>3. QED
      BY <3>2 DEF Answered, Result, Message
  <2>5. ASSUME messages[o].role = "tool", HasCall(o) PROVE HasCall(i)' \/ Orphaned(i)'
    <3> DEFINE k == messages[o].n
    <3>1. /\ k \in Nat /\ o > k /\ messages[o - k].role = "assistant" /\ messages[o - k].n >= k
          /\ messages[o - k].turn = messages[o].turn /\ messages[o - k].round = messages[o].round
      BY <2>2, <2>5 DEF HasCall
    <3>2. o - k \in DOMAIN messages /\ o - k \in 1..l
      BY <1>2, <2>1, <3>1
    <3>3. messages'[i].n = k
      BY <2>1
    <3> HIDE DEF k
    <3>4. CASE i - k >= 3
      <4>1. i - k \in 3..(n + 2) /\ i - k + off = o - k
        BY <1>2, <1>3, <1>5, <3>1, <3>4
      <4>2. messages'[i - k] = messages[o - k] /\ i > k
        BY <1>2, <3>1, <3>4, <4>1
      <4>3. HasCall(i)'
        BY <2>1, <3>1, <3>3, <4>2 DEF HasCall
      <4>4. QED
        BY <4>3
    <3>5. CASE i - k < 3
      <4>1. Answered(o - k)
        BY <3>1, <3>2, AllAnswered DEF Compresses
      <4>2. messages[o - k].n \in Nat
        BY <3>2, TypedMessages DEF HistoryTyped, LoopAssumption
      <4>3. ASSUME NEW j \in 3..i PROVE messages'[j].role = "tool"
        <5> DEFINE d == j - (i - k)
        <5>0. /\ i \in Int /\ j \in Int /\ k \in Int /\ off \in Int
              /\ j >= 3 /\ j <= i /\ i <= n + 2 /\ n \in Nat
          BY <1>2, <1>3, <1>5, <3>1
        <5>a. d \in 1..k
          BY <3>5, <5>0
        <5>b. /\ d \in 1..messages[o - k].n
              /\ j \in 3..(n + 2)
          BY <3>1, <4>2, <5>0, <5>a
        <5>c. o - k + d = j + off
          BY <5>0
        <5>1. d \in 1..messages[o - k].n /\ o - k + d = j + off /\ j \in 3..(n + 2)
          BY <5>b, <5>c
        <5> HIDE DEF d
        <5>2. messages[o - k + d] = Result(messages[o - k].turn, messages[o - k].round, d)
          BY <4>1, <5>1 DEF Answered
        <5>3. messages'[j] = messages[o - k + d]
          BY <1>2, <5>1
        <5>4. QED
          BY <5>2, <5>3 DEF Result, Message
      <4>4. Orphaned(i)'
        BY <1>2, <1>5, <4>3 DEF Orphaned, Summary, Message
      <4>5. QED
        BY <4>4
    <3>6. QED
      BY <1>3, <3>1, <3>4, <3>5
  <2>6. ASSUME Orphaned(o) PROVE Orphaned(i)'
    <3>1. off >= 0 /\ \A j \in 3..o : messages[j].role = "tool"
      BY <1>3, <2>6 DEF Orphaned
    <3>2. ASSUME NEW j \in 3..i PROVE messages'[j].role = "tool"
      <4>1. j + off \in 3..o /\ j \in 3..(n + 2)
        BY <1>2, <1>3, <1>5, <3>1
      <4>2. messages'[j] = messages[j + off]
        BY <1>2, <4>1
      <4>3. QED
        BY <3>1, <4>1, <4>2
    <3>3. QED
      BY <1>2, <1>5, <3>2 DEF Orphaned, Summary, Message
  <2>7. QED
    BY <2>1, <2>3, <2>4, <2>5, <2>6
<1>6. QED
  BY <1>2, <1>4, <1>5

LEMMA PairsKept ==
  ASSUME LoopAssumption, TypeOK, HistoryTyped, CallsAndResultsPair, CallIsLast, OneChat,
         TailIsKept, Moved, Quiet
  PROVE  CallsAndResultsPair'
<1>1. CASE Stays
  <2>1. messages' = messages /\ \A u \in Turns : at[u] = "tools" => at'[u] = "tools"
    BY <1>1 DEF Stays
  <2>2. QED
    BY <2>1 DEF CallsAndResultsPair, Quiet, Answered, HasCall, Orphaned, Result, Summary, Message
<1>2. ASSUME NEW t \in Turns, Asks(t) PROVE CallsAndResultsPair'
  <2>1. User(t) \in Messages /\ User(t).role = "user"
    BY MessagesTyped DEF User, Message
  <2>2. QED
    BY <1>2, <2>1, PairsGrow DEF Asks
<1>3. ASSUME NEW t \in Turns, NEW n \in 0..MaxCalls, Replies(t, n) PROVE CallsAndResultsPair'
  <2>1. Answer(t, n) \in Messages /\ Answer(t, n).role = "assistant" /\ Answer(t, n).n = n
    BY MessagesTyped DEF Answer, Message
  <2>2. n = 0 \/ at'[t] = "tools"
    BY <1>3 DEF Replies, LoopAssumption
  <2>3. QED
    BY <1>3, <2>1, <2>2, PairsGrow DEF Replies
<1>4. QED
  BY <1>1, <1>2, <1>3, PairsRecorded, PairsCompressed DEF Moved

----------------------------------------------------------------------------
LEMMA InitInvariant == LoopAssumption /\ Init => IInv
<1> SUFFICES ASSUME LoopAssumption, Init PROVE IInv
  OBVIOUS
<1>1. /\ messages = <<>> /\ kept = [t \in Turns |-> <<>>] /\ bound = None /\ holder = None
      /\ at = [t \in Turns |-> "new"] /\ round = [t \in Turns |-> 0] /\ calls = [t \in Turns |-> 0]
      /\ cancelled = FALSE /\ interrupted = FALSE /\ torn = FALSE /\ abandoned = {}
  BY DEF Init
<1>2. HistoryTyped
  BY <1>1 DEF HistoryTyped
<1>3. CountersTyped
  <2>1. 0 \in 0..MaxRounds /\ 0 \in 0..MaxCalls
    BY DEF LoopAssumption
  <2>2. round \in [Turns -> 0..MaxRounds] /\ calls \in [Turns -> 0..MaxCalls]
    BY <1>1, <2>1
  <2>3. at \in [Turns -> Stages]
    BY <1>1 DEF Stages
  <2>4. QED
    BY <1>1, <2>2, <2>3 DEF CountersTyped
<1>4. TypeOK
  BY <1>2, <1>3, TypeOfParts
<1>5. BindingIsOwn /\ CallsBounded /\ OneChat /\ CallIsLast /\ SummaryHasTail /\ TailIsKept
  BY <1>1 DEF BindingIsOwn, CallsBounded, OneChat, CallIsLast, SummaryHasTail, TailIsKept,
              Compressing
<1>6. DOMAIN messages = {}
  BY <1>1
<1>7. CallsAndResultsPair
  BY <1>6 DEF CallsAndResultsPair
<1>8. QED
  BY <1>2, <1>4, <1>5, <1>7 DEF IInv

LEMMA InvariantKept == LoopAssumption /\ IInv /\ [Next]_vars => IInv'
<1> SUFFICES ASSUME LoopAssumption, IInv, [Next]_vars PROVE IInv'
  OBVIOUS
<1>1. /\ TypeOK /\ HistoryTyped /\ BindingIsOwn /\ CallsBounded /\ OneChat
      /\ CallIsLast /\ SummaryHasTail /\ TailIsKept /\ CallsAndResultsPair
      /\ CountersTyped
  BY PartsOfType DEF IInv
<1>2. HistoryTyped' /\ CountersTyped' /\ CallsBounded' /\ OneChat' /\ BindingIsOwn'
  BY <1>1, HistoryKept, CountersKept, ChatsKept
<1>3. TypeOK'
  <2>1. messages' \in Seq(Messages)
    BY <1>2 DEF HistoryTyped
  <2>2. ASSUME NEW i \in DOMAIN messages'
        PROVE  /\ messages'[i].role \in {"user", "assistant", "tool", "summary"}
               /\ messages'[i].turn \in Turns \cup {None}
               /\ messages'[i].round \in 0..MaxRounds /\ messages'[i].n \in 0..MaxCalls
    BY <2>1, TypedMessages
  <2>3. QED
    BY <1>2, <2>2 DEF TypeOK, CountersTyped, Stages
<1>4. CASE Quiet'
  <2>1. Quiet /\ Moved
    BY <1>1, <1>4, HistoryMoves DEF Moved
  <2>2. CallIsLast' /\ SummaryHasTail' /\ TailIsKept' /\ CallsAndResultsPair'
    BY <1>1, <2>1, CallStaysLast, SummaryKeepsTail, TailStaysKept, PairsKept
  <2>3. QED
    BY <1>2, <1>3, <2>2 DEF IInv
<1>5. CASE ~Quiet'
  <2>1. CallIsLast' /\ SummaryHasTail' /\ TailIsKept' /\ CallsAndResultsPair'
    BY <1>5 DEF Quiet, CallIsLast, SummaryHasTail, TailIsKept, CallsAndResultsPair
  <2>2. QED
    BY <1>2, <1>3, <2>1 DEF IInv
<1>6. QED
  BY <1>4, <1>5

(* The inductive invariant holds for any turns, rounds, calls and lengths of the history. *)
THEOREM InvariantHolds == LoopAssumption /\ Spec => []IInv
<1>1. ASSUME LoopAssumption PROVE Spec => []IInv
  <2>1. Init => IInv
    BY <1>1, InitInvariant
  <2>2. IInv /\ [Next]_vars => IInv'
    BY <1>1, InvariantKept
  <2>3. QED
    BY <2>1, <2>2, PTL DEF Spec
<1>2. QED
  BY <1>1

(* The turn the pipeline waits for keeps its own mode and session, whatever chats of turns
   that were given up end beside it (unbind_turn). *)
THEOREM TurnKeepsBinding == LoopAssumption /\ Spec => []BindingIsOwn
<1>1. IInv => BindingIsOwn
  BY DEF IInv
<1>2. QED
  BY <1>1, InvariantHolds, PTL

(* Every request carries tool calls with their results, in order, however often the history
   was compressed and wherever it was cut (_append_tool_results, maybe_compress). *)
THEOREM ResultsFollowCalls == LoopAssumption /\ Spec => []CallsAndResultsPair
<1>1. IInv => CallsAndResultsPair
  BY DEF IInv
<1>2. QED
  BY <1>1, InvariantHolds, PTL

(* The loop's variables keep their types, and no chat has more rounds than max_rounds. *)
THEOREM TypesAreKept == LoopAssumption /\ Spec => []TypeOK
<1>1. IInv => TypeOK
  BY DEF IInv
<1>2. QED
  BY <1>1, InvariantHolds, PTL

----------------------------------------------------------------------------
(***************************************************************************)
(* Operations that wait for the user, with any requests and operations.    *)
(***************************************************************************)
CONSTANTS Users, MaxOperations, MaxCancels
VARIABLES kind, held, asked, agent, request, running, current, cancels,
          ran, approved, rejected, crossed, doubled

A == INSTANCE Approvals

\* What a thread can be at.
Decisions == {"approve", "reject"}
Deciding == [step : {"found", "checked"}, decision : Decisions, id : A!Operations \cup {None}]
Taking == [step : {"taken"}, decision : Decisions, op : A!Operations]
Working == [step : {"run", "started", "noted"}, op : A!Operations]
RequestStates == {A!Idle} \cup Deciding \cup Taking \cup Working

ApprovalTypeOK ==
    /\ kind \in {"bash", "studio"} /\ held \in Seq(A!Operations) /\ asked \in 0 .. MaxOperations
    /\ agent \in {A!Idle} \cup Working /\ request \in [Users -> RequestStates]
    /\ ran \in [A!Operations -> Nat]
    /\ approved \subseteq A!Operations /\ rejected \subseteq A!Operations
    /\ crossed \in BOOLEAN /\ doubled \in BOOLEAN

\* A thread that is about to run operation o.
RunsNext(t, o) == A!Thread(t).step = "run" /\ A!Thread(t).op = o

\* Nothing is held twice, or before it was asked for; the shell tool holds one operation at most.
HeldOnce ==
    /\ \A i, j \in DOMAIN held : held[i] = held[j] => i = j
    /\ \A o \in A!Range(held) : o <= asked
    /\ kind = "bash" => Len(held) <= 1

\* Nobody has begun with what is held.
HeldIsFree ==
    \A o \in A!Range(held) :
      ran[o] = 0 /\ o \notin rejected /\ \A t \in A!Threads : ~RunsNext(t, o)

\* What is about to run was approved, has not run, and nobody else is about to run it.
HandsHold ==
    \A t \in A!Threads, o \in A!Operations : RunsNext(t, o) =>
      /\ ran[o] = 0 /\ o \in approved \ rejected /\ o <= asked
      /\ \A s \in A!Threads : RunsNext(s, o) => s = t

\* What has run was approved.
RunsHold ==
    \A o \in A!Operations :
      /\ ran[o] <= 1 /\ (ran[o] > 0 => o \in approved \ rejected)
      /\ ran[o] > 0 \/ o \in rejected => o <= asked

\* A decision that approves names what was approved.
DecisionsNamed ==
    \A u \in Users :
      request[u].step \in {"found", "checked"} /\ request[u].decision = "approve"
      /\ request[u].id # None => request[u].id \in approved

\* A thread of the shell tool that has looked at what is held is the only one, and that is held.
LookersHold ==
    kind = "bash" =>
      /\ \A u \in Users : request[u].step = "checked" =>
           held # <<>> /\ (request[u].id # None => held[1] = request[u].id)
      /\ \A u \in Users : request[u].step = "taken" =>
           /\ held # <<>> /\ held[1] = request[u].op
           /\ request[u].decision = "approve" => request[u].op \in approved
      /\ \A u, v \in Users :
           request[u].step \in {"checked", "taken"} /\ request[v].step \in {"checked", "taken"}
             => u = v

\* One process of the shell tool runs at a time, and it is the one that is noted.
OneProcess ==
    \A s, t \in A!Threads :
      A!Thread(s).step \in {"started", "noted"} /\ A!Thread(t).step \in {"started", "noted"} => s = t

ApprovalInv ==
    /\ ApprovalTypeOK /\ HeldOnce /\ DecisionsNamed
    /\ ~crossed => HeldIsFree /\ HandsHold /\ RunsHold /\ LookersHold
    /\ ~doubled => OneProcess
    /\ A!CancelReaches

\* What the parts of a request and of the state are.
LEMMA ApprovalTypes ==
  ASSUME A!ApprovalAssumption, ApprovalTypeOK
  PROVE  /\ None \notin A!Operations /\ \A o \in A!Operations : o \in Nat
         /\ A!Threads = Users \cup {"agent"} /\ "agent" \notin Users
         /\ asked \in Nat /\ MaxOperations \in Nat
         /\ Len(held) \in Nat /\ DOMAIN held = 1 .. Len(held)
         /\ \A i \in DOMAIN held : held[i] \in A!Operations
         /\ A!Range(held) \subseteq A!Operations
         /\ held # <<>> => 1 \in DOMAIN held /\ Head(held) = held[1] /\ held[1] \in A!Range(held)
         /\ \A t \in A!Threads : A!Thread(t) \in RequestStates
         /\ \A u \in Users : A!Thread(u) = request[u]
<1>1. held \in Seq(A!Operations) /\ asked \in 0 .. MaxOperations
  BY DEF ApprovalTypeOK
<1>2. /\ Len(held) \in Nat /\ DOMAIN held = 1 .. Len(held)
      /\ \A i \in 1 .. Len(held) : held[i] \in A!Operations
  BY <1>1, LenProperties, ElementOfSeq
<1>3. A!Range(held) \subseteq A!Operations
  BY <1>2 DEF A!Range
<1>4. held # <<>> => 1 \in DOMAIN held /\ Head(held) = held[1] /\ held[1] \in A!Range(held)
  <2> SUFFICES ASSUME held # <<>> PROVE 1 \in DOMAIN held /\ Head(held) = held[1] /\ held[1] \in A!Range(held)
    OBVIOUS
  <2>1. Len(held) # 0
    BY <1>1, EmptySeq
  <2>2. 1 \in DOMAIN held
    BY <1>2, <2>1
  <2>3. QED
    BY <1>1, <2>2, HeadTailProperties DEF A!Range
<1>5. /\ None \notin A!Operations /\ \A o \in A!Operations : o \in Nat
      /\ A!Threads = Users \cup {"agent"} /\ "agent" \notin Users /\ MaxOperations \in Nat
  BY DEF A!ApprovalAssumption, A!Operations, A!Threads
<1>6. \A u \in Users : A!Thread(u) = request[u]
  BY <1>5 DEF A!Thread
<1>7. agent \in RequestStates /\ \A u \in Users : request[u] \in RequestStates
  BY DEF ApprovalTypeOK, RequestStates
<1>8. \A t \in A!Threads : A!Thread(t) \in RequestStates
  BY <1>5, <1>7 DEF A!Thread
<1>9. QED
  BY <1>1, <1>2, <1>3, <1>4, <1>5, <1>6, <1>8

\* Thread t goes on to r, the others stay where they are.
Moves(t, r) == \A s \in A!Threads : A!Thread(s)' = IF s = t THEN r ELSE A!Thread(s)

LEMMA RequestMoves ==
  ASSUME A!ApprovalAssumption, ApprovalTypeOK, NEW u \in Users, NEW r \in RequestStates,
         request' = [request EXCEPT ![u] = r], agent' = agent
  PROVE  /\ Moves(u, r) /\ request' \in [Users -> RequestStates]
         /\ \A v \in Users : request'[v] = IF v = u THEN r ELSE request[v]
<1>1. request \in [Users -> RequestStates] /\ "agent" \notin Users
  BY DEF ApprovalTypeOK, A!ApprovalAssumption
<1>2. /\ request' \in [Users -> RequestStates]
      /\ \A v \in Users : request'[v] = IF v = u THEN r ELSE request[v]
  BY <1>1
<1>3. QED
  BY <1>1, <1>2 DEF Moves, A!Thread, A!Threads

LEMMA ThreadMoves ==
  ASSUME A!ApprovalAssumption, ApprovalTypeOK, NEW t \in A!Threads, NEW r \in {A!Idle} \cup Working,
         A!Becomes(t, r)
  PROVE  /\ Moves(t, r) /\ request' \in [Users -> RequestStates] /\ agent' \in {A!Idle} \cup Working
         /\ \A v \in Users : request'[v] = IF v = t THEN r ELSE request[v]
<1>1. /\ request \in [Users -> RequestStates] /\ agent \in {A!Idle} \cup Working
      /\ "agent" \notin Users /\ A!Threads = Users \cup {"agent"} /\ r \in RequestStates
  BY DEF ApprovalTypeOK, A!ApprovalAssumption, A!Threads, RequestStates
<1>2. CASE t = "agent"
  BY <1>1, <1>2 DEF A!Becomes, Moves, A!Thread
<1>3. CASE t # "agent"
  BY <1>1, <1>3, RequestMoves DEF A!Becomes
<1>4. QED
  BY <1>2, <1>3

\* A sequence without one of its elements, each of which it has once.
LEMMA OneRemoved ==
  ASSUME NEW S, NEW q \in Seq(S), NEW i \in DOMAIN q,
         \A j, k \in DOMAIN q : q[j] = q[k] => j = k
  PROVE  /\ A!RemoveAt(q, i) \in Seq(S)
         /\ A!Range(A!RemoveAt(q, i)) \subseteq A!Range(q) \ {q[i]}
         /\ \A j, k \in DOMAIN A!RemoveAt(q, i) :
              A!RemoveAt(q, i)[j] = A!RemoveAt(q, i)[k] => j = k
         /\ Len(A!RemoveAt(q, i)) = Len(q) - 1
<1> DEFINE a == SubSeq(q, 1, i - 1)
           b == SubSeq(q, i + 1, Len(q))
           p == a \o b
<1>1. Len(q) \in Nat /\ DOMAIN q = 1 .. Len(q) /\ i \in 1 .. Len(q)
  BY LenProperties
<1>2. /\ a \in Seq(S) /\ Len(a) = i - 1
      /\ \A j \in 1 .. (i - 1) : a[j] = q[j]
  <2>1. \A j \in 1 .. (i - 1) : j \in 1 .. Len(q)
    BY <1>1
  <2>2. \A j \in 1 .. (i - 1) : q[j] \in S
    BY <2>1, ElementOfSeq
  <2>3. QED
    BY <1>1, <2>1, <2>2, SubSeqProperties
<1>3. /\ b \in Seq(S) /\ Len(b) = Len(q) - i
      /\ \A j \in 1 .. (Len(q) - i) : b[j] = q[i + j]
  <2>1. \A j \in (i + 1) .. Len(q) : j \in 1 .. Len(q)
    BY <1>1
  <2>2. \A j \in (i + 1) .. Len(q) : q[j] \in S
    BY <2>1, ElementOfSeq
  <2>3. QED
    BY <1>1, <2>1, <2>2, SubSeqProperties
<1> HIDE DEF a, b
<1>4. /\ p \in Seq(S) /\ Len(p) = Len(q) - 1
      /\ \A j \in 1 .. Len(p) : p[j] = IF j < i THEN q[j] ELSE q[j + 1]
  <2>1. /\ p \in Seq(S) /\ Len(p) = Len(a) + Len(b)
        /\ \A j \in 1 .. Len(a) + Len(b) : p[j] = IF j <= Len(a) THEN a[j] ELSE b[j - Len(a)]
    BY <1>2, <1>3, ConcatProperties
  <2>2. Len(p) = Len(q) - 1 /\ Len(a) = i - 1 /\ i \in Nat
    BY <1>1, <1>2, <1>3, <2>1
  <2>3. ASSUME NEW j \in 1 .. Len(p) PROVE p[j] = IF j < i THEN q[j] ELSE q[j + 1]
    <3>1. CASE j < i
      BY <1>1, <1>2, <2>1, <2>2, <2>3, <3>1
    <3>2. CASE ~(j < i)
      <4>1. p[j] = b[j - (i - 1)] /\ j - (i - 1) \in 1 .. (Len(q) - i)
        BY <1>1, <2>1, <2>2, <2>3, <3>2
      <4>2. i + (j - (i - 1)) = j + 1
        BY <2>2
      <4>3. QED
        BY <1>3, <3>2, <4>1, <4>2
    <3>3. QED
      BY <3>1, <3>2
  <2>4. QED
    BY <2>1, <2>2, <2>3
<1> HIDE DEF p
<1>5. DOMAIN p = 1 .. Len(p)
  BY <1>4, LenProperties
<1>6. ASSUME NEW j \in DOMAIN p
      PROVE  \E k \in DOMAIN q : k # i /\ p[j] = q[k] /\ k = IF j < i THEN j ELSE j + 1
  <2>1. j \in 1 .. (Len(q) - 1) /\ p[j] = IF j < i THEN q[j] ELSE q[j + 1]
    BY <1>4, <1>5
  <2>2. CASE j < i
    BY <1>1, <2>1, <2>2
  <2>3. CASE ~(j < i)
    <3>1. j + 1 \in DOMAIN q /\ j + 1 # i /\ p[j] = q[j + 1]
      BY <1>1, <2>1, <2>3
    <3>2. QED
      BY <2>3, <3>1
  <2>4. QED
    BY <2>2, <2>3
<1>7. A!Range(p) \subseteq A!Range(q) \ {q[i]}
  BY <1>6 DEF A!Range
<1>8. ASSUME NEW j \in DOMAIN p, NEW k \in DOMAIN p, p[j] = p[k] PROVE j = k
  <2>1. j \in Nat /\ k \in Nat
    BY <1>1, <1>4, <1>5
  <2>2. (IF j < i THEN j ELSE j + 1) = (IF k < i THEN k ELSE k + 1)
    BY <1>6, <1>8
  <2>3. QED
    BY <1>1, <2>1, <2>2
<1>9. A!RemoveAt(q, i) = p
  BY DEF A!RemoveAt, a, b, p
<1>10. QED
  BY <1>4, <1>7, <1>8, <1>9

\* The step tells what else a request has.
LEMMA StepsTell ==
  ASSUME NEW r \in RequestStates
  PROVE  /\ r.step \in {"found", "checked"} => r \in Deciding
         /\ r.step = "taken" => r \in Taking
         /\ r.step \in {"run", "started", "noted"} => r \in Working
         /\ r = A!Idle => r.step = "idle"
         /\ r.step \in {"idle", "found", "checked", "taken", "run", "started", "noted"}
  BY DEF RequestStates, Deciding, Taking, Working, A!Idle

LEMMA InitApproval == A!ApprovalAssumption /\ A!Init => ApprovalInv
<1> SUFFICES ASSUME A!ApprovalAssumption, A!Init PROVE ApprovalInv
  OBVIOUS
<1>1. /\ kind \in {"bash", "studio"} /\ held = <<>> /\ asked = 0 /\ agent = A!Idle
      /\ request = [u \in Users |-> A!Idle] /\ ran = [o \in A!Operations |-> 0]
      /\ approved = {} /\ rejected = {} /\ crossed = FALSE /\ doubled = FALSE
  BY DEF A!Init
<1>2. <<>> \in Seq(A!Operations) /\ 0 \in 0 .. MaxOperations
  BY DEF A!ApprovalAssumption
<1>3. \A u \in Users : request[u] = A!Idle
  BY <1>1
<1>4. \A t \in A!Threads : A!Thread(t) = A!Idle
  BY <1>1, <1>3 DEF A!Threads, A!Thread
<1>5. A!Idle.step = "idle"
  BY DEF A!Idle
<1>6. request \in [Users -> RequestStates] /\ ran \in [A!Operations -> Nat]
  BY <1>1 DEF RequestStates
<1>7. ApprovalTypeOK
  BY <1>1, <1>2, <1>6 DEF ApprovalTypeOK
<1>8. DOMAIN held = {} /\ Len(held) = 0 /\ A!Range(held) = {}
  BY <1>1 DEF A!Range
<1>9. \A o \in A!Operations : ran[o] = 0
  BY <1>1
<1>10. HeldOnce /\ HeldIsFree
  BY <1>8 DEF HeldOnce, HeldIsFree
<1>11. HandsHold /\ OneProcess /\ A!CancelReaches
  BY <1>4, <1>5 DEF HandsHold, RunsNext, OneProcess, A!CancelReaches
<1>12. RunsHold
  BY <1>1, <1>9 DEF RunsHold
<1>13. DecisionsNamed /\ LookersHold
  BY <1>3, <1>5 DEF DecisionsNamed, LookersHold
<1>14. QED
  BY <1>7, <1>10, <1>11, <1>12, <1>13 DEF ApprovalInv

\* A step with which nothing is about to run that was not before.
LEMMA NothingBegins ==
  ASSUME ran' = ran, rejected' = rejected, asked' = asked, approved \subseteq approved',
         A!Range(held') \subseteq A!Range(held),
         \A t \in A!Threads, o \in A!Operations : RunsNext(t, o)' => RunsNext(t, o),
         A!Range(held) \subseteq A!Operations
  PROVE  HeldIsFree /\ HandsHold /\ RunsHold => (HeldIsFree /\ HandsHold /\ RunsHold)'
<1> SUFFICES ASSUME HeldIsFree, HandsHold, RunsHold PROVE (HeldIsFree /\ HandsHold /\ RunsHold)'
  OBVIOUS
<1> HIDE DEF RunsNext
<1>1. HeldIsFree'
  BY DEF HeldIsFree
<1>2. HandsHold'
  BY DEF HandsHold
<1>3. RunsHold'
  BY DEF RunsHold
<1>4. QED
  BY <1>1, <1>2, <1>3

\* A step with which no process comes.
LEMMA NoProcessComes ==
  ASSUME kind' = kind, doubled' = doubled, current' = current,
         \A t \in A!Threads : A!Thread(t)'.step \in {"started", "noted"} => A!Thread(t)' = A!Thread(t),
         ~doubled => OneProcess, A!CancelReaches
  PROVE  (~doubled => OneProcess)' /\ A!CancelReaches'
<1>1. ASSUME ~doubled' PROVE OneProcess'
  BY <1>1 DEF OneProcess
<1>2. A!CancelReaches'
  BY DEF A!CancelReaches
<1>3. QED
  BY <1>1, <1>2

\* A step with which no request comes to look at what is held, which stays as it is.
LEMMA NobodyLooks ==
  ASSUME kind' = kind, held' = held, approved \subseteq approved',
         \A v \in Users : request'[v].step \in {"checked", "taken"} => request'[v] = request[v],
         LookersHold
  PROVE  LookersHold'
  BY DEF LookersHold

\* A step with which no request comes to name an operation.
LEMMA NobodyNames ==
  ASSUME approved \subseteq approved', DecisionsNamed,
         \A v \in Users : request'[v].step \in {"found", "checked"} => request'[v] = request[v]
  PROVE  DecisionsNamed'
  BY DEF DecisionsNamed

\* The actions, one by one.
LEMMA HoldKept == A!ApprovalAssumption /\ ApprovalInv /\ A!Hold => ApprovalInv'
<1> SUFFICES ASSUME A!ApprovalAssumption, ApprovalInv, A!Hold PROVE ApprovalInv'
  OBVIOUS
<1> DEFINE n == asked + 1
<1>1. /\ asked < MaxOperations /\ asked' = n
      /\ held' = IF kind = "bash" THEN <<n>> ELSE Append(held, n)
      /\ crossed' = (crossed \/ (kind = "bash" /\ A!Looking(Users)))
      /\ UNCHANGED <<kind, agent, request, running, current, cancels, ran, approved,
                     rejected, doubled>>
  BY DEF A!Hold
<1>2. ApprovalTypeOK /\ HeldOnce /\ DecisionsNamed /\ A!CancelReaches /\ (~doubled => OneProcess)
  BY DEF ApprovalInv
<1>3. /\ held \in Seq(A!Operations) /\ Len(held) \in Nat /\ DOMAIN held = 1 .. Len(held)
      /\ \A i \in DOMAIN held : held[i] \in A!Operations
      /\ asked \in Nat /\ MaxOperations \in Nat /\ \A o \in A!Operations : o \in Nat
      /\ ran \in [A!Operations -> Nat]
  BY <1>2, ApprovalTypes DEF ApprovalTypeOK
<1>4. n \in A!Operations /\ n \in 0 .. MaxOperations
  BY <1>1, <1>3 DEF A!Operations
<1>5. /\ <<n>> \in Seq(A!Operations) /\ Len(<<n>>) = 1 /\ DOMAIN <<n>> = {1} /\ <<n>>[1] = n
  <2>1. 1 .. 1 = {1}
    OBVIOUS
  <2>2. <<n>> = [i \in 1 .. 1 |-> n]
    BY <2>1
  <2>3. DOMAIN <<n>> = {1} /\ <<n>>[1] = n
    BY <2>1, <2>2
  <2>4. QED
    BY <1>4, <2>3
<1>6. /\ Append(held, n) \in Seq(A!Operations) /\ Len(Append(held, n)) = Len(held) + 1
      /\ DOMAIN Append(held, n) = 1 .. (Len(held) + 1)
      /\ \A i \in 1 .. Len(held) : Append(held, n)[i] = held[i]
      /\ Append(held, n)[Len(held) + 1] = n
  BY <1>3, <1>4, AppendProperties, LenProperties
<1>7. held' \in Seq(A!Operations) /\ (kind = "bash" => Len(held') <= 1)
  BY <1>1, <1>5, <1>6
<1>8. ASSUME NEW i \in DOMAIN held'
      PROVE  held'[i] = n \/ (i \in DOMAIN held /\ held'[i] = held[i])
  <2>1. CASE kind = "bash"
    BY <1>1, <1>5, <2>1
  <2>2. CASE kind # "bash"
    <3>1. i \in 1 .. Len(held) \/ i = Len(held) + 1
      BY <1>1, <1>3, <1>6, <2>2
    <3>2. QED
      BY <1>1, <1>3, <1>6, <2>2, <3>1
  <2>3. QED
    BY <2>1, <2>2
<1>9. \A o \in A!Range(held') : o = n \/ o \in A!Range(held)
  BY <1>8 DEF A!Range
<1>10. \A i \in DOMAIN held : held[i] # n
  <2>1. \A i \in DOMAIN held : held[i] <= asked /\ held[i] \in Nat
    BY <1>2, <1>3 DEF HeldOnce, A!Range
  <2>2. QED
    BY <1>3, <2>1
<1>11. ASSUME NEW i \in DOMAIN held', NEW j \in DOMAIN held', held'[i] = held'[j] PROVE i = j
  <2>1. CASE kind = "bash"
    BY <1>1, <1>5, <2>1
  <2>2. CASE kind # "bash"
    <3>1. (i \in 1 .. Len(held) \/ i = Len(held) + 1) /\ (j \in 1 .. Len(held) \/ j = Len(held) + 1)
      BY <1>1, <1>3, <1>6, <2>2
    <3>2. held' = Append(held, n)
      BY <1>1, <2>2
    <3>3. CASE i \in 1 .. Len(held) /\ j \in 1 .. Len(held)
      <4>1. held[i] = held[j] /\ i \in DOMAIN held /\ j \in DOMAIN held
        BY <1>3, <1>6, <1>11, <3>2, <3>3
      <4>2. QED
        BY <1>2, <4>1 DEF HeldOnce
    <3>4. CASE i = Len(held) + 1 \/ j = Len(held) + 1
      BY <1>3, <1>6, <1>10, <1>11, <3>1, <3>2, <3>4
    <3>5. QED
      BY <3>1, <3>3, <3>4
  <2>3. QED
    BY <2>1, <2>2
<1>12. HeldOnce'
  <2>1. \A o \in A!Range(held) : o \in Nat /\ o <= asked
    BY <1>2, <1>3 DEF HeldOnce, A!Range
  <2>2. \A o \in A!Range(held') : o <= asked'
    <3>1. asked' = n /\ asked \in Nat
      BY <1>1, <1>3
    <3>2. n <= n /\ \A o \in A!Range(held) : o <= n
      BY <2>1, <3>1
    <3>3. QED
      BY <1>9, <3>1, <3>2
  <2>3. \A i, j \in DOMAIN held' : held'[i] = held'[j] => i = j
    BY <1>11
  <2>4. kind' = "bash" => Len(held') <= 1
    BY <1>1, <1>7
  <2>5. QED
    BY <2>2, <2>3, <2>4 DEF HeldOnce
<1>13. \A t \in A!Threads : A!Thread(t)' = A!Thread(t)
  BY <1>1 DEF A!Thread
<1>14. \A t \in A!Threads, o \in A!Operations : RunsNext(t, o)' <=> RunsNext(t, o)
  BY <1>13 DEF RunsNext
<1>15. DecisionsNamed' /\ (~doubled => OneProcess)' /\ A!CancelReaches'
  BY <1>1, <1>2, <1>13, NoProcessComes, NobodyNames
<1>16. ASSUME ~crossed' PROVE (HeldIsFree /\ HandsHold /\ RunsHold /\ LookersHold)'
  <2>1. ~crossed /\ ~(kind = "bash" /\ A!Looking(Users))
    BY <1>1, <1>16
  <2>2. HeldIsFree /\ HandsHold /\ RunsHold
    BY <2>1 DEF ApprovalInv
  <2>3. ran[n] = 0 /\ n \notin rejected /\ \A t \in A!Threads : ~RunsNext(t, n)
    BY <1>3, <1>4, <2>2 DEF RunsHold, HandsHold
  <2>4. HeldIsFree'
    BY <1>1, <1>9, <1>13, <2>2, <2>3 DEF HeldIsFree, RunsNext
  <2>5. HandsHold'
    <3>1. \A o \in A!Operations : o <= asked => o <= asked'
      BY <1>1, <1>3
    <3>2. QED
      BY <1>1, <1>14, <2>2, <3>1 DEF HandsHold
  <2>6. RunsHold'
    BY <1>1, <1>3, <2>2 DEF RunsHold
  <2>7. LookersHold'
    BY <1>1, <2>1 DEF LookersHold, A!Looking
  <2>8. QED
    BY <2>4, <2>5, <2>6, <2>7
<1>17. ApprovalTypeOK'
  BY <1>1, <1>2, <1>4, <1>7 DEF ApprovalTypeOK
<1>18. QED
  BY <1>12, <1>15, <1>16, <1>17 DEF ApprovalInv

LEMMA ExecuteKept == A!ApprovalAssumption /\ ApprovalInv /\ A!Execute => ApprovalInv'
<1> SUFFICES ASSUME A!ApprovalAssumption, ApprovalInv, A!Execute PROVE ApprovalInv'
  OBVIOUS
<1> DEFINE n == asked + 1
           r == [step |-> "run", op |-> n]
<1>1. /\ asked < MaxOperations /\ asked' = n /\ agent = A!Idle /\ agent' = r
      /\ approved' = approved \cup {n}
      /\ UNCHANGED <<kind, held, request, running, current, cancels, ran, rejected,
                     crossed, doubled>>
  BY DEF A!Execute
<1>2. ApprovalTypeOK /\ HeldOnce /\ DecisionsNamed /\ A!CancelReaches /\ (~doubled => OneProcess)
  BY DEF ApprovalInv
<1>3. /\ asked \in Nat /\ MaxOperations \in Nat /\ \A o \in A!Operations : o \in Nat
      /\ ran \in [A!Operations -> Nat] /\ A!Range(held) \subseteq A!Operations
      /\ A!Threads = Users \cup {"agent"} /\ "agent" \notin Users
  BY <1>2, ApprovalTypes DEF ApprovalTypeOK
<1>4. n \in A!Operations /\ n \in 0 .. MaxOperations /\ asked < n
  BY <1>1, <1>3 DEF A!Operations
<1>5. r \in Working /\ r.step = "run" /\ r.op = n
  BY <1>4 DEF Working
<1>6. \A t \in A!Threads : A!Thread(t)' = IF t = "agent" THEN r ELSE A!Thread(t)
  BY <1>1, <1>3 DEF A!Thread
<1>7. \A t \in A!Threads, o \in A!Operations :
        RunsNext(t, o)' => (t = "agent" /\ o = n) \/ (t # "agent" /\ RunsNext(t, o))
  BY <1>5, <1>6 DEF RunsNext
<1>8. (~doubled => OneProcess)' /\ A!CancelReaches'
  BY <1>1, <1>2, <1>5, <1>6, NoProcessComes
<1>9. DecisionsNamed'
  BY <1>1, <1>2, NobodyNames
<1>10. HeldOnce'
  <2>1. \A o \in A!Range(held) : o <= asked'
    BY <1>1, <1>2, <1>3 DEF HeldOnce
  <2>2. QED
    BY <1>1, <1>2, <2>1 DEF HeldOnce
<1>11. ASSUME ~crossed' PROVE (HeldIsFree /\ HandsHold /\ RunsHold /\ LookersHold)'
  <2>1. HeldIsFree /\ HandsHold /\ RunsHold /\ LookersHold
    BY <1>1, <1>11 DEF ApprovalInv
  <2>2. ran[n] = 0 /\ n \notin rejected /\ \A t \in A!Threads : ~RunsNext(t, n)
    BY <1>3, <1>4, <2>1 DEF RunsHold, HandsHold
  <2>3. n \notin A!Range(held)
    BY <1>2, <1>3, <1>4 DEF HeldOnce
  <2>4. HeldIsFree'
    BY <1>1, <1>3, <1>7, <2>1, <2>3 DEF HeldIsFree
  <2>5. HandsHold'
    <3>1. ASSUME NEW t \in A!Threads, NEW o \in A!Operations, RunsNext(t, o)'
          PROVE  /\ ran[o] = 0 /\ o \in approved' \ rejected /\ o <= asked'
                 /\ \A s \in A!Threads : RunsNext(s, o)' => s = t
      <4>1. CASE t = "agent" /\ o = n
        BY <1>1, <1>3, <1>7, <2>2, <4>1
      <4>2. CASE t # "agent" /\ RunsNext(t, o)
        BY <1>1, <1>3, <1>4, <1>7, <2>1, <2>2, <4>2 DEF HandsHold
      <4>3. QED
        BY <1>7, <3>1, <4>1, <4>2
    <3>2. QED
      BY <1>1, <3>1 DEF HandsHold
  <2>6. RunsHold'
    BY <1>1, <1>3, <2>1 DEF RunsHold
  <2>7. LookersHold'
    BY <1>1, <2>1, NobodyLooks
  <2>8. QED
    BY <2>4, <2>5, <2>6, <2>7
<1>12. ApprovalTypeOK'
  BY <1>1, <1>2, <1>4, <1>5 DEF ApprovalTypeOK
<1>13. QED
  BY <1>8, <1>9, <1>10, <1>11, <1>12 DEF ApprovalInv

\* A request that goes on to a state in which it runs nothing, while what is held stays.
Named(r) ==
    r.step \in {"found", "checked"} /\ r.decision = "approve" /\ r.id # None => r.id \in approved
Looks(u, r) ==
    /\ r.step = "checked" => held # <<>> /\ (r.id # None => held[1] = r.id)
    /\ r.step = "taken" =>
         held # <<>> /\ held[1] = r.op /\ (r.decision = "approve" => r.op \in approved)
    /\ r.step \in {"checked", "taken"} =>
         \A v \in Users : request[v].step \in {"checked", "taken"} => v = u

LEMMA RequestGoesOn ==
  ASSUME A!ApprovalAssumption, ApprovalInv, NEW u \in Users,
         NEW r \in {A!Idle} \cup Deciding \cup Taking,
         request' = [request EXCEPT ![u] = r],
         UNCHANGED <<kind, held, asked, agent, current, ran, rejected, doubled>>,
         approved \subseteq approved', approved' \subseteq A!Operations,
         crossed' \in BOOLEAN, crossed => crossed',
         Named(r)',
         kind = "bash" /\ ~crossed' => Looks(u, r)'
  PROVE  ApprovalInv'
<1>1. ApprovalTypeOK /\ HeldOnce /\ DecisionsNamed /\ A!CancelReaches /\ (~doubled => OneProcess)
  BY DEF ApprovalInv
<1>2. r \in RequestStates /\ r.step \in {"idle", "found", "checked", "taken"}
  BY DEF RequestStates, Deciding, Taking, A!Idle
<1>3. /\ Moves(u, r) /\ request' \in [Users -> RequestStates]
      /\ \A v \in Users : request'[v] = IF v = u THEN r ELSE request[v]
  BY <1>1, <1>2, RequestMoves
<1>4. A!Range(held) \subseteq A!Operations
  BY <1>1, ApprovalTypes
<1>5. \A t \in A!Threads, o \in A!Operations : RunsNext(t, o)' => RunsNext(t, o)
  BY <1>2, <1>3 DEF RunsNext, Moves
<1>6. (~doubled => OneProcess)' /\ A!CancelReaches'
  <2>1. \A t \in A!Threads : A!Thread(t)'.step \in {"started", "noted"} => A!Thread(t)' = A!Thread(t)
    BY <1>2, <1>3 DEF Moves
  <2>2. QED
    BY <1>1, <2>1, NoProcessComes
<1>7. DecisionsNamed'
  BY <1>1, <1>3 DEF DecisionsNamed, Named
<1>8. HeldOnce'
  BY <1>1 DEF HeldOnce
<1>9. ASSUME ~crossed' PROVE (HeldIsFree /\ HandsHold /\ RunsHold /\ LookersHold)'
  <2>1. HeldIsFree /\ HandsHold /\ RunsHold /\ LookersHold
    BY <1>9 DEF ApprovalInv
  <2>2. (HeldIsFree /\ HandsHold /\ RunsHold)'
    BY <1>4, <1>5, <2>1, NothingBegins
  <2>3. LookersHold'
    <3>1. SUFFICES ASSUME kind = "bash" PROVE LookersHold'
      BY DEF LookersHold
    <3>2. Looks(u, r)'
      BY <1>9, <3>1
    <3>3. \A v \in Users : request'[v].step = "checked" =>
            held # <<>> /\ (request'[v].id # None => held[1] = request'[v].id)
      BY <1>3, <2>1, <3>1, <3>2 DEF LookersHold, Looks
    <3>4. \A v \in Users : request'[v].step = "taken" =>
            /\ held # <<>> /\ held[1] = request'[v].op
            /\ request'[v].decision = "approve" => request'[v].op \in approved'
      BY <1>3, <2>1, <3>1, <3>2 DEF LookersHold, Looks
    <3>5. \A v, w \in Users :
            request'[v].step \in {"checked", "taken"} /\ request'[w].step \in {"checked", "taken"}
              => v = w
      BY <1>3, <2>1, <3>1, <3>2 DEF LookersHold, Looks
    <3>6. QED
      BY <3>3, <3>4, <3>5 DEF LookersHold
  <2>4. QED
    BY <2>2, <2>3
<1>10. ApprovalTypeOK'
  BY <1>1, <1>3 DEF ApprovalTypeOK
<1>11. QED
  BY <1>6, <1>7, <1>8, <1>9, <1>10 DEF ApprovalInv

LEMMA DecideKept ==
  ASSUME A!ApprovalAssumption, ApprovalInv, NEW u \in Users, NEW d \in Decisions,
         NEW id \in A!Operations \cup {None}, A!Decide(u, d, id)
  PROVE  ApprovalInv'
<1> DEFINE r == [step |-> "found", decision |-> d, id |-> id]
<1>1. /\ request' = [request EXCEPT ![u] = r]
      /\ approved' = IF d = "approve" THEN approved \cup ({id} \ {None}) ELSE approved
      /\ UNCHANGED <<kind, held, asked, agent, running, current, cancels, ran, rejected,
                     crossed, doubled>>
  BY DEF A!Decide, A!Approves
<1>2. r \in Deciding /\ r.step = "found" /\ r.decision = d /\ r.id = id
  BY DEF Deciding
<1>3. approved \subseteq approved' /\ approved' \subseteq A!Operations /\ crossed \in BOOLEAN
  BY <1>1 DEF ApprovalInv, ApprovalTypeOK
<1>4. Named(r)' /\ Looks(u, r)'
  BY <1>1, <1>2 DEF Named, Looks
<1> HIDE DEF r
<1>5. QED
  BY <1>1, <1>2, <1>3, <1>4, RequestGoesOn

LEMMA CheckKept ==
  ASSUME A!ApprovalAssumption, ApprovalInv, NEW u \in Users, A!Check(u)
  PROVE  ApprovalInv'
<1> DEFINE q == request[u]
           there == IF q.id = None THEN held # <<>> ELSE A!Holds(q.id)
           next == IF there THEN [q EXCEPT !.step = "checked"] ELSE A!Idle
<1>1. /\ kind = "bash" /\ q.step = "found" /\ request' = [request EXCEPT ![u] = next]
      /\ crossed' = (crossed \/ (there /\ A!Looking(Users)))
      /\ UNCHANGED <<kind, held, asked, agent, running, current, cancels, ran, approved,
                     rejected, doubled>>
  BY DEF A!Check
<1>2. q \in Deciding
  BY <1>1, StepsTell DEF ApprovalInv, ApprovalTypeOK
<1>3. PICK r : r = next
  OBVIOUS
<1>4. there => /\ r \in Deciding /\ r.step = "checked" /\ r.decision = q.decision
               /\ r.id = q.id /\ r.id \in A!Operations \cup {None}
  BY <1>3, <1>2 DEF Deciding
<1>5. ~there => r = A!Idle /\ r.step = "idle"
  BY <1>3 DEF A!Idle
<1>6. crossed \in BOOLEAN /\ crossed' \in BOOLEAN /\ approved \subseteq A!Operations
  BY <1>1 DEF ApprovalInv, ApprovalTypeOK
<1>7. Named(r)'
  BY <1>1, <1>4, <1>5 DEF Named, ApprovalInv, DecisionsNamed
<1>8. there => held # <<>> /\ (q.id # None => held[1] = q.id)
  <2>1. /\ Len(held) \in Nat /\ Len(held) <= 1 /\ DOMAIN held = 1 .. Len(held)
        /\ held # <<>> => held[1] \in A!Range(held)
    BY <1>1, ApprovalTypes DEF ApprovalInv, HeldOnce
  <2>2. ASSUME NEW o \in A!Range(held) PROVE held # <<>> /\ held[1] = o
    <3>1. PICK i \in DOMAIN held : held[i] = o
      BY <2>2 DEF A!Range
    <3>2. i = 1 /\ Len(held) = 1
      BY <2>1, <3>1
    <3>3. Len(<<>>) = 0
      OBVIOUS
    <3>4. QED
      BY <3>1, <3>2, <3>3
  <2>3. QED
    BY <2>2 DEF A!Holds
<1>9. ~crossed' => Looks(u, r)'
  <2> SUFFICES ASSUME ~crossed' PROVE Looks(u, r)'
    OBVIOUS
  <2>1. CASE there
    <3>1. \A v \in Users : request[v].step \notin {"checked", "taken"}
      BY <1>1, <2>1 DEF A!Looking
    <3>2. request \in [Users -> RequestStates]
      BY DEF ApprovalInv, ApprovalTypeOK
    <3>3. \A v \in Users : request'[v].step \in {"checked", "taken"} => v = u
      BY <1>1, <3>1, <3>2
    <3>4. QED
      BY <1>1, <1>4, <1>8, <2>1, <3>3 DEF Looks
  <2>2. CASE ~there
    BY <1>5, <2>2 DEF Looks
  <2>3. QED
    BY <2>1, <2>2
<1>10. r \in {A!Idle} \cup Deciding
  BY <1>4, <1>5
<1>11. request' = [request EXCEPT ![u] = r]
  BY <1>3, <1>1
<1> HIDE DEF next, there
<1>12. QED
  BY <1>1, <1>11, <1>6, <1>7, <1>9, <1>10, RequestGoesOn

LEMMA TakeKept ==
  ASSUME A!ApprovalAssumption, ApprovalInv, NEW u \in Users, A!Take(u)
  PROVE  ApprovalInv'
<1> DEFINE q == request[u]
           next == IF held = <<>> THEN A!Idle
                   ELSE [step |-> "taken", decision |-> q.decision, op |-> Head(held)]
<1>1. /\ kind = "bash" /\ q.step = "checked" /\ request' = [request EXCEPT ![u] = next]
      /\ approved' = IF q.decision = "approve"
                     THEN approved \cup (IF q.id = None /\ held # <<>> THEN {Head(held)} ELSE {})
                     ELSE approved
      /\ UNCHANGED <<kind, held, asked, agent, running, current, cancels, ran, rejected,
                     crossed, doubled>>
  BY DEF A!Take, A!Approves
<1>2. q \in Deciding /\ q.decision \in Decisions
  BY <1>1, StepsTell DEF ApprovalInv, ApprovalTypeOK, Deciding
<1>3. held # <<>> => Head(held) = held[1] /\ held[1] \in A!Operations
  BY ApprovalTypes DEF ApprovalInv
<1>4. PICK r : r = next
  OBVIOUS
<1>5. held # <<>> => /\ r \in Taking /\ r.step = "taken" /\ r.decision = q.decision
                     /\ r.op = held[1]
  BY <1>2, <1>3, <1>4 DEF Taking
<1>6. held = <<>> => r = A!Idle /\ r.step = "idle"
  BY <1>4 DEF A!Idle
<1>7. crossed \in BOOLEAN /\ approved \subseteq A!Operations
  BY DEF ApprovalInv, ApprovalTypeOK
<1>8. approved \subseteq approved' /\ approved' \subseteq A!Operations
  BY <1>1, <1>3, <1>7
<1>9. Named(r)'
  BY <1>5, <1>6 DEF Named
<1>10. ~crossed' => Looks(u, r)'
  <2> SUFFICES ASSUME ~crossed' PROVE Looks(u, r)'
    OBVIOUS
  <2>1. LookersHold
    BY <1>1 DEF ApprovalInv
  <2>2. held # <<>> /\ (q.id # None => held[1] = q.id)
    BY <1>1, <2>1 DEF LookersHold
  <2>3. q.decision = "approve" => held[1] \in approved'
    <3>1. CASE q.id = None
      BY <1>1, <1>3, <2>2, <3>1
    <3>2. CASE q.id # None
      BY <1>1, <1>8, <2>2, <3>2 DEF ApprovalInv, DecisionsNamed
    <3>3. QED
      BY <3>1, <3>2
  <2>4. \A v \in Users : request[v].step \in {"checked", "taken"} => v = u
    BY <1>1, <2>1 DEF LookersHold
  <2>5. request \in [Users -> RequestStates]
    BY DEF ApprovalInv, ApprovalTypeOK
  <2>6. \A v \in Users : request'[v].step \in {"checked", "taken"} => v = u
    BY <1>1, <2>4, <2>5
  <2>7. QED
    BY <1>1, <1>5, <2>2, <2>3, <2>6 DEF Looks
<1>11. r \in {A!Idle} \cup Deciding \cup Taking
  BY <1>5, <1>6
<1>12. request' = [request EXCEPT ![u] = r]
  BY <1>4, <1>1
<1> HIDE DEF next
<1>13. QED
  BY <1>1, <1>12, <1>7, <1>8, <1>9, <1>10, <1>11, RequestGoesOn

\* A request that takes operation o out of what is held, to run it or to call it off.
LEMMA TakenOut ==
  ASSUME A!ApprovalAssumption, ApprovalInv, NEW u \in Users, NEW o \in A!Operations,
         NEW d \in Decisions, NEW r, r = IF d = "approve" THEN [step |-> "run", op |-> o] ELSE A!Idle,
         request' = [request EXCEPT ![u] = r],
         rejected' = IF d = "reject" THEN rejected \cup {o} ELSE rejected,
         UNCHANGED <<kind, asked, agent, current, ran, approved, crossed, doubled>>,
         held' \in Seq(A!Operations), kind = "bash" => Len(held') <= 1,
         \A i, j \in DOMAIN held' : held'[i] = held'[j] => i = j,
         A!Range(held') \subseteq A!Range(held),
         ~crossed => /\ o \in A!Range(held) \ A!Range(held')
                     /\ d = "approve" => o \in approved
                     /\ kind = "bash" => \A v \in Users : request[v].step \in {"checked", "taken"} => v = u
  PROVE  ApprovalInv'
<1>1. ApprovalTypeOK /\ HeldOnce /\ DecisionsNamed /\ A!CancelReaches /\ (~doubled => OneProcess)
  BY DEF ApprovalInv
<1>2. /\ r \in RequestStates /\ r.step \in {"idle", "run"} /\ (r.step = "run" => d = "approve" /\ r.op = o)
  BY DEF RequestStates, Working, A!Idle
<1>3. /\ Moves(u, r) /\ request' \in [Users -> RequestStates]
      /\ \A v \in Users : request'[v] = IF v = u THEN r ELSE request[v]
  BY <1>1, <1>2, RequestMoves
<1>4. A!Range(held) \subseteq A!Operations /\ u \in A!Threads
  BY <1>1, ApprovalTypes
<1>5. \A t \in A!Threads, x \in A!Operations :
        RunsNext(t, x)' => (t = u /\ x = o /\ d = "approve") \/ (t # u /\ RunsNext(t, x))
  BY <1>2, <1>3 DEF RunsNext, Moves
<1>6. (~doubled => OneProcess)' /\ A!CancelReaches'
  <2>1. \A t \in A!Threads : A!Thread(t)'.step \in {"started", "noted"} => A!Thread(t)' = A!Thread(t)
    BY <1>2, <1>3 DEF Moves
  <2>2. QED
    BY <1>1, <2>1, NoProcessComes
<1>7. DecisionsNamed'
  <2>1. \A v \in Users : request'[v].step \in {"found", "checked"} => request'[v] = request[v]
    BY <1>2, <1>3
  <2>2. QED
    BY <1>1, <2>1, NobodyNames
<1>8. HeldOnce'
  BY <1>1 DEF HeldOnce
<1>9. ASSUME ~crossed' PROVE (HeldIsFree /\ HandsHold /\ RunsHold /\ LookersHold)'
  <2>1. HeldIsFree /\ HandsHold /\ RunsHold /\ LookersHold
    BY <1>9 DEF ApprovalInv
  <2>2. /\ ran[o] = 0 /\ o \notin rejected /\ o <= asked /\ o \notin A!Range(held')
        /\ \A t \in A!Threads : ~RunsNext(t, o)
    BY <1>1, <1>9, <2>1 DEF HeldIsFree, HeldOnce
  <2>3. HeldIsFree'
    <3>1. ASSUME NEW x \in A!Range(held'), NEW t \in A!Threads PROVE ~RunsNext(t, x)'
      BY <1>4, <1>5, <2>1, <2>2, <3>1 DEF HeldIsFree
    <3>2. \A x \in A!Range(held') : ran'[x] = 0 /\ x \notin rejected'
      BY <2>1, <2>2 DEF HeldIsFree
    <3>3. QED
      BY <3>1, <3>2 DEF HeldIsFree
  <2>4. HandsHold'
    <3>1. ASSUME NEW t \in A!Threads, NEW x \in A!Operations, RunsNext(t, x)'
          PROVE  /\ ran[x] = 0 /\ x \in approved \ rejected' /\ x <= asked
                 /\ \A s \in A!Threads : RunsNext(s, x)' => s = t
      <4>1. CASE t = u /\ x = o /\ d = "approve"
        BY <1>5, <1>9, <2>2, <4>1
      <4>2. CASE t # u /\ RunsNext(t, x)
        BY <1>5, <2>1, <2>2, <4>2 DEF HandsHold
      <4>3. QED
        BY <1>5, <3>1, <4>1, <4>2
    <3>2. QED
      BY <3>1 DEF HandsHold
  <2>5. RunsHold'
    BY <2>1, <2>2 DEF RunsHold
  <2>6. LookersHold'
    BY <1>2, <1>3, <1>9 DEF LookersHold
  <2>7. QED
    BY <2>3, <2>4, <2>5, <2>6
<1>10. ApprovalTypeOK'
  BY <1>1, <1>3 DEF ApprovalTypeOK
<1>11. QED
  BY <1>6, <1>7, <1>8, <1>9, <1>10 DEF ApprovalInv

LEMMA ClearKept ==
  ASSUME A!ApprovalAssumption, ApprovalInv, NEW u \in Users, A!Clear(u)
  PROVE  ApprovalInv'
<1> DEFINE q == request[u]
           next == IF q.decision = "approve" THEN [step |-> "run", op |-> q.op] ELSE A!Idle
<1>1. /\ kind = "bash" /\ q.step = "taken" /\ request' = [request EXCEPT ![u] = next]
      /\ held' = <<>>
      /\ rejected' = IF q.decision = "reject" THEN rejected \cup {q.op} ELSE rejected
      /\ UNCHANGED <<kind, asked, agent, running, current, cancels, ran, approved, crossed, doubled>>
  BY DEF A!Clear
<1>2. q.op \in A!Operations /\ q.decision \in Decisions
  BY <1>1, StepsTell DEF ApprovalInv, ApprovalTypeOK, Taking
<1>3. PICK r : r = next
  OBVIOUS
<1>4. PICK o \in A!Operations, d \in Decisions : o = q.op /\ d = q.decision
  BY <1>2
<1>5. /\ request' = [request EXCEPT ![u] = r]
      /\ r = IF d = "approve" THEN [step |-> "run", op |-> o] ELSE A!Idle
      /\ rejected' = IF d = "reject" THEN rejected \cup {o} ELSE rejected
  BY <1>1, <1>3, <1>4
<1>6. /\ held' \in Seq(A!Operations) /\ Len(held') <= 1 /\ A!Range(held') = {}
      /\ DOMAIN held' = {}
  <2>1. <<>> \in Seq(A!Operations) /\ Len(<<>>) = 0 /\ DOMAIN <<>> = {}
    OBVIOUS
  <2>2. QED
    BY <1>1, <2>1 DEF A!Range
<1>7. ASSUME ~crossed
      PROVE  /\ o \in A!Range(held) /\ (d = "approve" => o \in approved)
             /\ \A v \in Users : request[v].step \in {"checked", "taken"} => v = u
  <2>1. LookersHold
    BY <1>7 DEF ApprovalInv
  <2>2. /\ held # <<>> /\ held[1] = o /\ (d = "approve" => o \in approved)
        /\ \A v \in Users : request[v].step \in {"checked", "taken"} => v = u
    BY <1>1, <1>4, <2>1 DEF LookersHold
  <2>3. held[1] \in A!Range(held)
    BY <2>2, ApprovalTypes DEF ApprovalInv
  <2>4. QED
    BY <2>2, <2>3
<1>8. UNCHANGED <<kind, asked, agent, current, ran, approved, crossed, doubled>>
  BY <1>1
<1>9. /\ A!Range(held') \subseteq A!Range(held)
      /\ \A i, j \in DOMAIN held' : held'[i] = held'[j] => i = j
  BY <1>6
<1>10. ~crossed => /\ o \in A!Range(held) \ A!Range(held')
                   /\ d = "approve" => o \in approved
                   /\ kind = "bash" => \A v \in Users : request[v].step \in {"checked", "taken"} => v = u
  BY <1>6, <1>7
<1> HIDE DEF next, q
<1>11. QED
  BY <1>5, <1>6, <1>8, <1>9, <1>10, TakenOut

LEMMA PopKept ==
  ASSUME A!ApprovalAssumption, ApprovalInv, NEW u \in Users, A!Pop(u)
  PROVE  ApprovalInv'
<1> DEFINE q == request[u]
<1>1. /\ kind = "studio" /\ q.step = "found"
      /\ UNCHANGED <<kind, asked, agent, running, current, cancels, ran, crossed, doubled>>
  BY DEF A!Pop
<1>2. q \in Deciding
  BY <1>1, StepsTell DEF ApprovalInv, ApprovalTypeOK
<1>3. /\ crossed \in BOOLEAN /\ approved \subseteq A!Operations /\ held \in Seq(A!Operations)
      /\ \A i, j \in DOMAIN held : held[i] = held[j] => i = j
  BY DEF ApprovalInv, ApprovalTypeOK, HeldOnce
<1>4. CASE q.id = None /\ held # <<>>
  <2>1. Head(held) \in A!Operations
    BY <1>4, ApprovalTypes DEF ApprovalInv
  <2>2. PICK r : r = [q EXCEPT !.id = Head(held)]
    OBVIOUS
  <2>3. /\ request' = [request EXCEPT ![u] = r]
        /\ approved' = IF q.decision = "approve" THEN approved \cup {Head(held)} ELSE approved
        /\ held' = held /\ rejected' = rejected
    <3>1. request' = [request EXCEPT ![u].id = Head(held)]
      BY <1>4 DEF A!Pop
    <3>2. request \in [Users -> RequestStates]
      BY DEF ApprovalInv, ApprovalTypeOK
    <3>3. QED
      BY <1>4, <2>2, <3>1, <3>2 DEF A!Pop, A!Approves
  <2>4. r \in Deciding /\ r.step = "found" /\ r.decision = q.decision /\ r.id = Head(held)
    BY <1>1, <1>2, <2>1, <2>2 DEF Deciding
  <2>5. Named(r)'
    BY <2>3, <2>4 DEF Named
  <2>6. approved \subseteq approved' /\ approved' \subseteq A!Operations
    BY <1>3, <2>1, <2>3
  <2>7. QED
    BY <1>1, <1>3, <2>3, <2>4, <2>5, <2>6, RequestGoesOn
<1>5. CASE ~(q.id = None /\ held # <<>>) /\ A!Holds(q.id)
  <2>1. /\ \E i \in DOMAIN held : held[i] = q.id /\ held' = A!RemoveAt(held, i)
        /\ request' = [request EXCEPT ![u] =
               IF q.decision = "approve" THEN [step |-> "run", op |-> q.id] ELSE A!Idle]
        /\ rejected' = IF q.decision = "reject" THEN rejected \cup {q.id} ELSE rejected
        /\ approved' = approved
    BY <1>5 DEF A!Pop
  <2>2. PICK i \in DOMAIN held : held[i] = q.id /\ held' = A!RemoveAt(held, i)
    BY <2>1
  <2>3. q.id \in A!Operations /\ q.decision \in Decisions
    BY <1>2, <2>2, ApprovalTypes DEF ApprovalInv, Deciding
  <2>4. PICK o \in A!Operations, d \in Decisions : o = q.id /\ d = q.decision
    BY <2>3
  <2>5. PICK r : r = IF d = "approve" THEN [step |-> "run", op |-> o] ELSE A!Idle
    OBVIOUS
  <2>6. /\ request' = [request EXCEPT ![u] = r]
        /\ rejected' = IF d = "reject" THEN rejected \cup {o} ELSE rejected
    BY <2>1, <2>4, <2>5
  <2>7. /\ held' \in Seq(A!Operations) /\ A!Range(held') \subseteq A!Range(held) \ {o}
        /\ \A j, k \in DOMAIN held' : held'[j] = held'[k] => j = k
    BY <1>3, <2>2, <2>4, OneRemoved
  <2>8. o \in A!Range(held)
    BY <2>2, <2>4 DEF A!Range
  <2>9. d = "approve" => o \in approved
    <3>1. DecisionsNamed /\ None \notin A!Operations
      BY ApprovalTypes DEF ApprovalInv
    <3>2. QED
      BY <1>1, <2>4, <3>1 DEF DecisionsNamed
  <2>10. QED
    BY <1>1, <2>1, <2>5, <2>6, <2>7, <2>8, <2>9, TakenOut
<1>6. CASE ~(q.id = None /\ held # <<>>) /\ ~A!Holds(q.id)
  <2>1. /\ request' = [request EXCEPT ![u] = A!Idle]
        /\ UNCHANGED <<held, rejected, approved>>
    BY <1>6 DEF A!Pop
  <2>2. Named(A!Idle)'
    BY DEF Named, A!Idle
  <2>3. QED
    BY <1>1, <1>3, <2>1, <2>2, RequestGoesOn
<1>7. QED
  BY <1>4, <1>5, <1>6

\* A thread that goes on, with nothing to run before it.
LEMMA ThreadGoesOn ==
  ASSUME A!ApprovalAssumption, ApprovalInv, NEW t \in A!Threads, NEW r \in {A!Idle} \cup Working,
         r.step \in {"idle", "noted"}, A!Becomes(t, r),
         UNCHANGED <<kind, held, asked, ran, approved, rejected, crossed, doubled>>,
         (~doubled => OneProcess)', A!CancelReaches'
  PROVE  ApprovalInv'
<1>1. ApprovalTypeOK /\ HeldOnce /\ DecisionsNamed
  BY DEF ApprovalInv
<1>2. /\ Moves(t, r) /\ request' \in [Users -> RequestStates] /\ agent' \in {A!Idle} \cup Working
      /\ \A v \in Users : request'[v] = IF v = t THEN r ELSE request[v]
  BY <1>1, ThreadMoves
<1>3. ApprovalTypeOK'
  BY <1>1, <1>2 DEF ApprovalTypeOK
<1>4. HeldOnce'
  BY <1>1 DEF HeldOnce
<1>5. DecisionsNamed'
  <2>1. \A v \in Users : request'[v].step \in {"found", "checked"} => request'[v] = request[v]
    BY <1>2
  <2>2. QED
    BY <1>1, <2>1, NobodyNames
<1>6. ASSUME ~crossed' PROVE (HeldIsFree /\ HandsHold /\ RunsHold /\ LookersHold)'
  <2>1. HeldIsFree /\ HandsHold /\ RunsHold /\ LookersHold
    BY <1>6 DEF ApprovalInv
  <2>2. \A s \in A!Threads, o \in A!Operations : RunsNext(s, o)' => RunsNext(s, o)
    BY <1>2 DEF RunsNext, Moves
  <2>3. A!Range(held) \subseteq A!Operations
    BY <1>1, ApprovalTypes
  <2>4. (HeldIsFree /\ HandsHold /\ RunsHold)'
    BY <2>1, <2>2, <2>3, NothingBegins
  <2>5. \A v \in Users : request'[v].step \in {"checked", "taken"} => request'[v] = request[v]
    BY <1>2
  <2>6. LookersHold'
    BY <2>1, <2>5, NobodyLooks
  <2>7. QED
    BY <2>4, <2>6
<1>7. QED
  BY <1>3, <1>4, <1>5, <1>6 DEF ApprovalInv

LEMMA StartKept ==
  ASSUME A!ApprovalAssumption, ApprovalInv, NEW t \in A!Threads, A!Start(t)
  PROVE  ApprovalInv'
<1>1. ApprovalTypeOK /\ HeldOnce /\ DecisionsNamed /\ A!CancelReaches /\ (~doubled => OneProcess)
  BY DEF ApprovalInv
<1>2. A!Thread(t) \in Working /\ A!Thread(t).step = "run"
  BY <1>1, ApprovalTypes, StepsTell DEF A!Start
<1>3. PICK o \in A!Operations : o = A!Thread(t).op
  BY <1>2 DEF Working
<1>4. PICK r \in Working : r = [step |-> "started", op |-> o]
  BY DEF Working
<1>5. /\ ran' = [ran EXCEPT ![o] = @ + 1] /\ A!Becomes(t, r)
      /\ doubled' = (doubled \/ \E v \in A!Threads \ {t} : A!Thread(v).step \in {"started", "noted"})
      /\ UNCHANGED <<kind, held, asked, current, cancels, approved, rejected, crossed>>
  BY <1>3, <1>4 DEF A!Start
<1>6. r.step = "started" /\ r.op = o /\ RunsNext(t, o)
  BY <1>2, <1>3, <1>4 DEF RunsNext
<1>7. /\ Moves(t, r) /\ request' \in [Users -> RequestStates] /\ agent' \in {A!Idle} \cup Working
      /\ \A v \in Users : request'[v] = IF v = t THEN r ELSE request[v]
  BY <1>1, <1>5, ThreadMoves
<1>8. /\ ran \in [A!Operations -> Nat] /\ ran' \in [A!Operations -> Nat]
      /\ \A x \in A!Operations : ran'[x] = IF x = o THEN ran[o] + 1 ELSE ran[x]
      /\ doubled' \in BOOLEAN
  BY <1>1, <1>5 DEF ApprovalTypeOK
<1>9. ApprovalTypeOK'
  BY <1>1, <1>5, <1>7, <1>8 DEF ApprovalTypeOK
<1>10. HeldOnce'
  BY <1>1, <1>5 DEF HeldOnce
<1>11. DecisionsNamed'
  <2>1. \A v \in Users : request'[v].step \in {"found", "checked"} => request'[v] = request[v]
    BY <1>6, <1>7
  <2>2. approved' = approved
    BY <1>5
  <2>3. QED
    BY <1>1, <2>1, <2>2, NobodyNames
<1>12. ASSUME ~doubled' PROVE OneProcess'
  <2>1. OneProcess /\ \A v \in A!Threads \ {t} : A!Thread(v).step \notin {"started", "noted"}
    BY <1>1, <1>5, <1>12
  <2>2. \A v \in A!Threads \ {t} : A!Thread(v)'.step \notin {"started", "noted"}
    BY <1>7, <2>1 DEF Moves
  <2>3. QED
    BY <2>2 DEF OneProcess
<1>13. A!CancelReaches'
  <2>1. ASSUME kind' = "bash", ~doubled', NEW v \in A!Threads, A!Thread(v)'.step = "noted"
        PROVE  current' = A!Thread(v)'.op
    <3>1. v # t /\ A!Thread(v)' = A!Thread(v)
      BY <1>6, <1>7, <2>1 DEF Moves
    <3>2. kind = "bash" /\ ~doubled /\ current' = current
      BY <1>5, <2>1
    <3>3. QED
      BY <1>1, <2>1, <3>1, <3>2 DEF A!CancelReaches
  <2>2. QED
    BY <2>1 DEF A!CancelReaches
<1>14. ASSUME ~crossed' PROVE (HeldIsFree /\ HandsHold /\ RunsHold /\ LookersHold)'
  <2>1. HeldIsFree /\ HandsHold /\ RunsHold /\ LookersHold
    BY <1>5, <1>14 DEF ApprovalInv
  <2>2. /\ ran[o] = 0 /\ o \in approved \ rejected /\ o <= asked
        /\ \A s \in A!Threads : RunsNext(s, o) => s = t
    BY <1>6, <2>1 DEF HandsHold
  <2>3. o \notin A!Range(held)
    BY <1>6, <2>1 DEF HeldIsFree
  <2>4. \A s \in A!Threads, x \in A!Operations :
          RunsNext(s, x)' => s # t /\ x # o /\ RunsNext(s, x)
    BY <1>6, <1>7, <2>2 DEF RunsNext, Moves
  <2>5. UNCHANGED <<kind, held, asked, approved, rejected>>
    BY <1>5
  <2>6. A!Range(held) \subseteq A!Operations
    BY <1>1, ApprovalTypes
  <2>7. HeldIsFree'
    BY <1>8, <2>1, <2>3, <2>4, <2>5, <2>6 DEF HeldIsFree
  <2>8. HandsHold'
    <3>1. ASSUME NEW s \in A!Threads, NEW x \in A!Operations, RunsNext(s, x)'
          PROVE  /\ ran'[x] = 0 /\ x \in approved \ rejected /\ x <= asked
                 /\ \A v \in A!Threads : RunsNext(v, x)' => v = s
      BY <1>8, <2>1, <2>4, <3>1 DEF HandsHold
    <3>2. QED
      BY <2>5, <3>1 DEF HandsHold
  <2>9. RunsHold'
    BY <1>8, <2>1, <2>2, <2>5 DEF RunsHold
  <2>10. LookersHold'
    <3>1. \A v \in Users : request'[v].step \in {"checked", "taken"} => request'[v] = request[v]
      BY <1>6, <1>7
    <3>2. QED
      BY <2>1, <2>5, <3>1, NobodyLooks
  <2>11. QED
    BY <2>7, <2>8, <2>9, <2>10
<1>15. QED
  BY <1>9, <1>10, <1>11, <1>12, <1>13, <1>14 DEF ApprovalInv

LEMMA NoteKept ==
  ASSUME A!ApprovalAssumption, ApprovalInv, NEW t \in A!Threads, A!Note(t)
  PROVE  ApprovalInv'
<1>1. ApprovalTypeOK /\ A!CancelReaches /\ (~doubled => OneProcess)
  BY DEF ApprovalInv
<1>2. A!Thread(t) \in Working /\ A!Thread(t).step = "started"
  BY <1>1, ApprovalTypes, StepsTell DEF A!Note
<1>3. PICK r \in Working : r = [A!Thread(t) EXCEPT !.step = "noted"]
  BY <1>2 DEF Working
<1>4. r.step = "noted" /\ r.op = A!Thread(t).op
  BY <1>2, <1>3 DEF Working
<1>5. /\ A!Becomes(t, r) /\ current' = r.op
      /\ UNCHANGED <<kind, held, asked, ran, approved, rejected, crossed, doubled>>
  BY <1>3, <1>4 DEF A!Note, A!history
<1>6. Moves(t, r)
  BY <1>1, <1>5, ThreadMoves
<1>7. ASSUME ~doubled' PROVE OneProcess'
  <2>1. OneProcess
    BY <1>1, <1>5, <1>7
  <2>2. \A s \in A!Threads : A!Thread(s)'.step \in {"started", "noted"}
                             => A!Thread(s).step \in {"started", "noted"}
    BY <1>2, <1>6 DEF Moves
  <2>3. QED
    BY <2>1, <2>2 DEF OneProcess
<1>8. A!CancelReaches'
  <2>1. ASSUME ~doubled', NEW s \in A!Threads, A!Thread(s)'.step = "noted"
        PROVE  current' = A!Thread(s)'.op
    <3>1. A!Thread(t)' = r
      BY <1>6 DEF Moves
    <3>2. s = t
      BY <1>4, <1>7, <2>1, <3>1 DEF OneProcess
    <3>3. QED
      BY <1>5, <3>1, <3>2
  <2>2. QED
    BY <2>1 DEF A!CancelReaches
<1>9. QED
  BY <1>4, <1>5, <1>7, <1>8, ThreadGoesOn

LEMMA FinishKept ==
  ASSUME A!ApprovalAssumption, ApprovalInv, NEW t \in A!Threads, A!Finish(t)
  PROVE  ApprovalInv'
<1>1. ApprovalTypeOK /\ A!CancelReaches /\ (~doubled => OneProcess)
  BY DEF ApprovalInv
<1>2. /\ A!Becomes(t, A!Idle)
      /\ UNCHANGED <<kind, held, asked, ran, approved, rejected, crossed, doubled>>
      /\ kind = "bash" => A!Thread(t).step = "noted"
  BY DEF A!Finish, A!history
<1>3. PICK r : r = A!Idle
  OBVIOUS
<1>4. Moves(t, r) /\ r.step = "idle"
  BY <1>1, <1>2, <1>3, ThreadMoves, StepsTell DEF A!Idle
<1>5. ASSUME ~doubled' PROVE OneProcess'
  <2>1. OneProcess
    BY <1>1, <1>2, <1>5
  <2>2. \A s \in A!Threads : A!Thread(s)'.step \in {"started", "noted"}
                             => A!Thread(s).step \in {"started", "noted"}
    BY <1>4 DEF Moves
  <2>3. QED
    BY <2>1, <2>2 DEF OneProcess
<1>6. A!CancelReaches'
  <2>1. ASSUME kind' = "bash", ~doubled', NEW s \in A!Threads, A!Thread(s)'.step = "noted"
        PROVE  FALSE
    <3>1. s # t /\ A!Thread(s).step = "noted"
      BY <1>4, <2>1 DEF Moves
    <3>2. A!Thread(t).step = "noted" /\ OneProcess
      BY <1>1, <1>2, <2>1
    <3>3. QED
      BY <3>1, <3>2 DEF OneProcess
  <2>2. QED
    BY <2>1 DEF A!CancelReaches
<1>7. QED
  BY <1>2, <1>3, <1>4, <1>5, <1>6, ThreadGoesOn

\* A step with which nothing changes but what runs, and how often the agent was cancelled.
LEMMA OthersKept ==
  ASSUME ApprovalInv,
         UNCHANGED <<kind, held, asked, agent, request, current, ran, approved, rejected,
                     crossed, doubled>>
  PROVE  ApprovalInv'
<1>1. (\A t : A!Thread(t)' = A!Thread(t)) /\ \A t, o : RunsNext(t, o)' = RunsNext(t, o)
  BY DEF A!Thread, RunsNext
<1>2. ApprovalTypeOK' /\ HeldOnce' /\ DecisionsNamed'
  BY DEF ApprovalInv, ApprovalTypeOK, HeldOnce, DecisionsNamed
<1>3. (~doubled => OneProcess)'
  BY <1>1 DEF ApprovalInv, OneProcess
<1>4. A!CancelReaches'
  BY <1>1 DEF ApprovalInv, A!CancelReaches
<1>5. ASSUME ~crossed' PROVE (HeldIsFree /\ HandsHold /\ RunsHold /\ LookersHold)'
  <2>1. HeldIsFree /\ HandsHold /\ RunsHold /\ LookersHold
    BY <1>5 DEF ApprovalInv
  <2>2. HeldIsFree'
    BY <1>1, <2>1 DEF HeldIsFree
  <2>3. HandsHold'
    BY <1>1, <2>1 DEF HandsHold
  <2>4. RunsHold' /\ LookersHold'
    BY <2>1 DEF RunsHold, LookersHold
  <2>5. QED
    BY <2>2, <2>3, <2>4
<1>6. QED
  BY <1>2, <1>3, <1>4, <1>5 DEF ApprovalInv

LEMMA ApprovalKept == A!ApprovalAssumption /\ ApprovalInv /\ [A!Next]_A!vars => ApprovalInv'
<1> SUFFICES ASSUME A!ApprovalAssumption, ApprovalInv, [A!Next]_A!vars PROVE ApprovalInv'
  OBVIOUS
<1> DEFINE Goal == ApprovalInv'
<1>1. CASE A!Hold
  BY <1>1, HoldKept
<1>2. CASE A!Execute
  BY <1>2, ExecuteKept
<1>3. CASE A!Cancel
  BY <1>3, OthersKept DEF A!Cancel, A!history
<1>4. ASSUME NEW u \in Users, NEW d \in Decisions, NEW id \in A!Operations \cup {None},
             A!Decide(u, d, id)
      PROVE  Goal
  BY <1>4, DecideKept
<1>5. ASSUME NEW u \in Users, A!Check(u) \/ A!Take(u) \/ A!Clear(u) \/ A!Pop(u) PROVE Goal
  BY <1>5, CheckKept, TakeKept, ClearKept, PopKept
<1>6. ASSUME NEW t \in A!Threads, A!Start(t) \/ A!Note(t) \/ A!Finish(t) PROVE Goal
  BY <1>6, StartKept, NoteKept, FinishKept
<1>7. ASSUME NEW o \in A!Operations, A!Exit(o) PROVE Goal
  BY <1>7, OthersKept DEF A!Exit, A!history
<1>8. CASE UNCHANGED A!vars
  BY <1>8, OthersKept DEF A!vars, A!history
<1> HIDE DEF Goal
<1>9. ASSUME A!Next PROVE Goal
  <2>1. \/ A!Hold \/ A!Execute \/ A!Cancel
        \/ \E u \in Users, d \in Decisions :
               \E id \in A!Operations \cup {None} : A!Decide(u, d, id)
        \/ \E u \in Users : A!Check(u) \/ A!Take(u) \/ A!Clear(u) \/ A!Pop(u)
        \/ \E t \in A!Threads : A!Start(t) \/ A!Note(t) \/ A!Finish(t)
        \/ \E o \in A!Operations : A!Exit(o)
    BY <1>9 DEF A!Next, Decisions
  <2>2. CASE A!Hold \/ A!Execute \/ A!Cancel
    BY <1>1, <1>2, <1>3, <2>2 DEF Goal
  <2>3. CASE \E u \in Users, d \in Decisions :
               \E id \in A!Operations \cup {None} : A!Decide(u, d, id)
    BY <1>4, <2>3
  <2>4. CASE \E u \in Users : A!Check(u) \/ A!Take(u) \/ A!Clear(u) \/ A!Pop(u)
    BY <1>5, <2>4
  <2>5. CASE \E t \in A!Threads : A!Start(t) \/ A!Note(t) \/ A!Finish(t)
    BY <1>6, <2>5
  <2>6. CASE \E o \in A!Operations : A!Exit(o)
    BY <1>7, <2>6
  <2>7. QED
    BY <2>1, <2>2, <2>3, <2>4, <2>5, <2>6
<1>10. Goal
  BY <1>8, <1>9 DEF Goal
<1>11. QED
  BY <1>10 DEF Goal

(* The inductive invariant of operations that wait for the user: what is held, what each
   thread is at, and what was approved and run (bash.py, studio.py). *)
THEOREM ApprovalInvariantHolds == A!ApprovalAssumption /\ A!Spec => []ApprovalInv
<1>1. ASSUME A!ApprovalAssumption PROVE A!Spec => []ApprovalInv
  <2>1. A!Init => ApprovalInv
    BY <1>1, InitApproval
  <2>2. ApprovalInv /\ [A!Next]_A!vars => ApprovalInv'
    BY <1>1, ApprovalKept
  <2>3. QED
    BY <2>1, <2>2, PTL DEF A!Spec
<1>2. QED
  BY <1>1

(* An operation runs once at most, only if its approval was asked for and not if it was said
   to be off, and a cancellation reaches the process that runs: of the shell tool as long as
   what it holds does not change under a thread that has looked at it, and as long as one
   process runs (approve_pending, reject_pending, cancel). *)
THEOREM DecisionsAreKept == A!ApprovalAssumption /\ A!Spec => []A!ApprovalsHold
<1>1. ApprovalInv => A!ApprovalsHold
  <2> SUFFICES ASSUME ApprovalInv PROVE A!ApprovalsHold
    OBVIOUS
  <2>1. A!RunsAsDecided
    BY DEF ApprovalInv, RunsHold, A!RunsAsDecided
  <2>2. A!HeldIsOpen
    BY DEF ApprovalInv, HeldIsFree, A!HeldIsOpen
  <2>3. A!CancelReaches
    BY DEF ApprovalInv
  <2>4. QED
    BY <2>1, <2>2, <2>3 DEF A!ApprovalsHold
<1>2. QED
  BY <1>1, ApprovalInvariantHolds, PTL
=============================================================================

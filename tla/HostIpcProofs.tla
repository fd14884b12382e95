---------------------------- MODULE HostIpcProofs ----------------------------
(***************************************************************************)
(* What holds of HostIpc for any callers, settings and bounds: no process  *)
(* is let go of alive, a caller's answer lags behind its command by no     *)
(* more than the waits that have given up, and the sync cache is true of   *)
(* the host when nothing is under way.                                     *)
(***************************************************************************)
EXTENDS HostIpc, TLAPS

\* A queue stays one when it is appended to or read from.
LEMMA QueueStays ==
    ASSUME NEW S, NEW q \in Seq(S)
    PROVE  /\ \A e \in S : Append(q, e) \in Seq(S)
           /\ q # <<>> => Tail(q) \in Seq(S) /\ Head(q) \in S
           /\ <<>> \in Seq(S)
  OBVIOUS

\* Who leaves the middle of a line leaves its head there.
LEMMA LineStays ==
    ASSUME NEW S, NEW q \in Seq(S), NEW i \in DOMAIN q
    PROVE  /\ RemoveAt(q, i) \in Seq(S)
           /\ i # 1 => q # <<>> /\ RemoveAt(q, i) # <<>> /\ Head(RemoveAt(q, i)) = Head(q)
<1>1. i \in 1 .. Len(q) /\ Len(q) \in Nat
  OBVIOUS
<1>2. SubSeq(q, 1, i - 1) \in Seq(S) /\ SubSeq(q, i + 1, Len(q)) \in Seq(S)
  BY <1>1
<1>3. i # 1 => /\ Len(SubSeq(q, 1, i - 1)) = i - 1 /\ SubSeq(q, 1, i - 1)[1] = q[1]
  BY <1>1
<1>4. i # 1 => i - 1 \in Nat \ {0}
  BY <1>1
<1> DEFINE a == SubSeq(q, 1, i - 1)
           b == SubSeq(q, i + 1, Len(q))
<1>5. a \in Seq(S) /\ b \in Seq(S) /\ (i # 1 => Len(a) \in Nat \ {0} /\ a[1] = q[1])
  BY <1>2, <1>3, <1>4
<1>6. RemoveAt(q, i) = a \o b
  BY DEF RemoveAt
<1> HIDE DEF a, b
<1>7. a \o b \in Seq(S) /\ (i # 1 => Len(a \o b) > 0 /\ (a \o b)[1] = q[1])
  BY <1>5
<1>8. QED
  BY <1>1, <1>6, <1>7

\* Every step keeps the types of the queues: what is read from is not empty.
LEMMA QueuesKept == TypeOK /\ ReadersHold /\ [Next]_vars => QueueTypes'
<1> SUFFICES ASSUME TypeOK, ReadersHold, [Next]_vars PROVE QueueTypes'
  OBVIOUS
<1> USE QueueStays DEF QueueTypes, ReadersHold, Holds, OnLoop, pipes, callers, known, device
<1>0. QueueTypes /\ issued \in Nat /\ want \in [Callers -> Values \cup {"query"}]
  BY DEF TypeOK
<1> USE <1>0
<1>1. CASE Handle
  <2>1. Head(input) \in Command
    BY <1>1 DEF Handle
  <2>2. \A ok \in BOOLEAN : [cmd |-> Head(input).cmd, ok |-> ok] \in Reply
    BY <2>1 DEF Command, Reply
  <2>3. PICK ok \in BOOLEAN : output' = Append(output, [cmd |-> Head(input).cmd, ok |-> ok])
    BY <1>1 DEF Handle
  <2>4. input' = Tail(input) /\ input # <<>> /\ UNCHANGED <<responses, line>>
    BY <1>1 DEF Handle
  <2>5. QED
    BY <2>2, <2>3, <2>4
<1>2. CASE Exit
  BY <1>2 DEF Exit, Dies
<1>3. CASE Deliver
  <2>1. output # <<>> /\ output' = Tail(output) /\ Head(output) \in Reply /\ input' = input
    BY <1>3 DEF Deliver
  <2>2. responses' \in {responses, Append(responses, Head(output))}
    BY <1>3 DEF Deliver
  <2>3. line' = line \/ (line # <<>> /\ line' = Tail(line))
    BY <1>3 DEF Deliver, Receive, GoOn
  <2>4. output' \in Seq(Reply) /\ input' \in Seq(Command)
    BY <2>1
  <2>5. responses' \in Seq(Reply)
    <3>1. responses \in Seq(Reply) /\ Head(output) \in Reply
      BY <2>1
    <3>2. Append(responses, Head(output)) \in Seq(Reply)
      BY <3>1, QueueStays
    <3>3. responses' = responses \/ responses' = Append(responses, Head(output))
      BY <2>2
    <3>4. QED
      BY <3>1, <3>2, <3>3
  <2>6. line' \in Seq(Callers \cup {Stopper})
    BY <2>3
  <2>7. QED
    BY <2>4, <2>5, <2>6
<1>4. ASSUME NEW c \in Callers, Bounce(c) PROVE QueueTypes'
  BY <1>4 DEF Bounce, Queue, Goto
<1>5. ASSUME NEW c \in Callers, BeginSync(c) PROVE QueueTypes'
  <2>1. CASE IsRunning
    <3>1. line' = Append(line, c) /\ UNCHANGED <<pipes, responses>>
      BY <1>5, <2>1 DEF BeginSync, Queue
    <3>2. QED
      BY <3>1
  <2>2. CASE ~IsRunning
    BY <1>5, <2>2 DEF BeginSync
  <2>3. QED
    BY <2>1, <2>2
<1>6. ASSUME NEW c \in Callers, SendFails(c) PROVE QueueTypes'
  BY <1>6 DEF SendFails, Done, Goto
<1>7. ASSUME NEW c \in Callers, Send(c) PROVE QueueTypes'
  <2>1. [cmd |-> issued + 1, what |-> want[c], tracked |-> c \in syncing] \in Command
    BY DEF Command
  <2>2. CASE responses # <<>>
    <3>1. input' = Append(input, [cmd |-> issued + 1, what |-> want[c], tracked |-> c \in syncing])
          /\ UNCHANGED output /\ responses' = Tail(responses) /\ line' = Tail(line) /\ line # <<>>
      BY <1>7, <2>2 DEF Send, Receive, GoOn
    <3>2. QED
      BY <2>1, <2>2, <3>1
  <2>3. CASE responses = <<>>
    <3>1. input' = Append(input, [cmd |-> issued + 1, what |-> want[c], tracked |-> c \in syncing])
          /\ UNCHANGED <<output, responses, line>>
      BY <1>7, <2>3 DEF Send
    <3>2. QED
      BY <2>1, <3>1
  <2>4. QED
    BY <2>2, <2>3
<1>8. ASSUME NEW c \in Callers, Timeout(c) PROVE QueueTypes'
  BY <1>8 DEF Timeout, Remember, GoOn, Done, Goto
<1>9. ASSUME NEW c \in Callers, NEW v \in Values, SkipUnchanged(c, v) PROVE QueueTypes'
  BY <1>9 DEF SkipUnchanged, Done, Goto
<1>10. ASSUME NEW c \in Callers, NEW v \in Values, SendChanged(c, v) PROVE QueueTypes'
  BY <1>10 DEF SendChanged, Queue, Goto
<1>11. CASE CleanUpDead
  BY <1>11 DEF CleanUpDead
<1>12. CASE Spawn
  BY <1>12 DEF Spawn
<1>13. CASE SpawnFails
  BY <1>13 DEF SpawnFails
<1>14. CASE StopDead
  BY <1>14 DEF StopDead
<1>15. CASE StopBegins
  BY <1>15 DEF StopBegins
<1>16. CASE StopAsks
  <2>1. [cmd |-> issued + 1, what |-> "shutdown", tracked |-> FALSE] \in Command
    BY DEF Command
  <2>2. input' = input \/ input' = Append(input, [cmd |-> issued + 1, what |-> "shutdown", tracked |-> FALSE])
    BY <1>16 DEF StopAsks
  <2>3. /\ line # <<>> /\ output' = output
        /\ line' = line \/ line' = Tail(line)
        /\ responses' = responses \/ (responses # <<>> /\ responses' = Tail(responses))
    BY <1>16 DEF StopAsks
  <2>4. QED
    BY <2>1, <2>2, <2>3
<1>17. CASE AckTimeout
  BY <1>17 DEF AckTimeout
<1>18. CASE WaitForExit
  BY <1>18 DEF WaitForExit, Dies
<1>19. CASE Stopped
  BY <1>19 DEF Stopped
<1>20. CASE UNCHANGED vars
  BY <1>20 DEF vars
<1>21. ASSUME NEW c \in Callers, NEW v \in Values, RawCommand(c, v) PROVE QueueTypes'
  BY <1>21 DEF RawCommand, Queue, Goto
<1>22. ASSUME NEW c \in Callers, SendBlocks(c) PROVE QueueTypes'
  BY <1>22 DEF SendBlocks
<1>23. ASSUME NEW c \in Callers, Cancelled(c) PROVE QueueTypes'
  <2>1. /\ UNCHANGED <<input, output, responses>>
        /\ \/ line' = line
           \/ at[c] = "reading" /\ line' = Tail(line)
           \/ \E i \in DOMAIN line : line' = RemoveAt(line, i)
    BY <1>23 DEF Cancelled
  <2>2. \A i \in DOMAIN line : RemoveAt(line, i) \in Seq(Callers \cup {Stopper})
    BY LineStays
  <2>3. QED
    BY <2>1, <2>2
<1>24. CASE StopBlocks
  BY <1>24 DEF StopBlocks
<1>25. CASE LifecycleCancelled
  <2>1. /\ UNCHANGED <<input, output, responses>>
        /\ \/ line' = line
           \/ lifecycle = "acking" /\ line' = Tail(line)
           \/ \E i \in DOMAIN line : line' = RemoveAt(line, i)
    BY <1>25 DEF LifecycleCancelled
  <2>2. \A i \in DOMAIN line : RemoveAt(line, i) \in Seq(Callers \cup {Stopper})
    BY LineStays
  <2>3. QED
    BY <2>1, <2>2
<1> QED
  BY <1>1, <1>2, <1>3, <1>4, <1>5, <1>6, <1>7, <1>8, <1>9, <1>10, <1>11, <1>12, <1>13, <1>14,
     <1>15, <1>16, <1>17, <1>18, <1>19, <1>20,
     <1>21, <1>22, <1>23, <1>24, <1>25
     DEF Next, CallerStep, StopStep

\* Every step keeps all types.
LEMMA TypesKept == TypeOK /\ ReadersHold /\ [Next]_vars => TypeOK'
<1> SUFFICES ASSUME TypeOK, ReadersHold, [Next]_vars PROVE TypeOK'
  OBVIOUS
<1>0. QueueTypes'
  BY QueuesKept
<1> USE HostAssumption, <1>0 DEF TypeOK, OnLoop, Dies, pipes, callers, known, device
<1>1. CASE Handle
  <2>1. Head(input) \in Command
    BY <1>1 DEF Handle, QueueTypes
  <2>2. Head(input).tracked \in BOOLEAN
    BY <2>1 DEF Command
  <2>3. hostValue' \in Values \cup {"unset"} /\ tracked' \in BOOLEAN /\ host' \in {"up", "leaving"}
    BY <1>1, <2>2 DEF Handle
  <2>4. QED
    BY <1>1, <2>3 DEF Handle
<1>2. CASE Exit
  BY <1>2 DEF Exit
<1>3. CASE Deliver
  <2>1. Head(output) \in Reply
    BY <1>3 DEF Deliver, QueueTypes
  <2>2. Head(output).cmd \in Nat /\ Head(output).ok \in BOOLEAN
    BY <2>1 DEF Reply
  <2>3. CASE \E c \in Callers : Holds(c) /\ at[c] = "reading"
    <3>1. PICK c \in Callers : Holds(c) /\ at[c] = "reading"
      BY <2>3
    <3>2. Receive(c, issued, Head(output)) /\ UNCHANGED <<running, lifecycle>>
      BY <1>3, <3>1 DEF Deliver, Holds
    <3>3. lag' \in Int
      BY <2>2, <3>2 DEF Receive
    <3>4. /\ at' \in [Callers -> {"idle", "synced", "waiting", "reading"}]
          /\ want' \in [Callers -> Values \cup {"query"}]
          /\ syncing' \subseteq Callers /\ cache' \in Values \cup {"unset"}
      BY <3>2 DEF Receive, Remember, GoOn, Done, Goto
    <3>5. QED
      BY <1>3, <3>2, <3>3, <3>4 DEF Deliver
  <2>4. CASE ~\E c \in Callers : Holds(c) /\ at[c] = "reading"
    BY <1>3, <2>4 DEF Deliver
  <2>5. QED
    BY <2>3, <2>4
<1>4. ASSUME NEW c \in Callers, Bounce(c) PROVE TypeOK'
  BY <1>4 DEF Bounce, Queue, Goto
<1>5. ASSUME NEW c \in Callers, BeginSync(c) PROVE TypeOK'
  <2>1. CASE IsRunning
    BY <1>5, <2>1 DEF BeginSync, Queue, Goto
  <2>2. CASE ~IsRunning
    BY <1>5, <2>2 DEF BeginSync
  <2>3. QED
    BY <2>1, <2>2
<1>6. ASSUME NEW c \in Callers, SendFails(c) PROVE TypeOK'
  BY <1>6 DEF SendFails, Done, Goto
<1>7. ASSUME NEW c \in Callers, Send(c) PROVE TypeOK'
  <2>1. responses # <<>> => Head(responses) \in Reply
    BY DEF QueueTypes
  <2>2. responses # <<>> => Head(responses).cmd \in Nat /\ Head(responses).ok \in BOOLEAN
    BY <2>1 DEF Reply
  <2>3. CASE responses # <<>>
    <3>1. /\ cache' \in Values \cup {"unset"}
          /\ at' \in [Callers -> {"idle", "synced", "waiting", "reading"}]
          /\ want' \in [Callers -> Values \cup {"query"}] /\ syncing' \subseteq Callers
      BY <1>7, <2>3 DEF Send, Receive, Remember, GoOn, Done, Goto
    <3>2. issued' = issued + 1 /\ lag' = (issued + 1) - Head(responses).cmd
      BY <1>7, <2>3 DEF Send, Receive
    <3>3. issued' \in Nat /\ lag' \in Int
      BY <2>2, <2>3, <3>2
    <3>4. QED
      BY <1>7, <3>1, <3>3 DEF Send
  <2>4. CASE responses = <<>>
    <3>1. /\ at' \in [Callers -> {"idle", "synced", "waiting", "reading"}] /\ cache' = cache
          /\ issued' \in Nat /\ UNCHANGED <<want, lag, syncing>>
      BY <1>7, <2>4 DEF Send, Goto
    <3>2. QED
      BY <1>7, <3>1 DEF Send
  <2>5. QED
    BY <2>3, <2>4
<1>8. ASSUME NEW c \in Callers, Timeout(c) PROVE TypeOK'
  BY <1>8 DEF Timeout, Remember, GoOn, Done, Goto
<1>9. ASSUME NEW c \in Callers, NEW v \in Values, SkipUnchanged(c, v) PROVE TypeOK'
  BY <1>9 DEF SkipUnchanged, Done, Goto
<1>10. ASSUME NEW c \in Callers, NEW v \in Values, SendChanged(c, v) PROVE TypeOK'
  BY <1>10 DEF SendChanged, Queue, Goto
<1>11. CASE CleanUpDead
  BY <1>11 DEF CleanUpDead
<1>12. CASE Spawn
  BY <1>12 DEF Spawn
<1>13. CASE SpawnFails
  BY <1>13 DEF SpawnFails
<1>14. CASE StopDead
  BY <1>14 DEF StopDead
<1>15. CASE StopBegins
  BY <1>15 DEF StopBegins
<1>16. CASE StopAsks
  <2>1. CASE Unwritable \/ responses # <<>>
    <3>1. issued' \in Nat /\ lifecycle' = "exiting" /\ running' = FALSE
      BY <1>16, <2>1 DEF StopAsks
    <3>2. QED
      BY <1>16, <3>1 DEF StopAsks
  <2>2. CASE ~(Unwritable \/ responses # <<>>)
    <3>1. issued' \in Nat /\ lifecycle' = "acking" /\ running' = running /\ blocked' = FALSE
      BY <1>16, <2>2 DEF StopAsks
    <3>2. QED
      BY <1>16, <3>1 DEF StopAsks
  <2>3. QED
    BY <2>1, <2>2
<1>17. CASE AckTimeout
  <2>1. givenUp' \in Nat
    BY <1>17 DEF AckTimeout
  <2>2. QED
    BY <1>17, <2>1 DEF AckTimeout
<1>18. CASE WaitForExit
  BY <1>18 DEF WaitForExit
<1>19. CASE Stopped
  BY <1>19 DEF Stopped
<1>20. CASE UNCHANGED vars
  BY <1>20 DEF vars
<1>21. ASSUME NEW c \in Callers, NEW v \in Values, RawCommand(c, v) PROVE TypeOK'
  BY <1>21 DEF RawCommand, Queue, Goto
<1>22. ASSUME NEW c \in Callers, SendBlocks(c) PROVE TypeOK'
  BY <1>22 DEF SendBlocks
<1>23. ASSUME NEW c \in Callers, Cancelled(c) PROVE TypeOK'
  <2>1. givenUp' \in Nat
    BY <1>23 DEF Cancelled
  <2>2. QED
    BY <1>23, <2>1 DEF Cancelled, Done, Goto
<1>24. CASE StopBlocks
  BY <1>24 DEF StopBlocks
<1>25. CASE LifecycleCancelled
  <2>1. givenUp' \in Nat
    BY <1>25 DEF LifecycleCancelled
  <2>2. QED
    BY <1>25, <2>1 DEF LifecycleCancelled
<1> QED
  BY <1>1, <1>2, <1>3, <1>4, <1>5, <1>6, <1>7, <1>8, <1>9, <1>10, <1>11, <1>12, <1>13, <1>14,
     <1>15, <1>16, <1>17, <1>18, <1>19, <1>20,
     <1>21, <1>22, <1>23, <1>24, <1>25
     DEF Next, CallerStep, StopStep

\* Who reads goes on to hold the lock: the head of the line leaves it by itself.
LEMMA ReadersKept == TypeOK /\ ReadersHold /\ [Next]_vars => ReadersHold'
<1> SUFFICES ASSUME TypeOK, ReadersHold, [Next]_vars PROVE ReadersHold'
  OBVIOUS
<1>0. /\ line \in Seq(Callers \cup {Stopper})
      /\ at \in [Callers -> {"idle", "synced", "waiting", "reading"}]
  BY DEF TypeOK, QueueTypes
<1> USE <1>0, HostAssumption DEF ReadersHold, Holds, pipes, callers, known
<1>1. CASE Handle
  BY <1>1 DEF Handle
<1>2. CASE Exit
  BY <1>2 DEF Exit
<1>3. CASE Deliver
  BY <1>3 DEF Deliver, Receive, GoOn, Done, Goto
<1>4. ASSUME NEW c \in Callers, Bounce(c) PROVE ReadersHold'
  BY <1>4 DEF Bounce, Queue, Goto
<1>5. ASSUME NEW c \in Callers, BeginSync(c) PROVE ReadersHold'
  <2>1. CASE IsRunning
    <3>1. /\ line' = Append(line, c) /\ at' = [at EXCEPT ![c] = "waiting"]
          /\ UNCHANGED lifecycle
      BY <1>5, <2>1 DEF BeginSync, Queue, Goto
    <3>2. QED
      BY <3>1
  <2>2. CASE ~IsRunning
    BY <1>5, <2>2 DEF BeginSync
  <2>3. QED
    BY <2>1, <2>2
<1>6. ASSUME NEW c \in Callers, SendFails(c) PROVE ReadersHold'
  BY <1>6 DEF SendFails, Done, Goto
<1>7. ASSUME NEW c \in Callers, Send(c) PROVE ReadersHold'
  <2>1. \A d \in Callers : at[d] # "reading"
    BY <1>7 DEF Send
  <2>2. lifecycle # "acking"
    BY <1>7 DEF Send
  <2>3. CASE responses # <<>>
    <3>1. /\ at' \in {[at EXCEPT ![c] = "synced"], [at EXCEPT ![c] = "idle"]}
          /\ UNCHANGED lifecycle
      BY <1>7, <2>3 DEF Send, Receive, GoOn, Done, Goto
    <3>2. QED
      BY <2>1, <2>2, <3>1
  <2>4. CASE responses = <<>>
    <3>1. /\ at' = [at EXCEPT ![c] = "reading"]
          /\ line # <<>> /\ Head(line) = c /\ UNCHANGED <<line, lifecycle>>
      BY <1>7, <2>4 DEF Send, Goto
    <3>2. QED
      BY <2>1, <2>2, <3>1
  <2>5. QED
    BY <2>3, <2>4
<1>8. ASSUME NEW c \in Callers, Timeout(c) PROVE ReadersHold'
  BY <1>8 DEF Timeout, GoOn, Done, Goto
<1>9. ASSUME NEW c \in Callers, NEW v \in Values, SkipUnchanged(c, v) PROVE ReadersHold'
  BY <1>9 DEF SkipUnchanged, Done, Goto
<1>10. ASSUME NEW c \in Callers, NEW v \in Values, SendChanged(c, v) PROVE ReadersHold'
  BY <1>10 DEF SendChanged, Queue, Goto
<1>11. CASE CleanUpDead
  BY <1>11 DEF CleanUpDead
<1>12. CASE Spawn
  BY <1>12 DEF Spawn
<1>13. CASE SpawnFails
  BY <1>13 DEF SpawnFails
<1>14. CASE StopDead
  BY <1>14 DEF StopDead
<1>15. CASE StopBegins
  BY <1>15 DEF StopBegins
<1>16. CASE StopAsks
  BY <1>16 DEF StopAsks
<1>17. CASE AckTimeout
  BY <1>17 DEF AckTimeout
<1>18. CASE WaitForExit
  BY <1>18 DEF WaitForExit
<1>19. CASE Stopped
  BY <1>19 DEF Stopped
<1>20. CASE UNCHANGED vars
  BY <1>20 DEF vars
<1>21. ASSUME NEW c \in Callers, NEW v \in Values, RawCommand(c, v) PROVE ReadersHold'
  BY <1>21 DEF RawCommand, Queue, Goto
<1>22. ASSUME NEW c \in Callers, SendBlocks(c) PROVE ReadersHold'
  BY <1>22 DEF SendBlocks
<1>23. ASSUME NEW c \in Callers, Cancelled(c) PROVE ReadersHold'
  <2>1. at' = [at EXCEPT ![c] = "idle"] /\ at[c] # "idle" /\ lifecycle' = lifecycle
    BY <1>23 DEF Cancelled, Done, Goto
  <2>2. CASE at[c] = "reading"
    BY <2>1, <2>2
  <2>3. CASE at[c] # "reading"
    <3>1. line' = line \/ \E i \in DOMAIN line : line[i] = c /\ line' = RemoveAt(line, i)
      BY <1>23, <2>3 DEF Cancelled
    <3>2. CASE line' = line
      BY <2>1, <3>2
    <3>3. ASSUME NEW i \in DOMAIN line, line[i] = c, line' = RemoveAt(line, i) PROVE ReadersHold'
      <4>1. i # 1 => line' # <<>> /\ Head(line') = Head(line)
        BY <3>3, LineStays
      <4>2. i = 1 => Head(line) = c
        BY <3>3
      <4>3. QED
        BY <2>1, <2>3, <4>1, <4>2
    <3>4. QED
      BY <3>1, <3>2, <3>3
  <2>4. QED
    BY <2>2, <2>3
<1>24. CASE StopBlocks
  BY <1>24 DEF StopBlocks
<1>25. CASE LifecycleCancelled
  <2>1. lifecycle' = "free" /\ at' = at
    BY <1>25 DEF LifecycleCancelled
  <2>2. CASE lifecycle = "acking"
    BY <2>1, <2>2
  <2>3. CASE lifecycle # "acking"
    <3>1. line' = line \/ \E i \in DOMAIN line : line[i] = Stopper /\ line' = RemoveAt(line, i)
      BY <1>25, <2>3 DEF LifecycleCancelled
    <3>2. ASSUME NEW i \in DOMAIN line, line[i] = Stopper, line' = RemoveAt(line, i)
          PROVE  ReadersHold'
      <4>1. i # 1 => line' # <<>> /\ Head(line') = Head(line)
        BY <3>2, LineStays
      <4>2. i = 1 => Head(line) = Stopper
        BY <3>2
      <4>3. QED
        BY <2>1, <4>1, <4>2
    <3>3. QED
      BY <2>1, <3>1, <3>2
  <2>4. QED
    BY <2>2, <2>3
<1> QED
  BY <1>1, <1>2, <1>3, <1>4, <1>5, <1>6, <1>7, <1>8, <1>9, <1>10, <1>11, <1>12, <1>13, <1>14,
     <1>15, <1>16, <1>17, <1>18, <1>19, <1>20,
     <1>21, <1>22, <1>23, <1>24, <1>25
     DEF Next, CallerStep, StopStep

\* A process that is let go of is dead.
LEMMA DeadKept ==
    ASSUME NoOrphan, lifecycle \in {"starting", "exited"} => host = "dead", [Next]_vars, TypeOK
    PROVE  NoOrphan' /\ (lifecycle \in {"starting", "exited"} => host = "dead")'
<1> DEFINE Dead == NoOrphan /\ (lifecycle \in {"starting", "exited"} => host = "dead")
<1> USE DEF NoOrphan, Dies, pipes, callers, known, device
<1>1. CASE Handle
  BY <1>1 DEF Handle
<1>2. CASE Exit
  BY <1>2 DEF Exit
<1>3. CASE Deliver
  BY <1>3 DEF Deliver, Receive, GoOn, Done, Goto
<1>4. ASSUME NEW c \in Callers, Bounce(c) PROVE Dead'
  BY <1>4 DEF Bounce, Queue, Goto
<1>5. ASSUME NEW c \in Callers, BeginSync(c) PROVE Dead'
  BY <1>5 DEF BeginSync, Queue, Goto
<1>6. ASSUME NEW c \in Callers, SendFails(c) PROVE Dead'
  BY <1>6 DEF SendFails, Done, Goto
<1>7. ASSUME NEW c \in Callers, Send(c) PROVE Dead'
  BY <1>7 DEF Send, Receive, GoOn, Done, Goto
<1>8. ASSUME NEW c \in Callers, Timeout(c) PROVE Dead'
  BY <1>8 DEF Timeout, GoOn, Done, Goto
<1>9. ASSUME NEW c \in Callers, NEW v \in Values, SkipUnchanged(c, v) PROVE Dead'
  BY <1>9 DEF SkipUnchanged, Done, Goto
<1>10. ASSUME NEW c \in Callers, NEW v \in Values, SendChanged(c, v) PROVE Dead'
  BY <1>10 DEF SendChanged, Queue, Goto
<1>11. CASE CleanUpDead
  BY <1>11 DEF CleanUpDead
<1>12. CASE Spawn
  BY <1>12 DEF Spawn, TypeOK
<1>13. CASE SpawnFails
  BY <1>13 DEF SpawnFails
<1>14. CASE StopDead
  BY <1>14 DEF StopDead
<1>15. CASE StopBegins
  BY <1>15 DEF StopBegins
<1>16. CASE StopAsks
  BY <1>16 DEF StopAsks
<1>17. CASE AckTimeout
  BY <1>17 DEF AckTimeout
<1>18. CASE WaitForExit
  BY <1>18 DEF WaitForExit
<1>19. CASE Stopped
  BY <1>19 DEF Stopped
<1>20. CASE UNCHANGED vars
  BY <1>20 DEF vars
<1>21. ASSUME NEW c \in Callers, NEW v \in Values, RawCommand(c, v) PROVE Dead'
  BY <1>21 DEF RawCommand, Queue, Goto
<1>22. ASSUME NEW c \in Callers, SendBlocks(c) PROVE Dead'
  BY <1>22 DEF SendBlocks
<1>23. ASSUME NEW c \in Callers, Cancelled(c) PROVE Dead'
  BY <1>23 DEF Cancelled, Done, Goto
<1>24. CASE StopBlocks
  BY <1>24 DEF StopBlocks
<1>25. CASE LifecycleCancelled
  BY <1>25 DEF LifecycleCancelled
<1> QED
  BY <1>1, <1>2, <1>3, <1>4, <1>5, <1>6, <1>7, <1>8, <1>9, <1>10, <1>11, <1>12, <1>13, <1>14,
     <1>15, <1>16, <1>17, <1>18, <1>19, <1>20,
     <1>21, <1>22, <1>23, <1>24, <1>25
     DEF Next, CallerStep, StopStep

\* Numbered replies, read from and appended to.
LEMMA WithinTail ==
    ASSUME NEW S, NEW q \in Seq(S), q # <<>>, NEW low \in Int, NEW high \in Int,
           Within(q, low, high)
    PROVE  /\ Within(Tail(q), low + 1, high)
           /\ Head(q).cmd \in low + 1 .. high
           /\ Len(Tail(q)) = Len(q) - 1
<1>1. \A i \in DOMAIN Tail(q) : Tail(q)[i] = q[i + 1] /\ i + 1 \in DOMAIN q
  OBVIOUS
<1>2. Head(q) = q[1] /\ 1 \in DOMAIN q
  OBVIOUS
<1>3. \A i \in DOMAIN Tail(q) : i \in Nat
  OBVIOUS
<1>4. Within(Tail(q), low + 1, high)
  <2> SUFFICES ASSUME NEW i \in DOMAIN Tail(q)
               PROVE  Tail(q)[i].cmd \in (low + 1) + i .. high
    BY DEF Within
  <2>1. q[i + 1].cmd \in low + (i + 1) .. high
    BY <1>1 DEF Within
  <2>2. low + (i + 1) = (low + 1) + i
    BY <1>3
  <2>3. QED
    BY <1>1, <2>1, <2>2
<1>5. Len(Tail(q)) = Len(q) - 1
  OBVIOUS
<1>6. QED
  BY <1>2, <1>4, <1>5 DEF Within

LEMMA WithinAppend ==
    ASSUME NEW S, NEW q \in Seq(S), NEW e, NEW low \in Int, NEW high \in Int,
           Within(q, low, high), e.cmd \in low + Len(q) + 1 .. high
    PROVE  Within(Append(q, e), low, high) /\ Len(Append(q, e)) = Len(q) + 1
<1>1. \A i \in DOMAIN Append(q, e) :
          (i \in DOMAIN q /\ Append(q, e)[i] = q[i]) \/ (i = Len(q) + 1 /\ Append(q, e)[i] = e)
  OBVIOUS
<1>2. QED
  BY <1>1 DEF Within

LEMMA WithinWider ==
    ASSUME NEW S, NEW q \in Seq(S), NEW low \in Int, NEW high \in Int, NEW l \in Int, NEW h \in Int,
           l <= low, high <= h, Within(q, low, high)
    PROVE  Within(q, l, h)
<1>1. \A i \in DOMAIN q : i \in Nat
  OBVIOUS
<1> SUFFICES ASSUME NEW i \in DOMAIN q PROVE q[i].cmd \in l + i .. h
  BY DEF Within
<1>2. q[i].cmd \in low + i .. high
  BY DEF Within
<1>3. QED
  BY <1>1, <1>2

\* Nobody reads while the holder of the lock does something else.
LEMMA HolderWaits ==
    ASSUME ReadersHold
    PROVE  /\ \A c \in Callers : Holds(c) /\ at[c] # "reading" => Waits = 0
           /\ Holds(Stopper) /\ lifecycle # "acking" => Waits = 0
           /\ \A c \in Callers : at[c] = "reading" =>
                 Waits = 1 /\ lifecycle # "acking" /\ \A d \in Callers : at[d] = "reading" => d = c
           /\ lifecycle = "acking" => Waits = 1 /\ \A c \in Callers : at[c] # "reading"
  BY HostAssumption DEF ReadersHold, Holds, Waits

LEMMA WaitsIsOne == Waits \in {0, 1}
  BY DEF Waits

\* Replies may be lost where nothing else changes.
LEMMA RepliesLost ==
    ASSUME TypeOK, RepliesToCome, responses' = responses, output' \in {output, <<>>},
           input' \in {input, <<>>}, issued' = issued, givenUp' = givenUp, Waits' = Waits
    PROVE  RepliesToCome'
<1> USE WaitsIsOne DEF TypeOK, QueueTypes
<1>1. Answered' = Answered /\ Answered \in Int
  BY DEF Answered
<1>2. /\ Len(output') \in Nat /\ Len(output') <= Len(output)
      /\ Len(input') \in Nat /\ Len(input') <= Len(input) /\ Len(responses) \in Nat
  OBVIOUS
<1>3. Within(output, Answered + Len(responses), issued)'
  BY <1>1 DEF RepliesToCome, Within
<1>4. Within(input, Answered + Len(responses) + Len(output), issued)'
  <2>1. CASE input' = <<>>
    BY <2>1 DEF Within
  <2>2. CASE input' = input
    <3>1. Within(input, Answered + Len(responses) + Len(output'), issued)
      BY <1>1, <1>2, WithinWider DEF RepliesToCome
    <3>2. QED
      BY <1>1, <2>2, <3>1 DEF Within
  <2>3. QED
    BY <2>1, <2>2
<1>5. QED
  BY <1>1, <1>2, <1>3, <1>4 DEF RepliesToCome, Within

\* A command is written; a reply that is there is taken at once.
LEMMA CommandWritten ==
    ASSUME TypeOK, RepliesToCome, Waits = 0, NEW e \in Command, e.cmd = issued + 1,
           issued' = issued + 1, givenUp' = givenUp, output' = output, input' = Append(input, e),
           \/ responses # <<>> /\ responses' = Tail(responses) /\ Waits' = 0
           \/ responses = <<>> /\ responses' = responses /\ Waits' = 1
    PROVE  /\ RepliesToCome'
           /\ responses # <<>> => Head(responses).cmd \in issued + 1 - givenUp .. issued
<1> USE DEF TypeOK, QueueTypes
<1>1. /\ Answered = issued - givenUp /\ Answered \in Int
      /\ Len(output) \in Nat /\ Len(input) \in Nat /\ Len(responses) \in Nat
      /\ Len(responses) + Len(output) + Len(input) <= givenUp
  BY DEF Answered, RepliesToCome
<1>2. /\ Within(input', Answered + Len(responses) + Len(output), issued')
      /\ Len(input') = Len(input) + 1
  <2>1. Within(input, Answered + Len(responses) + Len(output), issued')
    BY <1>1, WithinWider DEF RepliesToCome
  <2>2. e.cmd \in (Answered + Len(responses) + Len(output)) + Len(input) + 1 .. issued'
    BY <1>1
  <2>3. Answered + Len(responses) + Len(output) \in Int /\ issued' \in Int
    BY <1>1
  <2>4. QED
    BY <2>1, <2>2, <2>3, WithinAppend
<1>3. Within(output, Answered + Len(responses), issued')
  BY <1>1, WithinWider DEF RepliesToCome
<1>4. CASE responses # <<>> /\ responses' = Tail(responses) /\ Waits' = 0
  <2>1. /\ Within(Tail(responses), Answered + 1, issued)
        /\ Head(responses).cmd \in Answered + 1 .. issued
        /\ Len(Tail(responses)) = Len(responses) - 1
    BY <1>1, <1>4, WithinTail DEF RepliesToCome
  <2>2. Within(Tail(responses), Answered + 1, issued')
    <3>1. Tail(responses) \in Seq(Reply) /\ Answered + 1 \in Int /\ issued \in Int /\ issued' \in Int
      BY <1>1, <1>4
    <3>2. issued <= issued' /\ Answered + 1 <= Answered + 1
      BY <3>1
    <3>3. QED
      BY <2>1, <3>1, <3>2, WithinWider
  <2>3. Answered' = Answered + 1
    BY <1>1, <1>4 DEF Answered
  <2>4. /\ Answered' + Len(responses') = Answered + Len(responses)
        /\ Len(responses') + Len(output') + Len(input') <= givenUp' + Waits'
    BY <1>1, <1>2, <1>4, <2>1, <2>3
  <2>5. Head(responses).cmd \in issued + 1 - givenUp .. issued
    BY <1>1, <2>1
  <2>6. QED
    <3>1. /\ Within(responses', Answered', issued')
          /\ Within(output', Answered' + Len(responses'), issued')
      BY <1>3, <1>4, <2>2, <2>3, <2>4
    <3>2. Within(input', Answered' + Len(responses') + Len(output'), issued')
      BY <1>2, <2>4
    <3>3. QED
      BY <1>4, <2>4, <2>5, <3>1, <3>2 DEF RepliesToCome, Within
<1>5. CASE responses = <<>> /\ responses' = responses /\ Waits' = 1
  <2>1. Answered' = Answered
    BY <1>1, <1>5 DEF Answered
  <2>2. Len(responses') + Len(output') + Len(input') <= givenUp' + Waits'
    BY <1>1, <1>2, <1>5
  <2>3. QED
    <3>1. Within(output', Answered' + Len(responses'), issued')
      BY <1>3, <1>5, <2>1
    <3>2. Within(input', Answered' + Len(responses') + Len(output'), issued')
      BY <1>2, <1>5, <2>1
    <3>3. Within(responses', Answered', issued')
      BY <1>5 DEF Within
    <3>4. QED
      BY <1>5, <2>2, <3>1, <3>2, <3>3 DEF RepliesToCome, Within
<1>6. QED
  BY <1>4, <1>5

\* A wait gives up: its reply is one more that may come.
LEMMA WaitGivenUp ==
    ASSUME TypeOK, RepliesToCome, Waits = 1, Waits' = 0, givenUp' = givenUp + 1,
           UNCHANGED <<responses, output, input, issued>>
    PROVE  RepliesToCome'
<1>1. Answered' = Answered
  BY DEF Answered, TypeOK
<1>2. QED
  BY <1>1 DEF RepliesToCome, Within, TypeOK, QueueTypes


\* Every step keeps what is known of the replies to come, and the lag of the answers.
LEMMA RepliesKept == IInv /\ [Next]_vars => RepliesToCome' /\ LagWithinGivenUp'
<1> SUFFICES ASSUME IInv, [Next]_vars PROVE RepliesToCome' /\ LagWithinGivenUp'
  OBVIOUS
<1>1. TypeOK /\ QueueTypes /\ ReadersHold /\ RepliesToCome /\ LagWithinGivenUp
  BY DEF IInv, TypeOK
<1>2. TypeOK' /\ QueueTypes'
  BY <1>1, TypesKept, QueuesKept
<1>3. RepliesToCome' => Len(responses') <= givenUp'
  <2>1. /\ Len(responses') \in Nat /\ Len(output') \in Nat /\ Len(input') \in Nat
        /\ givenUp' \in Nat
    BY <1>2 DEF QueueTypes, TypeOK
  <2>2. QED
    BY <2>1 DEF RepliesToCome, Waits
<1>4. ASSUME RepliesToCome', lag' = lag, givenUp' = givenUp \/ givenUp' = givenUp + 1
      PROVE  RepliesToCome' /\ LagWithinGivenUp'
  <2>1. givenUp \in Nat /\ lag \in Int
    BY <1>1 DEF TypeOK
  <2>2. QED
    BY <1>1, <1>3, <1>4, <2>1 DEF LagWithinGivenUp
<1>5. ASSUME responses' = responses, output' \in {output, <<>>}, input' \in {input, <<>>},
             UNCHANGED <<issued, givenUp, lag>>, Waits' = Waits
      PROVE  RepliesToCome' /\ LagWithinGivenUp'
  BY <1>1, <1>4, <1>5, RepliesLost
<1>6. ASSUME NEW m \in Int, RepliesToCome', UNCHANGED givenUp, lag' = issued' - m,
             m \in issued' - givenUp .. issued'
      PROVE  RepliesToCome' /\ LagWithinGivenUp'
  <2> DEFINE i == issued' g == givenUp l == lag'
  <2>1. i \in Int /\ g \in Int /\ givenUp' = g
    BY <1>1, <1>2, <1>6 DEF TypeOK
  <2>2. l \in 0 .. g
    <3>1. m \in i - g .. i /\ l = i - m
      BY <1>6
    <3> HIDE DEF i, g, l
    <3>2. QED
      BY <2>1, <3>1
  <2>3. QED
    BY <1>3, <1>6, <2>2 DEF LagWithinGivenUp
<1>7. CASE Handle
  <2>1. PICK ok \in BOOLEAN : output' = Append(output, [cmd |-> Head(input).cmd, ok |-> ok])
    BY <1>7 DEF Handle
  <2>2. /\ input # <<>> /\ input' = Tail(input)
        /\ UNCHANGED <<responses, issued, givenUp, lag, at, lifecycle>>
    BY <1>7 DEF Handle, callers
  <2>3. /\ Answered \in Int /\ Len(responses) \in Nat /\ Len(output) \in Nat /\ Len(input) \in Nat
        /\ issued \in Nat
    BY <1>1, WaitsIsOne DEF Answered, TypeOK, QueueTypes
  <2>4. Waits' = Waits /\ Answered' = Answered
    BY <2>2 DEF Waits, Answered
  <2>5. /\ Within(Tail(input), (Answered + Len(responses) + Len(output)) + 1, issued)
        /\ Head(input).cmd \in (Answered + Len(responses) + Len(output)) + 1 .. issued
        /\ Len(Tail(input)) = Len(input) - 1
    BY <1>1, <2>2, <2>3, WithinTail DEF RepliesToCome, QueueTypes
  <2>6. /\ Within(output', Answered + Len(responses), issued)
        /\ Len(output') = Len(output) + 1
    BY <1>1, <2>1, <2>3, <2>5, WithinAppend DEF RepliesToCome, QueueTypes
  <2>7. (Answered + Len(responses) + Len(output)) + 1 = Answered + Len(responses) + Len(output')
    BY <2>3, <2>6
  <2>8. Len(responses') + Len(output') + Len(input') <= givenUp' + Waits'
    BY <1>1, <2>2, <2>3, <2>4, <2>5, <2>6 DEF RepliesToCome
  <2>9. Within(input', Answered' + Len(responses') + Len(output'), issued')
    BY <2>2, <2>4, <2>5, <2>7
  <2>10. Within(output', Answered' + Len(responses'), issued')
    BY <2>2, <2>4, <2>6
  <2>11. Within(responses', Answered', issued') /\ (Waits' = 1 => responses' = <<>>)
    BY <1>1, <2>2, <2>4 DEF RepliesToCome
  <2>12. RepliesToCome'
    BY <2>8, <2>9, <2>10, <2>11 DEF RepliesToCome, Within
  <2>13. QED
    BY <1>4, <2>2, <2>12
<1>8. CASE Exit
  <2>1. /\ responses' = responses /\ output' \in {output, <<>>} /\ input' \in {input, <<>>}
        /\ UNCHANGED <<issued, givenUp, lag>>
    BY <1>8 DEF Exit, Dies, pipes, callers, known
  <2>2. Waits' = Waits
    BY <1>1, <1>8 DEF Exit, Dies, pipes, callers, known, Waits, TypeOK
  <2>3. QED
    BY <1>5, <2>1, <2>2
<1>9. CASE Deliver
  <2>1. /\ output # <<>> /\ output' = Tail(output)
        /\ UNCHANGED <<input, issued, givenUp>>
    BY <1>9 DEF Deliver
  <2>2. /\ Answered \in Int /\ Len(responses) \in Nat /\ Len(output) \in Nat /\ Len(input) \in Nat
        /\ issued \in Nat /\ givenUp \in Nat
    BY <1>1, WaitsIsOne DEF Answered, TypeOK, QueueTypes
  <2>3. /\ Within(Tail(output), (Answered + Len(responses)) + 1, issued)
        /\ Head(output).cmd \in (Answered + Len(responses)) + 1 .. issued
        /\ Len(Tail(output)) = Len(output) - 1
    BY <1>1, <2>1, <2>2, WithinTail DEF RepliesToCome, QueueTypes
  <2>4. ASSUME Waits = 1, Waits' = 0, UNCHANGED responses
        PROVE  RepliesToCome' /\ Head(output).cmd \in issued' - givenUp .. issued'
    <3>1. responses = <<>> /\ Len(responses) = 0 /\ Answered = issued - givenUp - 1
      BY <1>1, <2>4 DEF RepliesToCome, Answered
    <3>2. Answered' = Answered + 1
      BY <2>1, <2>2, <2>4 DEF Answered
    <3>3. /\ Answered' + Len(responses') = (Answered + Len(responses)) + 1
          /\ Answered' + Len(responses') + Len(output') = Answered + Len(responses) + Len(output)
          /\ Len(responses') + Len(output') + Len(input') <= givenUp' + Waits'
      BY <1>1, <2>1, <2>2, <2>3, <2>4, <3>1, <3>2 DEF RepliesToCome
    <3>4. /\ Within(output', Answered' + Len(responses'), issued')
          /\ Within(input', Answered' + Len(responses') + Len(output'), issued')
      BY <1>1, <2>1, <2>3, <3>3 DEF RepliesToCome
    <3>5. Within(responses', Answered', issued')
      BY <2>4, <3>1 DEF Within
    <3>6. RepliesToCome'
      BY <2>4, <3>1, <3>3, <3>4, <3>5 DEF RepliesToCome, Within
    <3>7. QED
      BY <2>1, <2>2, <2>3, <3>1, <3>6
  <2>5. ASSUME NEW c \in Callers, Holds(c), at[c] = "reading"
        PROVE  RepliesToCome' /\ LagWithinGivenUp'
    <3>1. Receive(c, issued, Head(output)) /\ UNCHANGED <<responses, lifecycle>>
      BY <1>9, <2>5 DEF Deliver, Holds
    <3>2. Waits = 1 /\ lifecycle # "acking" /\ \A d \in Callers : at[d] = "reading" => d = c
      BY <1>1, <2>5, HolderWaits
    <3>3. \A d \in Callers : at'[d] # "reading"
      BY <1>1, <3>1, <3>2 DEF Receive, Goto, GoOn, Done, TypeOK
    <3>4. Waits' = 0
      BY <3>1, <3>2, <3>3 DEF Waits
    <3>5. lag' = issued' - Head(output).cmd
      BY <2>1, <3>1 DEF Receive
    <3>6. RepliesToCome' /\ Head(output).cmd \in issued' - givenUp .. issued'
      BY <2>4, <3>1, <3>2, <3>4
    <3>7. Head(output).cmd \in Int
      BY <2>2, <2>3
    <3>8. QED
      BY <1>6, <2>1, <3>5, <3>6, <3>7
  <2>6. ASSUME lifecycle = "acking"
        PROVE  RepliesToCome' /\ LagWithinGivenUp'
    <3>1. Waits = 1 /\ \A d \in Callers : at[d] # "reading"
      BY <1>1, <2>6, HolderWaits
    <3>2. lifecycle' = "exiting" /\ UNCHANGED <<responses, at, lag>>
      BY <1>9, <2>6, <3>1 DEF Deliver
    <3>3. Waits' = 0
      BY <3>1, <3>2 DEF Waits
    <3>4. QED
      BY <1>4, <2>1, <2>4, <3>1, <3>2, <3>3
  <2>7. ASSUME lifecycle # "acking", \A c \in Callers : at[c] # "reading"
        PROVE  RepliesToCome' /\ LagWithinGivenUp'
    <3>1. /\ responses' = Append(responses, Head(output))
          /\ UNCHANGED <<lifecycle, at, lag>>
      BY <1>9, <2>7 DEF Deliver
    <3>2. Waits = 0 /\ Waits' = 0
      BY <2>7, <3>1 DEF Waits
    <3>3. Answered' = Answered
      BY <2>1, <3>2 DEF Answered
    <3>4. Head(output).cmd \in Answered + Len(responses) + 1 .. issued
      BY <2>2, <2>3
    <3>5. Within(responses', Answered', issued') /\ Len(responses') = Len(responses) + 1
      BY <1>1, <2>1, <2>2, <3>1, <3>3, <3>4, WithinAppend DEF RepliesToCome, QueueTypes
    <3>6. /\ Answered' + Len(responses') = (Answered + Len(responses)) + 1
          /\ Answered' + Len(responses') + Len(output') = Answered + Len(responses) + Len(output)
          /\ Len(responses') + Len(output') + Len(input') <= givenUp' + Waits'
      BY <1>1, <2>1, <2>2, <2>3, <3>2, <3>3, <3>5 DEF RepliesToCome
    <3>7. /\ Within(output', Answered' + Len(responses'), issued')
          /\ Within(input', Answered' + Len(responses') + Len(output'), issued')
      BY <1>1, <2>1, <2>3, <3>6 DEF RepliesToCome
    <3>8. RepliesToCome'
      BY <3>2, <3>5, <3>6, <3>7 DEF RepliesToCome, Within
    <3>9. QED
      BY <1>4, <2>1, <3>1, <3>8
  <2>8. QED
    BY <1>1, <2>5, <2>6, <2>7 DEF ReadersHold
<1>10. ASSUME NEW c \in Callers, Bounce(c)
      PROVE  RepliesToCome' /\ LagWithinGivenUp'
  <2>1. /\ responses' = responses /\ output' \in {output, <<>>} /\ input' \in {input, <<>>}
        /\ UNCHANGED <<issued, givenUp, lag>>
    BY <1>10 DEF Bounce, Queue, Goto, pipes, callers, known
  <2>2. Waits' = Waits
    BY <1>1, <1>10 DEF Bounce, Queue, Goto, pipes, callers, known, Waits, TypeOK
  <2>3. QED
    BY <1>5, <2>1, <2>2
<1>11. ASSUME NEW c \in Callers, BeginSync(c)
      PROVE  RepliesToCome' /\ LagWithinGivenUp'
  <2>1. /\ responses' = responses /\ output' \in {output, <<>>} /\ input' \in {input, <<>>}
        /\ UNCHANGED <<issued, givenUp, lag>>
    BY <1>11 DEF BeginSync, Queue, Goto, pipes, callers, known
  <2>2. Waits' = Waits
    BY <1>1, <1>11 DEF BeginSync, Queue, Goto, pipes, callers, known, Waits, TypeOK
  <2>3. QED
    BY <1>5, <2>1, <2>2
<1>12. ASSUME NEW c \in Callers, SendFails(c)
      PROVE  RepliesToCome' /\ LagWithinGivenUp'
  <2>1. /\ responses' = responses /\ output' \in {output, <<>>} /\ input' \in {input, <<>>}
        /\ UNCHANGED <<issued, givenUp, lag>>
    BY <1>12 DEF SendFails, Done, Goto, pipes, callers, known
  <2>2. Waits' = Waits
    BY <1>1, <1>12 DEF SendFails, Done, Goto, pipes, callers, known, Waits, TypeOK
  <2>3. QED
    BY <1>5, <2>1, <2>2
<1>13. ASSUME NEW c \in Callers, Send(c)
      PROVE  RepliesToCome' /\ LagWithinGivenUp'
  <2>1. Waits = 0 /\ lifecycle # "acking" /\ \A d \in Callers : at[d] # "reading"
    BY <1>1, <1>13, HolderWaits DEF Send, Waits
  <2> DEFINE e == [cmd |-> issued + 1, what |-> want[c], tracked |-> c \in syncing]
  <2>2. e \in Command /\ e.cmd = issued + 1
    BY <1>1 DEF Command, TypeOK
  <2>3. /\ issued' = issued + 1 /\ UNCHANGED <<givenUp, output, lifecycle>>
        /\ input' = Append(input, e)
    BY <1>13 DEF Send
  <2> HIDE DEF e
  <2>4. issued \in Nat /\ givenUp \in Nat
    BY <1>1 DEF TypeOK
  <2>5. CASE responses # <<>>
    <3>1. /\ responses' = Tail(responses) /\ lag' = issued' - Head(responses).cmd
          /\ at' \in {[at EXCEPT ![c] = "synced"], [at EXCEPT ![c] = "idle"]}
      BY <1>13, <2>5 DEF Send, Receive, GoOn, Done, Goto
    <3>2. Waits' = 0
      BY <1>1, <2>1, <2>3, <3>1 DEF Waits, TypeOK
    <3>3. RepliesToCome' /\ Head(responses).cmd \in issued + 1 - givenUp .. issued
      BY <1>1, <2>1, <2>2, <2>3, <2>5, <3>1, <3>2, CommandWritten
    <3>4. Head(responses).cmd \in Int /\ Head(responses).cmd \in issued' - givenUp .. issued'
      BY <2>3, <2>4, <3>3
    <3>5. QED
      BY <1>6, <2>3, <3>1, <3>3, <3>4
  <2>6. CASE responses = <<>>
    <3>1. responses' = responses /\ at' = [at EXCEPT ![c] = "reading"] /\ lag' = lag
      BY <1>13, <2>6 DEF Send, Goto
    <3>2. Waits' = 1
      BY <1>1, <3>1 DEF Waits, TypeOK
    <3>3. RepliesToCome'
      BY <1>1, <2>1, <2>2, <2>3, <2>6, <3>1, <3>2, CommandWritten
    <3>4. QED
      BY <1>4, <2>3, <3>1, <3>3
  <2>7. QED
    BY <2>5, <2>6
<1>14. ASSUME NEW c \in Callers, Timeout(c)
      PROVE  RepliesToCome' /\ LagWithinGivenUp'
  <2>1. /\ givenUp' = givenUp + 1 /\ UNCHANGED <<responses, output, input, issued, lifecycle>>
        /\ at' \in {[at EXCEPT ![c] = "synced"], [at EXCEPT ![c] = "idle"]} /\ lag' = lag
    BY <1>14 DEF Timeout, GoOn, Done, Goto, pipes
  <2>2. Waits = 1 /\ lifecycle # "acking" /\ \A d \in Callers : at[d] = "reading" => d = c
    BY <1>1, <1>14, HolderWaits DEF Timeout
  <2>3. Waits' = 0
    BY <1>1, <2>1, <2>2 DEF Waits, TypeOK
  <2>4. QED
    BY <1>1, <1>4, <2>1, <2>2, <2>3, WaitGivenUp
<1>15. ASSUME NEW c \in Callers, NEW v \in Values, SkipUnchanged(c, v)
      PROVE  RepliesToCome' /\ LagWithinGivenUp'
  <2>1. /\ responses' = responses /\ output' \in {output, <<>>} /\ input' \in {input, <<>>}
        /\ UNCHANGED <<issued, givenUp, lag>>
    BY <1>15 DEF SkipUnchanged, Done, Goto, pipes, callers, known
  <2>2. Waits' = Waits
    BY <1>1, <1>15 DEF SkipUnchanged, Done, Goto, pipes, callers, known, Waits, TypeOK
  <2>3. QED
    BY <1>5, <2>1, <2>2
<1>16. ASSUME NEW c \in Callers, NEW v \in Values, SendChanged(c, v)
      PROVE  RepliesToCome' /\ LagWithinGivenUp'
  <2>1. /\ responses' = responses /\ output' \in {output, <<>>} /\ input' \in {input, <<>>}
        /\ UNCHANGED <<issued, givenUp, lag>>
    BY <1>16 DEF SendChanged, Queue, Goto, pipes, callers, known
  <2>2. Waits' = Waits
    BY <1>1, <1>16 DEF SendChanged, Queue, Goto, pipes, callers, known, Waits, TypeOK
  <2>3. QED
    BY <1>5, <2>1, <2>2
<1>17. CASE CleanUpDead
  <2>1. /\ responses' = responses /\ output' \in {output, <<>>} /\ input' \in {input, <<>>}
        /\ UNCHANGED <<issued, givenUp, lag>>
    BY <1>17 DEF CleanUpDead, pipes, callers, known
  <2>2. Waits' = Waits
    BY <1>1, <1>17 DEF CleanUpDead, pipes, callers, known, Waits, TypeOK
  <2>3. QED
    BY <1>5, <2>1, <2>2
<1>18. CASE Spawn
  <2>1. /\ responses' = responses /\ output' \in {output, <<>>} /\ input' \in {input, <<>>}
        /\ UNCHANGED <<issued, givenUp, lag>>
    BY <1>18 DEF Spawn, pipes, callers, known
  <2>2. Waits' = Waits
    BY <1>1, <1>18 DEF Spawn, pipes, callers, known, Waits, TypeOK
  <2>3. QED
    BY <1>5, <2>1, <2>2
<1>19. CASE SpawnFails
  <2>1. /\ responses' = responses /\ output' \in {output, <<>>} /\ input' \in {input, <<>>}
        /\ UNCHANGED <<issued, givenUp, lag>>
    BY <1>19 DEF SpawnFails, pipes, callers, known
  <2>2. Waits' = Waits
    BY <1>1, <1>19 DEF SpawnFails, pipes, callers, known, Waits, TypeOK
  <2>3. QED
    BY <1>5, <2>1, <2>2
<1>20. CASE StopDead
  <2>1. /\ responses' = responses /\ output' \in {output, <<>>} /\ input' \in {input, <<>>}
        /\ UNCHANGED <<issued, givenUp, lag>>
    BY <1>20 DEF StopDead, pipes, callers, known
  <2>2. Waits' = Waits
    BY <1>1, <1>20 DEF StopDead, pipes, callers, known, Waits, TypeOK
  <2>3. QED
    BY <1>5, <2>1, <2>2
<1>21. CASE StopBegins
  <2>1. /\ responses' = responses /\ output' \in {output, <<>>} /\ input' \in {input, <<>>}
        /\ UNCHANGED <<issued, givenUp, lag>>
    BY <1>21 DEF StopBegins, pipes, callers, known
  <2>2. Waits' = Waits
    BY <1>1, <1>21 DEF StopBegins, pipes, callers, known, Waits, TypeOK
  <2>3. QED
    BY <1>5, <2>1, <2>2
<1>22. CASE StopAsks
  <2>1. Waits = 0 /\ \A d \in Callers : at[d] # "reading"
    BY <1>1, <1>22, HolderWaits DEF StopAsks, Waits
  <2> DEFINE e == [cmd |-> issued + 1, what |-> "shutdown", tracked |-> FALSE]
  <2>2. e \in Command /\ e.cmd = issued + 1
    BY <1>1 DEF Command, TypeOK
  <2>3. UNCHANGED <<givenUp, output, at, lag>>
    BY <1>22 DEF StopAsks, callers
  <2>4. CASE Unwritable
    <3>1. UNCHANGED <<issued, input, responses>> /\ lifecycle' = "exiting"
      BY <1>22, <2>4 DEF StopAsks
    <3>2. Waits' = 0
      BY <2>1, <2>3, <3>1 DEF Waits
    <3>3. QED
      BY <1>5, <2>1, <2>3, <3>1, <3>2
  <2>5. CASE ~Unwritable
    <3>1. /\ issued' = issued + 1
          /\ input' = Append(input, e)
      BY <1>22, <2>5 DEF StopAsks
    <3> HIDE DEF e
    <3>2. \/ responses # <<>> /\ responses' = Tail(responses) /\ lifecycle' = "exiting"
          \/ responses = <<>> /\ responses' = responses /\ lifecycle' = "acking"
      BY <1>22, <2>5 DEF StopAsks
    <3>3. \/ responses # <<>> /\ responses' = Tail(responses) /\ Waits' = 0
          \/ responses = <<>> /\ responses' = responses /\ Waits' = 1
      BY <2>1, <2>3, <3>2 DEF Waits
    <3>4. RepliesToCome'
      BY <1>1, <2>1, <2>2, <2>3, <3>1, <3>3, CommandWritten
    <3>5. QED
      BY <1>4, <2>3, <3>4
  <2>6. QED
    BY <2>4, <2>5
<1>23. CASE AckTimeout
  <2>1. /\ givenUp' = givenUp + 1 /\ UNCHANGED <<responses, output, input, issued>>
        /\ lifecycle' = "exiting" /\ UNCHANGED <<at, lag>>
    BY <1>23 DEF AckTimeout, pipes, callers
  <2>2. Waits = 1 /\ \A c \in Callers : at[c] # "reading"
    BY <1>1, <1>23, HolderWaits DEF AckTimeout
  <2>3. Waits' = 0
    BY <2>1, <2>2 DEF Waits
  <2>4. QED
    BY <1>1, <1>4, <2>1, <2>2, <2>3, WaitGivenUp
<1>24. CASE WaitForExit
  <2>1. /\ responses' = responses /\ output' \in {output, <<>>} /\ input' \in {input, <<>>}
        /\ UNCHANGED <<issued, givenUp, lag>>
    BY <1>24 DEF WaitForExit, Dies, pipes, callers, known
  <2>2. Waits' = Waits
    BY <1>1, <1>24 DEF WaitForExit, Dies, pipes, callers, known, Waits, TypeOK
  <2>3. QED
    BY <1>5, <2>1, <2>2
<1>25. CASE Stopped
  <2>1. /\ responses' = responses /\ output' \in {output, <<>>} /\ input' \in {input, <<>>}
        /\ UNCHANGED <<issued, givenUp, lag>>
    BY <1>25 DEF Stopped, pipes, callers, known
  <2>2. Waits' = Waits
    BY <1>1, <1>25 DEF Stopped, pipes, callers, known, Waits, TypeOK
  <2>3. QED
    BY <1>5, <2>1, <2>2
<1>26. CASE UNCHANGED vars
  <2>1. /\ responses' = responses /\ output' \in {output, <<>>} /\ input' \in {input, <<>>}
        /\ UNCHANGED <<issued, givenUp, lag>>
    BY <1>26 DEF vars, pipes, callers, known
  <2>2. Waits' = Waits
    BY <1>1, <1>26 DEF vars, pipes, callers, known, Waits, TypeOK
  <2>3. QED
    BY <1>5, <2>1, <2>2
<1>27. ASSUME NEW c \in Callers, NEW v \in Values, RawCommand(c, v)
      PROVE  RepliesToCome' /\ LagWithinGivenUp'
  <2>1. /\ responses' = responses /\ output' \in {output, <<>>} /\ input' \in {input, <<>>}
        /\ UNCHANGED <<issued, givenUp, lag>>
    BY <1>27 DEF RawCommand, Queue, Goto, pipes, callers, known
  <2>2. Waits' = Waits
    BY <1>1, <1>27 DEF RawCommand, Queue, Goto, pipes, callers, known, Waits, TypeOK
  <2>3. QED
    BY <1>5, <2>1, <2>2
<1>28. ASSUME NEW c \in Callers, SendBlocks(c)
      PROVE  RepliesToCome' /\ LagWithinGivenUp'
  <2>1. /\ responses' = responses /\ output' \in {output, <<>>} /\ input' \in {input, <<>>}
        /\ UNCHANGED <<issued, givenUp, lag>>
    BY <1>28 DEF SendBlocks, pipes, callers, known
  <2>2. Waits' = Waits
    BY <1>1, <1>28 DEF SendBlocks, pipes, callers, known, Waits, TypeOK
  <2>3. QED
    BY <1>5, <2>1, <2>2
<1>29. CASE StopBlocks
  <2>1. /\ responses' = responses /\ output' \in {output, <<>>} /\ input' \in {input, <<>>}
        /\ UNCHANGED <<issued, givenUp, lag>>
    BY <1>29 DEF StopBlocks, pipes, callers, known
  <2>2. Waits' = Waits
    BY <1>1, <1>29 DEF StopBlocks, pipes, callers, known, Waits, TypeOK
  <2>3. QED
    BY <1>5, <2>1, <2>2
<1>30. ASSUME NEW c \in Callers, Cancelled(c)
      PROVE  RepliesToCome' /\ LagWithinGivenUp'
  <2>1. /\ UNCHANGED <<responses, output, input, issued, lifecycle, lag>>
        /\ at' = [at EXCEPT ![c] = "idle"]
    BY <1>30 DEF Cancelled, Done, Goto, pipes
  <2>2. CASE at[c] = "reading"
    <3>1. Waits = 1 /\ lifecycle # "acking" /\ \A d \in Callers : at[d] = "reading" => d = c
      BY <1>1, <2>2, HolderWaits
    <3>2. Waits' = 0
      BY <1>1, <2>1, <3>1 DEF Waits, TypeOK
    <3>3. givenUp' = givenUp + 1
      BY <1>30, <2>2 DEF Cancelled
    <3>4. QED
      BY <1>1, <1>4, <2>1, <3>1, <3>2, <3>3, WaitGivenUp
  <2>3. CASE at[c] # "reading"
    <3>1. givenUp' = givenUp
      BY <1>30, <2>3 DEF Cancelled
    <3>2. Waits' = Waits
      BY <1>1, <2>1, <2>3 DEF Waits, TypeOK
    <3>3. QED
      BY <1>5, <2>1, <3>1, <3>2
  <2>4. QED
    BY <2>2, <2>3
<1>31. CASE LifecycleCancelled
  <2>1. /\ UNCHANGED <<responses, output, input, issued, at, lag>>
        /\ lifecycle' = "free"
    BY <1>31 DEF LifecycleCancelled, pipes, callers
  <2>2. CASE lifecycle = "acking"
    <3>1. Waits = 1 /\ \A d \in Callers : at[d] # "reading"
      BY <1>1, <2>2, HolderWaits
    <3>2. Waits' = 0
      BY <2>1, <3>1 DEF Waits
    <3>3. givenUp' = givenUp + 1
      BY <1>31, <2>2 DEF LifecycleCancelled
    <3>4. QED
      BY <1>1, <1>4, <2>1, <3>1, <3>2, <3>3, WaitGivenUp
  <2>3. CASE lifecycle # "acking"
    <3>1. givenUp' = givenUp
      BY <1>31, <2>3 DEF LifecycleCancelled
    <3>2. Waits' = Waits
      BY <2>1, <2>3 DEF Waits
    <3>3. QED
      BY <1>5, <2>1, <3>1, <3>2
  <2>4. QED
    BY <2>2, <2>3
<1>32. QED
  BY <1>7, <1>8, <1>9, <1>10, <1>11, <1>12, <1>13, <1>14, <1>15, <1>16, <1>17, <1>18, <1>19,
     <1>20, <1>21, <1>22, <1>23, <1>24, <1>25, <1>26,
     <1>27, <1>28, <1>29, <1>30, <1>31
     DEF Next, CallerStep, StopStep

----------------------------------------------------------------------------
(***************************************************************************)
(* The cache.                                                              *)
(***************************************************************************)
\* A queue of at most one entry is that entry.
LEMMA OneLeft ==
    ASSUME NEW S, NEW q \in Seq(S), q # <<>>
    PROVE  /\ Len(q) \in Nat \ {0} /\ Len(Tail(q)) = Len(q) - 1
           /\ Len(q) = 1 => Tail(q) = <<>>
  OBVIOUS

LEMMA OneMore ==
    ASSUME NEW S, NEW q \in Seq(S), NEW e \in S
    PROVE  /\ Len(Append(q, e)) = Len(q) + 1 /\ Len(q) \in Nat /\ Append(q, e) # <<>>
           /\ Len(q) = 0 => Head(Append(q, e)) = e
           /\ Len(q) = 0 <=> q = <<>>
  OBVIOUS

\* What is known of the one command under way stays true.
LEMMA CacheKept == IInv /\ [Next]_vars => CommandPending' /\ CacheFollows'
<1> SUFFICES ASSUME IInv, [Next]_vars PROVE CommandPending' /\ CacheFollows'
  OBVIOUS
<1>0. /\ TypeOK /\ QueueTypes /\ ReadersHold /\ CommandPending /\ CacheFollows
      /\ lifecycle \in {"starting", "exited"} => host = "dead"
      /\ Waits = 1 => responses = <<>>
  BY DEF IInv, TypeOK, RepliesToCome
<1>1. /\ input \in Seq(Command) /\ output \in Seq(Reply) /\ responses \in Seq(Reply)
      /\ Len(input) \in Nat /\ Len(output) \in Nat /\ Len(responses) \in Nat
      /\ at \in [Callers -> {"idle", "synced", "waiting", "reading"}]
      /\ want \in [Callers -> Values \cup {"query"}]
      /\ syncing \subseteq Callers /\ session \in Nat /\ process \in Nat /\ spawned \in Nat /\ issued \in Nat
  BY <1>0 DEF TypeOK, QueueTypes
<1> DEFINE Sent == Len(responses) + Len(output) + Len(input)
\* Nothing happens to the command under way, or the cache is emptied.
<1>2. ASSUME UNCHANGED <<output, input, responses, hostValue, tracked, host, spawned, process>>,
             Waits' = Waits, lifecycle' = "acking" => lifecycle = "acking",
             \A c \in Callers : at'[c] = "reading" <=> at[c] = "reading",
             \A c \in Callers : at[c] = "reading" => want'[c] = want[c],
             session' <= spawned, syncing' \subseteq Callers,
             \/ cache' = "unset"
             \/ /\ UNCHANGED <<cache, session>>
                /\ \A c \in Callers : at[c] = "reading" /\ c \in syncing => c \in syncing'
      PROVE  CommandPending' /\ CacheFollows'
  <2>1. InStep' <=> InStep
    BY <1>2 DEF InStep
  <2>2. CommandPending'
    BY <1>0, <1>2, <2>1 DEF CommandPending
  <2>3. CASE cache' = "unset"
    BY <1>0, <1>2, <2>2, <2>3 DEF CacheFollows
  <2>4. CASE /\ UNCHANGED <<cache, session>>
             /\ \A c \in Callers : at[c] = "reading" /\ c \in syncing => c \in syncing'
    <3>1. ASSUME NEW c \in syncing, at[c] = "reading", want[c] \in Values
          PROVE  \E d \in syncing' : at'[d] = "reading" /\ want'[d] \in Values
      BY <1>1, <1>2, <2>4, <3>1
    <3>2. CacheFollows'
      BY <1>0, <1>2, <2>1, <2>4, <3>1 DEF CacheFollows
    <3>3. QED
      BY <2>2, <3>2
  <2>5. QED
    BY <1>2, <2>3, <2>4
\* The host is dead, or replies are owed that nobody waits for.
<1>3. ASSUME host' = "dead" \/ ~InStep', UNCHANGED <<session, spawned>>, process' \in {process, 0}
      PROVE  CommandPending' /\ CacheFollows'
  BY <1>0, <1>1, <1>3 DEF CommandPending, CacheFollows
\* A command is written where none is under way.
<1>4. ASSUME NEW e \in Command, Waits = 0, input' = Append(input, e), responses = <<>>,
             \A c \in Callers : at'[c] = "reading" => e.what = want'[c],
             \A c \in Callers : at'[c] = "reading" /\ e.tracked => c \in syncing',
             lifecycle' = "acking" => e.what = "shutdown", Waits' = 1,
             UNCHANGED <<responses, output, host, hostValue, tracked, process, spawned, cache,
                         session, syncing>>
      PROVE  CommandPending' /\ CacheFollows'
  <2>1. Len(input') = Len(input) + 1
    BY <1>1, <1>4, OneMore
  <2>2. ASSUME InStep' PROVE InStep /\ input = <<>> /\ output = <<>> /\ Head(input') = e
    <3>1. Len(responses) + Len(output) + (Len(input) + 1) <= 1
      BY <1>4, <2>1, <2>2 DEF InStep
    <3>2. Len(responses) = 0 /\ Len(output) = 0 /\ Len(input) = 0
      BY <1>1, <3>1
    <3>3. QED
      BY <1>1, <1>4, <3>2, OneMore DEF InStep
  <2>3. CommandPending'
    BY <1>4, <2>2 DEF CommandPending
  <2>4. CacheFollows'
    BY <1>0, <1>4, <2>2 DEF CacheFollows
  <2>5. QED
    BY <2>3, <2>4
\* A wait is given up.
<1>5. ASSUME Waits = 1, Waits' = 0, cache' \in {cache, "unset"},
             UNCHANGED <<input, output, responses, host, hostValue, tracked, process, spawned,
                         session>>
      PROVE  CommandPending' /\ CacheFollows'
  <2>1. ASSUME InStep' PROVE InStep /\ input = <<>> /\ output = <<>>
    <3>1. Len(responses) + Len(output) + Len(input) <= 0
      BY <1>5, <2>1 DEF InStep
    <3>2. Len(responses) = 0 /\ Len(output) = 0 /\ Len(input) = 0
      BY <1>1, <3>1
    <3>3. QED
      BY <1>1, <1>5, <3>2 DEF InStep
  <2>2. CommandPending'
    BY <1>5, <2>1 DEF CommandPending
  <2>3. CacheFollows'
    BY <1>0, <1>5, <2>1 DEF CacheFollows
  <2>4. QED
    BY <2>2, <2>3
<1>6. CASE Handle
  <2> DEFINE command == Head(input)
  <2>1. PICK ok \in BOOLEAN :
            /\ output' = Append(output, [cmd |-> command.cmd, ok |-> ok])
            /\ IF ok /\ command.what \in Values
               THEN hostValue' = command.what /\ tracked' = command.tracked
               ELSE UNCHANGED <<hostValue, tracked>>
    BY <1>6 DEF Handle
  <2>2. /\ host = "up" /\ input # <<>> /\ input' = Tail(input)
        /\ host' = IF command.what = "shutdown" THEN "leaving" ELSE "up"
        /\ UNCHANGED <<responses, at, want, lifecycle, process, spawned, cache, session, syncing>>
    BY <1>6 DEF Handle, callers, known
  <2>3. command \in Command /\ [cmd |-> command.cmd, ok |-> ok] \in Reply
    <3>1. command \in Command
      BY <1>1, <2>2, QueueStays
    <3>2. QED
      BY <3>1 DEF Command, Reply
  <2>4. Waits' = Waits
    BY <2>2 DEF Waits
  <2>5. /\ Len(input') = Len(input) - 1 /\ Len(output') = Len(output) + 1
        /\ Len(input) \in Nat \ {0} /\ (Len(input) = 1 => input' = <<>>)
    BY <1>1, <2>1, <2>2, <2>3, OneMore, OneLeft
  <2>6. InStep' <=> InStep
    BY <1>1, <2>2, <2>4, <2>5 DEF InStep
  <2>7. ASSUME InStep
        PROVE  /\ Waits = 1 /\ output = <<>> /\ input' = <<>> /\ output' # <<>>
               /\ Head(output').ok = ok
    <3>1. Len(responses) + Len(output) + Len(input) <= Waits
      BY <2>7 DEF InStep
    <3>2. Len(input) = 1 /\ Len(output) = 0 /\ Waits = 1
      BY <1>1, <2>5, <3>1, WaitsIsOne
    <3>3. output = <<>> /\ Head(output') = [cmd |-> command.cmd, ok |-> ok] /\ output' # <<>>
      BY <1>1, <2>1, <2>3, <3>2, OneMore
    <3>4. QED
      BY <2>5, <3>2, <3>3
  <2>8. ASSUME InStep, host' = "up", NEW c \in Callers, at[c] = "reading"
        PROVE  /\ command.what = want[c]
               /\ command.tracked => c \in syncing \/ cache = "unset"
               /\ ok /\ want[c] \in Values => hostValue' = want[c]
    BY <1>0, <2>1, <2>2, <2>8 DEF CommandPending
  <2>9. CommandPending'
    BY <2>2, <2>6, <2>7, <2>8 DEF CommandPending
  <2>10. ASSUME host' = "up", InStep, session = process, tracked'
         PROVE  \/ cache \in {"unset", hostValue'}
                \/ \E c \in syncing : at[c] = "reading" /\ want[c] \in Values
    <3>1. tracked => cache \in {"unset", hostValue}
      BY <1>0, <2>2, <2>7, <2>10 DEF CacheFollows
    <3>2. CASE lifecycle = "acking"
      <4>1. command.what = "shutdown"
        BY <1>0, <2>2, <2>10, <3>2 DEF CommandPending
      <4>2. QED
        BY <2>2, <2>10, <4>1
    <3>3. CASE ~(ok /\ command.what \in Values)
      BY <2>1, <2>10, <3>1, <3>3
    <3>4. CASE lifecycle # "acking" /\ ok /\ command.what \in Values
      <4>1. PICK c \in Callers : at[c] = "reading"
        BY <2>7, <2>10, <3>4 DEF Waits
      <4>2. command.what = want[c] /\ (command.tracked => c \in syncing \/ cache = "unset")
        BY <2>8, <2>10, <4>1
      <4>3. command.tracked
        BY <2>1, <2>10, <3>4
      <4>4. QED
        BY <3>4, <4>1, <4>2, <4>3
    <3>5. QED
      BY <3>2, <3>3, <3>4
  <2>11. CacheFollows'
    BY <1>0, <2>2, <2>6, <2>7, <2>10 DEF CacheFollows
  <2>12. QED
    BY <2>9, <2>11
<1>7. CASE Exit
  BY <1>3, <1>7 DEF Exit, Dies, known
<1>8. CASE Deliver
  <2> DEFINE reply == Head(output)
  <2>1. /\ output # <<>> /\ output' = Tail(output)
        /\ UNCHANGED <<input, host, hostValue, tracked, process, spawned, session>>
    BY <1>8 DEF Deliver, device
  <2>2. /\ Len(output') = Len(output) - 1 /\ Len(output) \in Nat \ {0}
        /\ (Len(output) = 1 => output' = <<>>) /\ reply \in Reply
    BY <1>1, <2>1, OneLeft
  <2>3. ASSUME InStep
        PROVE  /\ Waits = 1 /\ output' = <<>> /\ input' = <<>>
               /\ responses = <<>>
    <3>1. Len(responses) + Len(output) + Len(input) <= Waits
      BY <2>3 DEF InStep
    <3>2. Len(responses) = 0 /\ Len(output) = 1 /\ Len(input) = 0 /\ Waits = 1
      BY <1>1, <2>2, <3>1, WaitsIsOne
    <3>3. QED
      BY <1>1, <2>1, <2>2, <3>2
  <2>4. ASSUME Waits = 1, Waits' = 0, UNCHANGED responses PROVE InStep' <=> InStep
    BY <1>1, <2>1, <2>2, <2>4 DEF InStep
  <2>5. ASSUME NEW c \in Callers, Holds(c), at[c] = "reading"
        PROVE  CommandPending' /\ CacheFollows'
    <3>1. Receive(c, issued, reply) /\ UNCHANGED <<responses, lifecycle>>
      BY <1>8, <2>5 DEF Deliver, Holds
    <3>2. Waits = 1 /\ lifecycle # "acking" /\ \A d \in Callers : at[d] = "reading" => d = c
      BY <1>0, <2>5, HolderWaits
    <3>3. \A d \in Callers : at'[d] # "reading"
      BY <1>1, <3>1, <3>2 DEF Receive, Goto, GoOn, Done
    <3>4. Waits' = 0 /\ (InStep' <=> InStep)
      BY <2>4, <3>1, <3>2, <3>3 DEF Waits
    <3>5. CommandPending'
      BY <2>3, <3>1, <3>2, <3>3, <3>4 DEF CommandPending
    <3>6. cache' = IF c \in syncing /\ want[c] \in Values
                   THEN (IF reply.ok THEN want[c] ELSE "unset") ELSE cache
      BY <3>1 DEF Receive, Remember
    <3>7. ASSUME host = "up", InStep, session = process, tracked
          PROVE  cache' \in {"unset", hostValue}
      <4>1. reply.ok /\ want[c] \in Values => hostValue = want[c]
        BY <1>0, <2>1, <2>5, <3>7 DEF CommandPending
      <4>2. ~(c \in syncing /\ want[c] \in Values) => cache \in {"unset", hostValue}
        BY <1>0, <1>1, <3>2, <3>7 DEF CacheFollows
      <4>3. QED
        BY <3>6, <4>1, <4>2
    <3>8. CacheFollows'
      BY <1>0, <2>1, <3>4, <3>7 DEF CacheFollows
    <3>9. QED
      BY <3>5, <3>8
  <2>6. ASSUME lifecycle = "acking" PROVE CommandPending' /\ CacheFollows'
    <3>1. Waits = 1 /\ \A d \in Callers : at[d] # "reading"
      BY <1>0, <2>6, HolderWaits
    <3>2. lifecycle' = "exiting" /\ UNCHANGED <<responses, at, cache>>
      BY <1>8, <2>6, <3>1 DEF Deliver
    <3>3. Waits' = 0 /\ (InStep' <=> InStep)
      BY <2>4, <3>1, <3>2 DEF Waits
    <3>4. CommandPending'
      BY <2>3, <3>1, <3>2, <3>3 DEF CommandPending
    <3>5. CacheFollows'
      BY <1>0, <1>1, <1>2, <2>1, <2>2, <2>3, <3>1, <3>2, <3>3 DEF CacheFollows
    <3>6. QED
      BY <3>4, <3>5
  <2>7. ASSUME lifecycle # "acking", \A c \in Callers : at[c] # "reading"
        PROVE  CommandPending' /\ CacheFollows'
    <3>1. /\ responses' = Append(responses, reply)
          /\ UNCHANGED <<lifecycle, at>>
      BY <1>8, <2>7 DEF Deliver
    <3>2. Waits' = 0
      BY <2>7, <3>1 DEF Waits
    <3>3. Len(responses') = Len(responses) + 1
      BY <1>1, <2>2, <3>1, OneMore
    <3>4. ~InStep'
      BY <1>1, <2>1, <2>2, <3>2, <3>3 DEF InStep
    <3>5. QED
      BY <1>3, <2>1, <3>4
  <2>8. QED
    BY <1>0, <2>5, <2>6, <2>7 DEF ReadersHold
<1>9. ASSUME NEW c \in Callers, NEW v \in Values \cup {"query"},
             Bounce(c) \/ RawCommand(c, v) \/ SendChanged(c, v)
      PROVE CommandPending' /\ CacheFollows'
  <2>1. /\ UNCHANGED <<output, input, responses, hostValue, tracked, host, spawned, process,
                       cache, session, syncing, lifecycle>>
        /\ at[c] \in {"idle", "synced"} /\ at' = [at EXCEPT ![c] = "waiting"]
        /\ want' \in {[want EXCEPT ![c] = "query"], [want EXCEPT ![c] = v]}
    BY <1>9 DEF Bounce, RawCommand, SendChanged, Queue, OnLoop, Goto, pipes, known, device
  <2>2. \A d \in Callers : at'[d] = "reading" <=> at[d] = "reading"
    BY <1>1, <2>1
  <2>3. \A d \in Callers : at[d] = "reading" => want'[d] = want[d]
    BY <1>1, <2>1
  <2>4. Waits' = Waits
    BY <2>1, <2>2 DEF Waits
  <2>5. QED
    BY <1>0, <1>1, <1>2, <2>1, <2>2, <2>3, <2>4 DEF CacheFollows
<1>10. ASSUME NEW c \in Callers, BeginSync(c) PROVE CommandPending' /\ CacheFollows'
  <2>1. /\ UNCHANGED <<output, input, responses, hostValue, tracked, host, spawned, process,
                       lifecycle>>
        /\ at[c] = "idle" /\ (at' = at \/ at' = [at EXCEPT ![c] = "waiting"])
        /\ (want' = want \/ want' = [want EXCEPT ![c] = "query"])
    BY <1>10 DEF BeginSync, Queue, Goto, pipes, device
  <2>2. \A d \in Callers : at'[d] = "reading" <=> at[d] = "reading"
    BY <1>1, <2>1
  <2>3. Waits' = Waits
    BY <2>1, <2>2 DEF Waits
  <2>4. /\ session' <= spawned /\ syncing' \subseteq Callers
        /\ \/ cache' = "unset"
           \/ UNCHANGED <<cache, session>> /\ syncing' = syncing \cup {c}
    BY <1>0, <1>1, <1>10 DEF BeginSync, CacheFollows
  <2>5. \A d \in Callers : at[d] = "reading" => want'[d] = want[d]
    BY <1>1, <2>1
  <2>6. QED
    BY <1>2, <2>1, <2>2, <2>3, <2>4, <2>5
<1>11. ASSUME NEW c \in Callers, NEW v \in Values, SkipUnchanged(c, v)
       PROVE CommandPending' /\ CacheFollows'
  <2>1. /\ UNCHANGED <<output, input, responses, hostValue, tracked, host, spawned, process,
                       cache, session, lifecycle>>
        /\ at[c] = "synced" /\ at' = [at EXCEPT ![c] = "idle"]
        /\ want' = [want EXCEPT ![c] = "query"] /\ syncing' = syncing \ {c}
    BY <1>11 DEF SkipUnchanged, Done, OnLoop, Goto, pipes, known, device
  <2>2. \A d \in Callers : at'[d] = "reading" <=> at[d] = "reading"
    BY <1>1, <2>1
  <2>3. \A d \in Callers : at[d] = "reading" => want'[d] = want[d]
    BY <1>1, <2>1
  <2>4. Waits' = Waits
    BY <2>1, <2>2 DEF Waits
  <2>5. QED
    BY <1>0, <1>1, <1>2, <2>1, <2>2, <2>3, <2>4 DEF CacheFollows
<1>12. ASSUME NEW c \in Callers, SendFails(c) PROVE CommandPending' /\ CacheFollows'
  <2>1. /\ UNCHANGED <<output, input, responses, hostValue, tracked, host, spawned, process,
                       cache, session, lifecycle>>
        /\ at[c] = "waiting" /\ at' = [at EXCEPT ![c] = "idle"]
        /\ want' = [want EXCEPT ![c] = "query"] /\ syncing' = syncing \ {c}
    BY <1>12 DEF SendFails, Done, OnLoop, Goto, pipes, known, device
  <2>2. \A d \in Callers : at'[d] = "reading" <=> at[d] = "reading"
    BY <1>1, <2>1
  <2>3. \A d \in Callers : at[d] = "reading" => want'[d] = want[d]
    BY <1>1, <2>1
  <2>4. Waits' = Waits
    BY <2>1, <2>2 DEF Waits
  <2>5. QED
    BY <1>0, <1>1, <1>2, <2>1, <2>2, <2>3, <2>4 DEF CacheFollows
<1>13. ASSUME NEW c \in Callers, Send(c) PROVE CommandPending' /\ CacheFollows'
  <2> DEFINE e == [cmd |-> issued + 1, what |-> want[c], tracked |-> c \in syncing]
  <2>1. Waits = 0 /\ lifecycle # "acking" /\ \A d \in Callers : at[d] # "reading"
    BY <1>0, <1>13, HolderWaits DEF Send, Waits
  <2>2. e \in Command /\ e.what = want[c] /\ (e.tracked => c \in syncing)
    <3>1. (c \in syncing) \in BOOLEAN
      OBVIOUS
    <3>2. e \in Command
      BY <1>1, <3>1 DEF Command
    <3>3. QED
      BY <3>2
  <2>3. /\ input' = Append(input, e)
        /\ UNCHANGED <<output, host, hostValue, tracked, process, spawned, session, lifecycle>>
    BY <1>13 DEF Send, device
  <2> HIDE DEF e
  <2>4. CASE responses # <<>>
    <3>1. /\ responses' = Tail(responses)
          /\ at' \in {[at EXCEPT ![c] = "synced"], [at EXCEPT ![c] = "idle"]}
      BY <1>13, <2>4 DEF Send, Receive, GoOn, Done, Goto
    <3>2. Waits' = 0
      BY <1>1, <2>1, <2>3, <3>1 DEF Waits
    <3>3. Len(input') = Len(input) + 1 /\ Len(responses') \in Nat
      BY <1>1, <2>2, <2>3, <2>4, <3>1, OneMore, OneLeft
    <3>4. ~InStep'
      BY <1>1, <2>3, <3>2, <3>3 DEF InStep
    <3>5. QED
      BY <1>3, <2>3, <3>4
  <2>5. CASE responses = <<>>
    <3>1. /\ responses' = responses /\ at' = [at EXCEPT ![c] = "reading"]
          /\ UNCHANGED <<cache, syncing, want>>
      BY <1>13, <2>5 DEF Send, Goto
    <3>2. Waits' = 1
      BY <1>1, <3>1 DEF Waits
    <3>3. \A d \in Callers : at'[d] = "reading" => d = c
      BY <1>1, <2>1, <3>1
    <3>4. QED
      BY <1>4, <2>1, <2>2, <2>3, <2>5, <3>1, <3>2, <3>3
  <2>6. QED
    BY <2>4, <2>5
<1>14. ASSUME NEW c \in Callers, Timeout(c) PROVE CommandPending' /\ CacheFollows'
  <2>1. /\ UNCHANGED <<responses, output, input, lifecycle, host, hostValue, tracked, process,
                       spawned, session>>
        /\ at' \in {[at EXCEPT ![c] = "synced"], [at EXCEPT ![c] = "idle"]}
        /\ cache' \in {cache, "unset"}
    BY <1>14 DEF Timeout, GoOn, Done, Goto, pipes, device, Remember
  <2>2. Waits = 1 /\ lifecycle # "acking" /\ \A d \in Callers : at[d] = "reading" => d = c
    BY <1>0, <1>14, HolderWaits DEF Timeout, ReadersHold
  <2>3. Waits' = 0
    BY <1>1, <2>1, <2>2 DEF Waits
  <2>4. QED
    BY <1>5, <2>1, <2>2, <2>3
<1>15. CASE CleanUpDead
  BY <1>3, <1>15 DEF CleanUpDead, known, device
<1>16. CASE Spawn
  <2>1. /\ input' = <<>> /\ output' = <<>> /\ session' = session
        /\ process' = spawned + 1 /\ spawned' = spawned + 1
    BY <1>16 DEF Spawn, known
  <2>2. session' # process' /\ session' <= spawned' /\ process' <= spawned'
    <3>1. session <= spawned /\ session \in Nat /\ spawned \in Nat
      BY <1>0, <1>1 DEF CacheFollows
    <3>2. QED
      BY <2>1, <3>1
  <2>3. QED
    BY <2>1, <2>2 DEF CommandPending, CacheFollows
<1>17. CASE SpawnFails \/ StopDead \/ WaitForExit \/ Stopped
  BY <1>0, <1>3, <1>17 DEF SpawnFails, StopDead, WaitForExit, Stopped, Dies, known, device
<1>18. CASE StopBegins
  <2>1. /\ UNCHANGED <<output, input, responses, hostValue, tracked, host, spawned, process,
                       cache, session, syncing, want, at>>
        /\ lifecycle = "free" /\ lifecycle' = "asking"
    BY <1>18 DEF StopBegins, pipes, callers, known, device
  <2>2. Waits' = Waits
    BY <2>1 DEF Waits
  <2>3. QED
    BY <1>0, <1>1, <1>2, <2>1, <2>2 DEF CacheFollows
<1>19. CASE StopAsks
  <2> DEFINE e == [cmd |-> issued + 1, what |-> "shutdown", tracked |-> FALSE]
  <2>1. Waits = 0 /\ \A d \in Callers : at[d] # "reading"
    BY <1>0, <1>19, HolderWaits DEF StopAsks, Waits
  <2>2. e \in Command /\ e.what = "shutdown" /\ ~e.tracked
    BY <1>1 DEF Command
  <2>3. /\ UNCHANGED <<output, host, hostValue, tracked, process, spawned, cache, session, syncing>>
        /\ UNCHANGED <<at, want>>
    BY <1>19 DEF StopAsks, callers, known, device
  <2>4. CASE Unwritable
    <3>1. UNCHANGED <<input, responses>> /\ lifecycle' = "exiting"
      BY <1>19, <2>4 DEF StopAsks
    <3>2. Waits' = Waits
      BY <2>1, <2>3, <3>1 DEF Waits
    <3>3. QED
      BY <1>0, <1>1, <1>2, <2>3, <3>1, <3>2 DEF CacheFollows
  <2>5. CASE ~Unwritable /\ responses # <<>>
    <3>1. input' = Append(input, e) /\ responses' = Tail(responses) /\ lifecycle' = "exiting"
      BY <1>19, <2>5 DEF StopAsks
    <3> HIDE DEF e
    <3>2. Waits' = 0
      BY <2>1, <2>3, <3>1 DEF Waits
    <3>3. Len(input') = Len(input) + 1 /\ Len(responses') \in Nat
      BY <1>1, <2>2, <2>5, <3>1, OneMore, OneLeft
    <3>4. ~InStep'
      BY <1>1, <2>3, <3>2, <3>3 DEF InStep
    <3>5. QED
      BY <1>3, <2>3, <3>4
  <2>6. CASE ~Unwritable /\ responses = <<>>
    <3>1. input' = Append(input, e) /\ responses' = responses /\ lifecycle' = "acking"
      BY <1>19, <2>6 DEF StopAsks
    <3> HIDE DEF e
    <3>2. Waits' = 1
      BY <3>1 DEF Waits
    <3>3. QED
      BY <1>4, <2>1, <2>2, <2>3, <2>6, <3>1, <3>2
  <2>7. QED
    BY <2>4, <2>5, <2>6
<1>20. CASE AckTimeout
  <2>1. /\ lifecycle = "acking" /\ lifecycle' = "exiting"
        /\ UNCHANGED <<responses, output, input, host, hostValue, tracked, process, spawned,
                       session, cache, at>>
    BY <1>20 DEF AckTimeout, pipes, callers, known, device
  <2>2. Waits = 1 /\ \A d \in Callers : at[d] # "reading"
    BY <1>0, <2>1, HolderWaits
  <2>3. Waits' = 0
    BY <2>1, <2>2 DEF Waits
  <2>4. QED
    BY <1>5, <2>1, <2>2, <2>3
<1>21. CASE UNCHANGED vars
  <2>1. UNCHANGED <<output, input, responses, hostValue, tracked, host, spawned, process,
                    cache, session, syncing, want, at, lifecycle>>
    BY <1>21 DEF vars, pipes, callers, known, device
  <2>2. Waits' = Waits
    BY <2>1 DEF Waits
  <2>3. QED
    BY <1>0, <1>1, <1>2, <2>1, <2>2 DEF CacheFollows
<1>22. ASSUME NEW c \in Callers, Cancelled(c) PROVE CommandPending' /\ CacheFollows'
  <2>1. /\ UNCHANGED <<responses, output, input, lifecycle, host, hostValue, tracked, process,
                       spawned, cache, session>>
        /\ at[c] # "idle" /\ at' = [at EXCEPT ![c] = "idle"]
        /\ want' = [want EXCEPT ![c] = "query"] /\ syncing' = syncing \ {c}
    BY <1>22 DEF Cancelled, Done, Goto, pipes, device
  <2>2. CASE at[c] = "reading"
    <3>1. Waits = 1 /\ lifecycle # "acking" /\ \A d \in Callers : at[d] = "reading" => d = c
      BY <1>0, <2>2, HolderWaits
    <3>2. Waits' = 0
      BY <1>1, <2>1, <3>1 DEF Waits
    <3>3. QED
      BY <1>5, <2>1, <3>1, <3>2
  <2>3. CASE at[c] # "reading"
    <3>1. \A d \in Callers : at'[d] = "reading" <=> at[d] = "reading"
      BY <1>1, <2>1, <2>3
    <3>2. \A d \in Callers : at[d] = "reading" => want'[d] = want[d]
      BY <1>1, <2>1, <2>3
    <3>3. Waits' = Waits
      BY <2>1, <3>1 DEF Waits
    <3>4. QED
      BY <1>0, <1>1, <1>2, <2>1, <2>3, <3>1, <3>2, <3>3 DEF CacheFollows
  <2>4. QED
    BY <2>2, <2>3
<1>23. CASE LifecycleCancelled
  <2>1. /\ UNCHANGED <<responses, output, input, at, want, host, hostValue, tracked, process,
                       spawned, cache, session, syncing>>
        /\ lifecycle' = "free"
    BY <1>23 DEF LifecycleCancelled, pipes, callers, known, device
  <2>2. CASE lifecycle = "acking"
    <3>1. Waits = 1 /\ \A d \in Callers : at[d] # "reading"
      BY <1>0, <2>2, HolderWaits
    <3>2. Waits' = 0
      BY <2>1, <3>1 DEF Waits
    <3>3. QED
      BY <1>5, <2>1, <3>1, <3>2
  <2>3. CASE lifecycle # "acking"
    <3>1. Waits' = Waits
      BY <2>1, <2>3 DEF Waits
    <3>2. QED
      BY <1>0, <1>1, <1>2, <2>1, <3>1 DEF CacheFollows
  <2>4. QED
    BY <2>2, <2>3
<1>24. CASE StopBlocks \/ \E c \in Callers : SendBlocks(c)
  <2>1. UNCHANGED <<output, input, responses, hostValue, tracked, host, spawned, process,
                    cache, session, syncing, want, at, lifecycle>>
    BY <1>24 DEF StopBlocks, SendBlocks, pipes, callers, known, device
  <2>2. Waits' = Waits
    BY <2>1 DEF Waits
  <2>3. QED
    BY <1>0, <1>1, <1>2, <2>1, <2>2 DEF CacheFollows
<1>25. QED
  BY <1>6, <1>7, <1>8, <1>9, <1>10, <1>11, <1>12, <1>13, <1>14, <1>15, <1>16, <1>17, <1>18,
     <1>19, <1>20, <1>21, <1>22, <1>23, <1>24 DEF Next, CallerStep, StopStep

----------------------------------------------------------------------------
(***************************************************************************)
(* The theorems.                                                           *)
(***************************************************************************)
\* The initial state satisfies the inductive invariant.
LEMMA InitInvariant == Init => IInv
<1> SUFFICES ASSUME Init PROVE IInv
  OBVIOUS
<1>1. QueueTypes
  BY DEF Init, QueueTypes
<1>2. TypeOK
  <2>1. /\ at \in [Callers -> {"idle", "synced", "waiting", "reading"}]
        /\ want \in [Callers -> Values \cup {"query"}]
    BY DEF Init
  <2>2. /\ process \in Nat /\ spawned \in Nat /\ issued \in Nat /\ givenUp \in Nat
        /\ session \in Nat /\ syncing \subseteq Callers /\ lag \in Int
    BY DEF Init
  <2>3. /\ running \in BOOLEAN /\ reader \in BOOLEAN /\ tracked \in BOOLEAN
        /\ blocked \in BOOLEAN
    BY DEF Init
  <2>4. /\ host \in {"up", "leaving", "dead"}
        /\ hostValue \in Values \cup {"unset"} /\ cache \in Values \cup {"unset"}
        /\ lifecycle \in {"free", "starting", "asking", "acking", "exiting", "exited"}
    BY DEF Init
  <2>5. QED
    BY <1>1, <2>1, <2>2, <2>3, <2>4 DEF TypeOK
<1>3. \A c \in Callers : at[c] = "idle"
  BY DEF Init
<1>4. Waits = 0 /\ ReadersHold
  BY <1>3 DEF Init, Waits, ReadersHold
<1>5. Len(responses) = 0 /\ Len(output) = 0 /\ Len(input) = 0 /\ givenUp = 0
  BY DEF Init
<1>6. RepliesToCome
  BY <1>4, <1>5 DEF Init, RepliesToCome, Within
<1>7. LagWithinGivenUp
  BY <1>5 DEF Init, LagWithinGivenUp
<1>8. CommandPending /\ CacheFollows
  BY DEF Init, CommandPending, CacheFollows
<1>9. QED
  BY <1>2, <1>4, <1>6, <1>7, <1>8 DEF Init, IInv, NoOrphan

\* Every step keeps the inductive invariant.
LEMMA StepInvariant == IInv /\ [Next]_vars => IInv'
  BY TypesKept, ReadersKept, DeadKept, RepliesKept, CacheKept DEF IInv

\* The inductive invariant holds for any callers, settings and bounds.
THEOREM InvariantHolds == Spec => []IInv
  BY InitInvariant, StepInvariant, PTL DEF Spec

\* Every variable keeps its type.
THEOREM TypesAreKept == Spec => []TypeOK
<1>1. IInv => TypeOK
  BY DEF IInv
<1>2. QED
  BY <1>1, InvariantHolds, PTL

\* HostManager lets go of a process only when it is dead.
THEOREM NoProcessIsOrphaned == Spec => []NoOrphan
<1>1. IInv => NoOrphan
  BY DEF IInv
<1>2. QED
  BY <1>1, InvariantHolds, PTL

\* An answer lags behind its command by no more than the waits that ended without a reply,
\* timed out or cancelled (send_command), through crashes, restarts, stops and full pipes.
THEOREM LagIsBounded == Spec => []LagWithinGivenUp
<1>1. IInv => LagWithinGivenUp
  BY DEF IInv
<1>2. QED
  BY <1>1, InvariantHolds, PTL

\* When nothing is under way the cache of _sync_project_to_host is true of a value that came from
\* a sync which writes it, whatever was refused, cleared or restarted before: a sync that skips
\* such a value skips one the host has.
THEOREM CacheIsTrue == Spec => []CacheTruthful
<1>1. IInv => CacheTruthful
  <2> SUFFICES ASSUME IInv, Quiet, session = process, tracked, cache # "unset"
                 PROVE  cache = hostValue
    BY DEF CacheTruthful
  <2>1. InStep
    <3>1. Len(responses) = 0 /\ Len(output) = 0 /\ Len(input) = 0
      BY DEF Quiet
    <3>2. QED
      BY <3>1, WaitsIsOne DEF InStep
  <2>2. QED
    BY <2>1 DEF IInv, CacheFollows, Quiet
<1>2. QED
  BY <1>1, InvariantHolds, PTL
=============================================================================

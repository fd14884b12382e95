-------------------------- MODULE ResearchTurnProofs --------------------------
(***************************************************************************)
(* Proofs about ResearchTurn: the limits of the budget, the slots of the   *)
(* sub-agents, and the agreement of branches and runs, for any number of   *)
(* sub-agents and any policy.                                              *)
(***************************************************************************)
EXTENDS ResearchTurn, FiniteSetTheorems, TLAPS

(***************************************************************************)
(* Sets of runs and of URLs are finite, so their sizes are numbers.        *)
(***************************************************************************)
\* Any set of sub-agents of the turn has a size.
LEMMA RunSets == ASSUME NEW S \in SUBSET Runs
                 PROVE  IsFiniteSet(S) /\ Cardinality(S) \in Nat
  BY ResearchAssumption, FS_Subset, FS_CardinalityType

\* web_fetches follows the set of URLs: a new one adds one, a repeated one none.
LEMMA UrlCount == ASSUME NEW S \in SUBSET Urls, NEW u \in Urls
                  PROVE  Cardinality(S \cup {u})
                           = IF u \in S THEN Cardinality(S) ELSE Cardinality(S) + 1
  BY ResearchAssumption, FS_Subset, FS_AddElement

\* The page slots start empty.
LEMMA EmptyCount == Cardinality({}) = 0
  BY FS_EmptySet

(***************************************************************************)
(* Type correctness.                                                       *)
(***************************************************************************)
\* Every step keeps the variables in their types.
LEMMA TypeStep == ASSUME TypeOK, [Next]_vars PROVE TypeOK'
<1>1. ASSUME NEW t \in Threads, BindTurn(t)
      PROVE  TypeOK'
  BY <1>1 DEF BindTurn, Goto, TypeOK, Threads, RunStation, MainStation, Working,
     FutureDone, Dispatching, budget, children, control
<1>2. ASSUME NEW t \in Threads, ClearCancelEvent(t)
      PROVE  TypeOK'
  BY <1>2 DEF ClearCancelEvent, Goto, TypeOK, Threads, RunStation, MainStation,
     Working, FutureDone, Dispatching, budget, children, control
<1>3. ASSUME NEW t \in Threads, ReserveToolCall(t)
      PROVE  TypeOK'
  BY <1>3 DEF ReserveToolCall, Chatting, TypeOK, Threads, RunStation, MainStation,
     Working, FutureDone, Dispatching, budget, children, control
<1>4. ASSUME NEW t \in Threads, NEW u \in Urls, ReserveWebFetch(t, u)
      PROVE  TypeOK'
  BY <1>4 DEF ReserveWebFetch, Chatting, TypeOK, Threads, RunStation, MainStation,
     Working, FutureDone, Dispatching, budget, children, control
<1>5. ASSUME NEW t \in Threads, Refuse(t)
      PROVE  TypeOK'
  BY <1>5 DEF Refuse, Goto, Chatting, TypeOK, Threads, RunStation, MainStation,
     Working, FutureDone, Dispatching, budget, children, control
<1>6. ASSUME NEW t \in Threads, AfterRefusal(t)
      PROVE  TypeOK'
  BY <1>6 DEF AfterRefusal, Goto, BeginSynthesis, Phases, TypeOK, Threads,
     RunStation, MainStation, Working, FutureDone, Dispatching, budget, children,
     control
<1>7. ASSUME NEW p \in Phases, Checkpoint(p)
      PROVE  TypeOK'
  BY <1>7 DEF Checkpoint, Chatting, Transitions, TypeOK, Threads, RunStation,
     MainStation, Working, FutureDone, Dispatching, budget, children, control
<1>8. ASSUME GapRound
      PROVE  TypeOK'
  BY <1>8 DEF GapRound, Chatting, Phases, TypeOK, Threads, RunStation, MainStation,
     Working, FutureDone, Dispatching, budget, children, control
<1>9. ASSUME NEW S \in SUBSET Runs, Dispatch(S)
      PROVE  TypeOK'
  BY <1>9, RunSets DEF Dispatch, Chatting, TerminalBranch, TypeOK, Threads,
     RunStation, MainStation, Working, FutureDone, Dispatching, budget, children,
     control
<1>10. ASSUME WaitReturns
      PROVE  TypeOK'
  BY <1>10 DEF WaitReturns, Goto, Withdraw, TypeOK, Threads, RunStation,
     MainStation, Working, FutureDone, Dispatching, budget, children, control
<1>11. ASSUME NEW r \in Runs, StopRun(r)
      PROVE  TypeOK'
  BY <1>11 DEF StopRun, Goto, TerminalRun, TypeOK, Threads, RunStation, MainStation,
     Working, FutureDone, Dispatching, budget, children, control
<1>12. ASSUME StopBranch
      PROVE  TypeOK'
  BY <1>12 DEF StopBranch, Goto, FinishBranch, BranchAfter, TerminalBranch, TypeOK,
     Threads, RunStation, MainStation, Working, FutureDone, Dispatching, budget,
     children, control
<1>13. ASSUME StopAgent
      PROVE  TypeOK'
  BY <1>13 DEF StopAgent, Goto, CancelSession, TypeOK, Threads, RunStation,
     MainStation, Working, FutureDone, Dispatching, budget, children, control
<1>14. ASSUME StopFuture
      PROVE  TypeOK'
  BY <1>14 DEF StopFuture, Withdraw, TypeOK, Threads, RunStation, MainStation,
     Working, FutureDone, Dispatching, budget, children, control
<1>15. ASSUME ShutDownPool
      PROVE  TypeOK'
  BY <1>15 DEF ShutDownPool, Withdraw, TypeOK, Threads, RunStation, MainStation,
     Working, FutureDone, Dispatching, budget, children, control
<1>16. ASSUME ReleaseSubagents
      PROVE  TypeOK'
  BY <1>16, RunSets DEF ReleaseSubagents, Goto, Monus, AllDone, TypeOK, Threads,
     RunStation, MainStation, Working, FutureDone, Dispatching, budget, children,
     control
<1>17. ASSUME NEW x \in {"text", "interrupted", "error"}, ChatReturns(x)
      PROVE  TypeOK'
  BY <1>17 DEF ChatReturns, Goto, Chatting, TypeOK, Threads, RunStation,
     MainStation, Working, FutureDone, Dispatching, budget, children, control
<1>18. ASSUME NEW r \in Runs, StartRun(r)
      PROVE  TypeOK'
  BY <1>18 DEF StartRun, Goto, TypeOK, Threads, RunStation, MainStation, Working,
     FutureDone, Dispatching, budget, children, control
<1>19. ASSUME NEW r \in Runs, AssignAgent(r)
      PROVE  TypeOK'
  BY <1>19 DEF AssignAgent, Goto, TypeOK, Threads, RunStation, MainStation, Working,
     FutureDone, Dispatching, budget, children, control
<1>20. ASSUME NEW r \in Runs, SetupFails(r)
      PROVE  TypeOK'
  BY <1>20 DEF SetupFails, Goto, StatusAfter, TerminalRun, TypeOK, Threads,
     RunStation, MainStation, Working, FutureDone, Dispatching, budget, children,
     control
<1>21. ASSUME NEW r \in Runs, SetRunning(r)
      PROVE  TypeOK'
  BY <1>21 DEF SetRunning, Goto, StatusAfter, TerminalRun, TypeOK, Threads,
     RunStation, MainStation, Working, FutureDone, Dispatching, budget, children,
     control
<1>22. ASSUME NEW r \in Runs, FinishRun(r)
      PROVE  TypeOK'
  BY <1>22 DEF FinishRun, EndRun, Goto, StatusAfter, Chatting, TerminalRun, TypeOK,
     Threads, RunStation, MainStation, Working, FutureDone, Dispatching, budget,
     children, control
<1>23. ASSUME NEW r \in Runs, FailRun(r)
      PROVE  TypeOK'
  BY <1>23 DEF FailRun, EndRun, Goto, StatusAfter, Chatting, TerminalRun, TypeOK,
     Threads, RunStation, MainStation, Working, FutureDone, Dispatching, budget,
     children, control
<1>24. ASSUME NEW r \in Runs, RaiseInRun(r)
      PROVE  TypeOK'
  BY <1>24 DEF RaiseInRun, Goto, TypeOK, Threads, RunStation, MainStation, Working,
     FutureDone, Dispatching, budget, children, control
<1>25. ASSUME NEW r \in Runs, EndBranch(r)
      PROVE  TypeOK'
  BY <1>25 DEF EndBranch, Goto, FinishBranch, BranchAfter, TerminalBranch, TypeOK,
     Threads, RunStation, MainStation, Working, FutureDone, Dispatching, budget,
     children, control
<1>26. ASSUME Respond
      PROVE  TypeOK'
  BY <1>26 DEF Respond, BeginSynthesis, CancelSession, Phases, TypeOK, Threads,
     RunStation, MainStation, Working, FutureDone, Dispatching, budget, children,
     control
<1>27. ASSUME Complete
      PROVE  TypeOK'
  BY <1>27 DEF Complete, Phases, TypeOK, Threads, RunStation, MainStation, Working,
     FutureDone, Dispatching, budget, children, control
<1>28. ASSUME Saved
      PROVE  TypeOK'
  BY <1>28 DEF Saved, TypeOK, Threads, RunStation, MainStation, Working, FutureDone,
     Dispatching, budget, children, control
<1>29. ASSUME ReplyFails
      PROVE  TypeOK'
  BY <1>29 DEF ReplyFails, CancelSession, TypeOK, Threads, RunStation, MainStation,
     Working, FutureDone, Dispatching, budget, children, control
<1>30. ASSUME UserCancels
      PROVE  TypeOK'
  BY <1>30 DEF UserCancels, CancelParent, CancelSession, TypeOK, Threads,
     RunStation, MainStation, Working, FutureDone, Dispatching, budget, children,
     control
<1>31. ASSUME DeadlinePasses
      PROVE  TypeOK'
  BY <1>31 DEF DeadlinePasses, CancelSession, TypeOK, Threads, RunStation,
     MainStation, Working, FutureDone, Dispatching, budget, children, control
<1>32. ASSUME Tick
      PROVE  TypeOK'
  BY <1>32 DEF Tick, Clock, TypeOK, Threads, RunStation, MainStation, Working,
     FutureDone, Dispatching, budget, children, control
<1>33. CASE UNCHANGED vars
  BY <1>33 DEF vars, TypeOK, Threads, RunStation, MainStation, Working, FutureDone,
     Dispatching, budget, children, control
<1>34. QED
  BY <1>1, <1>2, <1>3, <1>4, <1>5, <1>6, <1>7, <1>8, <1>9, <1>10, <1>11, <1>12,
     <1>13, <1>14, <1>15, <1>16, <1>17, <1>18, <1>19, <1>20, <1>21, <1>22, <1>23,
     <1>24, <1>25, <1>26, <1>27, <1>28, <1>29, <1>30, <1>31, <1>32, <1>33 DEF Next,
     ToolUse, Enter, MainStep, StopLate, Return, RunStep, PipelineStep, Threads

\* After wait(), the chat thread goes on and a run's future can only have been
\* withdrawn from the queue.
LEMMA WaitEffect ==
    ASSUME TypeOK, WaitReturns
    PROVE  /\ at'[Main] \in {"stopping", "draining"}
           /\ late' \in {late} \cup SUBSET dispatched
           /\ \A r \in Runs : \/ at'[r] = at[r]
                              \/ at[r] = "queued" /\ at'[r] = "withdrawn"
<1>1. CASE /\ at' = [Withdraw(dispatched) EXCEPT ![Main] = "draining"]
           /\ UNCHANGED late
  <2>1. at'[Main] = "draining" /\ \A r \in Runs : at'[r] = Withdraw(dispatched)[r]
    BY <1>1, ResearchAssumption DEF Withdraw, TypeOK, Threads
  <2>2. \A r \in Runs : \/ Withdraw(dispatched)[r] = at[r]
                        \/ at[r] = "queued" /\ Withdraw(dispatched)[r] = "withdrawn"
    BY DEF Withdraw, Threads
  <2>3. late' = late
    BY <1>1
  <2>4. \A r \in Runs : \/ at'[r] = at[r]
                        \/ at[r] = "queued" /\ at'[r] = "withdrawn"
    BY <2>1, <2>2
  <2>5. QED
    BY <2>1, <2>3, <2>4
<1>2. CASE /\ at' = [at EXCEPT ![Main] = "stopping"]
           /\ late' = {r \in dispatched : at[r] \notin FutureDone}
  <2>1. late' \in SUBSET dispatched
    BY <1>2
  <2>2. at'[Main] = "stopping" /\ \A r \in Runs : at'[r] = at[r]
    BY <1>2, ResearchAssumption DEF TypeOK, Threads
  <2>3. late' \in {late} \cup SUBSET dispatched
    BY <2>1
  <2>4. QED
    BY <2>2, <2>3
<1>3. QED
  BY <1>1, <1>2 DEF WaitReturns, Goto

(***************************************************************************)
(* The inductive invariant, one part at a time.                            *)
(***************************************************************************)
\* No step exceeds a limit or loses the count of the fetched pages.
LEMMA LimitsStep == ASSUME TypeOK, WithinLimits, [Next]_vars PROVE WithinLimits'
<1>1. ASSUME NEW t \in Threads, BindTurn(t)
      PROVE  WithinLimits'
  BY <1>1, ResearchAssumption DEF BindTurn, Goto, WithinLimits, TypeOK, budget,
     children, control
<1>2. ASSUME NEW t \in Threads, ClearCancelEvent(t)
      PROVE  WithinLimits'
  BY <1>2, ResearchAssumption DEF ClearCancelEvent, Goto, WithinLimits, TypeOK,
     budget, children, control
<1>3. ASSUME NEW t \in Threads, ReserveToolCall(t)
      PROVE  WithinLimits'
  BY <1>3, ResearchAssumption DEF ReserveToolCall, Chatting, WithinLimits, TypeOK,
     budget, children, control
<1>4. ASSUME NEW t \in Threads, NEW u \in Urls, ReserveWebFetch(t, u)
      PROVE  WithinLimits'
  BY <1>4, UrlCount, ResearchAssumption DEF ReserveWebFetch, Chatting, WithinLimits,
     TypeOK, budget, children, control
<1>5. ASSUME NEW t \in Threads, Refuse(t)
      PROVE  WithinLimits'
  BY <1>5, ResearchAssumption DEF Refuse, Goto, Chatting, WithinLimits, TypeOK,
     budget, children, control
<1>6. ASSUME NEW t \in Threads, AfterRefusal(t)
      PROVE  WithinLimits'
  BY <1>6, ResearchAssumption DEF AfterRefusal, Goto, BeginSynthesis, WithinLimits,
     TypeOK, budget, children, control
<1>7. ASSUME NEW p \in Phases, Checkpoint(p)
      PROVE  WithinLimits'
  BY <1>7, ResearchAssumption DEF Checkpoint, Chatting, Transitions, WithinLimits,
     TypeOK, budget, children, control
<1>8. ASSUME GapRound
      PROVE  WithinLimits'
  BY <1>8, ResearchAssumption DEF GapRound, Chatting, WithinLimits, TypeOK, budget,
     children, control
<1>9. ASSUME NEW S \in SUBSET Runs, Dispatch(S)
      PROVE  WithinLimits'
  BY <1>9, ResearchAssumption DEF Dispatch, Chatting, WithinLimits, TypeOK, budget,
     children, control
<1>10. ASSUME WaitReturns
      PROVE  WithinLimits'
  BY <1>10, ResearchAssumption DEF WaitReturns, Goto, Withdraw, WithinLimits,
     TypeOK, budget, children, control
<1>11. ASSUME NEW r \in Runs, StopRun(r)
      PROVE  WithinLimits'
  BY <1>11, ResearchAssumption DEF StopRun, Goto, WithinLimits, TypeOK, budget,
     children, control
<1>12. ASSUME StopBranch
      PROVE  WithinLimits'
  BY <1>12, ResearchAssumption DEF StopBranch, Goto, FinishBranch, BranchAfter,
     WithinLimits, TypeOK, budget, children, control
<1>13. ASSUME StopAgent
      PROVE  WithinLimits'
  BY <1>13, ResearchAssumption DEF StopAgent, Goto, CancelSession, WithinLimits,
     TypeOK, budget, children, control
<1>14. ASSUME StopFuture
      PROVE  WithinLimits'
  BY <1>14, ResearchAssumption DEF StopFuture, Withdraw, WithinLimits, TypeOK,
     budget, children, control
<1>15. ASSUME ShutDownPool
      PROVE  WithinLimits'
  BY <1>15, ResearchAssumption DEF ShutDownPool, Withdraw, WithinLimits, TypeOK,
     budget, children, control
<1>16. ASSUME ReleaseSubagents
      PROVE  WithinLimits'
  BY <1>16, ResearchAssumption DEF ReleaseSubagents, Goto, Monus, AllDone,
     WithinLimits, TypeOK, budget, children, control
<1>17. ASSUME NEW x \in {"text", "interrupted", "error"}, ChatReturns(x)
      PROVE  WithinLimits'
  BY <1>17, ResearchAssumption DEF ChatReturns, Goto, Chatting, WithinLimits,
     TypeOK, budget, children, control
<1>18. ASSUME NEW r \in Runs, StartRun(r)
      PROVE  WithinLimits'
  BY <1>18, ResearchAssumption DEF StartRun, Goto, WithinLimits, TypeOK, budget,
     children, control
<1>19. ASSUME NEW r \in Runs, AssignAgent(r)
      PROVE  WithinLimits'
  BY <1>19, ResearchAssumption DEF AssignAgent, Goto, WithinLimits, TypeOK, budget,
     children, control
<1>20. ASSUME NEW r \in Runs, SetupFails(r)
      PROVE  WithinLimits'
  BY <1>20, ResearchAssumption DEF SetupFails, Goto, StatusAfter, WithinLimits,
     TypeOK, budget, children, control
<1>21. ASSUME NEW r \in Runs, SetRunning(r)
      PROVE  WithinLimits'
  BY <1>21, ResearchAssumption DEF SetRunning, Goto, StatusAfter, WithinLimits,
     TypeOK, budget, children, control
<1>22. ASSUME NEW r \in Runs, FinishRun(r)
      PROVE  WithinLimits'
  BY <1>22, ResearchAssumption DEF FinishRun, EndRun, Goto, StatusAfter, Chatting,
     WithinLimits, TypeOK, budget, children, control
<1>23. ASSUME NEW r \in Runs, FailRun(r)
      PROVE  WithinLimits'
  BY <1>23, ResearchAssumption DEF FailRun, EndRun, Goto, StatusAfter, Chatting,
     WithinLimits, TypeOK, budget, children, control
<1>24. ASSUME NEW r \in Runs, RaiseInRun(r)
      PROVE  WithinLimits'
  BY <1>24, ResearchAssumption DEF RaiseInRun, Goto, WithinLimits, TypeOK, budget,
     children, control
<1>25. ASSUME NEW r \in Runs, EndBranch(r)
      PROVE  WithinLimits'
  BY <1>25, ResearchAssumption DEF EndBranch, Goto, FinishBranch, BranchAfter,
     WithinLimits, TypeOK, budget, children, control
<1>26. ASSUME Respond
      PROVE  WithinLimits'
  BY <1>26, ResearchAssumption DEF Respond, BeginSynthesis, CancelSession,
     WithinLimits, TypeOK, budget, children, control
<1>27. ASSUME Complete
      PROVE  WithinLimits'
  BY <1>27, ResearchAssumption DEF Complete, WithinLimits, TypeOK, budget, children,
     control
<1>28. ASSUME Saved
      PROVE  WithinLimits'
  BY <1>28, ResearchAssumption DEF Saved, WithinLimits, TypeOK, budget, children,
     control
<1>29. ASSUME ReplyFails
      PROVE  WithinLimits'
  BY <1>29, ResearchAssumption DEF ReplyFails, CancelSession, WithinLimits, TypeOK,
     budget, children, control
<1>30. ASSUME UserCancels
      PROVE  WithinLimits'
  BY <1>30, ResearchAssumption DEF UserCancels, CancelParent, CancelSession,
     WithinLimits, TypeOK, budget, children, control
<1>31. ASSUME DeadlinePasses
      PROVE  WithinLimits'
  BY <1>31, ResearchAssumption DEF DeadlinePasses, CancelSession, WithinLimits,
     TypeOK, budget, children, control
<1>32. ASSUME Tick
      PROVE  WithinLimits'
  BY <1>32, ResearchAssumption DEF Tick, WithinLimits, TypeOK, budget, children,
     control
<1>33. CASE UNCHANGED vars
  BY <1>33 DEF vars, WithinLimits, TypeOK, budget, children, control
<1>34. QED
  BY <1>1, <1>2, <1>3, <1>4, <1>5, <1>6, <1>7, <1>8, <1>9, <1>10, <1>11, <1>12,
     <1>13, <1>14, <1>15, <1>16, <1>17, <1>18, <1>19, <1>20, <1>21, <1>22, <1>23,
     <1>24, <1>25, <1>26, <1>27, <1>28, <1>29, <1>30, <1>31, <1>32, <1>33 DEF Next,
     ToolUse, Enter, MainStep, StopLate, Return, RunStep, PipelineStep, Threads

\* The runs of a dispatch are held from its reservation to its release.
LEMMA HeldStep == ASSUME TypeOK, DispatchHeld, [Next]_vars PROVE DispatchHeld'
<1>1. ASSUME NEW t \in Threads, BindTurn(t)
      PROVE  DispatchHeld'
  BY <1>1, ResearchAssumption DEF BindTurn, Goto, TypeOK, Threads, RunStation,
     MainStation, Working, FutureDone, Dispatching, DispatchHeld, budget, children,
     control
<1>2. ASSUME NEW t \in Threads, ClearCancelEvent(t)
      PROVE  DispatchHeld'
  BY <1>2, ResearchAssumption DEF ClearCancelEvent, Goto, TypeOK, Threads,
     RunStation, MainStation, Working, FutureDone, Dispatching, DispatchHeld,
     budget, children, control
<1>3. ASSUME NEW t \in Threads, ReserveToolCall(t)
      PROVE  DispatchHeld'
  BY <1>3, ResearchAssumption DEF ReserveToolCall, Chatting, TypeOK, Threads,
     RunStation, MainStation, Working, FutureDone, Dispatching, DispatchHeld,
     budget, children, control
<1>4. ASSUME NEW t \in Threads, NEW u \in Urls, ReserveWebFetch(t, u)
      PROVE  DispatchHeld'
  BY <1>4, ResearchAssumption DEF ReserveWebFetch, Chatting, TypeOK, Threads,
     RunStation, MainStation, Working, FutureDone, Dispatching, DispatchHeld,
     budget, children, control
<1>5. ASSUME NEW t \in Threads, Refuse(t)
      PROVE  DispatchHeld'
  BY <1>5, ResearchAssumption DEF Refuse, Goto, Chatting, TypeOK, Threads,
     RunStation, MainStation, Working, FutureDone, Dispatching, DispatchHeld,
     budget, children, control
<1>6. ASSUME NEW t \in Threads, AfterRefusal(t)
      PROVE  DispatchHeld'
  BY <1>6, ResearchAssumption DEF AfterRefusal, Goto, BeginSynthesis, TypeOK,
     Threads, RunStation, MainStation, Working, FutureDone, Dispatching,
     DispatchHeld, budget, children, control
<1>7. ASSUME NEW p \in Phases, Checkpoint(p)
      PROVE  DispatchHeld'
  BY <1>7, ResearchAssumption DEF Checkpoint, Chatting, Transitions, TypeOK,
     Threads, RunStation, MainStation, Working, FutureDone, Dispatching,
     DispatchHeld, budget, children, control
<1>8. ASSUME GapRound
      PROVE  DispatchHeld'
  BY <1>8, ResearchAssumption DEF GapRound, Chatting, TypeOK, Threads, RunStation,
     MainStation, Working, FutureDone, Dispatching, DispatchHeld, budget, children,
     control
<1>9. ASSUME NEW S \in SUBSET Runs, Dispatch(S)
      PROVE  DispatchHeld'
  BY <1>9, ResearchAssumption DEF Dispatch, Chatting, TypeOK, Threads, RunStation,
     MainStation, Working, FutureDone, Dispatching, DispatchHeld, budget, children,
     control
<1>10. ASSUME WaitReturns
      PROVE  DispatchHeld'
  <2>1. at'[Main] \in {"stopping", "draining"} /\ at[Main] = "waiting"
    BY <1>10, WaitEffect DEF WaitReturns
  <2>2. \A r \in Runs : at'[r] \in RunStation
    BY <1>10, WaitEffect DEF DispatchHeld, RunStation, FutureDone
  <2>3. QED
    BY <2>1, <2>2 DEF DispatchHeld, Dispatching, MainStation
<1>11. ASSUME NEW r \in Runs, StopRun(r)
      PROVE  DispatchHeld'
  BY <1>11, ResearchAssumption DEF StopRun, Goto, TypeOK, Threads, RunStation,
     MainStation, Working, FutureDone, Dispatching, DispatchHeld, budget, children,
     control
<1>12. ASSUME StopBranch
      PROVE  DispatchHeld'
  BY <1>12, ResearchAssumption DEF StopBranch, Goto, FinishBranch, BranchAfter,
     TypeOK, Threads, RunStation, MainStation, Working, FutureDone, Dispatching,
     DispatchHeld, budget, children, control
<1>13. ASSUME StopAgent
      PROVE  DispatchHeld'
  BY <1>13, ResearchAssumption DEF StopAgent, Goto, CancelSession, TypeOK, Threads,
     RunStation, MainStation, Working, FutureDone, Dispatching, DispatchHeld,
     budget, children, control
<1>14. ASSUME StopFuture
      PROVE  DispatchHeld'
  BY <1>14, ResearchAssumption DEF StopFuture, Withdraw, TypeOK, Threads,
     RunStation, MainStation, Working, FutureDone, Dispatching, DispatchHeld,
     budget, children, control
<1>15. ASSUME ShutDownPool
      PROVE  DispatchHeld'
  BY <1>15, ResearchAssumption DEF ShutDownPool, Withdraw, TypeOK, Threads,
     RunStation, MainStation, Working, FutureDone, Dispatching, DispatchHeld,
     budget, children, control
<1>16. ASSUME ReleaseSubagents
      PROVE  DispatchHeld'
  BY <1>16, ResearchAssumption DEF ReleaseSubagents, Goto, Monus, AllDone, TypeOK,
     Threads, RunStation, MainStation, Working, FutureDone, Dispatching,
     DispatchHeld, budget, children, control
<1>17. ASSUME NEW x \in {"text", "interrupted", "error"}, ChatReturns(x)
      PROVE  DispatchHeld'
  BY <1>17, ResearchAssumption DEF ChatReturns, Goto, Chatting, TypeOK, Threads,
     RunStation, MainStation, Working, FutureDone, Dispatching, DispatchHeld,
     budget, children, control
<1>18. ASSUME NEW r \in Runs, StartRun(r)
      PROVE  DispatchHeld'
  BY <1>18, ResearchAssumption DEF StartRun, Goto, TypeOK, Threads, RunStation,
     MainStation, Working, FutureDone, Dispatching, DispatchHeld, budget, children,
     control
<1>19. ASSUME NEW r \in Runs, AssignAgent(r)
      PROVE  DispatchHeld'
  BY <1>19, ResearchAssumption DEF AssignAgent, Goto, TypeOK, Threads, RunStation,
     MainStation, Working, FutureDone, Dispatching, DispatchHeld, budget, children,
     control
<1>20. ASSUME NEW r \in Runs, SetupFails(r)
      PROVE  DispatchHeld'
  BY <1>20, ResearchAssumption DEF SetupFails, Goto, StatusAfter, TypeOK, Threads,
     RunStation, MainStation, Working, FutureDone, Dispatching, DispatchHeld,
     budget, children, control
<1>21. ASSUME NEW r \in Runs, SetRunning(r)
      PROVE  DispatchHeld'
  BY <1>21, ResearchAssumption DEF SetRunning, Goto, StatusAfter, TypeOK, Threads,
     RunStation, MainStation, Working, FutureDone, Dispatching, DispatchHeld,
     budget, children, control
<1>22. ASSUME NEW r \in Runs, FinishRun(r)
      PROVE  DispatchHeld'
  BY <1>22, ResearchAssumption DEF FinishRun, EndRun, Goto, StatusAfter, Chatting,
     TypeOK, Threads, RunStation, MainStation, Working, FutureDone, Dispatching,
     DispatchHeld, budget, children, control
<1>23. ASSUME NEW r \in Runs, FailRun(r)
      PROVE  DispatchHeld'
  BY <1>23, ResearchAssumption DEF FailRun, EndRun, Goto, StatusAfter, Chatting,
     TypeOK, Threads, RunStation, MainStation, Working, FutureDone, Dispatching,
     DispatchHeld, budget, children, control
<1>24. ASSUME NEW r \in Runs, RaiseInRun(r)
      PROVE  DispatchHeld'
  BY <1>24, ResearchAssumption DEF RaiseInRun, Goto, TypeOK, Threads, RunStation,
     MainStation, Working, FutureDone, Dispatching, DispatchHeld, budget, children,
     control
<1>25. ASSUME NEW r \in Runs, EndBranch(r)
      PROVE  DispatchHeld'
  BY <1>25, ResearchAssumption DEF EndBranch, Goto, FinishBranch, BranchAfter,
     TypeOK, Threads, RunStation, MainStation, Working, FutureDone, Dispatching,
     DispatchHeld, budget, children, control
<1>26. ASSUME Respond
      PROVE  DispatchHeld'
  BY <1>26, ResearchAssumption DEF Respond, BeginSynthesis, CancelSession, TypeOK,
     Threads, RunStation, MainStation, Working, FutureDone, Dispatching,
     DispatchHeld, budget, children, control
<1>27. ASSUME Complete
      PROVE  DispatchHeld'
  BY <1>27, ResearchAssumption DEF Complete, TypeOK, Threads, RunStation,
     MainStation, Working, FutureDone, Dispatching, DispatchHeld, budget, children,
     control
<1>28. ASSUME Saved
      PROVE  DispatchHeld'
  BY <1>28, ResearchAssumption DEF Saved, TypeOK, Threads, RunStation, MainStation,
     Working, FutureDone, Dispatching, DispatchHeld, budget, children, control
<1>29. ASSUME ReplyFails
      PROVE  DispatchHeld'
  BY <1>29, ResearchAssumption DEF ReplyFails, CancelSession, TypeOK, Threads,
     RunStation, MainStation, Working, FutureDone, Dispatching, DispatchHeld,
     budget, children, control
<1>30. ASSUME UserCancels
      PROVE  DispatchHeld'
  BY <1>30, ResearchAssumption DEF UserCancels, CancelParent, CancelSession, TypeOK,
     Threads, RunStation, MainStation, Working, FutureDone, Dispatching,
     DispatchHeld, budget, children, control
<1>31. ASSUME DeadlinePasses
      PROVE  DispatchHeld'
  BY <1>31, ResearchAssumption DEF DeadlinePasses, CancelSession, TypeOK, Threads,
     RunStation, MainStation, Working, FutureDone, Dispatching, DispatchHeld,
     budget, children, control
<1>32. ASSUME Tick
      PROVE  DispatchHeld'
  BY <1>32, ResearchAssumption DEF Tick, TypeOK, Threads, RunStation, MainStation,
     Working, FutureDone, Dispatching, DispatchHeld, budget, children, control
<1>33. CASE UNCHANGED vars
  BY <1>33 DEF vars, TypeOK, Threads, RunStation, MainStation, Working, FutureDone,
     Dispatching, DispatchHeld, budget, children, control
<1>34. QED
  BY <1>1, <1>2, <1>3, <1>4, <1>5, <1>6, <1>7, <1>8, <1>9, <1>10, <1>11, <1>12,
     <1>13, <1>14, <1>15, <1>16, <1>17, <1>18, <1>19, <1>20, <1>21, <1>22, <1>23,
     <1>24, <1>25, <1>26, <1>27, <1>28, <1>29, <1>30, <1>31, <1>32, <1>33 DEF Next,
     ToolUse, Enter, MainStep, StopLate, Return, RunStep, PipelineStep, Threads

\* Slots follow the dispatch, and no thread leaves it while it can work.
LEMMA SlotsStep == ASSUME TypeOK, DispatchHeld, SlotsCoverThreads, [Next]_vars
                   PROVE  SlotsCoverThreads'
<1>1. ASSUME NEW t \in Threads, BindTurn(t)
      PROVE  SlotsCoverThreads'
  BY <1>1, ResearchAssumption DEF BindTurn, Goto, TypeOK, Threads, RunStation,
     MainStation, Working, FutureDone, Dispatching, DispatchHeld, SlotsCoverThreads,
     budget, children, control
<1>2. ASSUME NEW t \in Threads, ClearCancelEvent(t)
      PROVE  SlotsCoverThreads'
  BY <1>2, ResearchAssumption DEF ClearCancelEvent, Goto, TypeOK, Threads,
     RunStation, MainStation, Working, FutureDone, Dispatching, DispatchHeld,
     SlotsCoverThreads, budget, children, control
<1>3. ASSUME NEW t \in Threads, ReserveToolCall(t)
      PROVE  SlotsCoverThreads'
  BY <1>3, ResearchAssumption DEF ReserveToolCall, Chatting, TypeOK, Threads,
     RunStation, MainStation, Working, FutureDone, Dispatching, DispatchHeld,
     SlotsCoverThreads, budget, children, control
<1>4. ASSUME NEW t \in Threads, NEW u \in Urls, ReserveWebFetch(t, u)
      PROVE  SlotsCoverThreads'
  BY <1>4, ResearchAssumption DEF ReserveWebFetch, Chatting, TypeOK, Threads,
     RunStation, MainStation, Working, FutureDone, Dispatching, DispatchHeld,
     SlotsCoverThreads, budget, children, control
<1>5. ASSUME NEW t \in Threads, Refuse(t)
      PROVE  SlotsCoverThreads'
  BY <1>5, ResearchAssumption DEF Refuse, Goto, Chatting, TypeOK, Threads,
     RunStation, MainStation, Working, FutureDone, Dispatching, DispatchHeld,
     SlotsCoverThreads, budget, children, control
<1>6. ASSUME NEW t \in Threads, AfterRefusal(t)
      PROVE  SlotsCoverThreads'
  BY <1>6, ResearchAssumption DEF AfterRefusal, Goto, BeginSynthesis, TypeOK,
     Threads, RunStation, MainStation, Working, FutureDone, Dispatching,
     DispatchHeld, SlotsCoverThreads, budget, children, control
<1>7. ASSUME NEW p \in Phases, Checkpoint(p)
      PROVE  SlotsCoverThreads'
  BY <1>7, ResearchAssumption DEF Checkpoint, Chatting, Transitions, TypeOK,
     Threads, RunStation, MainStation, Working, FutureDone, Dispatching,
     DispatchHeld, SlotsCoverThreads, budget, children, control
<1>8. ASSUME GapRound
      PROVE  SlotsCoverThreads'
  BY <1>8, ResearchAssumption DEF GapRound, Chatting, TypeOK, Threads, RunStation,
     MainStation, Working, FutureDone, Dispatching, DispatchHeld, SlotsCoverThreads,
     budget, children, control
<1>9. ASSUME NEW S \in SUBSET Runs, Dispatch(S)
      PROVE  SlotsCoverThreads'
  <2>1. active_subagents = 0
    BY <1>9, EmptyCount DEF Dispatch, Chatting, DispatchHeld, Dispatching, SlotsCoverThreads
  <2>2. dispatched' = S /\ active_subagents' = Cardinality(S) /\ Cardinality(S) <= MaxParallel
    BY <1>9, <2>1, RunSets DEF Dispatch
  <2>3. \A r \in Runs : at'[r] \in Working \cup {"queued"} => r \in S
    <3>1. dispatched = {}
      BY <1>9 DEF Dispatch, Chatting, DispatchHeld, Dispatching
    <3>2. \A r \in Runs : at'[r] = IF r \in S THEN "queued" ELSE at[r]
      BY <1>9, ResearchAssumption DEF Dispatch, Threads
    <3>3. QED
      BY <3>1, <3>2 DEF SlotsCoverThreads
  <2>4. QED
    BY <2>2, <2>3 DEF SlotsCoverThreads
<1>10. ASSUME WaitReturns
      PROVE  SlotsCoverThreads'
  BY <1>10, ResearchAssumption DEF WaitReturns, Goto, Withdraw, TypeOK, Threads,
     RunStation, MainStation, Working, FutureDone, Dispatching, DispatchHeld,
     SlotsCoverThreads, budget, children, control
<1>11. ASSUME NEW r \in Runs, StopRun(r)
      PROVE  SlotsCoverThreads'
  BY <1>11, ResearchAssumption DEF StopRun, Goto, TypeOK, Threads, RunStation,
     MainStation, Working, FutureDone, Dispatching, DispatchHeld, SlotsCoverThreads,
     budget, children, control
<1>12. ASSUME StopBranch
      PROVE  SlotsCoverThreads'
  BY <1>12, ResearchAssumption DEF StopBranch, Goto, FinishBranch, BranchAfter,
     TypeOK, Threads, RunStation, MainStation, Working, FutureDone, Dispatching,
     DispatchHeld, SlotsCoverThreads, budget, children, control
<1>13. ASSUME StopAgent
      PROVE  SlotsCoverThreads'
  BY <1>13, ResearchAssumption DEF StopAgent, Goto, CancelSession, TypeOK, Threads,
     RunStation, MainStation, Working, FutureDone, Dispatching, DispatchHeld,
     SlotsCoverThreads, budget, children, control
<1>14. ASSUME StopFuture
      PROVE  SlotsCoverThreads'
  BY <1>14, ResearchAssumption DEF StopFuture, Withdraw, TypeOK, Threads,
     RunStation, MainStation, Working, FutureDone, Dispatching, DispatchHeld,
     SlotsCoverThreads, budget, children, control
<1>15. ASSUME ShutDownPool
      PROVE  SlotsCoverThreads'
  BY <1>15, ResearchAssumption DEF ShutDownPool, Withdraw, TypeOK, Threads,
     RunStation, MainStation, Working, FutureDone, Dispatching, DispatchHeld,
     SlotsCoverThreads, budget, children, control
<1>16. ASSUME ReleaseSubagents
      PROVE  SlotsCoverThreads'
  BY <1>16, RunSets, EmptyCount, ResearchAssumption DEF ReleaseSubagents, Goto,
     Monus, AllDone, TypeOK, Threads, RunStation, MainStation, Working, FutureDone,
     Dispatching, DispatchHeld, SlotsCoverThreads, budget, children, control
<1>17. ASSUME NEW x \in {"text", "interrupted", "error"}, ChatReturns(x)
      PROVE  SlotsCoverThreads'
  BY <1>17, ResearchAssumption DEF ChatReturns, Goto, Chatting, TypeOK, Threads,
     RunStation, MainStation, Working, FutureDone, Dispatching, DispatchHeld,
     SlotsCoverThreads, budget, children, control
<1>18. ASSUME NEW r \in Runs, StartRun(r)
      PROVE  SlotsCoverThreads'
  BY <1>18, ResearchAssumption DEF StartRun, Goto, TypeOK, Threads, RunStation,
     MainStation, Working, FutureDone, Dispatching, DispatchHeld, SlotsCoverThreads,
     budget, children, control
<1>19. ASSUME NEW r \in Runs, AssignAgent(r)
      PROVE  SlotsCoverThreads'
  BY <1>19, ResearchAssumption DEF AssignAgent, Goto, TypeOK, Threads, RunStation,
     MainStation, Working, FutureDone, Dispatching, DispatchHeld, SlotsCoverThreads,
     budget, children, control
<1>20. ASSUME NEW r \in Runs, SetupFails(r)
      PROVE  SlotsCoverThreads'
  BY <1>20, ResearchAssumption DEF SetupFails, Goto, StatusAfter, TypeOK, Threads,
     RunStation, MainStation, Working, FutureDone, Dispatching, DispatchHeld,
     SlotsCoverThreads, budget, children, control
<1>21. ASSUME NEW r \in Runs, SetRunning(r)
      PROVE  SlotsCoverThreads'
  BY <1>21, ResearchAssumption DEF SetRunning, Goto, StatusAfter, TypeOK, Threads,
     RunStation, MainStation, Working, FutureDone, Dispatching, DispatchHeld,
     SlotsCoverThreads, budget, children, control
<1>22. ASSUME NEW r \in Runs, FinishRun(r)
      PROVE  SlotsCoverThreads'
  BY <1>22, ResearchAssumption DEF FinishRun, EndRun, Goto, StatusAfter, Chatting,
     TypeOK, Threads, RunStation, MainStation, Working, FutureDone, Dispatching,
     DispatchHeld, SlotsCoverThreads, budget, children, control
<1>23. ASSUME NEW r \in Runs, FailRun(r)
      PROVE  SlotsCoverThreads'
  BY <1>23, ResearchAssumption DEF FailRun, EndRun, Goto, StatusAfter, Chatting,
     TypeOK, Threads, RunStation, MainStation, Working, FutureDone, Dispatching,
     DispatchHeld, SlotsCoverThreads, budget, children, control
<1>24. ASSUME NEW r \in Runs, RaiseInRun(r)
      PROVE  SlotsCoverThreads'
  BY <1>24, ResearchAssumption DEF RaiseInRun, Goto, TypeOK, Threads, RunStation,
     MainStation, Working, FutureDone, Dispatching, DispatchHeld, SlotsCoverThreads,
     budget, children, control
<1>25. ASSUME NEW r \in Runs, EndBranch(r)
      PROVE  SlotsCoverThreads'
  BY <1>25, ResearchAssumption DEF EndBranch, Goto, FinishBranch, BranchAfter,
     TypeOK, Threads, RunStation, MainStation, Working, FutureDone, Dispatching,
     DispatchHeld, SlotsCoverThreads, budget, children, control
<1>26. ASSUME Respond
      PROVE  SlotsCoverThreads'
  BY <1>26, ResearchAssumption DEF Respond, BeginSynthesis, CancelSession, TypeOK,
     Threads, RunStation, MainStation, Working, FutureDone, Dispatching,
     DispatchHeld, SlotsCoverThreads, budget, children, control
<1>27. ASSUME Complete
      PROVE  SlotsCoverThreads'
  BY <1>27, ResearchAssumption DEF Complete, TypeOK, Threads, RunStation,
     MainStation, Working, FutureDone, Dispatching, DispatchHeld, SlotsCoverThreads,
     budget, children, control
<1>28. ASSUME Saved
      PROVE  SlotsCoverThreads'
  BY <1>28, ResearchAssumption DEF Saved, TypeOK, Threads, RunStation, MainStation,
     Working, FutureDone, Dispatching, DispatchHeld, SlotsCoverThreads, budget,
     children, control
<1>29. ASSUME ReplyFails
      PROVE  SlotsCoverThreads'
  BY <1>29, ResearchAssumption DEF ReplyFails, CancelSession, TypeOK, Threads,
     RunStation, MainStation, Working, FutureDone, Dispatching, DispatchHeld,
     SlotsCoverThreads, budget, children, control
<1>30. ASSUME UserCancels
      PROVE  SlotsCoverThreads'
  BY <1>30, ResearchAssumption DEF UserCancels, CancelParent, CancelSession, TypeOK,
     Threads, RunStation, MainStation, Working, FutureDone, Dispatching,
     DispatchHeld, SlotsCoverThreads, budget, children, control
<1>31. ASSUME DeadlinePasses
      PROVE  SlotsCoverThreads'
  BY <1>31, ResearchAssumption DEF DeadlinePasses, CancelSession, TypeOK, Threads,
     RunStation, MainStation, Working, FutureDone, Dispatching, DispatchHeld,
     SlotsCoverThreads, budget, children, control
<1>32. ASSUME Tick
      PROVE  SlotsCoverThreads'
  BY <1>32, ResearchAssumption DEF Tick, TypeOK, Threads, RunStation, MainStation,
     Working, FutureDone, Dispatching, DispatchHeld, SlotsCoverThreads, budget,
     children, control
<1>33. CASE UNCHANGED vars
  BY <1>33 DEF vars, TypeOK, Threads, RunStation, MainStation, Working, FutureDone,
     Dispatching, DispatchHeld, SlotsCoverThreads, budget, children, control
<1>34. QED
  BY <1>1, <1>2, <1>3, <1>4, <1>5, <1>6, <1>7, <1>8, <1>9, <1>10, <1>11, <1>12,
     <1>13, <1>14, <1>15, <1>16, <1>17, <1>18, <1>19, <1>20, <1>21, <1>22, <1>23,
     <1>24, <1>25, <1>26, <1>27, <1>28, <1>29, <1>30, <1>31, <1>32, <1>33 DEF Next,
     ToolUse, Enter, MainStep, StopLate, Return, RunStep, PipelineStep, Threads

\* Runs and branches change in the order that keeps their stories apart or equal.
LEMMA HistoryStep == ASSUME TypeOK, DispatchHeld, SlotsCoverThreads, BranchHistory, [Next]_vars
                     PROVE  BranchHistory'
<1>1. ASSUME NEW t \in Threads, BindTurn(t)
      PROVE  BranchHistory'
  BY <1>1, ResearchAssumption DEF BindTurn, Goto, TypeOK, Threads, RunStation,
     MainStation, Working, FutureDone, Dispatching, DispatchHeld, BranchHistory,
     HalfStopped, TerminalRun, TerminalBranch, budget, children, control
<1>2. ASSUME NEW t \in Threads, ClearCancelEvent(t)
      PROVE  BranchHistory'
  BY <1>2, ResearchAssumption DEF ClearCancelEvent, Goto, TypeOK, Threads,
     RunStation, MainStation, Working, FutureDone, Dispatching, DispatchHeld,
     BranchHistory, HalfStopped, TerminalRun, TerminalBranch, budget, children,
     control
<1>3. ASSUME NEW t \in Threads, ReserveToolCall(t)
      PROVE  BranchHistory'
  BY <1>3, ResearchAssumption DEF ReserveToolCall, Chatting, TypeOK, Threads,
     RunStation, MainStation, Working, FutureDone, Dispatching, DispatchHeld,
     BranchHistory, HalfStopped, TerminalRun, TerminalBranch, budget, children,
     control
<1>4. ASSUME NEW t \in Threads, NEW u \in Urls, ReserveWebFetch(t, u)
      PROVE  BranchHistory'
  BY <1>4, ResearchAssumption DEF ReserveWebFetch, Chatting, TypeOK, Threads,
     RunStation, MainStation, Working, FutureDone, Dispatching, DispatchHeld,
     BranchHistory, HalfStopped, TerminalRun, TerminalBranch, budget, children,
     control
<1>5. ASSUME NEW t \in Threads, Refuse(t)
      PROVE  BranchHistory'
  BY <1>5, ResearchAssumption DEF Refuse, Goto, Chatting, TypeOK, Threads,
     RunStation, MainStation, Working, FutureDone, Dispatching, DispatchHeld,
     BranchHistory, HalfStopped, TerminalRun, TerminalBranch, budget, children,
     control
<1>6. ASSUME NEW t \in Threads, AfterRefusal(t)
      PROVE  BranchHistory'
  BY <1>6, ResearchAssumption DEF AfterRefusal, Goto, BeginSynthesis, TypeOK,
     Threads, RunStation, MainStation, Working, FutureDone, Dispatching,
     DispatchHeld, BranchHistory, HalfStopped, TerminalRun, TerminalBranch, budget,
     children, control
<1>7. ASSUME NEW p \in Phases, Checkpoint(p)
      PROVE  BranchHistory'
  BY <1>7, ResearchAssumption DEF Checkpoint, Chatting, Transitions, TypeOK,
     Threads, RunStation, MainStation, Working, FutureDone, Dispatching,
     DispatchHeld, BranchHistory, HalfStopped, TerminalRun, TerminalBranch, budget,
     children, control
<1>8. ASSUME GapRound
      PROVE  BranchHistory'
  BY <1>8, ResearchAssumption DEF GapRound, Chatting, TypeOK, Threads, RunStation,
     MainStation, Working, FutureDone, Dispatching, DispatchHeld, BranchHistory,
     HalfStopped, TerminalRun, TerminalBranch, budget, children, control
<1>9. ASSUME NEW S \in SUBSET Runs, Dispatch(S)
      PROVE  BranchHistory'
  BY <1>9, ResearchAssumption DEF Dispatch, Chatting, TypeOK, Threads, RunStation,
     MainStation, Working, FutureDone, Dispatching, DispatchHeld, BranchHistory,
     HalfStopped, TerminalRun, TerminalBranch, budget, children, control
<1>10. ASSUME WaitReturns
      PROVE  BranchHistory'
  <2>1. /\ at'[Main] \in {"stopping", "draining"} /\ at[Main] = "waiting"
        /\ late' \in {late} \cup SUBSET dispatched
        /\ UNCHANGED <<branches, status, run_cancelled, dispatched, victim>>
    BY <1>10, WaitEffect DEF WaitReturns, children
  <2>2. \A r \in Runs : \/ at'[r] = at[r]
                        \/ at[r] = "queued" /\ at'[r] = "withdrawn"
    BY <1>10, WaitEffect
  <2>3. victim = Main
    BY <2>1 DEF BranchHistory, TypeOK, Threads
  <2>4. \A t \in dispatched' \cup late' \cup {victim'} : at'[t] # "none"
    BY <2>1, <2>2, <2>3 DEF BranchHistory, TypeOK
  <2>5. QED
    BY <2>1, <2>2, <2>3, <2>4 DEF BranchHistory, HalfStopped
<1>11. ASSUME NEW r \in Runs, StopRun(r)
      PROVE  BranchHistory'
  BY <1>11, ResearchAssumption DEF StopRun, Goto, TypeOK, Threads, RunStation,
     MainStation, Working, FutureDone, Dispatching, DispatchHeld, BranchHistory,
     HalfStopped, TerminalRun, TerminalBranch, budget, children, control
<1>12. ASSUME StopBranch
      PROVE  BranchHistory'
  BY <1>12, ResearchAssumption DEF StopBranch, Goto, FinishBranch, BranchAfter,
     TypeOK, Threads, RunStation, MainStation, Working, FutureDone, Dispatching,
     DispatchHeld, BranchHistory, HalfStopped, TerminalRun, TerminalBranch, budget,
     children, control
<1>13. ASSUME StopAgent
      PROVE  BranchHistory'
  BY <1>13, ResearchAssumption DEF StopAgent, Goto, CancelSession, TypeOK, Threads,
     RunStation, MainStation, Working, FutureDone, Dispatching, DispatchHeld,
     BranchHistory, HalfStopped, TerminalRun, TerminalBranch, budget, children,
     control
<1>14. ASSUME StopFuture
      PROVE  BranchHistory'
  BY <1>14, ResearchAssumption DEF StopFuture, Withdraw, TypeOK, Threads,
     RunStation, MainStation, Working, FutureDone, Dispatching, DispatchHeld,
     BranchHistory, HalfStopped, TerminalRun, TerminalBranch, budget, children,
     control
<1>15. ASSUME ShutDownPool
      PROVE  BranchHistory'
  BY <1>15, ResearchAssumption DEF ShutDownPool, Withdraw, TypeOK, Threads,
     RunStation, MainStation, Working, FutureDone, Dispatching, DispatchHeld,
     BranchHistory, HalfStopped, TerminalRun, TerminalBranch, budget, children,
     control
<1>16. ASSUME ReleaseSubagents
      PROVE  BranchHistory'
  BY <1>16, ResearchAssumption DEF ReleaseSubagents, Goto, Monus, AllDone, TypeOK,
     Threads, RunStation, MainStation, Working, FutureDone, Dispatching,
     DispatchHeld, BranchHistory, HalfStopped, TerminalRun, TerminalBranch, budget,
     children, control
<1>17. ASSUME NEW x \in {"text", "interrupted", "error"}, ChatReturns(x)
      PROVE  BranchHistory'
  BY <1>17, ResearchAssumption DEF ChatReturns, Goto, Chatting, TypeOK, Threads,
     RunStation, MainStation, Working, FutureDone, Dispatching, DispatchHeld,
     BranchHistory, HalfStopped, TerminalRun, TerminalBranch, budget, children,
     control
<1>18. ASSUME NEW r \in Runs, StartRun(r)
      PROVE  BranchHistory'
  BY <1>18, ResearchAssumption DEF StartRun, Goto, TypeOK, Threads, RunStation,
     MainStation, Working, FutureDone, Dispatching, DispatchHeld, BranchHistory,
     HalfStopped, TerminalRun, TerminalBranch, budget, children, control
<1>19. ASSUME NEW r \in Runs, AssignAgent(r)
      PROVE  BranchHistory'
  BY <1>19, ResearchAssumption DEF AssignAgent, Goto, TypeOK, Threads, RunStation,
     MainStation, Working, FutureDone, Dispatching, DispatchHeld, BranchHistory,
     HalfStopped, TerminalRun, TerminalBranch, budget, children, control
<1>20. ASSUME NEW r \in Runs, SetupFails(r)
      PROVE  BranchHistory'
  BY <1>20, ResearchAssumption DEF SetupFails, Goto, StatusAfter, TypeOK, Threads,
     RunStation, MainStation, Working, FutureDone, Dispatching, DispatchHeld,
     BranchHistory, HalfStopped, TerminalRun, TerminalBranch, budget, children,
     control
<1>21. ASSUME NEW r \in Runs, SetRunning(r)
      PROVE  BranchHistory'
  BY <1>21, ResearchAssumption DEF SetRunning, Goto, StatusAfter, TypeOK, Threads,
     RunStation, MainStation, Working, FutureDone, Dispatching, DispatchHeld,
     BranchHistory, HalfStopped, TerminalRun, TerminalBranch, budget, children,
     control
<1>22. ASSUME NEW r \in Runs, FinishRun(r)
      PROVE  BranchHistory'
  <2>1. at[r] = "chatting" /\ r # Main /\ at \in [Threads -> RunStation \cup MainStation]
        /\ UNCHANGED <<branches, run_cancelled, dispatched, late, victim>>
    BY <1>22, ResearchAssumption DEF FinishRun, EndRun, Chatting, TypeOK, control
  <2>2. CASE status[r] \in TerminalRun
    <3>1. status' = status /\ at' = [at EXCEPT ![r] = "over"]
      BY <1>22, <2>2 DEF FinishRun, EndRun, StatusAfter, Goto, TypeOK
    <3>2. QED
      BY <2>1, <2>2, <3>1 DEF BranchHistory, HalfStopped, TerminalRun, Threads
  <2>3. CASE status[r] \notin TerminalRun
    <3>1. status' = [status EXCEPT ![r] = "done"] /\ at' = [at EXCEPT ![r] = "finished"]
      BY <1>22, <2>3 DEF FinishRun, EndRun, StatusAfter, Goto, TypeOK
    <3>2. branches[r] = "running"
      BY <2>1, <2>3 DEF BranchHistory, TypeOK, TerminalBranch, TerminalRun
    <3>3. QED
      BY <2>1, <2>3, <3>1, <3>2 DEF BranchHistory, HalfStopped, TerminalRun, Threads, TypeOK
  <2>4. QED
    BY <2>2, <2>3
<1>23. ASSUME NEW r \in Runs, FailRun(r)
      PROVE  BranchHistory'
  BY <1>23, ResearchAssumption DEF FailRun, EndRun, Goto, StatusAfter, Chatting,
     TypeOK, Threads, RunStation, MainStation, Working, FutureDone, Dispatching,
     DispatchHeld, BranchHistory, HalfStopped, TerminalRun, TerminalBranch, budget,
     children, control
<1>24. ASSUME NEW r \in Runs, RaiseInRun(r)
      PROVE  BranchHistory'
  BY <1>24, ResearchAssumption DEF RaiseInRun, Goto, TypeOK, Threads, RunStation,
     MainStation, Working, FutureDone, Dispatching, DispatchHeld, BranchHistory,
     HalfStopped, TerminalRun, TerminalBranch, budget, children, control
<1>25. ASSUME NEW r \in Runs, EndBranch(r)
      PROVE  BranchHistory'
  BY <1>25, ResearchAssumption DEF EndBranch, Goto, FinishBranch, BranchAfter,
     TypeOK, Threads, RunStation, MainStation, Working, FutureDone, Dispatching,
     DispatchHeld, BranchHistory, HalfStopped, TerminalRun, TerminalBranch, budget,
     children, control
<1>26. ASSUME Respond
      PROVE  BranchHistory'
  BY <1>26, ResearchAssumption DEF Respond, BeginSynthesis, CancelSession, TypeOK,
     Threads, RunStation, MainStation, Working, FutureDone, Dispatching,
     DispatchHeld, BranchHistory, HalfStopped, TerminalRun, TerminalBranch, budget,
     children, control
<1>27. ASSUME Complete
      PROVE  BranchHistory'
  BY <1>27, ResearchAssumption DEF Complete, TypeOK, Threads, RunStation,
     MainStation, Working, FutureDone, Dispatching, DispatchHeld, BranchHistory,
     HalfStopped, TerminalRun, TerminalBranch, budget, children, control
<1>28. ASSUME Saved
      PROVE  BranchHistory'
  BY <1>28, ResearchAssumption DEF Saved, TypeOK, Threads, RunStation, MainStation,
     Working, FutureDone, Dispatching, DispatchHeld, BranchHistory, HalfStopped,
     TerminalRun, TerminalBranch, budget, children, control
<1>29. ASSUME ReplyFails
      PROVE  BranchHistory'
  BY <1>29, ResearchAssumption DEF ReplyFails, CancelSession, TypeOK, Threads,
     RunStation, MainStation, Working, FutureDone, Dispatching, DispatchHeld,
     BranchHistory, HalfStopped, TerminalRun, TerminalBranch, budget, children,
     control
<1>30. ASSUME UserCancels
      PROVE  BranchHistory'
  BY <1>30, ResearchAssumption DEF UserCancels, CancelParent, CancelSession, TypeOK,
     Threads, RunStation, MainStation, Working, FutureDone, Dispatching,
     DispatchHeld, BranchHistory, HalfStopped, TerminalRun, TerminalBranch, budget,
     children, control
<1>31. ASSUME DeadlinePasses
      PROVE  BranchHistory'
  BY <1>31, ResearchAssumption DEF DeadlinePasses, CancelSession, TypeOK, Threads,
     RunStation, MainStation, Working, FutureDone, Dispatching, DispatchHeld,
     BranchHistory, HalfStopped, TerminalRun, TerminalBranch, budget, children,
     control
<1>32. ASSUME Tick
      PROVE  BranchHistory'
  BY <1>32, ResearchAssumption DEF Tick, TypeOK, Threads, RunStation, MainStation,
     Working, FutureDone, Dispatching, DispatchHeld, BranchHistory, HalfStopped,
     TerminalRun, TerminalBranch, budget, children, control
<1>33. CASE UNCHANGED vars
  BY <1>33 DEF vars, TypeOK, Threads, RunStation, MainStation, Working, FutureDone,
     Dispatching, DispatchHeld, BranchHistory, HalfStopped, TerminalRun,
     TerminalBranch, budget, children, control
<1>34. QED
  BY <1>1, <1>2, <1>3, <1>4, <1>5, <1>6, <1>7, <1>8, <1>9, <1>10, <1>11, <1>12,
     <1>13, <1>14, <1>15, <1>16, <1>17, <1>18, <1>19, <1>20, <1>21, <1>22, <1>23,
     <1>24, <1>25, <1>26, <1>27, <1>28, <1>29, <1>30, <1>31, <1>32, <1>33 DEF Next,
     ToolUse, Enter, MainStep, StopLate, Return, RunStep, PipelineStep, Threads

\* The pipeline replies once, to a chat that is over.
LEMMA ReplyStep == ASSUME TypeOK, DispatchHeld, ReplyFollowsChat, [Next]_vars
                   PROVE  ReplyFollowsChat'
<1>1. ASSUME NEW t \in Threads, BindTurn(t)
      PROVE  ReplyFollowsChat'
  BY <1>1, ResearchAssumption DEF BindTurn, Goto, TypeOK, Threads, RunStation,
     MainStation, Working, FutureDone, Dispatching, DispatchHeld, ReplyFollowsChat,
     budget, children, control
<1>2. ASSUME NEW t \in Threads, ClearCancelEvent(t)
      PROVE  ReplyFollowsChat'
  BY <1>2, ResearchAssumption DEF ClearCancelEvent, Goto, TypeOK, Threads,
     RunStation, MainStation, Working, FutureDone, Dispatching, DispatchHeld,
     ReplyFollowsChat, budget, children, control
<1>3. ASSUME NEW t \in Threads, ReserveToolCall(t)
      PROVE  ReplyFollowsChat'
  BY <1>3, ResearchAssumption DEF ReserveToolCall, Chatting, TypeOK, Threads,
     RunStation, MainStation, Working, FutureDone, Dispatching, DispatchHeld,
     ReplyFollowsChat, budget, children, control
<1>4. ASSUME NEW t \in Threads, NEW u \in Urls, ReserveWebFetch(t, u)
      PROVE  ReplyFollowsChat'
  BY <1>4, ResearchAssumption DEF ReserveWebFetch, Chatting, TypeOK, Threads,
     RunStation, MainStation, Working, FutureDone, Dispatching, DispatchHeld,
     ReplyFollowsChat, budget, children, control
<1>5. ASSUME NEW t \in Threads, Refuse(t)
      PROVE  ReplyFollowsChat'
  BY <1>5, ResearchAssumption DEF Refuse, Goto, Chatting, TypeOK, Threads,
     RunStation, MainStation, Working, FutureDone, Dispatching, DispatchHeld,
     ReplyFollowsChat, budget, children, control
<1>6. ASSUME NEW t \in Threads, AfterRefusal(t)
      PROVE  ReplyFollowsChat'
  BY <1>6, ResearchAssumption DEF AfterRefusal, Goto, BeginSynthesis, TypeOK,
     Threads, RunStation, MainStation, Working, FutureDone, Dispatching,
     DispatchHeld, ReplyFollowsChat, budget, children, control
<1>7. ASSUME NEW p \in Phases, Checkpoint(p)
      PROVE  ReplyFollowsChat'
  BY <1>7, ResearchAssumption DEF Checkpoint, Chatting, Transitions, TypeOK,
     Threads, RunStation, MainStation, Working, FutureDone, Dispatching,
     DispatchHeld, ReplyFollowsChat, budget, children, control
<1>8. ASSUME GapRound
      PROVE  ReplyFollowsChat'
  BY <1>8, ResearchAssumption DEF GapRound, Chatting, TypeOK, Threads, RunStation,
     MainStation, Working, FutureDone, Dispatching, DispatchHeld, ReplyFollowsChat,
     budget, children, control
<1>9. ASSUME NEW S \in SUBSET Runs, Dispatch(S)
      PROVE  ReplyFollowsChat'
  BY <1>9, ResearchAssumption DEF Dispatch, Chatting, TypeOK, Threads, RunStation,
     MainStation, Working, FutureDone, Dispatching, DispatchHeld, ReplyFollowsChat,
     budget, children, control
<1>10. ASSUME WaitReturns
      PROVE  ReplyFollowsChat'
  BY <1>10, ResearchAssumption DEF WaitReturns, Goto, Withdraw, TypeOK, Threads,
     RunStation, MainStation, Working, FutureDone, Dispatching, DispatchHeld,
     ReplyFollowsChat, budget, children, control
<1>11. ASSUME NEW r \in Runs, StopRun(r)
      PROVE  ReplyFollowsChat'
  BY <1>11, ResearchAssumption DEF StopRun, Goto, TypeOK, Threads, RunStation,
     MainStation, Working, FutureDone, Dispatching, DispatchHeld, ReplyFollowsChat,
     budget, children, control
<1>12. ASSUME StopBranch
      PROVE  ReplyFollowsChat'
  BY <1>12, ResearchAssumption DEF StopBranch, Goto, FinishBranch, BranchAfter,
     TypeOK, Threads, RunStation, MainStation, Working, FutureDone, Dispatching,
     DispatchHeld, ReplyFollowsChat, budget, children, control
<1>13. ASSUME StopAgent
      PROVE  ReplyFollowsChat'
  BY <1>13, ResearchAssumption DEF StopAgent, Goto, CancelSession, TypeOK, Threads,
     RunStation, MainStation, Working, FutureDone, Dispatching, DispatchHeld,
     ReplyFollowsChat, budget, children, control
<1>14. ASSUME StopFuture
      PROVE  ReplyFollowsChat'
  BY <1>14, ResearchAssumption DEF StopFuture, Withdraw, TypeOK, Threads,
     RunStation, MainStation, Working, FutureDone, Dispatching, DispatchHeld,
     ReplyFollowsChat, budget, children, control
<1>15. ASSUME ShutDownPool
      PROVE  ReplyFollowsChat'
  BY <1>15, ResearchAssumption DEF ShutDownPool, Withdraw, TypeOK, Threads,
     RunStation, MainStation, Working, FutureDone, Dispatching, DispatchHeld,
     ReplyFollowsChat, budget, children, control
<1>16. ASSUME ReleaseSubagents
      PROVE  ReplyFollowsChat'
  BY <1>16, ResearchAssumption DEF ReleaseSubagents, Goto, Monus, AllDone, TypeOK,
     Threads, RunStation, MainStation, Working, FutureDone, Dispatching,
     DispatchHeld, ReplyFollowsChat, budget, children, control
<1>17. ASSUME NEW x \in {"text", "interrupted", "error"}, ChatReturns(x)
      PROVE  ReplyFollowsChat'
  BY <1>17, ResearchAssumption DEF ChatReturns, Goto, Chatting, TypeOK, Threads,
     RunStation, MainStation, Working, FutureDone, Dispatching, DispatchHeld,
     ReplyFollowsChat, budget, children, control
<1>18. ASSUME NEW r \in Runs, StartRun(r)
      PROVE  ReplyFollowsChat'
  BY <1>18, ResearchAssumption DEF StartRun, Goto, TypeOK, Threads, RunStation,
     MainStation, Working, FutureDone, Dispatching, DispatchHeld, ReplyFollowsChat,
     budget, children, control
<1>19. ASSUME NEW r \in Runs, AssignAgent(r)
      PROVE  ReplyFollowsChat'
  BY <1>19, ResearchAssumption DEF AssignAgent, Goto, TypeOK, Threads, RunStation,
     MainStation, Working, FutureDone, Dispatching, DispatchHeld, ReplyFollowsChat,
     budget, children, control
<1>20. ASSUME NEW r \in Runs, SetupFails(r)
      PROVE  ReplyFollowsChat'
  BY <1>20, ResearchAssumption DEF SetupFails, Goto, StatusAfter, TypeOK, Threads,
     RunStation, MainStation, Working, FutureDone, Dispatching, DispatchHeld,
     ReplyFollowsChat, budget, children, control
<1>21. ASSUME NEW r \in Runs, SetRunning(r)
      PROVE  ReplyFollowsChat'
  BY <1>21, ResearchAssumption DEF SetRunning, Goto, StatusAfter, TypeOK, Threads,
     RunStation, MainStation, Working, FutureDone, Dispatching, DispatchHeld,
     ReplyFollowsChat, budget, children, control
<1>22. ASSUME NEW r \in Runs, FinishRun(r)
      PROVE  ReplyFollowsChat'
  BY <1>22, ResearchAssumption DEF FinishRun, EndRun, Goto, StatusAfter, Chatting,
     TypeOK, Threads, RunStation, MainStation, Working, FutureDone, Dispatching,
     DispatchHeld, ReplyFollowsChat, budget, children, control
<1>23. ASSUME NEW r \in Runs, FailRun(r)
      PROVE  ReplyFollowsChat'
  BY <1>23, ResearchAssumption DEF FailRun, EndRun, Goto, StatusAfter, Chatting,
     TypeOK, Threads, RunStation, MainStation, Working, FutureDone, Dispatching,
     DispatchHeld, ReplyFollowsChat, budget, children, control
<1>24. ASSUME NEW r \in Runs, RaiseInRun(r)
      PROVE  ReplyFollowsChat'
  BY <1>24, ResearchAssumption DEF RaiseInRun, Goto, TypeOK, Threads, RunStation,
     MainStation, Working, FutureDone, Dispatching, DispatchHeld, ReplyFollowsChat,
     budget, children, control
<1>25. ASSUME NEW r \in Runs, EndBranch(r)
      PROVE  ReplyFollowsChat'
  BY <1>25, ResearchAssumption DEF EndBranch, Goto, FinishBranch, BranchAfter,
     TypeOK, Threads, RunStation, MainStation, Working, FutureDone, Dispatching,
     DispatchHeld, ReplyFollowsChat, budget, children, control
<1>26. ASSUME Respond
      PROVE  ReplyFollowsChat'
  BY <1>26, ResearchAssumption DEF Respond, BeginSynthesis, CancelSession, TypeOK,
     Threads, RunStation, MainStation, Working, FutureDone, Dispatching,
     DispatchHeld, ReplyFollowsChat, budget, children, control
<1>27. ASSUME Complete
      PROVE  ReplyFollowsChat'
  BY <1>27, ResearchAssumption DEF Complete, TypeOK, Threads, RunStation,
     MainStation, Working, FutureDone, Dispatching, DispatchHeld, ReplyFollowsChat,
     budget, children, control
<1>28. ASSUME Saved
      PROVE  ReplyFollowsChat'
  BY <1>28, ResearchAssumption DEF Saved, TypeOK, Threads, RunStation, MainStation,
     Working, FutureDone, Dispatching, DispatchHeld, ReplyFollowsChat, budget,
     children, control
<1>29. ASSUME ReplyFails
      PROVE  ReplyFollowsChat'
  BY <1>29, ResearchAssumption DEF ReplyFails, CancelSession, TypeOK, Threads,
     RunStation, MainStation, Working, FutureDone, Dispatching, DispatchHeld,
     ReplyFollowsChat, budget, children, control
<1>30. ASSUME UserCancels
      PROVE  ReplyFollowsChat'
  BY <1>30, ResearchAssumption DEF UserCancels, CancelParent, CancelSession, TypeOK,
     Threads, RunStation, MainStation, Working, FutureDone, Dispatching,
     DispatchHeld, ReplyFollowsChat, budget, children, control
<1>31. ASSUME DeadlinePasses
      PROVE  ReplyFollowsChat'
  BY <1>31, ResearchAssumption DEF DeadlinePasses, CancelSession, TypeOK, Threads,
     RunStation, MainStation, Working, FutureDone, Dispatching, DispatchHeld,
     ReplyFollowsChat, budget, children, control
<1>32. ASSUME Tick
      PROVE  ReplyFollowsChat'
  BY <1>32, ResearchAssumption DEF Tick, TypeOK, Threads, RunStation, MainStation,
     Working, FutureDone, Dispatching, DispatchHeld, ReplyFollowsChat, budget,
     children, control
<1>33. CASE UNCHANGED vars
  BY <1>33 DEF vars, TypeOK, Threads, RunStation, MainStation, Working, FutureDone,
     Dispatching, DispatchHeld, ReplyFollowsChat, budget, children, control
<1>34. QED
  BY <1>1, <1>2, <1>3, <1>4, <1>5, <1>6, <1>7, <1>8, <1>9, <1>10, <1>11, <1>12,
     <1>13, <1>14, <1>15, <1>16, <1>17, <1>18, <1>19, <1>20, <1>21, <1>22, <1>23,
     <1>24, <1>25, <1>26, <1>27, <1>28, <1>29, <1>30, <1>31, <1>32, <1>33 DEF Next,
     ToolUse, Enter, MainStep, StopLate, Return, RunStep, PipelineStep, Threads

(***************************************************************************)
(* Theorems.                                                               *)
(***************************************************************************)
\* Every part of the invariant holds when the turn starts.
LEMMA InitInvariant == Init => IInv
<1> SUFFICES ASSUME Init PROVE IInv
  OBVIOUS
<1>1. TypeOK
  BY ResearchAssumption DEF Init, TypeOK, Clock, Phases, Threads, RunStation, MainStation
<1>2. WithinLimits /\ SlotsCoverThreads
  BY ResearchAssumption, EmptyCount DEF Init, WithinLimits, SlotsCoverThreads, Threads, Working
<1>3. DispatchHeld /\ BranchHistory /\ ReplyFollowsChat
  BY ResearchAssumption DEF Init, DispatchHeld, BranchHistory, HalfStopped, ReplyFollowsChat,
     Threads, RunStation, MainStation, Dispatching
<1>4. QED
  BY <1>1, <1>2, <1>3 DEF IInv

\* The invariant is inductive, so it holds at every moment of a turn.
THEOREM InvariantHolds == Spec => []IInv
<1>1. IInv /\ [Next]_vars => IInv'
  BY TypeStep, LimitsStep, HeldStep, SlotsStep, HistoryStep, ReplyStep DEF IInv
<1>2. QED
  BY InitInvariant, <1>1, PTL DEF Spec

\* The budget, session, branches and runs of a turn keep their types.
THEOREM TypesAreKept == Spec => []TypeOK
<1>1. IInv => TypeOK
  BY DEF IInv
<1>2. QED
  BY <1>1, InvariantHolds, PTL

\* The shared budget of a turn is never overdrawn, and every fetched page was
\* paid for, whatever threads reserve at once.
THEOREM BudgetIsKept == Spec => []WithinLimits
<1>1. IInv => WithinLimits
  BY DEF IInv
<1>2. QED
  BY InvariantHolds, <1>1, PTL

\* No sub-agent's thread works without a slot, and there are never more slots
\* taken than the policy allows.
THEOREM SlotsAreKept == Spec => []SlotsCoverThreads
<1>1. IInv => SlotsCoverThreads
  BY DEF IInv
<1>2. QED
  BY InvariantHolds, <1>1, PTL

\* The session's branch and the report of a run agree once its thread is through.
THEOREM StoriesAgree == Spec => []BranchesAgree
<1>1. IInv => BranchesAgree
  BY DEF IInv, BranchHistory, BranchesAgree, FutureDone, HalfStopped
<1>2. QED
  BY InvariantHolds, <1>1, PTL

\* A step changes the phase along VALID_TRANSITIONS or not at all.
LEMMA PhaseStep == ASSUME IInv, [Next]_vars
                   PROVE  current_phase' = current_phase
                            \/ current_phase' \in Transitions[current_phase]
<1>1. ASSUME NEW t \in Threads, BindTurn(t)
      PROVE  current_phase' = current_phase \/ current_phase' \in Transitions[current_phase]
  BY <1>1 DEF BindTurn, Goto, IInv, TypeOK, ReplyFollowsChat, Transitions, Phases,
     budget, children, control
<1>2. ASSUME NEW t \in Threads, ClearCancelEvent(t)
      PROVE  current_phase' = current_phase \/ current_phase' \in Transitions[current_phase]
  BY <1>2 DEF ClearCancelEvent, Goto, IInv, TypeOK, ReplyFollowsChat, Transitions,
     Phases, budget, children, control
<1>3. ASSUME NEW t \in Threads, ReserveToolCall(t)
      PROVE  current_phase' = current_phase \/ current_phase' \in Transitions[current_phase]
  BY <1>3 DEF ReserveToolCall, Chatting, IInv, TypeOK, ReplyFollowsChat,
     Transitions, Phases, budget, children, control
<1>4. ASSUME NEW t \in Threads, NEW u \in Urls, ReserveWebFetch(t, u)
      PROVE  current_phase' = current_phase \/ current_phase' \in Transitions[current_phase]
  BY <1>4 DEF ReserveWebFetch, Chatting, IInv, TypeOK, ReplyFollowsChat,
     Transitions, Phases, budget, children, control
<1>5. ASSUME NEW t \in Threads, Refuse(t)
      PROVE  current_phase' = current_phase \/ current_phase' \in Transitions[current_phase]
  BY <1>5 DEF Refuse, Goto, Chatting, IInv, TypeOK, ReplyFollowsChat, Transitions,
     Phases, budget, children, control
<1>6. ASSUME NEW t \in Threads, AfterRefusal(t)
      PROVE  current_phase' = current_phase \/ current_phase' \in Transitions[current_phase]
  BY <1>6 DEF AfterRefusal, Goto, BeginSynthesis, IInv, TypeOK, ReplyFollowsChat,
     Transitions, Phases, budget, children, control
<1>7. ASSUME NEW p \in Phases, Checkpoint(p)
      PROVE  current_phase' = current_phase \/ current_phase' \in Transitions[current_phase]
  BY <1>7 DEF Checkpoint, Chatting, Transitions, IInv, TypeOK, ReplyFollowsChat,
     Transitions, Phases, budget, children, control
<1>8. ASSUME GapRound
      PROVE  current_phase' = current_phase \/ current_phase' \in Transitions[current_phase]
  BY <1>8 DEF GapRound, Chatting, IInv, TypeOK, ReplyFollowsChat, Transitions,
     Phases, budget, children, control
<1>9. ASSUME NEW S \in SUBSET Runs, Dispatch(S)
      PROVE  current_phase' = current_phase \/ current_phase' \in Transitions[current_phase]
  BY <1>9 DEF Dispatch, Chatting, IInv, TypeOK, ReplyFollowsChat, Transitions,
     Phases, budget, children, control
<1>10. ASSUME WaitReturns
      PROVE  current_phase' = current_phase \/ current_phase' \in Transitions[current_phase]
  BY <1>10 DEF WaitReturns, Goto, Withdraw, IInv, TypeOK, ReplyFollowsChat,
     Transitions, Phases, budget, children, control
<1>11. ASSUME NEW r \in Runs, StopRun(r)
      PROVE  current_phase' = current_phase \/ current_phase' \in Transitions[current_phase]
  BY <1>11 DEF StopRun, Goto, IInv, TypeOK, ReplyFollowsChat, Transitions, Phases,
     budget, children, control
<1>12. ASSUME StopBranch
      PROVE  current_phase' = current_phase \/ current_phase' \in Transitions[current_phase]
  BY <1>12 DEF StopBranch, Goto, FinishBranch, BranchAfter, IInv, TypeOK,
     ReplyFollowsChat, Transitions, Phases, budget, children, control
<1>13. ASSUME StopAgent
      PROVE  current_phase' = current_phase \/ current_phase' \in Transitions[current_phase]
  BY <1>13 DEF StopAgent, Goto, CancelSession, IInv, TypeOK, ReplyFollowsChat,
     Transitions, Phases, budget, children, control
<1>14. ASSUME StopFuture
      PROVE  current_phase' = current_phase \/ current_phase' \in Transitions[current_phase]
  BY <1>14 DEF StopFuture, Withdraw, IInv, TypeOK, ReplyFollowsChat, Transitions,
     Phases, budget, children, control
<1>15. ASSUME ShutDownPool
      PROVE  current_phase' = current_phase \/ current_phase' \in Transitions[current_phase]
  BY <1>15 DEF ShutDownPool, Withdraw, IInv, TypeOK, ReplyFollowsChat, Transitions,
     Phases, budget, children, control
<1>16. ASSUME ReleaseSubagents
      PROVE  current_phase' = current_phase \/ current_phase' \in Transitions[current_phase]
  BY <1>16 DEF ReleaseSubagents, Goto, Monus, AllDone, IInv, TypeOK,
     ReplyFollowsChat, Transitions, Phases, budget, children, control
<1>17. ASSUME NEW x \in {"text", "interrupted", "error"}, ChatReturns(x)
      PROVE  current_phase' = current_phase \/ current_phase' \in Transitions[current_phase]
  BY <1>17 DEF ChatReturns, Goto, Chatting, IInv, TypeOK, ReplyFollowsChat,
     Transitions, Phases, budget, children, control
<1>18. ASSUME NEW r \in Runs, StartRun(r)
      PROVE  current_phase' = current_phase \/ current_phase' \in Transitions[current_phase]
  BY <1>18 DEF StartRun, Goto, IInv, TypeOK, ReplyFollowsChat, Transitions, Phases,
     budget, children, control
<1>19. ASSUME NEW r \in Runs, AssignAgent(r)
      PROVE  current_phase' = current_phase \/ current_phase' \in Transitions[current_phase]
  BY <1>19 DEF AssignAgent, Goto, IInv, TypeOK, ReplyFollowsChat, Transitions,
     Phases, budget, children, control
<1>20. ASSUME NEW r \in Runs, SetupFails(r)
      PROVE  current_phase' = current_phase \/ current_phase' \in Transitions[current_phase]
  BY <1>20 DEF SetupFails, Goto, StatusAfter, IInv, TypeOK, ReplyFollowsChat,
     Transitions, Phases, budget, children, control
<1>21. ASSUME NEW r \in Runs, SetRunning(r)
      PROVE  current_phase' = current_phase \/ current_phase' \in Transitions[current_phase]
  BY <1>21 DEF SetRunning, Goto, StatusAfter, IInv, TypeOK, ReplyFollowsChat,
     Transitions, Phases, budget, children, control
<1>22. ASSUME NEW r \in Runs, FinishRun(r)
      PROVE  current_phase' = current_phase \/ current_phase' \in Transitions[current_phase]
  BY <1>22 DEF FinishRun, EndRun, Goto, StatusAfter, Chatting, IInv, TypeOK,
     ReplyFollowsChat, Transitions, Phases, budget, children, control
<1>23. ASSUME NEW r \in Runs, FailRun(r)
      PROVE  current_phase' = current_phase \/ current_phase' \in Transitions[current_phase]
  BY <1>23 DEF FailRun, EndRun, Goto, StatusAfter, Chatting, IInv, TypeOK,
     ReplyFollowsChat, Transitions, Phases, budget, children, control
<1>24. ASSUME NEW r \in Runs, RaiseInRun(r)
      PROVE  current_phase' = current_phase \/ current_phase' \in Transitions[current_phase]
  BY <1>24 DEF RaiseInRun, Goto, IInv, TypeOK, ReplyFollowsChat, Transitions,
     Phases, budget, children, control
<1>25. ASSUME NEW r \in Runs, EndBranch(r)
      PROVE  current_phase' = current_phase \/ current_phase' \in Transitions[current_phase]
  BY <1>25 DEF EndBranch, Goto, FinishBranch, BranchAfter, IInv, TypeOK,
     ReplyFollowsChat, Transitions, Phases, budget, children, control
<1>26. ASSUME Respond
      PROVE  current_phase' = current_phase \/ current_phase' \in Transitions[current_phase]
  BY <1>26 DEF Respond, BeginSynthesis, CancelSession, IInv, TypeOK,
     ReplyFollowsChat, Transitions, Phases, budget, children, control
<1>27. ASSUME Complete
      PROVE  current_phase' = current_phase \/ current_phase' \in Transitions[current_phase]
  BY <1>27 DEF Complete, IInv, TypeOK, ReplyFollowsChat, Transitions, Phases,
     budget, children, control
<1>28. ASSUME Saved
      PROVE  current_phase' = current_phase \/ current_phase' \in Transitions[current_phase]
  BY <1>28 DEF Saved, IInv, TypeOK, ReplyFollowsChat, Transitions, Phases, budget,
     children, control
<1>29. ASSUME ReplyFails
      PROVE  current_phase' = current_phase \/ current_phase' \in Transitions[current_phase]
  BY <1>29 DEF ReplyFails, CancelSession, IInv, TypeOK, ReplyFollowsChat,
     Transitions, Phases, budget, children, control
<1>30. ASSUME UserCancels
      PROVE  current_phase' = current_phase \/ current_phase' \in Transitions[current_phase]
  BY <1>30 DEF UserCancels, CancelParent, CancelSession, IInv, TypeOK,
     ReplyFollowsChat, Transitions, Phases, budget, children, control
<1>31. ASSUME DeadlinePasses
      PROVE  current_phase' = current_phase \/ current_phase' \in Transitions[current_phase]
  BY <1>31 DEF DeadlinePasses, CancelSession, IInv, TypeOK, ReplyFollowsChat,
     Transitions, Phases, budget, children, control
<1>32. ASSUME Tick
      PROVE  current_phase' = current_phase \/ current_phase' \in Transitions[current_phase]
  BY <1>32 DEF Tick, IInv, TypeOK, ReplyFollowsChat, Transitions, Phases, budget,
     children, control
<1>33. CASE UNCHANGED vars
  BY <1>33 DEF vars, IInv, TypeOK, ReplyFollowsChat, Transitions, Phases, budget,
     children, control
<1>34. QED
  BY <1>1, <1>2, <1>3, <1>4, <1>5, <1>6, <1>7, <1>8, <1>9, <1>10, <1>11, <1>12,
     <1>13, <1>14, <1>15, <1>16, <1>17, <1>18, <1>19, <1>20, <1>21, <1>22, <1>23,
     <1>24, <1>25, <1>26, <1>27, <1>28, <1>29, <1>30, <1>31, <1>32, <1>33 DEF Next,
     ToolUse, Enter, MainStep, StopLate, Return, RunStep, PipelineStep, Threads

\* The phases of a whole turn follow VALID_TRANSITIONS.
THEOREM PhasesAreOrdered == Spec => PhasesFollowTransitions
<1>1. IInv /\ [Next]_vars =>
        [current_phase' = current_phase \/ current_phase' \in Transitions[current_phase]]_vars
  BY PhaseStep
<1>2. QED
  BY InvariantHolds, <1>1, PTL DEF Spec, PhasesFollowTransitions

\* A step undoes no cancellation of a branch or of a run.
LEMMA StoppedStep == ASSUME IInv, [Next]_vars, NEW q \in Runs
                     PROVE  /\ branches[q] = "cancelled" => branches'[q] = "cancelled"
                            /\ q \in run_cancelled => status'[q] = "error"
<1>1. ASSUME NEW t \in Threads, BindTurn(t)
      PROVE  /\ branches[q] = "cancelled" => branches'[q] = "cancelled"
             /\ q \in run_cancelled => status'[q] = "error"
  BY <1>1 DEF BindTurn, Goto, IInv, TypeOK, BranchHistory, TerminalRun, budget,
     children, control
<1>2. ASSUME NEW t \in Threads, ClearCancelEvent(t)
      PROVE  /\ branches[q] = "cancelled" => branches'[q] = "cancelled"
             /\ q \in run_cancelled => status'[q] = "error"
  BY <1>2 DEF ClearCancelEvent, Goto, IInv, TypeOK, BranchHistory, TerminalRun,
     budget, children, control
<1>3. ASSUME NEW t \in Threads, ReserveToolCall(t)
      PROVE  /\ branches[q] = "cancelled" => branches'[q] = "cancelled"
             /\ q \in run_cancelled => status'[q] = "error"
  BY <1>3 DEF ReserveToolCall, Chatting, IInv, TypeOK, BranchHistory, TerminalRun,
     budget, children, control
<1>4. ASSUME NEW t \in Threads, NEW u \in Urls, ReserveWebFetch(t, u)
      PROVE  /\ branches[q] = "cancelled" => branches'[q] = "cancelled"
             /\ q \in run_cancelled => status'[q] = "error"
  BY <1>4 DEF ReserveWebFetch, Chatting, IInv, TypeOK, BranchHistory, TerminalRun,
     budget, children, control
<1>5. ASSUME NEW t \in Threads, Refuse(t)
      PROVE  /\ branches[q] = "cancelled" => branches'[q] = "cancelled"
             /\ q \in run_cancelled => status'[q] = "error"
  BY <1>5 DEF Refuse, Goto, Chatting, IInv, TypeOK, BranchHistory, TerminalRun,
     budget, children, control
<1>6. ASSUME NEW t \in Threads, AfterRefusal(t)
      PROVE  /\ branches[q] = "cancelled" => branches'[q] = "cancelled"
             /\ q \in run_cancelled => status'[q] = "error"
  BY <1>6 DEF AfterRefusal, Goto, BeginSynthesis, IInv, TypeOK, BranchHistory,
     TerminalRun, budget, children, control
<1>7. ASSUME NEW p \in Phases, Checkpoint(p)
      PROVE  /\ branches[q] = "cancelled" => branches'[q] = "cancelled"
             /\ q \in run_cancelled => status'[q] = "error"
  BY <1>7 DEF Checkpoint, Chatting, Transitions, IInv, TypeOK, BranchHistory,
     TerminalRun, budget, children, control
<1>8. ASSUME GapRound
      PROVE  /\ branches[q] = "cancelled" => branches'[q] = "cancelled"
             /\ q \in run_cancelled => status'[q] = "error"
  BY <1>8 DEF GapRound, Chatting, IInv, TypeOK, BranchHistory, TerminalRun, budget,
     children, control
<1>9. ASSUME NEW S \in SUBSET Runs, Dispatch(S)
      PROVE  /\ branches[q] = "cancelled" => branches'[q] = "cancelled"
             /\ q \in run_cancelled => status'[q] = "error"
  BY <1>9 DEF Dispatch, Chatting, IInv, TypeOK, BranchHistory, TerminalRun, budget,
     children, control
<1>10. ASSUME WaitReturns
      PROVE  /\ branches[q] = "cancelled" => branches'[q] = "cancelled"
             /\ q \in run_cancelled => status'[q] = "error"
  BY <1>10 DEF WaitReturns, Goto, Withdraw, IInv, TypeOK, BranchHistory,
     TerminalRun, budget, children, control
<1>11. ASSUME NEW r \in Runs, StopRun(r)
      PROVE  /\ branches[q] = "cancelled" => branches'[q] = "cancelled"
             /\ q \in run_cancelled => status'[q] = "error"
  BY <1>11 DEF StopRun, Goto, IInv, TypeOK, BranchHistory, TerminalRun, budget,
     children, control
<1>12. ASSUME StopBranch
      PROVE  /\ branches[q] = "cancelled" => branches'[q] = "cancelled"
             /\ q \in run_cancelled => status'[q] = "error"
  BY <1>12 DEF StopBranch, Goto, FinishBranch, BranchAfter, IInv, TypeOK,
     BranchHistory, TerminalRun, budget, children, control
<1>13. ASSUME StopAgent
      PROVE  /\ branches[q] = "cancelled" => branches'[q] = "cancelled"
             /\ q \in run_cancelled => status'[q] = "error"
  BY <1>13 DEF StopAgent, Goto, CancelSession, IInv, TypeOK, BranchHistory,
     TerminalRun, budget, children, control
<1>14. ASSUME StopFuture
      PROVE  /\ branches[q] = "cancelled" => branches'[q] = "cancelled"
             /\ q \in run_cancelled => status'[q] = "error"
  BY <1>14 DEF StopFuture, Withdraw, IInv, TypeOK, BranchHistory, TerminalRun,
     budget, children, control
<1>15. ASSUME ShutDownPool
      PROVE  /\ branches[q] = "cancelled" => branches'[q] = "cancelled"
             /\ q \in run_cancelled => status'[q] = "error"
  BY <1>15 DEF ShutDownPool, Withdraw, IInv, TypeOK, BranchHistory, TerminalRun,
     budget, children, control
<1>16. ASSUME ReleaseSubagents
      PROVE  /\ branches[q] = "cancelled" => branches'[q] = "cancelled"
             /\ q \in run_cancelled => status'[q] = "error"
  BY <1>16 DEF ReleaseSubagents, Goto, Monus, AllDone, IInv, TypeOK, BranchHistory,
     TerminalRun, budget, children, control
<1>17. ASSUME NEW x \in {"text", "interrupted", "error"}, ChatReturns(x)
      PROVE  /\ branches[q] = "cancelled" => branches'[q] = "cancelled"
             /\ q \in run_cancelled => status'[q] = "error"
  BY <1>17 DEF ChatReturns, Goto, Chatting, IInv, TypeOK, BranchHistory,
     TerminalRun, budget, children, control
<1>18. ASSUME NEW r \in Runs, StartRun(r)
      PROVE  /\ branches[q] = "cancelled" => branches'[q] = "cancelled"
             /\ q \in run_cancelled => status'[q] = "error"
  BY <1>18 DEF StartRun, Goto, IInv, TypeOK, BranchHistory, TerminalRun, budget,
     children, control
<1>19. ASSUME NEW r \in Runs, AssignAgent(r)
      PROVE  /\ branches[q] = "cancelled" => branches'[q] = "cancelled"
             /\ q \in run_cancelled => status'[q] = "error"
  BY <1>19 DEF AssignAgent, Goto, IInv, TypeOK, BranchHistory, TerminalRun, budget,
     children, control
<1>20. ASSUME NEW r \in Runs, SetupFails(r)
      PROVE  /\ branches[q] = "cancelled" => branches'[q] = "cancelled"
             /\ q \in run_cancelled => status'[q] = "error"
  BY <1>20 DEF SetupFails, Goto, StatusAfter, IInv, TypeOK, BranchHistory,
     TerminalRun, budget, children, control
<1>21. ASSUME NEW r \in Runs, SetRunning(r)
      PROVE  /\ branches[q] = "cancelled" => branches'[q] = "cancelled"
             /\ q \in run_cancelled => status'[q] = "error"
  BY <1>21 DEF SetRunning, Goto, StatusAfter, IInv, TypeOK, BranchHistory,
     TerminalRun, budget, children, control
<1>22. ASSUME NEW r \in Runs, FinishRun(r)
      PROVE  /\ branches[q] = "cancelled" => branches'[q] = "cancelled"
             /\ q \in run_cancelled => status'[q] = "error"
  <2>1. branches' = branches
        /\ status' = [status EXCEPT ![r] = StatusAfter(status[r], "done")]
    BY <1>22 DEF FinishRun, EndRun
  <2>2. \A z \in run_cancelled : status[z] = "error" /\ z \in Runs
    BY DEF IInv, BranchHistory, TypeOK
  <2>3. \A z \in Runs : status[z] = "error" => status'[z] = "error"
    BY <2>1 DEF StatusAfter, TerminalRun, IInv, TypeOK
  <2>4. QED
    BY <2>1, <2>2, <2>3
<1>23. ASSUME NEW r \in Runs, FailRun(r)
      PROVE  /\ branches[q] = "cancelled" => branches'[q] = "cancelled"
             /\ q \in run_cancelled => status'[q] = "error"
  <2>1. branches' = branches
        /\ status' = [status EXCEPT ![r] = StatusAfter(status[r], "error")]
    BY <1>23 DEF FailRun, EndRun
  <2>2. \A z \in run_cancelled : status[z] = "error" /\ z \in Runs
    BY DEF IInv, BranchHistory, TypeOK
  <2>3. \A z \in Runs : status[z] = "error" => status'[z] = "error"
    BY <2>1 DEF StatusAfter, TerminalRun, IInv, TypeOK
  <2>4. QED
    BY <2>1, <2>2, <2>3
<1>24. ASSUME NEW r \in Runs, RaiseInRun(r)
      PROVE  /\ branches[q] = "cancelled" => branches'[q] = "cancelled"
             /\ q \in run_cancelled => status'[q] = "error"
  BY <1>24 DEF RaiseInRun, Goto, IInv, TypeOK, BranchHistory, TerminalRun, budget,
     children, control
<1>25. ASSUME NEW r \in Runs, EndBranch(r)
      PROVE  /\ branches[q] = "cancelled" => branches'[q] = "cancelled"
             /\ q \in run_cancelled => status'[q] = "error"
  BY <1>25 DEF EndBranch, Goto, FinishBranch, BranchAfter, IInv, TypeOK,
     BranchHistory, TerminalRun, budget, children, control
<1>26. ASSUME Respond
      PROVE  /\ branches[q] = "cancelled" => branches'[q] = "cancelled"
             /\ q \in run_cancelled => status'[q] = "error"
  BY <1>26 DEF Respond, BeginSynthesis, CancelSession, IInv, TypeOK, BranchHistory,
     TerminalRun, budget, children, control
<1>27. ASSUME Complete
      PROVE  /\ branches[q] = "cancelled" => branches'[q] = "cancelled"
             /\ q \in run_cancelled => status'[q] = "error"
  BY <1>27 DEF Complete, IInv, TypeOK, BranchHistory, TerminalRun, budget, children,
     control
<1>28. ASSUME Saved
      PROVE  /\ branches[q] = "cancelled" => branches'[q] = "cancelled"
             /\ q \in run_cancelled => status'[q] = "error"
  BY <1>28 DEF Saved, IInv, TypeOK, BranchHistory, TerminalRun, budget, children,
     control
<1>29. ASSUME ReplyFails
      PROVE  /\ branches[q] = "cancelled" => branches'[q] = "cancelled"
             /\ q \in run_cancelled => status'[q] = "error"
  BY <1>29 DEF ReplyFails, CancelSession, IInv, TypeOK, BranchHistory, TerminalRun,
     budget, children, control
<1>30. ASSUME UserCancels
      PROVE  /\ branches[q] = "cancelled" => branches'[q] = "cancelled"
             /\ q \in run_cancelled => status'[q] = "error"
  BY <1>30 DEF UserCancels, CancelParent, CancelSession, IInv, TypeOK,
     BranchHistory, TerminalRun, budget, children, control
<1>31. ASSUME DeadlinePasses
      PROVE  /\ branches[q] = "cancelled" => branches'[q] = "cancelled"
             /\ q \in run_cancelled => status'[q] = "error"
  BY <1>31 DEF DeadlinePasses, CancelSession, IInv, TypeOK, BranchHistory,
     TerminalRun, budget, children, control
<1>32. ASSUME Tick
      PROVE  /\ branches[q] = "cancelled" => branches'[q] = "cancelled"
             /\ q \in run_cancelled => status'[q] = "error"
  BY <1>32 DEF Tick, IInv, TypeOK, BranchHistory, TerminalRun, budget, children,
     control
<1>33. CASE UNCHANGED vars
  BY <1>33 DEF vars, IInv, TypeOK, BranchHistory, TerminalRun, budget, children,
     control
<1>34. QED
  BY <1>1, <1>2, <1>3, <1>4, <1>5, <1>6, <1>7, <1>8, <1>9, <1>10, <1>11, <1>12,
     <1>13, <1>14, <1>15, <1>16, <1>17, <1>18, <1>19, <1>20, <1>21, <1>22, <1>23,
     <1>24, <1>25, <1>26, <1>27, <1>28, <1>29, <1>30, <1>31, <1>32, <1>33 DEF Next,
     ToolUse, Enter, MainStep, StopLate, Return, RunStep, PipelineStep, Threads

\* What the deadline stopped, no late answer brings back.
THEOREM StopsAreFinal == Spec => StoppedStays
<1>1. IInv /\ [Next]_vars =>
        [\A r \in Runs : /\ branches[r] = "cancelled" => branches'[r] = "cancelled"
                         /\ r \in run_cancelled => status'[r] = "error"]_vars
  BY StoppedStep
<1>2. QED
  BY InvariantHolds, <1>1, PTL DEF Spec, StoppedStays
==============================================================================

------------------------------ MODULE MCChatTurn ------------------------------
(* Instances of ChatTurn for TLC: some chats may call tools, or the chats of   *)
(* researches, with one intervention; or none, with two.                       *)
EXTENDS ChatTurn

CONSTANTS r1, r2, r4, A, B

VARIABLE part \* the instance that runs

\* Requests of one session, A, beside one of another.
MCSessionOf == [r \in Requests |-> IF r = r4 THEN B ELSE A]

Deep == INSTANCE ChatTurn WITH ToolUsers <- Research
Plain == INSTANCE ChatTurn WITH ToolUsers <- {}, MaxInterventions <- 2

ASSUME Deep!ChatAssumption /\ Plain!ChatAssumption

MCInit == \/ part \in {"tools", "deep"} /\ Init
          \/ part = "plain" /\ Plain!Init

MCNext ==
    /\ UNCHANGED part
    /\ \/ part = "tools" /\ Next
       \/ part = "deep" /\ Deep!Next
       \/ part = "plain" /\ Plain!Next

MCSpec == MCInit /\ [][MCNext]_<<part, vars>>

MCStep(r) ==
    /\ UNCHANGED part
    /\ \/ part = "tools" /\ Step(r)
       \/ part = "deep" /\ Deep!Step(r)
       \/ part = "plain" /\ Plain!Step(r)

\* Fairness, of the instance that runs.
MCFairSpec == MCSpec /\ \A r \in Requests : WF_vars(MCStep(r))
=============================================================================

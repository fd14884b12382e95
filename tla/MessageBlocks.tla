------------------------------ MODULE MessageBlocks ------------------------------
(* A history as Anthropic is sent it (src/core/agent/llm.py,                   *)
(* _messages_to_anthropic): messages of blocks, in turns of user and           *)
(* assistant.                                                                  *)
(*                                                                             *)
(* The history grows as an agent's does (AgentLoop): after an answer with      *)
(* calls come their results, one message each.  An answer of Anthropic keeps   *)
(* its blocks, one of another provider has a text and calls only, and the      *)
(* provider may be changed at any time.  What a block says is left out.        *)
EXTENDS Integers, Sequences, SequencesExt

CONSTANTS
    MaxMessages, \* bound: messages of a history
    MaxCalls     \* bound: calls of an answer

VARIABLES history, open  \* the messages, and the calls that wait for their results

blockVars == <<history, open>>

Text == [type |-> "text"]
Thinking == [type |-> "thinking"]
Use(id) == [type |-> "tool_use", id |-> id]
Outcome(id) == [type |-> "tool_result", id |-> id]

Ids(i, n) == [k \in 1 .. n |-> <<i, k>>]

Init == history = <<>> /\ open = <<>>

Fresh == Len(history) < MaxMessages /\ open = <<>>

\* A message of the user may be empty, or hold images that cannot be sent; system
\* messages stand anywhere.
Say(role, blocks) ==
    /\ Fresh
    /\ history' = Append(history, [role |-> role, blocks |-> blocks, kept |-> FALSE, calls |-> <<>>])
    /\ UNCHANGED open

\* An answer: kept as blocks, or as a text and calls; an interrupted one may be empty.
Answer(text, thinking, n, kept) ==
    /\ Fresh
    /\ LET said == IF text THEN <<Text>> ELSE <<>>
           thought == IF thinking THEN <<Thinking>> ELSE <<>>
           ids == Ids(Len(history) + 1, n)
       IN  /\ history' = Append(history,
                 [role |-> "assistant", kept |-> kept, calls |-> ids,
                  blocks |-> IF kept THEN thought \o said \o [k \in 1 .. n |-> Use(ids[k])] ELSE said])
           /\ open' = ids

Result ==
    /\ open # <<>>
    /\ history' = Append(history, [role |-> "tool", blocks |-> <<Outcome(Head(open))>>,
                                   kept |-> FALSE, calls |-> <<>>])
    /\ open' = Tail(open)

Next ==
    \/ \E blocks \in {<<>>, <<Text>>} : Say("user", blocks)
    \/ Say("system", <<Text>>)
    \/ \E text, thinking, kept \in BOOLEAN, n \in 0 .. MaxCalls : Answer(text, thinking, n, kept)
    \/ Result

-----------------------------------------------------------------------------
(* The conversion.                                                            *)

\* Fault: every message of the history is one of the request.
AppendedApart(out, role, blocks) == Append(out, [role |-> role, content |-> blocks])

\* Blocks of the role that spoke last join its message.
Appended(out, role, blocks) ==
    IF out # <<>> /\ Last(out).role = role
    THEN [out EXCEPT ![Len(out)].content = @ \o blocks]
    ELSE Append(out, [role |-> role, content |-> blocks])

Said(out, role, blocks) == IF blocks = <<>> THEN out ELSE Appended(out, role, blocks)

\* The blocks of an answer: those kept, if any is left, or its text and calls.
AnswerBlocks(m) ==
    IF m.kept /\ m.blocks # <<>> THEN m.blocks
    ELSE m.blocks \o [k \in DOMAIN m.calls |-> Use(m.calls[k])]

\* Fault: results go where the next message of a user goes.
FlushedForUser(acc, role) == IF role = "user" THEN Said(acc.out, "user", acc.results) ELSE acc.out

\* Results that have been collected precede whatever comes next.
Flushed(acc, role) == Said(acc.out, "user", acc.results)

\* Results are collected, system messages go elsewhere.
Converted1(acc, m) ==
    IF m.role = "system" THEN acc
    ELSE IF m.role = "tool" THEN [acc EXCEPT !.results = @ \o m.blocks]
    ELSE [out |-> Said(Flushed(acc, m.role), m.role,
                       IF m.role = "assistant" THEN AnswerBlocks(m) ELSE m.blocks),
          results |-> <<>>]

Converted(messages) ==
    LET acc == FoldLeft(Converted1, [out |-> <<>>, results |-> <<>>], messages)
    IN  Said(acc.out, "user", acc.results)

-----------------------------------------------------------------------------
(* Properties.                                                                *)

Used(m) == {m.content[i].id : i \in {j \in DOMAIN m.content : m.content[j].type = "tool_use"}}
Answered(m) == {m.content[i].id : i \in {j \in DOMAIN m.content : m.content[j].type = "tool_result"}}

\* What is sent between rounds is what Anthropic takes: user and assistant by turns, no
\* message empty, each message's calls answered by the next one, before all else it says;
\* and no call or result of the history is missing (llm.py, _messages_to_anthropic).
RequestIsValid ==
    open = <<>> =>
        LET sent == Converted(history)
            calls == UNION {Range(history[i].calls) : i \in DOMAIN history}
        IN  /\ \A i \in DOMAIN sent : sent[i].content # <<>>
            /\ \A i \in 2 .. Len(sent) : sent[i].role # sent[i - 1].role
            /\ \A i \in DOMAIN sent :
                  Used(sent[i]) # {} =>
                      i < Len(sent) /\ Answered(sent[i + 1]) = Used(sent[i])
            /\ \A i \in DOMAIN sent, j, k \in 1 .. MaxMessages * MaxCalls :
                  /\ j < k /\ k <= Len(sent[i].content)
                  /\ sent[i].content[k].type = "tool_result"
                  => sent[i].content[j].type = "tool_result"
            /\ calls = UNION {Used(sent[i]) : i \in DOMAIN sent}
            /\ calls = UNION {Answered(sent[i]) : i \in DOMAIN sent}
=============================================================================

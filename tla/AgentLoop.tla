------------------------------- MODULE AgentLoop -------------------------------
(***************************************************************************)
(* The loop in which an agent answers one message (core/agent/agent.py):   *)
(* model call, tool calls, model call ..., over one history that is        *)
(* compressed on the way (core/agent/context.py), with the cancellation    *)
(* that the streams of core/agent/llm.py look at.                          *)
(*                                                                         *)
(* A chat runs in a thread.  The pipeline starts one at a time, but it     *)
(* gives up a research turn at its deadline and lets the next one start    *)
(* while the thread of the old one is still on its way: two chats then     *)
(* share the history, the cancel event and the binding of the agent.       *)
(***************************************************************************)
EXTENDS Naturals, Sequences

CONSTANTS Turns,         \* messages to be answered
          Research,      \* those answered in deepresearch mode, with a deadline
          None,
          MaxRounds,     \* max_rounds
          MaxCalls,      \* bound: tool calls in one answer of the model
          SummarizeAbove, KeepRecent, \* 10 and 8 in maybe_compress
          KeepLast       \* 4 in _hard_collapse

LoopAssumption ==
    /\ Research \subseteq Turns /\ None \notin Turns
    /\ {MaxRounds, MaxCalls, SummarizeAbove, KeepRecent, KeepLast} \subseteq Nat
    /\ KeepLast <= KeepRecent /\ KeepRecent < SummarizeAbove

VARIABLES
    messages,    \* Agent.messages
    cancelled,   \* _cancel_event
    interrupted, \* _was_cancelled
    bound,       \* the turn whose mode and session are bound
    holder,      \* the turn the pipeline waits for
    at,          \* where the chat of each turn is
    round,       \* its rounds so far
    calls,       \* tool calls of the answer it works on
    kept,        \* the tail that its compression has set aside
    abandoned,   \* turns given up at their deadline
    torn         \* history: a tool round ended without its results

signals == <<cancelled, interrupted>>
chat == <<at, round, calls, kept>>
vars == <<messages, signals, bound, holder, chat, abandoned, torn>>

ModeOf(t) == IF t \in Research THEN "deepresearch" ELSE "agent"
Message(role, t, r, n) == [role |-> role, turn |-> t, round |-> r, n |-> n]
User(t) == Message("user", t, 0, 0)
Answer(t, n) == Message("assistant", t, round[t], n)
Result(t, r, k) == Message("tool", t, r, k)
Results(t) == [k \in 1..calls[t] |-> Result(t, round[t], k)]
Summary == Message("summary", None, 0, 0)
Newest(n) == SubSeq(messages, Len(messages) - n + 1, Len(messages))

Goto(t, s) == at' = [at EXCEPT ![t] = s]
Compressing == {t \in Turns : at[t] \in {"summarizing", "collapsing"}}

Init ==
    /\ messages = <<>> /\ cancelled = FALSE /\ interrupted = FALSE
    /\ bound = None /\ holder = None
    /\ at = [t \in Turns |-> "new"] /\ round = [t \in Turns |-> 0]
    /\ calls = [t \in Turns |-> 0] /\ kept = [t \in Turns |-> <<>>]
    /\ abandoned = {} /\ torn = FALSE

----------------------------------------------------------------------------
\* chat and the head of _chat_impl: the turn is bound, the cancel event cleared
\* whoever it was meant for, the message appended (with a notice if the turn
\* before was interrupted).
Begin(t) ==
    /\ holder = None /\ at[t] = "new"
    /\ holder' = t /\ bound' = t
    /\ cancelled' = FALSE /\ interrupted' = FALSE
    /\ messages' = Append(messages, User(t))
    /\ Goto(t, "compressing")
    /\ UNCHANGED <<round, calls, kept, abandoned, torn>>

(* Fault: whoever ends takes the binding away. *)
ChatEndsUnbound(t) ==
    /\ Goto(t, "over")
    /\ bound' = None
    /\ holder' = IF holder = t THEN None ELSE holder
    /\ round' = [round EXCEPT ![t] = 0] /\ calls' = [calls EXCEPT ![t] = 0]

\* The chat returns or raises: its own binding is taken away, and the pipeline
\* goes on if it still waits.
ChatEnds(t) ==
    /\ Goto(t, "over")
    /\ bound' = IF bound = t THEN None ELSE bound
    /\ holder' = IF holder = t THEN None ELSE holder
    /\ round' = [round EXCEPT ![t] = 0] /\ calls' = [calls EXCEPT ![t] = 0]

----------------------------------------------------------------------------
\* maybe_compress holds its lock; the tail is cut off before the model is asked
\* for a summary of the rest.
Cut(t, how, n) ==
    /\ Compressing = {}
    /\ kept' = [kept EXCEPT ![t] = Newest(n)]
    /\ Goto(t, how)
    /\ UNCHANGED <<messages, signals, bound, holder, round, calls, abandoned, torn>>

Summarize(t) ==
    /\ at[t] = "compressing" /\ Len(messages) > SummarizeAbove
    /\ Cut(t, "summarizing", KeepRecent)

Collapse(t) ==
    /\ at[t] = "compressing" /\ Len(messages) > KeepLast
    /\ Cut(t, "collapsing", KeepLast)

\* messages.clear(), the summary, its acknowledgement and the tail.  A history
\* that is still too long after the first layer is collapsed.
Replace(t) ==
    /\ t \in Compressing
    /\ messages' = <<Summary, Summary>> \o kept[t]
    /\ kept' = [kept EXCEPT ![t] = <<>>]
    /\ \E next \in IF at[t] = "summarizing" THEN {"compressing", "calling"} ELSE {"calling"} :
         Goto(t, next)
    /\ UNCHANGED <<signals, bound, holder, round, calls, abandoned, torn>>

\* The history is short enough, or only tool outputs are snipped.
Skip(t) ==
    /\ at[t] = "compressing" /\ Compressing = {}
    /\ Goto(t, "calling")
    /\ UNCHANGED <<messages, signals, bound, holder, round, calls, kept, abandoned, torn>>

----------------------------------------------------------------------------
\* The head of a round: out of rounds, cancelled, or the model is called.
Call(t) ==
    /\ at[t] = "calling"
    /\ IF round[t] = MaxRounds \/ cancelled
       THEN /\ ChatEnds(t)
            /\ interrupted' = (interrupted \/ round[t] < MaxRounds)
       ELSE /\ Goto(t, "streaming")
            /\ UNCHANGED <<interrupted, bound, holder, round, calls>>
    /\ UNCHANGED <<messages, cancelled, kept, abandoned, torn>>

\* The stream ends, or breaks off because of the cancel event: what it brought is
\* returned and not kept.
Reply(t) ==
    /\ at[t] = "streaming"
    /\ IF cancelled
       THEN ChatEnds(t) /\ interrupted' = TRUE /\ UNCHANGED messages
       ELSE \E n \in 0..MaxCalls :
              /\ messages' = Append(messages, Answer(t, n))
              /\ IF n = 0 THEN ChatEnds(t)
                 ELSE /\ Goto(t, "tools") /\ calls' = [calls EXCEPT ![t] = n]
                      /\ UNCHANGED <<bound, holder, round>>
              /\ UNCHANGED interrupted
    /\ UNCHANGED <<cancelled, kept, abandoned, torn>>

\* All retries of the request have failed.
ModelFails(t) ==
    /\ at[t] = "streaming"
    /\ ChatEnds(t)
    /\ UNCHANGED <<messages, signals, kept, abandoned, torn>>

(* Fault: a cancelled round returns before its results are appended. *)
ToolsEndUnrecorded(t) ==
    /\ at[t] = "tools"
    /\ messages' = IF cancelled THEN messages ELSE messages \o Results(t)
    /\ IF cancelled
       THEN ChatEnds(t) /\ interrupted' = TRUE
       ELSE /\ Goto(t, "compressing")
            /\ round' = [round EXCEPT ![t] = @ + 1] /\ calls' = [calls EXCEPT ![t] = 0]
            /\ UNCHANGED <<interrupted, bound, holder>>
    /\ UNCHANGED <<cancelled, kept, abandoned, torn>>

\* _exec_tools_serial or _parallel has a result for every call, unknown, forbidden
\* and failing tools included; all are appended (the message with the images
\* among them counts with the last) and only then is the cancel event looked at.
ToolsEnd(t) ==
    /\ at[t] = "tools"
    /\ messages' = messages \o Results(t)
    /\ IF cancelled
       THEN ChatEnds(t) /\ interrupted' = TRUE
       ELSE /\ Goto(t, "compressing")
            /\ round' = [round EXCEPT ![t] = @ + 1] /\ calls' = [calls EXCEPT ![t] = 0]
            /\ UNCHANGED <<interrupted, bound, holder>>
    /\ UNCHANGED <<cancelled, kept, abandoned, torn>>

\* A result that is too long cannot be written to the result store: the error
\* leaves the chat, and the calls stay without results.
SpillFails(t) ==
    /\ at[t] = "tools"
    /\ ChatEnds(t)
    /\ torn' = TRUE
    /\ UNCHANGED <<messages, signals, kept, abandoned>>

----------------------------------------------------------------------------
\* Agent.cancel for the turn that is served.
Cancel ==
    /\ holder # None /\ ~cancelled
    /\ cancelled' = TRUE
    /\ UNCHANGED <<messages, interrupted, bound, holder, chat, abandoned, torn>>

\* _await_research_response: at the deadline the pipeline cancels the agent and
\* goes on; the thread does not end with the future.
Abandon(t) ==
    /\ t \in Research /\ holder = t
    /\ cancelled' = TRUE
    /\ holder' = None
    /\ abandoned' = abandoned \cup {t}
    /\ UNCHANGED <<messages, interrupted, bound, chat, torn>>

Step(t) ==
    \/ Summarize(t) \/ Collapse(t) \/ Replace(t) \/ Skip(t)
    \/ Call(t) \/ Reply(t) \/ ModelFails(t) \/ ToolsEnd(t) \/ SpillFails(t)

Next ==
    \/ \E t \in Turns : Begin(t) \/ Step(t) \/ Abandon(t)
    \/ Cancel

Spec == Init /\ [][Next]_vars

----------------------------------------------------------------------------
TypeOK ==
    /\ \A i \in DOMAIN messages :
         /\ messages[i].role \in {"user", "assistant", "tool", "summary"}
         /\ messages[i].turn \in Turns \cup {None}
         /\ messages[i].round \in 0..MaxRounds /\ messages[i].n \in 0..MaxCalls
    /\ cancelled \in BOOLEAN /\ interrupted \in BOOLEAN /\ torn \in BOOLEAN
    /\ bound \in Turns \cup {None} /\ holder \in Turns \cup {None}
    /\ at \in [Turns -> {"new", "compressing", "summarizing", "collapsing", "calling",
                         "streaming", "tools", "over"}]
    /\ round \in [Turns -> 0..MaxRounds] /\ calls \in [Turns -> 0..MaxCalls]
    /\ abandoned \subseteq Research

Answered(i) ==
    \A k \in 1..messages[i].n :
        /\ i + k \in DOMAIN messages
        /\ messages[i + k] = Result(messages[i].turn, messages[i].round, k)
HasCall(i) ==
    LET k == messages[i].n
    IN  /\ i > k
        /\ messages[i - k].role = "assistant" /\ messages[i - k].n >= k
        /\ messages[i - k].turn = messages[i].turn /\ messages[i - k].round = messages[i].round
\* The call is in the part that has been summarized.
Orphaned(i) ==
    /\ i > 2 /\ messages[1] = Summary
    /\ \A j \in 3..i : messages[j].role = "tool"

\* What the next request carries: every call is followed by its results in order,
\* and a result without its call stands right behind a summary, whatever was
\* cancelled or compressed (_append_tool_results, _summarize_old,
\* _hard_collapse).  Two chats on one history, or a result that could not be
\* stored, are the exceptions.
CallsAndResultsPair ==
    abandoned = {} /\ ~torn =>
        \A i \in DOMAIN messages :
            /\ messages[i].role = "assistant" =>
                 Answered(i) \/ (i = Len(messages) /\ \E t \in Turns : at[t] = "tools")
            /\ messages[i].role = "tool" => HasCall(i) \/ Orphaned(i)

\* The turn the pipeline waits for keeps its own binding, whatever chats of
\* abandoned turns end beside it (unbind_turn's token).
BindingIsOwn == holder # None => bound = holder

----------------------------------------------------------------------------
(***************************************************************************)
(* The parts of the inductive invariant behind these properties.           *)
(***************************************************************************)
Messages == [role : {"user", "assistant", "tool", "summary"}, turn : Turns \cup {None},
             round : 0..MaxRounds, n : 0..MaxCalls]

\* The history and the tails set aside are sequences of messages.
HistoryTyped == messages \in Seq(Messages) /\ kept \in [Turns -> Seq(Messages)]

\* The model is only called within the rounds there are.
CallsBounded ==
    \A t \in Turns :
        /\ at[t] \in {"streaming", "tools"} => round[t] < MaxRounds
        /\ at[t] = "tools" => calls[t] >= 1

\* As long as no turn was given up, the only chat is the one the pipeline waits for.
OneChat == abandoned = {} => \A t \in Turns : at[t] \notin {"new", "over"} => holder = t

\* A chat that runs its tools has just asked for them.
CallIsLast ==
    abandoned = {} /\ ~torn =>
        \A t \in Turns : at[t] = "tools" =>
            messages # <<>> /\ messages[Len(messages)] = Answer(t, calls[t])

\* A summary is followed by its acknowledgement and at least the shorter tail.
SummaryHasTail ==
    abandoned = {} /\ ~torn /\ messages # <<>> /\ messages[1] = Summary =>
        Len(messages) >= KeepLast + 2

\* What is set aside is still the tail of the history, and leaves a summary and its
\* acknowledgement out.
TailIsKept ==
    abandoned = {} /\ ~torn =>
        \A t \in Compressing :
            \E n \in KeepLast..(Len(messages) - 1) :
                /\ kept[t] = Newest(n)
                /\ messages[1] = Summary => n + 2 <= Len(messages)

IInv ==
    /\ TypeOK /\ HistoryTyped /\ BindingIsOwn
    /\ CallsBounded /\ OneChat /\ CallIsLast /\ SummaryHasTail /\ TailIsKept
    /\ CallsAndResultsPair
=============================================================================

------------------------------ MODULE ModelStream ------------------------------
(* The answer of a model as it streams in (src/core/agent/llm.py).             *)
(*                                                                             *)
(* A compatible provider sends text in chunks cut anywhere: what stands        *)
(* between <think> tags is split off while it arrives.  Anthropic sends blocks *)
(* and their parts; a connection that breaks is opened again, from the         *)
(* beginning.  Readers are told each piece at once, on either way the user may *)
(* interrupt, and what has arrived is then the answer.                         *)
(*                                                                             *)
(* A text is a sequence of symbols: the tags are cut where they begin to       *)
(* differ, Other is any other text.  A part of a block is named by the block   *)
(* and its number.  Token counts, signatures and arguments' JSON are left out. *)
EXTENDS Integers, Sequences, SequencesExt

CONSTANTS
    Texts,    \* the texts a provider may send, as sequences of symbols
    MaxChunk, \* bound: symbols of a chunk
    Plans,    \* the answers of Anthropic: sequences of blocks, each its kind and parts
    MaxTries  \* how often a stream is opened

\* The tags: both begin with "<" and end with "think>", here in two parts.
START == <<"<", "th", "ink>">>
END == <<"<", "/", "th", "ink>">>
Other == "x"

VARIABLES
    format,   \* openai, or anthropic
    text,     \* what the provider sends
    fed,      \* how much of it has arrived
    tags,     \* the splitter: its buffer and depth, and what it has split
    cut,      \* a chunk ended within a tag that opens inside of thinking
    plan, at, \* what Anthropic sends, and the block and part that come next
    blocks,   \* the parts of every block so far, the opening's is 0
    content, told, \* the parts of the answer, and of every answer begun
    tries,
    step

streamVars == <<format, text, fed, tags, cut, plan, at, blocks, content, told, tries, step>>

-----------------------------------------------------------------------------
(* The splitter.                                                              *)

Found(mark, seq) == {i \in 1 .. Len(seq) - Len(mark) + 1 : SubSeq(seq, i, i + Len(mark) - 1) = mark}
First(mark, seq) == CHOOSE i \in Found(mark, seq) : \A j \in Found(mark, seq) : i <= j

\* The longest end of a text that may still become a mark.
KeptSuffix(seq, mark) ==
    LET sizes == {n \in 1 .. Len(mark) - 1 :
                     n <= Len(seq) /\ IsPrefix(SubSeq(seq, Len(seq) - n + 1, Len(seq)), mark)}
    IN  IF sizes = {} THEN 0 ELSE CHOOSE n \in sizes : \A m \in sizes : m <= n

Emitted(s, out, rest) ==
    IF s.depth > 0 THEN [s EXCEPT !.thinking = @ \o out, !.buffer = rest]
    ELSE [s EXCEPT !.visible = @ \o out, !.buffer = rest]

\* Fault: a tag inside of thinking is not counted.
MarksShallow(s) == {IF s.depth > 0 THEN END ELSE START}

\* Inside of thinking both tags count, outside only the opening one.
Marks(s) == IF s.depth > 0 THEN {START, END} ELSE {START}

\* Fault: an unfinished mark is passed on with the text.
KeepNothing(s, final) == 0

Keep(s, final) == IF final THEN 0 ELSE KeptSuffix(s.buffer, IF s.depth > 0 THEN END ELSE START)

\* The buffer is emptied up to an unfinished mark; in the end nothing is kept.
RECURSIVE Drained(_, _)
Drained(s, final) ==
    LET present == {m \in Marks(s) : Found(m, s.buffer) # {}}
        mark == CHOOSE m \in present : \A n \in present : First(m, s.buffer) <= First(n, s.buffer)
        i == First(mark, s.buffer)
        kept == Keep(s, final)
    IN  IF s.buffer = <<>> THEN s
        ELSE IF present = {}
        THEN Emitted(s, SubSeq(s.buffer, 1, Len(s.buffer) - kept),
                     SubSeq(s.buffer, Len(s.buffer) - kept + 1, Len(s.buffer)))
        ELSE LET before == Emitted(s, SubSeq(s.buffer, 1, i - 1),
                                   SubSeq(s.buffer, i + Len(mark), Len(s.buffer)))
             IN  Drained([before EXCEPT !.depth = IF mark = START THEN @ + 1 ELSE @ - 1], final)

Empty == [buffer |-> <<>>, depth |-> 0, visible |-> <<>>, thinking |-> <<>>]

\* What a text means: by the tags of the whole of it, depth by depth.
RECURSIVE Meant(_, _)
Meant(s, depth) ==
    IF s = <<>> THEN [visible |-> <<>>, thinking |-> <<>>]
    ELSE IF IsPrefix(START, s) THEN Meant(SubSeq(s, 4, Len(s)), depth + 1)
    ELSE IF depth > 0 /\ IsPrefix(END, s) THEN Meant(SubSeq(s, 5, Len(s)), depth - 1)
    ELSE LET rest == Meant(Tail(s), depth)
         IN  IF depth > 0 THEN [rest EXCEPT !.thinking = <<Head(s)>> \o @]
             ELSE [rest EXCEPT !.visible = <<Head(s)>> \o @]

-----------------------------------------------------------------------------
Init ==
    /\ \/ format = "openai" /\ text \in Texts /\ plan = <<>>
       \/ format = "anthropic" /\ text = <<>> /\ plan \in Plans
    /\ fed = 0 /\ tags = Empty /\ cut = FALSE
    /\ at = <<1, 0>> /\ blocks = <<>> /\ content = <<>> /\ told = <<>>
    /\ tries = 1 /\ step = "streaming"

\* A chunk of text; a tag that opens within thinking is only kept as far as it could
\* still be the closing one.
Chunk ==
    /\ format = "openai" /\ step = "streaming" /\ fed < Len(text)
    /\ \E n \in 1 .. MaxChunk :
          /\ fed + n <= Len(text)
          /\ fed' = fed + n
          /\ tags' = Drained([tags EXCEPT !.buffer = @ \o SubSeq(text, fed + 1, fed + n)], FALSE)
    /\ cut' = (cut \/ (tags'.depth > 0 /\ IsSuffix(<<"<", "th">>, SubSeq(text, 1, fed'))))
    /\ UNCHANGED <<format, text, plan, at, blocks, content, told, tries, step>>

\* The stream is over, or the user interrupts it between two chunks: the rest of the
\* buffer is text.
Ends ==
    /\ format = "openai" /\ step = "streaming"
    /\ tags' = Drained(tags, TRUE)
    /\ step' = IF fed = Len(text) THEN "ended" ELSE "interrupted"
    /\ UNCHANGED <<format, text, fed, cut, plan, at, blocks, content, told, tries>>

-----------------------------------------------------------------------------
(* Anthropic's blocks.                                                        *)

\* A block's opening may carry text, its deltas follow one by one.
Opens(i) == [kind |-> plan[i].kind, parts |-> IF plan[i].opening THEN <<<<i, 0>>>> ELSE <<>>]

Told(part) == content' = Append(content, part) /\ told' = Append(told, part)

BlockStart ==
    /\ format = "anthropic" /\ step = "streaming" /\ at[1] <= Len(plan) /\ at[2] = 0
    /\ blocks' = Append(blocks, Opens(at[1]))
    /\ at' = IF plan[at[1]].deltas = 0 THEN <<at[1] + 1, 0>> ELSE <<at[1], 1>>
    /\ UNCHANGED <<format, text, fed, tags, cut, plan, content, told, tries, step>>

BlockDelta ==
    /\ format = "anthropic" /\ step = "streaming" /\ at[1] <= Len(plan) /\ at[2] > 0
    /\ blocks' = [blocks EXCEPT ![at[1]].parts = Append(@, at)]
    /\ IF plan[at[1]].kind = "text" THEN Told(at) ELSE UNCHANGED <<content, told>>
    /\ at' = IF at[2] = plan[at[1]].deltas THEN <<at[1] + 1, 0>> ELSE <<at[1], at[2] + 1>>
    /\ UNCHANGED <<format, text, fed, tags, cut, plan, tries, step>>

\* The connection breaks, or is closed by a change of the settings: the stream is opened
\* anew, with nothing kept but what was told.
Break ==
    /\ format = "anthropic" /\ step = "streaming"
    /\ IF tries < MaxTries
       THEN /\ tries' = tries + 1 /\ at' = <<1, 0>> /\ blocks' = <<>> /\ content' = <<>>
            /\ UNCHANGED step
       ELSE step' = "failed" /\ UNCHANGED <<tries, at, blocks, content>>
    /\ UNCHANGED <<format, text, fed, tags, cut, plan, told>>

\* Blocks of which no delta came, and text.
Openings ==
    {i \in DOMAIN blocks : blocks[i].kind = "text" /\ blocks[i].parts = <<<<i, 0>>>>}

\* Fault: the text of every opening is told in the end.
FinishAll ==
    /\ format = "anthropic" /\ step = "streaming"
    /\ LET late == SetToSortSeq({<<i, 0>> : i \in {j \in DOMAIN blocks : blocks[j].kind = "text"}},
                                LAMBDA a, b : a[1] < b[1])
       IN  content' = content \o late /\ told' = told \o late
    /\ step' = IF at[1] > Len(plan) THEN "ended" ELSE "interrupted"
    /\ UNCHANGED <<format, text, fed, tags, cut, plan, at, blocks, tries>>

\* The stream is over or interrupted: what only came with an opening is told now.
Finish ==
    /\ format = "anthropic" /\ step = "streaming"
    /\ LET late == SetToSortSeq({<<i, 0>> : i \in Openings}, LAMBDA a, b : a[1] < b[1])
       IN  content' = content \o late /\ told' = told \o late
    /\ step' = IF at[1] > Len(plan) THEN "ended" ELSE "interrupted"
    /\ UNCHANGED <<format, text, fed, tags, cut, plan, at, blocks, tries>>

Next == Chunk \/ Ends \/ BlockStart \/ BlockDelta \/ Break \/ Finish

-----------------------------------------------------------------------------
(* Properties.                                                                *)

\* However a text is cut into chunks, and wherever it is interrupted, what is shown and
\* what is thought is what the tags of the received text mean; unless a chunk ended within
\* a tag that opens inside of thinking (llm.py, _ThinkingTagSplitter).
SplitAsMeant ==
    format = "openai" /\ step \in {"ended", "interrupted"} /\ ~cut =>
        LET meant == Meant(SubSeq(text, 1, fed), 0)
        IN  tags.visible = meant.visible /\ tags.thinking = meant.thinking

\* What is shown while it streams is never taken back: it is what the received text means,
\* up to a mark that is not finished (llm.py, _ThinkingTagSplitter.feed).
ShownSoFar ==
    format = "openai" /\ ~cut =>
        IsPrefix(tags.visible, Meant(SubSeq(text, 1, fed), 0).visible)

\* The answer is the end of what its readers were told, all of it if the stream was opened
\* once; no part is told twice in it, and all of it stands in the blocks that go back to
\* the model with the next request (llm.py, _chat_anthropic_once).
AnswerIsTold ==
    format = "anthropic" =>
        /\ IsSuffix(content, told) /\ (tries = 1 => told = content)
        /\ \A i, j \in DOMAIN content : content[i] = content[j] => i = j
        /\ \A p \in Range(content) : p[1] \in DOMAIN blocks /\ p \in Range(blocks[p[1]].parts)
        /\ step \in {"ended", "interrupted"} =>
              \A i \in DOMAIN blocks :
                 blocks[i].kind = "text" /\ blocks[i].parts # <<>> =>
                    \E p \in Range(content) : p[1] = i

StreamHolds == SplitAsMeant /\ ShownSoFar /\ AnswerIsTold
=============================================================================

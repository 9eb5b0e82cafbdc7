----------------------------- MODULE FenceParser -----------------------------
(***************************************************************************)
(* savvagent-fence: the push parser that cuts `html-canvas` fences out of  *)
(* the text a model streams. Text arrives in fragments of any size; a line *)
(* that may still become a marker is held back, everything else goes out   *)
(* at once.                                                                *)
(*                                                                         *)
(* Text is a sequence of tokens: a run of three backticks, "html-canvas",  *)
(* a line feed, a carriage return, a blank (space or tab), any other white *)
(* space of Unicode, and anything else. Chunks of one kind are joined, as  *)
(* all consumers do.                                                       *)
(***************************************************************************)
EXTENDS Naturals, Sequences, SequencesExt

CONSTANTS
    MaxText,         \* bound: tokens in a text
    MaxFragment      \* bound: tokens in a fragment

VARIABLES
    text,            \* what has been pushed
    buf,             \* FenceParser::buf
    inside_canvas,   \* FenceParser::inside_canvas
    out,             \* the chunks so far, as pairs of kind and token
    finished,
    parted           \* history: a fragment has ended in a carriage return

vars == <<text, buf, inside_canvas, out, finished, parted>>

Tokens    == {"ticks", "canvas", "newline", "return", "blank", "space", "other"}
Fragments == UNION {[1 .. n -> Tokens] : n \in 1 .. MaxFragment}
Kinds     == {"text", "html"}

TypeOK ==
    /\ text \in Seq(Tokens) /\ buf \in Seq(Tokens)
    /\ inside_canvas \in BOOLEAN /\ finished \in BOOLEAN /\ parted \in BOOLEAN
    /\ out \in Seq(Kinds \X Tokens)

-----------------------------------------------------------------------------
Opening == <<"ticks", "canvas">>
Closing == <<"ticks">>
Marker(inside) == IF inside THEN Closing ELSE Opening

\* append_text, append_html.
Chunk(inside, s) == [i \in DOMAIN s |-> <<IF inside THEN "html" ELSE "text", s[i]>>]

\* The line is the marker once trim_start has taken white space of any kind before it,
\* and trim_end_matches the line feed and all carriage returns after it.
IsMarker(inside, line) ==
    \E i, j \in 0 .. Len(line) :
        /\ SubSeq(line, i + 1, j) = Marker(inside)
        /\ \A k \in 1 .. i : line[k] \in {"blank", "space", "return"}
        /\ \A k \in j + 1 .. Len(line) : line[k] \in {"return", "newline"}

\* consume_line: a marker toggles and is not emitted. The line feed may be missing.
ConsumeLine(p, line) ==
    IF IsMarker(p.inside, line)
    THEN [p EXCEPT !.inside = ~p.inside]
    ELSE [p EXCEPT !.out = @ \o Chunk(p.inside, line)]

Feed(p, token) ==
    LET line == Append(p.buf, token) IN
    IF token = "newline" THEN [ConsumeLine(p, line) EXCEPT !.buf = << >>]
    ELSE [p EXCEPT !.buf = line]

\* The while loop of push, token by token.
Fed(p, fragment) ==
    LET after[i \in 0 .. Len(fragment)] ==
            IF i = 0 THEN p ELSE Feed(after[i - 1], fragment[i])
    IN  after[Len(fragment)]

\* Variant: text is held back only when it is the whole marker.
SplitSafeFlushWhole(p) ==
    IF IsMarker(p.inside, p.buf) THEN p
    ELSE [p EXCEPT !.out = @ \o Chunk(p.inside, p.buf), !.buf = << >>]

\* What follows the blanks is the marker as far as it goes. Other white space before the
\* marker, and a carriage return after it, are not foreseen.
MayBeMarker(inside, tail) ==
    \E i \in 0 .. Len(tail) :
        /\ IsPrefix(SubSeq(tail, i + 1, Len(tail)), Marker(inside))
        /\ \A k \in 1 .. i : tail[k] = "blank"

\* split_safe_flush: the tail is held while it may become a marker.
SplitSafeFlush(p) ==
    IF MayBeMarker(p.inside, p.buf) THEN p
    ELSE [p EXCEPT !.out = @ \o Chunk(p.inside, p.buf), !.buf = << >>]

Parser == [buf |-> buf, inside |-> inside_canvas, out |-> out]
PushInto(p, fragment) == SplitSafeFlush(Fed(p, fragment))
FinishOf(p) == IF p.buf = << >> THEN p ELSE [ConsumeLine(p, p.buf) EXCEPT !.buf = << >>]

Becomes(p) == buf' = p.buf /\ inside_canvas' = p.inside /\ out' = p.out

-----------------------------------------------------------------------------
New == [buf |-> << >>, inside |-> FALSE, out |-> << >>]

Init ==
    /\ text = << >> /\ finished = FALSE /\ parted = FALSE
    /\ buf = New.buf /\ inside_canvas = New.inside /\ out = New.out

Push(fragment) ==
    /\ ~finished /\ Len(text) + Len(fragment) <= MaxText
    /\ text' = text \o fragment
    /\ Becomes(PushInto(Parser, fragment))
    /\ parted' = (parted \/ Last(fragment) = "return")
    /\ UNCHANGED finished

Finish ==
    /\ ~finished
    /\ Becomes(FinishOf(Parser))
    /\ finished' = TRUE
    /\ UNCHANGED <<text, parted>>

Next == Finish \/ \E fragment \in Fragments : Push(fragment)
Spec == Init /\ [][Next]_vars

-----------------------------------------------------------------------------
\* Reference: the text cut into lines, which are consumed one after the other. A line goes
\* from where it begins up to its line feed.
Begins(s, i) == i = 1 \/ s[i - 1] = "newline"
LineTo(s, i) ==
    LET begin == CHOOSE k \in 1 .. i : Begins(s, k) /\ \A j \in k + 1 .. i : ~Begins(s, j)
    IN  SubSeq(s, begin, i)

\* Backticks only begin lines, or follow the blanks a line begins with.
LineAnchored == \A i \in DOMAIN text : text[i] = "ticks" =>
    \E k \in 1 .. i : Begins(text, k) /\ \A j \in k .. i - 1 : text[j] = "blank"

ConsumeAt(p, s, i) == IF s[i] = "newline" THEN ConsumeLine(p, LineTo(s, i)) ELSE p

CompleteLines(s) ==
    LET after[i \in 0 .. Len(s)] == IF i = 0 THEN New ELSE ConsumeAt(after[i - 1], s, i)
    IN  after[Len(s)]

\* The last line may lack its line feed.
InLines(s) ==
    IF s = << >> \/ Last(s) = "newline" THEN CompleteLines(s)
    ELSE ConsumeLine(CompleteLines(s), LineTo(s, Len(s)))

\* The text comes out as the lines say, in whatever fragments it went in: nothing is
\* lost, kept back or put on the wrong side of a fence. The premises are needed, as
\* split_safe_flush holds back less than consume_line takes for a marker. Where backticks
\* stand within a line, the part before them is flushed, and what follows passes for a
\* line of its own; behind white space that is no blank, the marker is flushed or not as
\* the fragments fall (both are LineAnchored); and of a CRLF that a fragment ends within,
\* the carriage return is flushed together with the marker before it (parted).
ChunkingIsInvisible ==
    finished /\ LineAnchored /\ ~parted => out = InLines(text).out
=============================================================================

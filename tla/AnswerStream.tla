---------------------------- MODULE AnswerStream ----------------------------
(***************************************************************************)
(* The way of an answer: a provider service turns the chunks of its        *)
(* upstream into numbered content blocks, streams them as events and keeps *)
(* the complete answer; the host passes the events on and commits the kept *)
(* blocks to the history; App builds the log and the canvases from the     *)
(* events; a saved transcript pairs the interactive states of the canvases *)
(* with the Html blocks of the history, by ordinal.                        *)
(*                                                                         *)
(* Text comes in numbered pieces. The fence parser (module FenceParser)    *)
(* appears as the side of the fence it is on and the pieces it holds back; *)
(* a fragment passes at most one marker. Events of a cancelled call that   *)
(* arrive later belong to module PromptTurns.                              *)
(***************************************************************************)
EXTENDS Naturals, Sequences, FiniteSets, SequencesExt

CONSTANTS
    MaxPieces,       \* bound: pieces of text
    MaxItems,        \* bound: tool calls and thoughts
    MaxTurns         \* bound: turns

VARIABLES
    phase,           \* "idle", "streaming" or "answered": the last call has ended well
    acc,             \* the provider's Accumulator
    seen,            \* the blocks as the events of the call tell them
    garbled,         \* an event has contradicted the ones before it
    answer,          \* the kept blocks of the turn's calls
    last_text,       \* the text of the last call, as the host puts it in the outcome
    app,             \* entries, live_text, html_block_index_to_id, CanvasRegistry
    messages,        \* Host::state.messages: the answers' blocks
    transcript,      \* the saved file
    sent,            \* the pieces the upstream sent in this turn, with their kind
    start,           \* what App had when the turn began: entries, live_text, canvases
    cut,             \* an upstream of this turn broke off unnoticed
    skewed,          \* a turn has left more canvases than Html blocks in the history
    spent            \* what the bounds count

callVars  == <<acc, seen, garbled>>
turnVars  == <<answer, last_text, sent, start, cut>>
hostVars  == <<messages, transcript>>
vars == <<phase, callVars, turnVars, app, hostVars, skewed, spent>>

Providers == {"anthropic", "openai", "gemini", "local"}
Streamed  == {"text", "html"}
Kinds     == Streamed \cup {"tool", "thinking"}
Block(kind, content) == [kind |-> kind, content |-> content]
Pieces    == 1 .. MaxPieces
Blocks    == [kind : Kinds, content : Seq(Pieces)]
None      == [index |-> 0, kind |-> "none", content |-> << >>]
NoState   == <<0>>
Nobody     == << >>
Other(kind) == IF kind = "text" THEN "html" ELSE "text"

\* The members of a sequence of sequences, one after the other; those of some places.
Concat(parts) ==
    LET upto[i \in 0 .. Len(parts)] == IF i = 0 THEN << >> ELSE upto[i - 1] \o parts[i]
    IN  upto[Len(parts)]
Those(s, places) == Concat([i \in DOMAIN s |-> IF i \in places THEN <<s[i]>> ELSE << >>])

\* Pieces with the side of the fence they are on; those of blocks.
Tagged(kind, pieces) == [i \in DOMAIN pieces |-> <<kind, pieces[i]>>]
PiecesOf(block) ==
    IF block.kind \in Streamed THEN Tagged(block.kind, block.content) ELSE << >>
Flat(blocks) == Concat([i \in DOMAIN blocks |-> PiecesOf(blocks[i])])

EmptyApp == [entries |-> << >>, live_text |-> << >>, ids |-> << >>, next_id |-> 0,
             renderers |-> << >>]

Accumulator(by) ==
    [by |-> by, inside |-> "text", held |-> << >>, open |-> None, next |-> 0,
     kept |-> << >>, upstream |-> "none", told |-> Nobody]

TypeOK ==
    /\ phase \in {"idle", "streaming", "answered"}
    /\ acc.by \in Providers /\ acc.inside \in Streamed /\ acc.kept \in Seq(Blocks)
    /\ acc.held \in Seq(Pieces) /\ acc.next \in Nat /\ acc.told = Nobody
    /\ acc.open.kind \in Kinds \cup {"none"} /\ acc.upstream \in Kinds \cup {"none"}
    /\ garbled \in BOOLEAN /\ cut \in BOOLEAN /\ skewed \in BOOLEAN
    /\ answer \in Seq(Blocks) /\ last_text \in Seq(Pieces)
    /\ \A i \in DOMAIN messages : messages[i].kind \in Kinds
    /\ app.next_id \in Nat /\ app.live_text \in Seq(Pieces)
    /\ \A id \in DOMAIN app.renderers : id < app.next_id
    /\ spent \in [pieces : 0 .. MaxPieces, items : 0 .. MaxItems, turns : 0 .. MaxTurns]

Init ==
    /\ phase = "idle" /\ acc = Accumulator("local") /\ seen = << >> /\ garbled = FALSE
    /\ answer = << >> /\ last_text = << >> /\ app = EmptyApp
    /\ messages = << >> /\ transcript = << >>
    /\ sent = << >> /\ start = [entries |-> 0, live_text |-> << >>, canvases |-> 0]
    /\ cut = FALSE /\ skewed = FALSE
    /\ spent = [pieces |-> 0, items |-> 0, turns |-> 0]

-----------------------------------------------------------------------------
(* The consumers of the events.                                            *)

Has(f, i) == i \in DOMAIN f
Put(f, i, v) == [j \in DOMAIN f \cup {i} |-> IF j = i THEN v ELSE f[j]]

Fits(view, e) ==
    IF e.what = "start" THEN ~Has(view, e.index)
    ELSE Has(view, e.index) /\ view[e.index] = e.block.kind

\* The open blocks as kinds, the ended ones as "ended".
View(view, e) ==
    CASE e.what = "start" -> Put(view, e.index, e.block.kind)
      [] e.what = "delta" -> view
      [] e.what = "stop"  -> Put(view, e.index, "ended")

FlushLiveText(p) ==
    IF p.live_text = << >> THEN p ELSE
    [p EXCEPT !.entries = Append(@, [kind |-> "text", content |-> p.live_text,
                                     id |-> 0, preview |-> FALSE]),
              !.live_text = << >>]

\* The place of a canvas in the log, if it is there.
PlaceOf(p, id) == {i \in DOMAIN p.entries : p.entries[i].kind = "canvas" /\ p.entries[i].id = id}

HtmlBlockStart(p, index) ==
    LET q == FlushLiveText(p) IN
    [q EXCEPT !.entries = Append(@, [kind |-> "canvas", content |-> << >>,
                                     id |-> q.next_id, preview |-> TRUE]),
              !.ids = Put(@, index, q.next_id), !.next_id = @ + 1]

\* A delta goes to the preview that its block has begun.
HtmlBlockDelta(p, index, content) ==
    LET place == {i \in DOMAIN p.entries : /\ Has(p.ids, index) /\ p.entries[i].preview
                                            /\ i \in PlaceOf(p, p.ids[index])}
    IN [p EXCEPT !.entries = [i \in DOMAIN p.entries |->
           IF i \in place THEN [p.entries[i] EXCEPT !.content = @ \o content]
           ELSE p.entries[i]]]

\* handle_html_block_stop and create_canvas_renderer. A renderer holds the source it
\* draws and the canvas its interactive state comes from.
HtmlBlockStop(p, index) ==
    IF ~Has(p.ids, index) THEN p ELSE
    LET id    == p.ids[index]
        place == PlaceOf(p, id)
        left  == [p EXCEPT !.ids = [j \in DOMAIN @ \ {index} |-> @[j]],
                           !.entries = [i \in DOMAIN @ |-> IF i \in place
                               THEN [@[i] EXCEPT !.preview = FALSE] ELSE @[i]]]
        found == CHOOSE i \in place : TRUE
    IN IF place = {} THEN left
       ELSE [left EXCEPT !.renderers = Put(@, id,
                [source |-> p.entries[found].content, of |-> p.entries[found].content])]

\* forward_text_deltas and App::apply_turn_event. An event that has a block of no kind of
\* interest is dropped.
Apply(p, e) ==
    CASE e.what = "delta" /\ e.block.kind = "text" ->
            [p EXCEPT !.live_text = @ \o e.block.content]
      [] e.what = "start" /\ e.block.kind = "html" -> HtmlBlockStart(p, e.index)
      [] e.what = "delta" /\ e.block.kind = "html" ->
            HtmlBlockDelta(p, e.index, e.block.content)
      [] e.what = "stop" /\ e.block.kind = "html" -> HtmlBlockStop(p, e.index)
      [] OTHER -> p

-----------------------------------------------------------------------------
(* The accumulators. While one works it carries its consumers in `told`.   *)

\* The consumers take the events in their order.
Hear(c, e) ==
    [view    |-> View(c.view, e),
     garbled |-> IF Fits(c.view, e) THEN c.garbled ELSE TRUE,
     app     |-> Apply(c.app, e)]

Emit(a, what, index, block) ==
    [a EXCEPT !.told = Hear(@, [what |-> what, index |-> index, block |-> block])]

\* Anthropic's text and html are kept as they stream and OpenAI's blocks when they
\* open; all others when they close.
KeptOnClose(a) ==
    ~(a.by = "openai" \/ (a.by = "anthropic" /\ a.open.kind \in Streamed))

\* Variant: the index of a closed block of Ollama's stream is used again.
CloseReusing(a) ==
    IF a.open = None THEN a ELSE
    [Emit(a, "stop", a.open.index, Block(a.open.kind, << >>)) EXCEPT
        !.open = None,
        !.kept = IF KeptOnClose(a) THEN Append(@, Block(a.open.kind, a.open.content)) ELSE @]

\* close_current_streaming_block, close_stream_block, close_last_open, close_current_block.
Close(a) ==
    IF a.open = None THEN a ELSE
    [Emit(a, "stop", a.open.index, Block(a.open.kind, << >>)) EXCEPT
        !.open = None,
        !.kept = IF KeptOnClose(a) THEN Append(@, Block(a.open.kind, a.open.content)) ELSE @,
        !.next = IF a.by = "local" THEN @ + 1 ELSE @]

Open(a, kind) ==
    [Emit(a, "start", a.next, Block(kind, << >>)) EXCEPT
        !.open = [index |-> a.next, kind |-> kind, content |-> << >>],
        !.kept = IF a.by = "openai" THEN Append(@, Block(kind, << >>)) ELSE @,
        !.next = IF a.by = "local" THEN @ ELSE @ + 1]

\* What is kept of a chunk at once: OpenAI's goes to its block, Anthropic's to the last
\* block if that is of its kind, though another upstream block has begun since.
KeptOnDelta(a, content) ==
    IF a.by = "openai" THEN [a.kept EXCEPT ![a.open.index + 1].content = @ \o content]
    ELSE IF a.by # "anthropic" \/ a.open.kind \notin Streamed THEN a.kept
    ELSE IF a.kept # << >> /\ Last(a.kept).kind = a.open.kind
    THEN [a.kept EXCEPT ![Len(a.kept)].content = @ \o content]
    ELSE Append(a.kept, Block(a.open.kind, content))

\* emit_text_chunk, emit_html_chunk, emit_stream_chunk, emit_block_chunk,
\* emit_thinking_fragment.
EmitChunk(a, chunk) ==
    LET fitting == IF a.open.kind = chunk.kind THEN a ELSE Close(a)
        ready   == IF fitting.open = None THEN Open(fitting, chunk.kind) ELSE fitting
    IN [Emit(ready, "delta", ready.open.index, chunk) EXCEPT
           !.open.content = @ \o chunk.content,
           !.kept = KeptOnDelta(ready, chunk.content)]

EmitText(a, kind, content) ==
    IF content = << >> THEN a ELSE EmitChunk(a, Block(kind, content))

\* A fragment through FenceParser::push: the text up to a marker, if it has one, and the
\* text after that. The end of the fragment may be held back.
PushFragment(a, f) ==
    IF f.fence
    THEN LET before == EmitText(a, a.inside, a.held \o f.lead)
             after  == [before EXCEPT !.inside = Other(@), !.held = << >>]
         IN IF f.hold THEN [after EXCEPT !.held = f.tail]
            ELSE EmitText(after, after.inside, f.tail)
    ELSE IF f.hold THEN [a EXCEPT !.held = @ \o f.lead]
    ELSE EmitText([a EXCEPT !.held = << >>], a.inside, a.held \o f.lead)

\* Variant: what the parser holds back is forgotten.
FinishFenceDropping(a) == [a EXCEPT !.held = << >>, !.inside = "text"]

\* FenceParser::finish; a new parser takes its place.
FinishFence(a) ==
    [EmitText(a, a.inside, a.held) EXCEPT !.held = << >>, !.inside = "text"]

Whole(a, kind) ==
    [Emit(Emit(a, "start", a.next, Block(kind, << >>)), "stop", a.next, Block(kind, << >>))
        EXCEPT !.next = @ + 1, !.kept = Append(@, Block(kind, << >>))]

\* A tool call. Anthropic's is a block with a beginning and an end, OpenAI's ends with
\* the stream; Gemini's and Ollama's come whole, Gemini's between the parts of a text.
ToolCall(a) ==
    CASE a.by = "anthropic" -> [Open(Close(a), "tool") EXCEPT !.upstream = "tool"]
      [] a.by = "openai" -> [Emit(a, "start", a.next, Block("tool", << >>)) EXCEPT
                                !.next = @ + 1, !.kept = Append(@, Block("tool", << >>))]
      [] a.by = "gemini" -> Whole(a, "tool")
      [] a.by = "local"  -> Whole(Close(a), "tool")

StopTool(a, index) == Emit(a, "stop", index, Block("tool", << >>))

\* OpenAI's tool calls end in the order of their blocks.
StopTools(a) ==
    LET after[i \in 0 .. Len(a.kept)] ==
            IF i = 0 THEN a
            ELSE IF a.kept[i].kind = "tool" THEN StopTool(after[i - 1], i - 1)
            ELSE after[i - 1]
    IN  after[Len(a.kept)]

\* flush. Anthropic's events end with the upstream's.
Flush(a) ==
    IF a.by = "anthropic" THEN a ELSE
    LET closed == Close(FinishFence(a)) IN
    IF a.by = "openai" THEN StopTools(closed) ELSE closed

\* finish. Without a block to keep, Anthropic's answer is what the upstream sent so far; if
\* no block has begun the code keeps none, and the model a text block without a piece.
ContentOf(a) ==
    IF a.by = "anthropic" /\ a.kept = << >>
    THEN IF a.open = None THEN <<Block("text", a.held)>>
         ELSE <<Block(a.open.kind, a.open.content)>>
    ELSE a.kept

-----------------------------------------------------------------------------
(* What a step of a call does.                                             *)

\* The consumers as they are, and as they will be: the provider has come to a.
Telling(a) == [a EXCEPT !.told = [view |-> seen, garbled |-> garbled, app |-> app]]
Told(a) == acc' = [a EXCEPT !.told = Nobody] /\ seen' = a.told.view /\ garbled' = a.told.garbled
Streams(a) == Told(a) /\ app' = a.told.app

-----------------------------------------------------------------------------
(* The history, the transcript and the canvas states.                      *)

HtmlPlaces(blocks) == {i \in DOMAIN blocks : blocks[i].kind = "html"}
Ordinal(blocks, i) == Cardinality({j \in HtmlPlaces(blocks) : j < i})

\* set_canvas_states, with snapshot_state of every renderer.
WithStates(blocks, p) ==
    [i \in DOMAIN blocks |->
        IF i \in HtmlPlaces(blocks) /\ Has(p.renderers, Ordinal(blocks, i))
        THEN [blocks[i] EXCEPT !.state = p.renderers[Ordinal(blocks, i)].of]
        ELSE blocks[i]]

Committed(blocks) ==
    [i \in DOMAIN blocks |-> [kind |-> blocks[i].kind, content |-> blocks[i].content,
                              state |-> NoState]]

\* save_transcript_now.
Save(blocks, p) ==
    IF p.entries = << >> THEN messages' = blocks /\ UNCHANGED transcript
    ELSE messages' = WithStates(blocks, p) /\ transcript' = WithStates(blocks, p)

\* The turn has begun more canvases than the blocks it leaves in the history.
Skews(blocks) == app.next_id # start.canvases + Cardinality(HtmlPlaces(blocks))

-----------------------------------------------------------------------------
StartTurn(by) ==
    /\ phase = "idle" /\ spent.turns < MaxTurns
    /\ phase' = "streaming"
    /\ acc' = Accumulator(by) /\ seen' = << >>
    /\ answer' = << >> /\ last_text' = << >> /\ sent' = << >> /\ cut' = FALSE
    /\ app' = [app EXCEPT !.entries = Append(@, [kind |-> "user", content |-> << >>,
                                                 id |-> 0, preview |-> FALSE])]
    /\ start' = [entries |-> Len(app'.entries), live_text |-> app.live_text,
                  canvases |-> app.next_id]
    /\ spent' = [spent EXCEPT !.turns = @ + 1]
    /\ UNCHANGED <<garbled, hostVars, skewed>>

\* A fragment of text: up to a piece before and a piece after a marker.
Text(lead, fence, tail, hold) ==
    LET n == spent.pieces
        f == [lead |-> IF lead THEN <<n + 1>> ELSE << >>, fence |-> fence, hold |-> hold,
              tail |-> IF tail THEN <<n + (IF lead THEN 2 ELSE 1)>> ELSE << >>]
        k == IF f.fence THEN Other(acc.inside) ELSE acc.inside
    IN /\ phase = "streaming" /\ (lead \/ fence) /\ (tail => fence)
       /\ acc.by = "anthropic" => acc.upstream = "text"
       /\ n + Len(f.lead \o f.tail) <= MaxPieces
       /\ Streams(PushFragment(Telling(acc), f))
       /\ sent' = sent \o Tagged(acc.inside, f.lead) \o Tagged(k, f.tail)
       /\ spent' = [spent EXCEPT !.pieces = n + Len(f.lead \o f.tail)]
       /\ UNCHANGED <<phase, answer, last_text, start, cut, hostVars, skewed>>

\* Anthropic: content_block_start of a text.
TextBlockStarts ==
    /\ phase = "streaming" /\ acc.by = "anthropic" /\ acc.upstream = "none"
    /\ Streams([Telling(acc) EXCEPT !.upstream = "text"])
    /\ UNCHANGED <<phase, turnVars, hostVars, skewed, spent>>

\* Anthropic: content_block_stop.
BlockStops ==
    /\ phase = "streaming" /\ acc.upstream # "none"
    /\ LET a == [Telling(acc) EXCEPT !.upstream = "none"] IN
       Streams(Close(IF acc.upstream = "text" THEN FinishFence(a) ELSE a))
    /\ UNCHANGED <<phase, turnVars, hostVars, skewed, spent>>

Tool ==
    /\ phase = "streaming" /\ acc.upstream = "none" /\ spent.items < MaxItems
    /\ Streams(ToolCall(Telling(acc)))
    /\ spent' = [spent EXCEPT !.items = @ + 1]
    /\ UNCHANGED <<phase, turnVars, hostVars, skewed>>

\* A thought; of Gemini a part, of Anthropic a block.
Think ==
    /\ phase = "streaming" /\ acc.upstream = "none" /\ spent.items < MaxItems
    /\ \/ acc.by = "gemini" /\ Streams(EmitChunk(Telling(acc), Block("thinking", << >>)))
       \/ acc.by = "anthropic"
          /\ Streams([Open(Close(Telling(acc)), "thinking") EXCEPT !.upstream = "thinking"])
    /\ spent' = [spent EXCEPT !.items = @ + 1]
    /\ UNCHANGED <<phase, turnVars, hostVars, skewed>>

TextOf(blocks) == Concat([i \in DOMAIN blocks |->
    IF blocks[i].kind = "text" THEN blocks[i].content ELSE << >>])

\* The stream ends, for Anthropic also in the middle of a block. If there is a tool to
\* call, its ToolCallStarted commits the live text to the log.
CallEnds ==
    /\ phase = "streaming"
    /\ LET a       == Flush(Telling(acc))
           content == ContentOf(a)
           calls   == \E i \in DOMAIN content : content[i].kind = "tool"
       IN /\ Told([a EXCEPT !.kept = content])
          /\ app' = IF calls THEN FlushLiveText(a.told.app) ELSE a.told.app
          /\ answer' = answer \o content
          /\ last_text' = TextOf(content)
    /\ cut' = (cut \/ acc.upstream # "none")
    /\ phase' = "answered"
    /\ UNCHANGED <<sent, start, hostVars, skewed, spent>>

CallsTool == \E i \in DOMAIN acc.kept : acc.kept[i].kind = "tool"

\* The tool has run; the answer goes on.
NextCall ==
    /\ phase = "answered" /\ CallsTool
    /\ phase' = "streaming"
    /\ acc' = Accumulator(acc.by) /\ seen' = << >>
    /\ UNCHANGED <<garbled, turnVars, app, hostVars, skewed, spent>>

\* TurnComplete: the live text is committed or, if there is none, the text of the
\* outcome. The transcript is saved.
TurnCompletes ==
    /\ phase = "answered" /\ ~CallsTool
    /\ LET shown == IF app.live_text # << >> \/ last_text = << >> THEN FlushLiveText(app)
                    ELSE FlushLiveText([app EXCEPT !.live_text = last_text])
           after == messages \o Committed(answer)
       IN app' = shown /\ Save(after, shown)
    /\ skewed' = (skewed \/ Skews(answer))
    /\ phase' = "idle"
    /\ UNCHANGED <<callVars, turnVars, spent>>

\* The call or a tool fails, or the turn is cancelled, which commits the live text to the
\* log. Nothing of the turn reaches the history.
TurnFails ==
    /\ phase # "idle"
    /\ app' \in {app, FlushLiveText(app)}
    /\ skewed' = (skewed \/ Skews(<< >>))
    /\ phase' = "idle"
    /\ UNCHANGED <<callVars, turnVars, hostVars, spent>>

\* `/clear`: the log only.
ClearLog ==
    /\ phase = "idle" /\ app.entries # << >>
    /\ app' = [app EXCEPT !.entries = << >>, !.live_text = << >>]
    /\ UNCHANGED <<phase, callVars, turnVars, hostVars, skewed, spent>>

Replayed(blocks, ids_from) ==
    LET shown == Those(blocks, {i \in DOMAIN blocks :
                            blocks[i].kind \in Streamed /\ blocks[i].content # << >>})
        html  == Those(blocks, HtmlPlaces(blocks))
    IN [EmptyApp EXCEPT
          !.entries = [i \in DOMAIN shown |->
              [kind |-> IF shown[i].kind = "html" THEN "canvas" ELSE "text",
               content |-> shown[i].content, id |-> ids_from + Ordinal(shown, i),
               preview |-> FALSE]],
          !.next_id = ids_from + Len(html),
          !.renderers = [n \in ids_from .. ids_from + Len(html) - 1 |->
              LET b == html[n - ids_from + 1] IN
              [source |-> b.content, of |-> IF b.state = NoState THEN b.content ELSE b.state]]]

\* Variant: the registry counts on.
ResumeCounting ==
    /\ phase = "idle" /\ transcript # << >>
    /\ messages' = transcript
    /\ app' = Replayed(transcript, app.next_id)
    /\ UNCHANGED <<phase, callVars, turnVars, transcript, skewed, spent>>

\* Variant: the replayed canvases are not counted.
ResumeUncounted ==
    /\ phase = "idle" /\ transcript # << >>
    /\ messages' = transcript
    /\ app' = [Replayed(transcript, 0) EXCEPT !.next_id = 0]
    /\ UNCHANGED <<phase, callVars, turnVars, transcript, skewed, spent>>

\* `/resume`: Host::load_transcript, App::replay_transcript.
Resume ==
    /\ phase = "idle" /\ transcript # << >>
    /\ messages' = transcript
    /\ app' = Replayed(transcript, 0)
    /\ UNCHANGED <<phase, callVars, turnVars, transcript, skewed, spent>>

-----------------------------------------------------------------------------
Next ==
    \/ \E by \in Providers : StartTurn(by)
    \/ \E lead, fence, tail, hold \in BOOLEAN : Text(lead, fence, tail, hold)
    \/ TextBlockStarts \/ BlockStops \/ Tool \/ Think
    \/ CallEnds \/ NextCall \/ TurnCompletes \/ TurnFails \/ ClearLog \/ Resume

Spec == Init /\ [][Next]_vars

-----------------------------------------------------------------------------
\* The events of a call make sense to whoever follows them, for every provider and
\* however text, fences, thoughts and tools alternate: an index is used once, a delta or
\* a stop is for an open block of its kind, and a call that ends well leaves none open.
EventsAreWellFormed ==
    /\ ~garbled
    /\ phase = "answered" /\ ~cut => \A i \in DOMAIN seen : seen[i] = "ended"

\* The lines of the log since the turn began, and their pieces.
Since(p) == SubSeq(p.entries, start.entries + 1, Len(p.entries))
Shown(lines) == Concat([i \in DOMAIN lines |->
    Tagged(IF lines[i].kind = "canvas" THEN "html" ELSE "text", lines[i].content)])

\* What the upstream sent, what goes into the history and what the user has seen are the
\* same pieces in the same order on the same side of the fences, after what a failed turn
\* may have left in the live text; and no canvas is left a preview.
AnswerIsShown ==
    phase = "answered" /\ ~cut =>
        /\ Flat(answer) = sent
        /\ Shown(Since(app)) \o Tagged("text", app.live_text)
               = Tagged("text", start.live_text) \o sent
        /\ \A i \in DOMAIN Since(app) : ~Since(app)[i].preview

\* The interactive state saved with a canvas is its own, over saves and resumes in any
\* order, as long as canvases and Html blocks have kept step. They fall out of step when
\* a turn fails after a canvas began, and when Anthropic ends one text block in a fence
\* and begins the next in one.
StatesReturnHome ==
    ~skewed => \A i \in HtmlPlaces(messages) :
        messages[i].state \in {NoState, messages[i].content}

\* app.rs:1201-1204: TurnComplete falls back to the text of the outcome for a provider
\* that does not stream and for dropped deltas. Here all deltas arrive; a text followed
\* by a canvas is shown twice all the same.
ShownOnce ==
    \A i, j \in DOMAIN app.entries : i # j =>
        {app.entries[i].content[n] : n \in DOMAIN app.entries[i].content} \cap
        {app.entries[j].content[n] : n \in DOMAIN app.entries[j].content} = {}
=============================================================================

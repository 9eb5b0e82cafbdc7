----------------------------- MODULE AnswersProofs -----------------------------
(***************************************************************************)
(* The way of an answer, for any bounds on its text, its items and its     *)
(* turns: the events of every provider fit together, and the interactive   *)
(* states saved with the canvases return to them. The last section has the *)
(* types of the answers and with them those of the whole composition.      *)
(*                                                                         *)
(* The argument for the events: a provider's accumulator knows of every    *)
(* block it has told of whether it is open (Agrees). Each of its           *)
(* operations keeps that, and with it every event it emits fits those      *)
(* before it; what the accumulator has left open, flush ends.              *)
(*                                                                         *)
(* The argument for the states: they are saved by the ordinal of an Html   *)
(* block and restored by it, so canvas and block must have the same        *)
(* number. Within a turn the canvases begun are never fewer than the Html  *)
(* blocks it will keep, and while they are as many the k-th canvas shows   *)
(* the k-th block's text (InStep). An accumulator keeps that (Tracks): the *)
(* canvas being drawn is the last one and belongs to the last Html block   *)
(* (Sketches), counted before it is kept (ToKeep). A turn after which the  *)
(* numbers are the same (~skewed) extends the history by blocks that agree *)
(* with the renderers under their ordinals (Agree), so what is saved with  *)
(* each is its own (AtHome).                                               *)
(***************************************************************************)
EXTENDS RecordsProofs

-----------------------------------------------------------------------------
(* What the consumers of the events are.                                   *)

\* Text is a sequence of pieces.
Content  == Seq(Answers!Pieces)
Part     == [kind : Answers!Kinds, content : Content]
Parts    == Seq(Part)
Events   == [what : {"start", "delta", "stop"}, index : Nat, block : Part]
Entry    == [kind : {"user", "text", "canvas"}, content : Content, id : Nat, preview : BOOLEAN]
Numbered(S) == UNION {[D -> S] : D \in SUBSET Nat}
Renderer == [source : Content, of : Content]
Views    == Numbered(Answers!Kinds \cup {"ended"})
Apps     == [entries : Seq(Entry), live_text : Content, ids : Numbered(Nat), next_id : Nat,
             renderers : Numbered(Renderer)]
Audience == [view : Views, garbled : BOOLEAN, app : Apps]

\* Something is put at a place.
LEMMA PutIs ==
    ASSUME NEW S, NEW f \in Numbered(S), NEW i \in Nat, NEW x \in S
    PROVE  /\ Answers!Put(f, i, x) \in Numbered(S)
           /\ DOMAIN Answers!Put(f, i, x) = DOMAIN f \cup {i}
           /\ Answers!Put(f, i, x)[i] = x
           /\ \A j \in DOMAIN f : j # i => Answers!Put(f, i, x)[j] = f[j]
<1>1. PICK D \in SUBSET Nat : f \in [D -> S]
  BY DEF Numbered
<1>2. PICK g : g = Answers!Put(f, i, x)
  OBVIOUS
<1>3. g = [j \in D \cup {i} |-> IF j = i THEN x ELSE f[j]]
  BY <1>1, <1>2 DEF Answers!Put
<1>4. g \in [D \cup {i} -> S] /\ D \cup {i} \in SUBSET Nat
  BY <1>1, <1>3
<1>5. g \in Numbered(S)
  BY <1>4 DEF Numbered
<1> QED
  BY <1>1, <1>2, <1>3, <1>5

\* What is said to be in a numbered place is there.
LEMMA NumberedIs ==
    ASSUME NEW S, NEW f \in Numbered(S)
    PROVE  DOMAIN f \in SUBSET Nat /\ f \in [DOMAIN f -> S]
  BY DEF Numbered

\* FlushLiveText keeps the type of App.
LEMMA LiveTextType == ASSUME NEW p \in Apps PROVE Answers!FlushLiveText(p) \in Apps
<1>1. CASE p.live_text = << >>
  BY <1>1 DEF Answers!FlushLiveText
<1>2. CASE p.live_text # << >>
  <2>1. PICK x : x = [kind |-> "text", content |-> p.live_text, id |-> 0, preview |-> FALSE]
    OBVIOUS
  <2>2. x \in Entry
    BY <2>1 DEF Entry, Apps
  <2>3. Append(p.entries, x) \in Seq(Entry) /\ << >> \in Content
    BY <2>2 DEF Apps, Content
  <2>4. Answers!FlushLiveText(p) = [p EXCEPT !.entries = Append(@, x), !.live_text = << >>]
    BY <1>2, <2>1 DEF Answers!FlushLiveText
  <2> QED
    BY <2>3, <2>4 DEF Apps
<1> QED
  BY <1>1, <1>2

\* The start of a canvas keeps it.
LEMMA StartType ==
    ASSUME NEW p \in Apps, NEW index \in Nat PROVE Answers!HtmlBlockStart(p, index) \in Apps
<1>1. PICK q \in Apps : q = Answers!FlushLiveText(p)
  BY LiveTextType
<1>2. PICK x : x = [kind |-> "canvas", content |-> << >>, id |-> q.next_id, preview |-> TRUE]
  OBVIOUS
<1>3. x \in Entry
  BY <1>1, <1>2 DEF Entry, Apps, Content
<1>4. Append(q.entries, x) \in Seq(Entry) /\ q.next_id + 1 \in Nat
  BY <1>1, <1>3 DEF Apps
<1>5. Answers!Put(q.ids, index, q.next_id) \in Numbered(Nat)
  BY <1>1, PutIs DEF Apps
<1>6. Answers!HtmlBlockStart(p, index)
        = [q EXCEPT !.entries = Append(q.entries, x),
                    !.ids = Answers!Put(q.ids, index, q.next_id), !.next_id = q.next_id + 1]
  BY <1>1, <1>2 DEF Answers!HtmlBlockStart
<1> QED
  BY <1>1, <1>4, <1>5, <1>6 DEF Apps

\* A delta of a canvas keeps it.
LEMMA DeltaType ==
    ASSUME NEW p \in Apps, NEW index \in Nat, NEW more \in Content
    PROVE  Answers!HtmlBlockDelta(p, index, more) \in Apps
<1>1. PICK n \in Nat : n = Len(p.entries) /\ p.entries \in [1 .. n -> Entry]
  BY DEF Apps
<1>2. PICK es : \E place : es = [i \in DOMAIN p.entries |->
        IF i \in place THEN [p.entries[i] EXCEPT !.content = @ \o more] ELSE p.entries[i]]
        /\ Answers!HtmlBlockDelta(p, index, more) = [p EXCEPT !.entries = es]
  BY DEF Answers!HtmlBlockDelta
<1>3. ASSUME NEW e \in Entry PROVE [e EXCEPT !.content = @ \o more] \in Entry
  <2>1. e.content \o more \in Content
    BY DEF Entry, Content
  <2> QED
    BY <2>1 DEF Entry
<1>4. es \in [1 .. n -> Entry]
  BY <1>1, <1>2, <1>3
<1>5. es \in Seq(Entry)
  BY <1>4
<1> QED
  BY <1>2, <1>5 DEF Apps

\* The end of a canvas keeps it.
LEMMA StopType ==
    ASSUME NEW p \in Apps, NEW index \in Nat PROVE Answers!HtmlBlockStop(p, index) \in Apps
<1>1. CASE ~Answers!Has(p.ids, index)
  BY <1>1 DEF Answers!HtmlBlockStop
<1>2. CASE Answers!Has(p.ids, index)
  <2>1. PICK id \in Nat : id = p.ids[index]
    BY <1>2, NumberedIs DEF Answers!Has, Apps
  <2>2. PICK place : place = Answers!PlaceOf(p, id)
    OBVIOUS
  <2>3. PICK n \in Nat : n = Len(p.entries) /\ p.entries \in [1 .. n -> Entry]
    BY DEF Apps
  <2>4. PICK es : es = [i \in DOMAIN p.entries |-> IF i \in place
                               THEN [p.entries[i] EXCEPT !.preview = FALSE] ELSE p.entries[i]]
    OBVIOUS
  <2>5. es \in [1 .. n -> Entry]
    <3>1. ASSUME NEW e \in Entry PROVE [e EXCEPT !.preview = FALSE] \in Entry
      BY DEF Entry
    <3> QED
      BY <2>3, <2>4, <3>1
  <2>6. es \in Seq(Entry)
    BY <2>5
  <2>7. PICK ids : ids = [j \in DOMAIN p.ids \ {index} |-> p.ids[j]]
    OBVIOUS
  <2>8. ids \in Numbered(Nat)
    <3>1. PICK D \in SUBSET Nat : p.ids \in [D -> Nat]
      BY DEF Numbered, Apps
    <3>2. D \ {index} \in SUBSET Nat /\ ids \in [D \ {index} -> Nat]
      BY <2>7, <3>1
    <3> QED
      BY <3>2 DEF Numbered
  <2>9. PICK q : q = [p EXCEPT !.ids = ids, !.entries = es]
    OBVIOUS
  <2>10. q \in Apps
    BY <2>6, <2>8, <2>9 DEF Apps
  <2>11. CASE place = {}
    <3>1. Answers!HtmlBlockStop(p, index) = q
      BY <1>2, <2>1, <2>2, <2>4, <2>7, <2>9, <2>11 DEF Answers!HtmlBlockStop
    <3> QED
      BY <2>10, <3>1
  <2>12. CASE place # {}
    <3>1. PICK found : found = (CHOOSE i \in place : TRUE)
      OBVIOUS
    <3>2. found \in place /\ place \subseteq 1 .. n
      BY <2>2, <2>3, <2>12, <3>1 DEF Answers!PlaceOf
    <3>3. PICK r : r = [source |-> p.entries[found].content, of |-> p.entries[found].content]
      OBVIOUS
    <3>4. r \in Renderer
      BY <2>3, <3>2, <3>3 DEF Renderer, Entry
    <3>5. PICK rs : rs = Answers!Put(p.renderers, id, r)
      OBVIOUS
    <3>6. rs \in Numbered(Renderer)
      BY <2>1, <3>4, <3>5, PutIs DEF Apps
    <3>7. q.renderers = p.renderers
      BY <2>9 DEF Apps
    <3>8. Answers!HtmlBlockStop(p, index) = [q EXCEPT !.renderers = rs]
      BY <1>2, <2>1, <2>2, <2>4, <2>7, <2>9, <2>12, <3>1, <3>3, <3>5, <3>7
         DEF Answers!HtmlBlockStop
    <3> QED
      BY <2>10, <3>6, <3>8 DEF Apps
  <2> QED
    BY <2>11, <2>12
<1> QED
  BY <1>1, <1>2

\* So every event keeps it.
LEMMA ApplyType == ASSUME NEW p \in Apps, NEW e \in Events PROVE Answers!Apply(p, e) \in Apps
<1>1. e.index \in Nat /\ e.block.content \in Content
  BY DEF Events, Part
<1>2. [p EXCEPT !.live_text = @ \o e.block.content] \in Apps
  <2>1. p.live_text \o e.block.content \in Content
    BY <1>1 DEF Apps, Content
  <2> QED
    BY <2>1 DEF Apps
<1> QED
  BY <1>1, <1>2, StartType, DeltaType, StopType DEF Answers!Apply

-----------------------------------------------------------------------------
(* The accumulators.                                                       *)

\* The open block, if there is one.
Opens == [index : Nat, kind : Answers!Kinds, content : Content] \cup {Answers!None}
\* An accumulator, with its listeners.
Accs ==
    [by : Answers!Providers, inside : Answers!Streamed, held : Content, open : Opens,
     next : Nat, kept : Parts, upstream : Answers!Kinds \cup {"none"}, told : Audience]

\* Hearing an event keeps the types of the listeners.
LEMMA HearType ==
    ASSUME NEW c \in Audience, NEW e \in Events PROVE Answers!Hear(c, e) \in Audience
<1>1. e.index \in Nat /\ e.block.kind \in Answers!Kinds
      /\ e.what \in {"start", "delta", "stop"}
  BY DEF Events, Part
<1>2. c.view \in Views /\ c.garbled \in BOOLEAN /\ c.app \in Apps
  BY DEF Audience
<1>3. Answers!View(c.view, e) \in Views
  <2>1. /\ Answers!Put(c.view, e.index, e.block.kind) \in Views
        /\ Answers!Put(c.view, e.index, "ended") \in Views
    BY <1>1, <1>2, PutIs DEF Views
  <2> QED
    BY <1>1, <1>2, <2>1 DEF Answers!View
<1>4. Answers!Apply(c.app, e) \in Apps
  BY <1>2, ApplyType
<1>5. (IF Answers!Fits(c.view, e) THEN c.garbled ELSE TRUE) \in BOOLEAN
  BY <1>2
<1> QED
  BY <1>3, <1>4, <1>5 DEF Answers!Hear, Audience

\* What an event tells.
Event(what, index, block) == [what |-> what, index |-> index, block |-> block]

\* What emitting does, field by field.
LEMMA EmitIs ==
    ASSUME NEW a \in Accs, NEW what \in {"start", "delta", "stop"}, NEW index \in Nat,
           NEW block \in Part
    PROVE  /\ Answers!Emit(a, what, index, block) \in Accs
           /\ Answers!Emit(a, what, index, block)
                = [a EXCEPT !.told = Answers!Hear(a.told, Event(what, index, block))]
           /\ Event(what, index, block) \in Events
<1>1. Event(what, index, block) \in Events
  BY DEF Event, Events
<1>2. Answers!Hear(a.told, Event(what, index, block)) \in Audience
  BY <1>1, HearType DEF Accs
<1>3. Answers!Emit(a, what, index, block)
                = [a EXCEPT !.told = Answers!Hear(a.told, Event(what, index, block))]
  BY DEF Answers!Emit, Event
<1> QED
  BY <1>1, <1>2, <1>3 DEF Accs

-----------------------------------------------------------------------------
(* The view of the events and the accumulator agree.                       *)

\* How many indexes have been used.
Used(a) == IF a.by = "local" /\ a.open # Answers!None THEN a.next + 1 ELSE a.next

\* What a block of the view has to be.
Tooled(a, i) == a.by = "openai" /\ a.kept[i + 1].kind = "tool"
\* What the listeners know of a block.
Seen(a, i) ==
    IF a.open # Answers!None /\ i = a.open.index THEN a.open.kind
    ELSE IF Tooled(a, i) THEN "tool" ELSE "ended"

\* They know which blocks there are and whether each is open.
Agrees(a) ==
    /\ DOMAIN a.told.view = 0 .. Used(a) - 1
    /\ a.open # Answers!None =>
          /\ a.open.index \in 0 .. Used(a) - 1
          /\ a.by = "local" => a.open.index = a.next
          /\ a.by = "openai" =>
                a.open.kind \in Answers!Streamed /\ ~Tooled(a, a.open.index)
    /\ a.by = "openai" => Len(a.kept) = a.next
    /\ \A i \in 0 .. Used(a) - 1 : a.told.view[i] = Seen(a, i)

\* No event has contradicted another, and the listeners are up to date.
Sound(a) == a.told.garbled = FALSE /\ Agrees(a)

\* An event that fits is heard.
LEMMA HearIs ==
    ASSUME NEW c \in Audience, c.garbled = FALSE, NEW e \in Events, Answers!Fits(c.view, e)
    PROVE  /\ Answers!Hear(c, e) \in Audience
           /\ Answers!Hear(c, e).garbled = FALSE
           /\ e.what = "delta" => Answers!Hear(c, e).view = c.view
           /\ e.what # "delta" =>
                /\ DOMAIN Answers!Hear(c, e).view = DOMAIN c.view \cup {e.index}
                /\ Answers!Hear(c, e).view[e.index]
                     = IF e.what = "start" THEN e.block.kind ELSE "ended"
                /\ \A j \in DOMAIN c.view :
                      j # e.index => Answers!Hear(c, e).view[j] = c.view[j]
<1>1. e.index \in Nat /\ e.block.kind \in Answers!Kinds
      /\ e.what \in {"start", "delta", "stop"}
  BY DEF Events, Part
<1>2. c.view \in Views
  BY DEF Audience
<1>3. Answers!Hear(c, e).garbled = FALSE /\ Answers!Hear(c, e).view = Answers!View(c.view, e)
  BY DEF Answers!Hear
<1>4. CASE e.what = "delta"
  BY <1>3, <1>4, HearType DEF Answers!View
<1>5. ASSUME NEW x \in Answers!Kinds \cup {"ended"},
             Answers!View(c.view, e) = Answers!Put(c.view, e.index, x)
      PROVE  /\ DOMAIN Answers!Hear(c, e).view = DOMAIN c.view \cup {e.index}
             /\ Answers!Hear(c, e).view[e.index] = x
             /\ \A j \in DOMAIN c.view :
                   j # e.index => Answers!Hear(c, e).view[j] = c.view[j]
  <2>1. c.view \in Numbered(Answers!Kinds \cup {"ended"})
    BY <1>2 DEF Views
  <2>2. PICK v : v = c.view
    OBVIOUS
  <2>3. PICK i \in Nat : i = e.index
    BY <1>1
  <2>4. /\ DOMAIN Answers!Put(v, i, x) = DOMAIN v \cup {i}
        /\ Answers!Put(v, i, x)[i] = x
        /\ \A j \in DOMAIN v : j # i => Answers!Put(v, i, x)[j] = v[j]
    BY <2>1, <2>2, PutIs
  <2> QED
    BY <1>3, <1>5, <2>2, <2>3, <2>4
<1>6. CASE e.what = "start"
  <2>1. Answers!View(c.view, e) = Answers!Put(c.view, e.index, e.block.kind)
    BY <1>6 DEF Answers!View
  <2> QED
    BY <1>1, <1>3, <1>5, <1>6, <2>1, HearType
<1>7. CASE e.what = "stop"
  <2>1. Answers!View(c.view, e) = Answers!Put(c.view, e.index, "ended")
    BY <1>7 DEF Answers!View
  <2> QED
    BY <1>1, <1>3, <1>5, <1>7, <2>1, HearType
<1> QED
  BY <1>1, <1>4, <1>6, <1>7

\* An event that fits, of an audience that has found no contradiction.
Heard(c, t, e) ==
    /\ t.garbled = FALSE
    /\ e.what = "delta" => t.view = c.view
    /\ e.what # "delta" =>
         /\ DOMAIN t.view = DOMAIN c.view \cup {e.index}
         /\ t.view[e.index] = IF e.what = "start" THEN e.block.kind ELSE "ended"
         /\ \A j \in DOMAIN c.view : j # e.index => t.view[j] = c.view[j]

\* An event that fits leaves the stream ungarbled.
LEMMA HearFits ==
    ASSUME NEW c \in Audience, c.garbled = FALSE, NEW e \in Events, Answers!Fits(c.view, e)
    PROVE  Answers!Hear(c, e) \in Audience /\ Heard(c, Answers!Hear(c, e), e)
  BY HearIs DEF Heard

\* What a step of the fence parser or of the block at hand leaves alone.
Same(a, b) == b.by = a.by /\ b.inside = a.inside /\ b.held = a.held /\ b.upstream = a.upstream

\* A block is a part.
LEMMA BlockType ==
    ASSUME NEW kind \in Answers!Kinds, NEW pieces \in Content
    PROVE  /\ Answers!Block(kind, pieces) \in Part
           /\ Answers!Block(kind, pieces).kind = kind
           /\ Answers!Block(kind, pieces).content = pieces
  BY DEF Part, Answers!Block

\* No text is content.
LEMMA EmptyContent == << >> \in Content
  BY DEF Content

\* What is open is a block.
LEMMA OpenIs ==
    ASSUME NEW a \in Accs, a.open # Answers!None
    PROVE  a.open.index \in Nat /\ a.open.kind \in Answers!Kinds /\ a.open.content \in Content
  BY DEF Accs, Opens

\* The open block is closed.
LEMMA CloseSound ==
    ASSUME NEW a \in Accs, Sound(a)
    PROVE  /\ Answers!Close(a) \in Accs /\ Sound(Answers!Close(a))
           /\ Answers!Close(a).open = Answers!None /\ Same(a, Answers!Close(a))
<1>1. CASE a.open = Answers!None
  BY <1>1 DEF Answers!Close, Same
<1>2. CASE a.open # Answers!None
  <2>1. /\ a.open.index \in Nat /\ a.open.kind \in Answers!Kinds /\ a.open.content \in Content
        /\ a.told \in Audience /\ a.next \in Nat /\ a.kept \in Parts
    BY <1>2, OpenIs DEF Accs
  <2>2. PICK block \in Part : /\ block = Answers!Block(a.open.kind, << >>)
                              /\ block.kind = a.open.kind
    BY <2>1, BlockType, EmptyContent
  <2>3. PICK e \in Events : e = Event("stop", a.open.index, block)
    BY <2>1, EmitIs
  <2>4. e.what = "stop" /\ e.index = a.open.index /\ e.block = block
    BY <2>3 DEF Event
  <2>5. Answers!Fits(a.told.view, e)
    BY <1>2, <2>2, <2>4 DEF Answers!Fits, Answers!Has, Sound, Agrees, Seen
  <2>6. PICK t \in Audience : t = Answers!Hear(a.told, e) /\ Heard(a.told, t, e)
    <3>1. a.told.garbled = FALSE
      BY DEF Sound
    <3> QED
      BY <2>1, <2>5, <3>1, HearFits
  <2>7. /\ t.garbled = FALSE
        /\ DOMAIN t.view = DOMAIN a.told.view \cup {a.open.index}
        /\ t.view[a.open.index] = "ended"
        /\ \A j \in DOMAIN a.told.view : j # a.open.index => t.view[j] = a.told.view[j]
    BY <2>4, <2>6 DEF Heard
  <2>8. PICK k \in Parts : /\ k = IF Answers!KeptOnClose(a)
                                  THEN Append(a.kept, Answers!Block(a.open.kind, a.open.content))
                                  ELSE a.kept
                           /\ a.by = "openai" => k = a.kept
    <3>1. Append(a.kept, Answers!Block(a.open.kind, a.open.content)) \in Parts
      BY <2>1, BlockType DEF Parts
    <3>2. a.by = "openai" => ~Answers!KeptOnClose(a)
      BY DEF Answers!KeptOnClose
    <3> QED
      BY <2>1, <3>1, <3>2
  <2>9. PICK n \in Nat : n = IF a.by = "local" THEN a.next + 1 ELSE a.next
    BY <2>1
  <2>10. PICK b : b = Answers!Close(a)
    OBVIOUS
  <2>11. b = [a EXCEPT !.told = t, !.open = Answers!None, !.kept = k, !.next = n]
    <3>1. Answers!Emit(a, "stop", a.open.index, block) = [a EXCEPT !.told = t]
      BY <2>3, <2>6 DEF Answers!Emit, Event
    <3>2. b = [Answers!Emit(a, "stop", a.open.index, block)
                  EXCEPT !.open = Answers!None, !.kept = k, !.next = n]
      <4>1. /\ Answers!Emit(a, "stop", a.open.index, block).kept = a.kept
            /\ Answers!Emit(a, "stop", a.open.index, block).next = a.next
        BY <3>1 DEF Accs
      <4> QED
        BY <1>2, <2>2, <2>8, <2>9, <2>10, <4>1 DEF Answers!Close
    <3> QED
      BY <3>1, <3>2
  <2>12. /\ b \in Accs /\ b.told = t /\ b.open = Answers!None /\ b.kept = k /\ b.next = n
         /\ Same(a, b)
    BY <2>11 DEF Accs, Opens, Same
  <2>13. Used(b) = Used(a)
    BY <1>2, <2>1, <2>9, <2>12 DEF Used, Same
  <2>14. Agrees(b)
    <3>1. DOMAIN b.told.view = 0 .. Used(b) - 1
      BY <1>2, <2>7, <2>12, <2>13 DEF Sound, Agrees
    <3>2. b.by = "openai" => Len(b.kept) = b.next
      BY <2>8, <2>9, <2>12 DEF Sound, Agrees, Same
    <3>3. ASSUME NEW i \in 0 .. Used(b) - 1 PROVE b.told.view[i] = Seen(b, i)
      <4>1. Tooled(b, i) <=> Tooled(a, i)
        BY <2>8, <2>12 DEF Tooled, Same
      <4>2. CASE i = a.open.index
        BY <1>2, <2>7, <2>12, <4>1, <4>2 DEF Seen, Sound, Agrees, Tooled
      <4>3. CASE i # a.open.index
        BY <1>2, <2>7, <2>12, <2>13, <3>3, <4>1, <4>3 DEF Seen, Sound, Agrees
      <4> QED
        BY <4>2, <4>3
    <3> QED
      BY <2>12, <3>1, <3>2, <3>3 DEF Agrees
  <2> QED
    BY <2>7, <2>10, <2>12, <2>14 DEF Sound
<1> QED
  BY <1>1, <1>2

\* A block is opened.
LEMMA OpenSound ==
    ASSUME NEW a \in Accs, Sound(a), a.open = Answers!None, NEW kind \in Answers!Kinds,
           a.by = "openai" => kind \in Answers!Streamed
    PROVE  /\ Answers!Open(a, kind) \in Accs /\ Sound(Answers!Open(a, kind))
           /\ Answers!Open(a, kind).open # Answers!None /\ Answers!Open(a, kind).open.kind = kind
           /\ Same(a, Answers!Open(a, kind))
<1>1. a.told \in Audience /\ a.next \in Nat /\ a.kept \in Parts
  BY DEF Accs
<1>2. PICK block \in Part : block = Answers!Block(kind, << >>) /\ block.kind = kind
  BY BlockType, EmptyContent
<1>3. PICK e \in Events : e = Event("start", a.next, block)
  BY <1>1, EmitIs
<1>4. e.what = "start" /\ e.index = a.next /\ e.block = block
  BY <1>3 DEF Event
<1>5. Used(a) = a.next /\ DOMAIN a.told.view = 0 .. a.next - 1
  BY DEF Used, Sound, Agrees
<1>6. Answers!Fits(a.told.view, e)
  BY <1>1, <1>4, <1>5 DEF Answers!Fits, Answers!Has
<1>7. PICK t \in Audience : t = Answers!Hear(a.told, e) /\ Heard(a.told, t, e)
  <2>1. a.told.garbled = FALSE
    BY DEF Sound
  <2> QED
    BY <1>1, <1>6, <2>1, HearFits
<1>8. /\ t.garbled = FALSE
      /\ DOMAIN t.view = DOMAIN a.told.view \cup {a.next}
      /\ t.view[a.next] = kind
      /\ \A j \in DOMAIN a.told.view : j # a.next => t.view[j] = a.told.view[j]
  BY <1>2, <1>4, <1>7 DEF Heard
<1>9. PICK k \in Parts : /\ k = IF a.by = "openai" THEN Append(a.kept, block) ELSE a.kept
                         /\ a.by = "openai" => /\ Len(k) = Len(a.kept) + 1
                                               /\ k[Len(a.kept) + 1] = block
                                               /\ \A i \in 1 .. Len(a.kept) : k[i] = a.kept[i]
  <2>1. PICK s : s = a.kept
    OBVIOUS
  <2>2. /\ s \in Seq(Part) /\ Append(s, block) \in Seq(Part)
        /\ Len(Append(s, block)) = Len(s) + 1 /\ Append(s, block)[Len(s) + 1] = block
        /\ \A i \in 1 .. Len(s) : Append(s, block)[i] = s[i]
    BY <1>1, <2>1 DEF Parts
  <2>3. CASE a.by = "openai"
    BY <2>1, <2>2, <2>3 DEF Parts
  <2>4. CASE a.by # "openai"
    BY <1>1, <2>4
  <2> QED
    BY <2>3, <2>4
<1>10. PICK n \in Nat : n = IF a.by = "local" THEN a.next ELSE a.next + 1
  BY <1>1
<1>11. PICK o : o = [index |-> a.next, kind |-> kind, content |-> << >>]
  OBVIOUS
<1>12. /\ o \in Opens /\ o.index = a.next /\ o.kind = kind /\ o # Answers!None
  BY <1>1, <1>11, EmptyContent DEF Opens, Answers!None, Answers!Kinds, Answers!Streamed
<1>13. PICK b : b = Answers!Open(a, kind)
  OBVIOUS
<1>14. b = [a EXCEPT !.told = t, !.open = o, !.kept = k, !.next = n]
  <2>1. Answers!Emit(a, "start", a.next, block) = [a EXCEPT !.told = t]
    BY <1>3, <1>7 DEF Answers!Emit, Event
  <2>2. /\ Answers!Emit(a, "start", a.next, block).kept = a.kept
        /\ Answers!Emit(a, "start", a.next, block).next = a.next
    BY <2>1 DEF Accs
  <2>3. b = [Answers!Emit(a, "start", a.next, block) EXCEPT !.open = o, !.kept = k, !.next = n]
    BY <1>2, <1>9, <1>10, <1>11, <1>13, <2>2 DEF Answers!Open
  <2> QED
    BY <2>1, <2>3
<1>15. /\ b \in Accs /\ b.told = t /\ b.open = o /\ b.kept = k /\ b.next = n /\ Same(a, b)
  BY <1>12, <1>14 DEF Accs, Same
<1>16. Used(b) = a.next + 1
  BY <1>1, <1>10, <1>12, <1>15 DEF Used, Same
<1>17. Agrees(b)
  <2>1. DOMAIN b.told.view = 0 .. Used(b) - 1
    <3>1. \A m \in Nat : (0 .. m - 1) \cup {m} = 0 .. (m + 1) - 1
      OBVIOUS
    <3>2. DOMAIN t.view = (0 .. a.next - 1) \cup {a.next}
      BY <1>5, <1>8
    <3> QED
      BY <1>1, <1>15, <1>16, <3>1, <3>2
  <2>2. b.by = "openai" => Len(b.kept) = b.next
    BY <1>9, <1>10, <1>15 DEF Sound, Agrees, Same
  <2>3. a.next \in 0 .. Used(b) - 1 /\ (b.by = "local" => a.next = b.next)
    BY <1>1, <1>10, <1>15, <1>16 DEF Same
  <2>4. b.by = "openai" => ~Tooled(b, a.next)
    BY <1>2, <1>9, <1>15 DEF Tooled, Same, Sound, Agrees, Answers!Streamed
  <2>5. ASSUME NEW i \in 0 .. Used(b) - 1 PROVE b.told.view[i] = Seen(b, i)
    <3>1. CASE i = a.next
      BY <1>8, <1>12, <1>15, <3>1 DEF Seen
    <3>2. CASE i # a.next
      <4>1. i \in 0 .. a.next - 1 /\ i + 1 \in 1 .. a.next
        BY <1>1, <1>16, <3>2
      <4>2. Tooled(b, i) <=> Tooled(a, i)
        BY <1>9, <1>15, <4>1 DEF Tooled, Same, Sound, Agrees
      <4> QED
        BY <1>5, <1>8, <1>12, <1>15, <3>2, <4>1, <4>2 DEF Seen, Sound, Agrees
    <3> QED
      BY <3>1, <3>2
  <2> QED
    BY <1>12, <1>15, <2>1, <2>2, <2>3, <2>4, <2>5 DEF Agrees, Same
<1> QED
  BY <1>8, <1>12, <1>13, <1>15, <1>17 DEF Sound

-----------------------------------------------------------------------------
(* What is emitted.                                                        *)

\* A block of a sequence is extended.
Longer(s, n, more) == [s EXCEPT ![n].content = @ \o more]

\* Of the parts only the n-th has grown.
LEMMA Extended ==
    ASSUME NEW s \in Parts, NEW n \in 1 .. Len(s), NEW more \in Content
    PROVE  /\ Longer(s, n, more) \in Parts
           /\ Len(Longer(s, n, more)) = Len(s)
           /\ \A i \in 1 .. Len(s) : Longer(s, n, more)[i].kind = s[i].kind
<1>1. PICK m \in Nat : m = Len(s) /\ s \in [1 .. m -> Part]
  BY DEF Parts
<1>2. s[n] \in Part /\ s[n].content \o more \in Content
  BY <1>1 DEF Part, Content
<1>3. PICK x \in Part : x = [s[n] EXCEPT !.content = @ \o more] /\ x.kind = s[n].kind
  <2>1. PICK y \in Part : y = s[n]
    BY <1>2
  <2>2. PICK c \in Content : c = y.content \o more
    BY <1>2, <2>1
  <2>3. [y EXCEPT !.content = c] \in Part /\ [y EXCEPT !.content = c].kind = y.kind
    BY DEF Part
  <2> QED
    BY <2>1, <2>2, <2>3
<1>4. PICK t : t = Longer(s, n, more)
  OBVIOUS
<1>5. t = [s EXCEPT ![n] = x]
  BY <1>3, <1>4 DEF Longer
<1>6. t \in [1 .. m -> Part] /\ \A i \in 1 .. m : t[i].kind = s[i].kind
  BY <1>1, <1>3, <1>5
<1>7. t \in Parts /\ Len(t) = m
  BY <1>6 DEF Parts
<1> QED
  BY <1>1, <1>4, <1>6, <1>7

\* What is kept of a chunk.
LEMMA KeptOnDeltaIs ==
    ASSUME NEW a \in Accs, Sound(a), a.open # Answers!None, NEW more \in Content
    PROVE  /\ Answers!KeptOnDelta(a, more) \in Parts
           /\ a.by = "openai" =>
                /\ Len(Answers!KeptOnDelta(a, more)) = Len(a.kept)
                /\ \A i \in 1 .. Len(a.kept) :
                      Answers!KeptOnDelta(a, more)[i].kind = a.kept[i].kind
<1>1. a.kept \in Parts /\ a.open.index \in Nat /\ a.open.kind \in Answers!Kinds
  BY OpenIs DEF Accs
<1>2. CASE a.by = "openai"
  <2>1. a.open.index + 1 \in 1 .. Len(a.kept)
    <3>1. Len(a.kept) \in Nat
      BY <1>1 DEF Parts
    <3> QED
      BY <1>2, <3>1 DEF Sound, Agrees, Used
  <2>2. PICK s \in Parts : s = a.kept
    BY <1>1
  <2>3. PICK n \in 1 .. Len(s) : n = a.open.index + 1
    BY <2>1, <2>2
  <2>4. Answers!KeptOnDelta(a, more) = Longer(s, n, more)
    BY <1>2, <2>2, <2>3 DEF Answers!KeptOnDelta, Longer
  <2> QED
    BY <2>2, <2>4, Extended
<1>3. CASE a.by # "openai"
  <2>1. Append(a.kept, Answers!Block(a.open.kind, more)) \in Parts
    BY <1>1, BlockType DEF Parts
  <2>2. a.kept # << >> => Longer(a.kept, Len(a.kept), more) \in Parts
    <3>1. PICK s \in Parts : s = a.kept
      BY <1>1
    <3>2. s # << >> => Len(s) \in 1 .. Len(s)
      BY DEF Parts
    <3> QED
      BY <3>1, <3>2, Extended
  <2> QED
    BY <1>1, <1>3, <2>1, <2>2 DEF Answers!KeptOnDelta, Longer
<1> QED
  BY <1>2, <1>3

\* What goes to the open block.
Delivered(a, chunk) ==
    [Answers!Emit(a, "delta", a.open.index, chunk) EXCEPT
           !.open.content = @ \o chunk.content,
           !.kept = Answers!KeptOnDelta(a, chunk.content)]

\* A delta for the open block is sound.
LEMMA DeltaSound ==
    ASSUME NEW a \in Accs, Sound(a), a.open # Answers!None, NEW chunk \in Part,
           chunk.kind = a.open.kind
    PROVE  /\ Delivered(a, chunk) \in Accs /\ Sound(Delivered(a, chunk))
           /\ Delivered(a, chunk).open # Answers!None
           /\ Delivered(a, chunk).open.kind = chunk.kind
           /\ Same(a, Delivered(a, chunk))
<1>1. /\ a.open.index \in Nat /\ a.open.kind \in Answers!Kinds /\ a.open.content \in Content
      /\ a.told \in Audience /\ a.next \in Nat /\ chunk.content \in Content
  BY OpenIs DEF Accs, Part
<1>2. PICK e \in Events : e = Event("delta", a.open.index, chunk)
  BY <1>1, EmitIs
<1>3. e.what = "delta" /\ e.index = a.open.index /\ e.block = chunk
  BY <1>2 DEF Event
<1>4. Answers!Fits(a.told.view, e)
  BY <1>3 DEF Answers!Fits, Answers!Has, Sound, Agrees, Seen
<1>5. PICK t \in Audience : t = Answers!Hear(a.told, e) /\ Heard(a.told, t, e)
  <2>1. a.told.garbled = FALSE
    BY DEF Sound
  <2> QED
    BY <1>1, <1>4, <2>1, HearFits
<1>6. t.garbled = FALSE /\ t.view = a.told.view
  BY <1>3, <1>5 DEF Heard
<1>7. PICK k \in Parts : /\ k = Answers!KeptOnDelta(a, chunk.content)
                         /\ a.by = "openai" =>
                              /\ Len(k) = Len(a.kept)
                              /\ \A i \in 1 .. Len(a.kept) : k[i].kind = a.kept[i].kind
  BY <1>1, KeptOnDeltaIs
<1>8. PICK o : o = [a.open EXCEPT !.content = @ \o chunk.content]
  OBVIOUS
<1>9. /\ o \in Opens /\ o # Answers!None
      /\ o.index = a.open.index /\ o.kind = a.open.kind
  <2>1. a.open \in [index : Nat, kind : Answers!Kinds, content : Content]
    BY DEF Accs, Opens
  <2>2. a.open.content \o chunk.content \in Content
    BY <1>1 DEF Content
  <2>3. /\ o \in [index : Nat, kind : Answers!Kinds, content : Content]
        /\ o.index = a.open.index /\ o.kind = a.open.kind
    BY <1>8, <2>1, <2>2
  <2> QED
    BY <2>3 DEF Opens, Answers!None, Answers!Kinds, Answers!Streamed
<1>10. PICK b : b = Delivered(a, chunk)
  OBVIOUS
<1>11. b = [a EXCEPT !.told = t, !.open = o, !.kept = k]
  <2>1. Answers!Emit(a, "delta", a.open.index, chunk) = [a EXCEPT !.told = t]
    BY <1>2, <1>5 DEF Answers!Emit, Event
  <2>2. Answers!Emit(a, "delta", a.open.index, chunk).open = a.open
    BY <2>1 DEF Accs
  <2>3. b = [Answers!Emit(a, "delta", a.open.index, chunk) EXCEPT !.open = o, !.kept = k]
    BY <1>7, <1>8, <1>10, <2>2 DEF Delivered
  <2> QED
    BY <2>1, <2>3
<1>12. /\ b \in Accs /\ b.told = t /\ b.open = o /\ b.kept = k /\ b.next = a.next /\ Same(a, b)
  BY <1>9, <1>11 DEF Accs, Same
<1>13. Used(b) = Used(a) /\ Used(a) \in Nat
  BY <1>1, <1>9, <1>12 DEF Used, Same
<1>14. Agrees(b)
  <2>1. \A i \in 0 .. Used(a) - 1 : Tooled(b, i) <=> Tooled(a, i)
    <3> SUFFICES ASSUME NEW i \in 0 .. Used(a) - 1, a.by = "openai"
                 PROVE  k[i + 1].kind = a.kept[i + 1].kind
      BY <1>12 DEF Tooled, Same
    <3>1. i + 1 \in 1 .. Len(a.kept)
      BY <1>1, <1>13 DEF Sound, Agrees, Used
    <3> QED
      BY <1>7, <3>1
  <2>2. \A i \in 0 .. Used(b) - 1 : b.told.view[i] = Seen(b, i)
    BY <1>6, <1>9, <1>12, <1>13, <2>1 DEF Seen, Sound, Agrees
  <2>3. DOMAIN b.told.view = 0 .. Used(b) - 1
    BY <1>6, <1>12, <1>13 DEF Sound, Agrees
  <2>4. b.by = "openai" => Len(b.kept) = b.next
    BY <1>7, <1>12 DEF Sound, Agrees, Same
  <2> QED
    BY <1>9, <1>12, <1>13, <2>1, <2>2, <2>3, <2>4 DEF Agrees, Sound, Same
<1> QED
  BY <1>6, <1>9, <1>10, <1>12, <1>14 DEF Sound

\* A chunk is emitted.
LEMMA EmitChunkSound ==
    ASSUME NEW a \in Accs, Sound(a), NEW chunk \in Part,
           a.by = "openai" => chunk.kind \in Answers!Streamed
    PROVE  /\ Answers!EmitChunk(a, chunk) \in Accs /\ Sound(Answers!EmitChunk(a, chunk))
           /\ Same(a, Answers!EmitChunk(a, chunk))
<1>1. PICK f \in Accs : /\ f = IF a.open.kind = chunk.kind THEN a ELSE Answers!Close(a)
                        /\ Sound(f) /\ Same(a, f)
                        /\ f.open # Answers!None => f.open.kind = chunk.kind
  BY CloseSound DEF Same
<1>2. chunk.kind \in Answers!Kinds
  BY DEF Part
<1>3. PICK r \in Accs : /\ r = IF f.open = Answers!None THEN Answers!Open(f, chunk.kind) ELSE f
                        /\ Sound(r) /\ Same(a, r)
                        /\ r.open # Answers!None /\ r.open.kind = chunk.kind
  <2>1. CASE f.open = Answers!None
    <3>1. f.by = "openai" => chunk.kind \in Answers!Streamed
      BY <1>1 DEF Same
    <3> QED
      BY <1>1, <1>2, <2>1, <3>1, OpenSound DEF Same
  <2>2. CASE f.open # Answers!None
    BY <1>1, <2>2 DEF Same
  <2> QED
    BY <2>1, <2>2
<1>4. Answers!EmitChunk(a, chunk) = Delivered(r, chunk)
  BY <1>1, <1>3 DEF Answers!EmitChunk, Delivered
<1> QED
  BY <1>3, <1>4, DeltaSound DEF Same

\* So is text that may be empty.
LEMMA EmitTextSound ==
    ASSUME NEW a \in Accs, Sound(a), NEW kind \in Answers!Streamed, NEW more \in Content
    PROVE  /\ Answers!EmitText(a, kind, more) \in Accs /\ Sound(Answers!EmitText(a, kind, more))
           /\ Same(a, Answers!EmitText(a, kind, more))
<1>1. CASE more = << >>
  BY <1>1 DEF Answers!EmitText, Same
<1>2. CASE more # << >>
  <2>1. PICK chunk \in Part : chunk = Answers!Block(kind, more) /\ chunk.kind = kind
    BY BlockType DEF Answers!Kinds
  <2> QED
    BY <1>2, <2>1, EmitChunkSound DEF Answers!EmitText
<1> QED
  BY <1>1, <1>2

-----------------------------------------------------------------------------
(* The fence parser and the upstream.                                      *)

\* What a step of the accumulator leaves alone.
SameCall(a, b) == b.by = a.by /\ b.upstream = a.upstream

\* The parser on the side of the fence it has come to, with what it holds back; the block
\* the upstream has come to. No one hears of either.
Parsing(a, inside, held) == [a EXCEPT !.inside = inside, !.held = held]
Upstream(a, kind) == [a EXCEPT !.upstream = kind]

\* What is sound does not depend on them.
LEMMA Quietly ==
    ASSUME NEW a \in Accs, Sound(a), NEW b \in Accs, b.by = a.by, b.open = a.open,
           b.told = a.told, b.next = a.next, b.kept = a.kept
    PROVE  Sound(b)
  BY DEF Sound, Agrees, Used, Seen, Tooled

\* The state of the parser is nothing to the listeners.
LEMMA ParsingSound ==
    ASSUME NEW a \in Accs, Sound(a), NEW inside \in Answers!Streamed, NEW held \in Content
    PROVE  /\ Parsing(a, inside, held) \in Accs /\ Sound(Parsing(a, inside, held))
           /\ SameCall(a, Parsing(a, inside, held))
           /\ Parsing(a, inside, held).inside = inside
           /\ Parsing(a, inside, held).held = held
<1>1. PICK b : b = Parsing(a, inside, held)
  OBVIOUS
<1>2. /\ b \in Accs /\ b.by = a.by /\ b.inside = inside /\ b.held = held
      /\ b.upstream = a.upstream
      /\ b.open = a.open /\ b.told = a.told /\ b.next = a.next /\ b.kept = a.kept
  BY <1>1 DEF Accs, Parsing
<1> QED
  BY <1>1, <1>2, Quietly DEF SameCall

\* Nor is that of the upstream.
LEMMA UpstreamSound ==
    ASSUME NEW a \in Accs, Sound(a), NEW kind \in Answers!Kinds \cup {"none"}
    PROVE  /\ Upstream(a, kind) \in Accs /\ Sound(Upstream(a, kind))
           /\ Upstream(a, kind).by = a.by /\ Upstream(a, kind).upstream = kind
           /\ Upstream(a, kind).open = a.open
<1>1. PICK b : b = Upstream(a, kind)
  OBVIOUS
<1>2. /\ b \in Accs /\ b.by = a.by /\ b.upstream = kind
      /\ b.open = a.open /\ b.told = a.told /\ b.next = a.next /\ b.kept = a.kept
  BY <1>1 DEF Accs, Upstream
<1> QED
  BY <1>1, <1>2, Quietly

\* A fragment of text is pushed.
LEMMA PushSound ==
    ASSUME NEW a \in Accs, Sound(a), NEW lead \in Content, NEW tail \in Content,
           NEW fence \in BOOLEAN, NEW hold \in BOOLEAN,
           NEW f, f = [lead |-> lead, fence |-> fence, hold |-> hold, tail |-> tail]
    PROVE  /\ Answers!PushFragment(a, f) \in Accs /\ Sound(Answers!PushFragment(a, f))
           /\ SameCall(a, Answers!PushFragment(a, f))
<1>1. /\ a.inside \in Answers!Streamed /\ a.held \in Content
      /\ f.lead = lead /\ f.fence = fence /\ f.hold = hold /\ f.tail = tail
      /\ Answers!Other(a.inside) \in Answers!Streamed
  BY DEF Accs, Answers!Other, Answers!Streamed
<1>2. PICK more \in Content : more = a.held \o lead
  <2>1. a.held \o lead \in Content
    BY <1>1 DEF Content
  <2> QED
    BY <2>1
<1>3. CASE fence
  <2>1. PICK b \in Accs : /\ b = Answers!EmitText(a, a.inside, more) /\ Sound(b)
                          /\ SameCall(a, b) /\ b.inside = a.inside
    BY <1>1, EmitTextSound DEF Same, SameCall
  <2>2. PICK side \in Answers!Streamed : side = Answers!Other(a.inside)
    BY <1>1
  <2>3. PICK c \in Accs : /\ c = Parsing(b, side, << >>) /\ Sound(c)
                          /\ SameCall(b, c) /\ c.inside = side
    BY <2>1, EmptyContent, ParsingSound
  <2>4. CASE hold
    <3>1. Answers!PushFragment(a, f) = Parsing(c, side, tail)
      BY <1>1, <1>2, <1>3, <2>1, <2>2, <2>3, <2>4 DEF Answers!PushFragment, Parsing, Accs
    <3>2. PICK d \in Accs : d = Parsing(c, side, tail) /\ Sound(d) /\ SameCall(c, d)
      BY ParsingSound, <2>3
    <3> QED
      BY <2>1, <2>3, <3>1, <3>2 DEF SameCall
  <2>5. CASE ~hold
    <3>1. Answers!PushFragment(a, f) = Answers!EmitText(c, side, tail)
      BY <1>1, <1>2, <1>3, <2>1, <2>2, <2>3, <2>5 DEF Answers!PushFragment, Parsing
    <3>2. PICK d \in Accs : d = Answers!EmitText(c, side, tail) /\ Sound(d) /\ Same(c, d)
      BY EmitTextSound, <2>3
    <3> QED
      BY <2>1, <2>3, <3>1, <3>2 DEF SameCall, Same
  <2> QED
    BY <2>4, <2>5
<1>4. CASE ~fence /\ hold
  <2>1. Answers!PushFragment(a, f) = Parsing(a, a.inside, more)
    BY <1>1, <1>2, <1>4 DEF Answers!PushFragment, Parsing, Accs
  <2> QED
    BY <1>1, <2>1, ParsingSound
<1>5. CASE ~fence /\ ~hold
  <2>1. PICK b \in Accs : b = Parsing(a, a.inside, << >>) /\ Sound(b) /\ SameCall(a, b)
    BY <1>1, EmptyContent, ParsingSound
  <2>2. Answers!PushFragment(a, f) = Answers!EmitText(b, a.inside, more)
    BY <1>1, <1>2, <1>5, <2>1 DEF Answers!PushFragment, Parsing, Accs
  <2>3. PICK d \in Accs : d = Answers!EmitText(b, a.inside, more) /\ Sound(d) /\ Same(b, d)
    BY <1>1, EmitTextSound, <2>1
  <2> QED
    BY <2>1, <2>2, <2>3 DEF SameCall, Same
<1> QED
  BY <1>3, <1>4, <1>5

\* The parser is finished.
LEMMA FinishSound ==
    ASSUME NEW a \in Accs, Sound(a)
    PROVE  /\ Answers!FinishFence(a) \in Accs /\ Sound(Answers!FinishFence(a))
           /\ SameCall(a, Answers!FinishFence(a))
<1>1. a.inside \in Answers!Streamed /\ a.held \in Content
  BY DEF Accs
<1>2. PICK b \in Accs : b = Answers!EmitText(a, a.inside, a.held) /\ Sound(b) /\ SameCall(a, b)
  BY <1>1, EmitTextSound DEF Same, SameCall
<1>3. Answers!FinishFence(a) = Parsing(b, "text", << >>)
  BY <1>2 DEF Answers!FinishFence, Parsing, Accs
<1> QED
  BY <1>2, <1>3, EmptyContent, ParsingSound DEF SameCall, Answers!Streamed

-----------------------------------------------------------------------------
(* Tools.                                                                  *)

\* The start of a block at the next index.
Starts(a, block, t) ==
    /\ Answers!Emit(a, "start", a.next, block) = [a EXCEPT !.told = t]
    /\ t.garbled = FALSE
    /\ DOMAIN t.view = 0 .. a.next /\ t.view[a.next] = block.kind
    /\ \A i \in 0 .. a.next - 1 : t.view[i] = Seen(a, i)

\* A block that starts under the next number is sound.
LEMMA StartsNext ==
    ASSUME NEW a \in Accs, Sound(a), a.by = "local" => a.open = Answers!None,
           NEW block \in Part
    PROVE  \E t \in Audience : Starts(a, block, t)
<1>1. a.told \in Audience /\ a.next \in Nat /\ a.told.garbled = FALSE
  BY DEF Accs, Sound
<1>3. PICK e \in Events : e = Event("start", a.next, block)
  BY <1>1, EmitIs
<1>4. e.what = "start" /\ e.index = a.next /\ e.block = block
  BY <1>3 DEF Event
<1>5. Used(a) = a.next /\ DOMAIN a.told.view = 0 .. a.next - 1
      /\ \A i \in 0 .. a.next - 1 : a.told.view[i] = Seen(a, i)
  BY DEF Used, Sound, Agrees
<1>6. Answers!Fits(a.told.view, e)
  BY <1>1, <1>4, <1>5 DEF Answers!Fits, Answers!Has
<1>7. PICK t \in Audience : t = Answers!Hear(a.told, e) /\ Heard(a.told, t, e)
  BY <1>1, <1>6, HearFits
<1>8. /\ t.garbled = FALSE
      /\ DOMAIN t.view = DOMAIN a.told.view \cup {a.next}
      /\ t.view[a.next] = block.kind
      /\ \A j \in DOMAIN a.told.view : j # a.next => t.view[j] = a.told.view[j]
  BY <1>4, <1>7 DEF Heard
<1>9. DOMAIN t.view = 0 .. a.next
  <2>1. \A m \in Nat : (0 .. m - 1) \cup {m} = 0 .. m
    OBVIOUS
  <2> QED
    BY <1>1, <1>5, <1>8, <2>1
<1>10. \A i \in 0 .. a.next - 1 : t.view[i] = Seen(a, i)
  <2>1. \A i \in 0 .. a.next - 1 : i # a.next /\ i \in DOMAIN a.told.view
    BY <1>1, <1>5
  <2> QED
    BY <1>5, <1>8, <2>1
<1>11. Answers!Emit(a, "start", a.next, block) = [a EXCEPT !.told = t]
  BY <1>3, <1>7 DEF Answers!Emit, Event
<1> QED
  BY <1>8, <1>9, <1>10, <1>11 DEF Starts

\* A block that comes whole.
LEMMA WholeSound ==
    ASSUME NEW a \in Accs, Sound(a), a.by # "openai", a.by = "local" => a.open = Answers!None,
           NEW kind \in Answers!Kinds
    PROVE  /\ Answers!Whole(a, kind) \in Accs /\ Sound(Answers!Whole(a, kind))
           /\ SameCall(a, Answers!Whole(a, kind)) /\ Answers!Whole(a, kind).open = a.open
<1>1. a.told \in Audience /\ a.next \in Nat /\ a.kept \in Parts
  BY DEF Accs
<1>2. PICK block \in Part : block = Answers!Block(kind, << >>) /\ block.kind = kind
  BY BlockType, EmptyContent
<1>3. PICK t \in Audience :
         /\ Answers!Emit(a, "start", a.next, block) = [a EXCEPT !.told = t] /\ t.garbled = FALSE
         /\ DOMAIN t.view = 0 .. a.next /\ t.view[a.next] = kind
         /\ \A i \in 0 .. a.next - 1 : t.view[i] = Seen(a, i)
  <2>1. PICK t \in Audience : Starts(a, block, t)
    BY StartsNext
  <2> QED
    BY <1>2, <2>1 DEF Starts
<1>4. PICK b : b = [a EXCEPT !.told = t]
  OBVIOUS
<1>5. b \in Accs /\ b.told = t /\ b.next = a.next /\ b.kept = a.kept /\ b.by = a.by
      /\ b.upstream = a.upstream
  BY <1>4 DEF Accs
<1>6. PICK e \in Events : e = Event("stop", a.next, block)
  BY <1>1, EmitIs
<1>7. e.what = "stop" /\ e.index = a.next /\ e.block = block
  BY <1>6 DEF Event
<1>8. Answers!Fits(t.view, e)
  BY <1>1, <1>2, <1>3, <1>7 DEF Answers!Fits, Answers!Has
<1>9. PICK u \in Audience : u = Answers!Hear(t, e) /\ Heard(t, u, e)
  BY <1>3, <1>8, HearFits
<1>10. /\ u.garbled = FALSE /\ DOMAIN u.view = 0 .. a.next /\ u.view[a.next] = "ended"
       /\ \A i \in 0 .. a.next - 1 : u.view[i] = Seen(a, i)
  <2>1. /\ u.garbled = FALSE /\ DOMAIN u.view = (0 .. a.next) \cup {a.next}
        /\ u.view[a.next] = "ended"
        /\ \A i \in 0 .. a.next : i # a.next => u.view[i] = t.view[i]
    BY <1>3, <1>7, <1>9 DEF Heard
  <2>2. (0 .. a.next) \cup {a.next} = 0 .. a.next
    BY <1>1
  <2>3. \A i \in 0 .. a.next - 1 : i \in 0 .. a.next /\ i # a.next
    BY <1>1
  <2> QED
    BY <1>3, <2>1, <2>2, <2>3
<1>11. PICK k \in Parts : k = Append(a.kept, block)
  <2>1. Append(a.kept, block) \in Parts
    BY <1>1 DEF Parts
  <2> QED
    BY <2>1
<1>12. PICK c : c = Answers!Whole(a, kind)
  OBVIOUS
<1>0. PICK n \in Nat : n = a.next + 1
  BY <1>1
<1>13. c = [a EXCEPT !.told = u, !.next = a.next + 1, !.kept = k]
  <2>1. Answers!Emit(b, "stop", a.next, block) = [b EXCEPT !.told = u]
    BY <1>5, <1>6, <1>9 DEF Answers!Emit, Event
  <2>2. /\ Answers!Emit(b, "stop", a.next, block).next = a.next
        /\ Answers!Emit(b, "stop", a.next, block).kept = a.kept
    BY <1>5, <2>1 DEF Accs
  <2>3. c = [Answers!Emit(b, "stop", a.next, block) EXCEPT !.next = a.next + 1, !.kept = k]
    BY <1>2, <1>3, <1>4, <1>11, <1>12, <2>2 DEF Answers!Whole
  <2> QED
    BY <1>4, <2>1, <2>3
<1>14. /\ c \in Accs /\ c.told = u /\ c.open = a.open /\ c.kept = k /\ c.next = a.next + 1
       /\ c.by = a.by /\ c.upstream = a.upstream
  BY <1>0, <1>13 DEF Accs
<1>15. Agrees(c)
  <2>1. Used(c) = a.next + 1 /\ Used(a) = a.next
    BY <1>14 DEF Used
  <2>2. a.open # Answers!None => a.open.index \in 0 .. a.next - 1
    BY <2>1 DEF Sound, Agrees
  <2>3. DOMAIN c.told.view = 0 .. Used(c) - 1
    BY <1>1, <1>10, <1>14, <2>1
  <2>4. ASSUME NEW i \in 0 .. Used(c) - 1 PROVE c.told.view[i] = Seen(c, i)
    <3>1. CASE i = a.next
      BY <1>1, <1>10, <1>14, <2>2, <3>1 DEF Seen, Tooled
    <3>2. CASE i # a.next
      BY <1>1, <1>10, <1>14, <2>1, <3>2 DEF Seen, Tooled
    <3> QED
      BY <3>1, <3>2
  <2> QED
    BY <1>1, <1>14, <2>1, <2>2, <2>3, <2>4 DEF Agrees
<1> QED
  BY <1>10, <1>12, <1>14, <1>15 DEF Sound, SameCall

\* OpenAI's call of a tool, which stays open.
ToolBegins(a) ==
    [Answers!Emit(a, "start", a.next, Answers!Block("tool", << >>)) EXCEPT
        !.next = @ + 1, !.kept = Append(@, Answers!Block("tool", << >>))]

\* A tool of OpenAI's is sound.
LEMMA ToolBeginsSound ==
    ASSUME NEW a \in Accs, Sound(a), a.by = "openai"
    PROVE  /\ ToolBegins(a) \in Accs /\ Sound(ToolBegins(a)) /\ SameCall(a, ToolBegins(a))
<1>1. a.told \in Audience /\ a.next \in Nat /\ a.kept \in Parts /\ "tool" \in Answers!Kinds
  BY DEF Accs, Answers!Kinds
<1>2. PICK block \in Part : block = Answers!Block("tool", << >>) /\ block.kind = "tool"
  BY <1>1, BlockType, EmptyContent
<1>3. PICK t \in Audience :
         /\ Answers!Emit(a, "start", a.next, block) = [a EXCEPT !.told = t] /\ t.garbled = FALSE
         /\ DOMAIN t.view = 0 .. a.next /\ t.view[a.next] = "tool"
         /\ \A i \in 0 .. a.next - 1 : t.view[i] = Seen(a, i)
  <2>1. a.by # "local"
    OBVIOUS
  <2>2. PICK t \in Audience : Starts(a, block, t)
    BY <2>1, StartsNext
  <2> QED
    BY <1>2, <2>2 DEF Starts
<1>4. PICK k \in Parts : /\ k = Append(a.kept, block) /\ Len(k) = Len(a.kept) + 1
                         /\ k[Len(a.kept) + 1] = block
                         /\ \A i \in 1 .. Len(a.kept) : k[i] = a.kept[i]
  <2>1. PICK s : s = a.kept
    OBVIOUS
  <2>2. /\ Append(s, block) \in Seq(Part)
        /\ Len(Append(s, block)) = Len(s) + 1 /\ Append(s, block)[Len(s) + 1] = block
        /\ \A i \in 1 .. Len(s) : Append(s, block)[i] = s[i]
    BY <1>1, <2>1 DEF Parts
  <2> QED
    BY <2>1, <2>2 DEF Parts
<1>5. PICK c : c = ToolBegins(a)
  OBVIOUS
<1>0. PICK n \in Nat : n = a.next + 1
  BY <1>1
<1>6. c = [a EXCEPT !.told = t, !.next = a.next + 1, !.kept = k]
  <2>1. /\ Answers!Emit(a, "start", a.next, block).next = a.next
        /\ Answers!Emit(a, "start", a.next, block).kept = a.kept
    BY <1>3 DEF Accs
  <2>2. c = [Answers!Emit(a, "start", a.next, block) EXCEPT !.next = a.next + 1, !.kept = k]
    BY <1>2, <1>4, <1>5, <2>1 DEF ToolBegins
  <2> QED
    BY <1>3, <2>2
<1>7. /\ c \in Accs /\ c.told = t /\ c.open = a.open /\ c.kept = k /\ c.next = a.next + 1
      /\ c.by = a.by /\ c.upstream = a.upstream
  BY <1>0, <1>6 DEF Accs
<1>8. Agrees(c)
  <2>1. Used(c) = a.next + 1 /\ Used(a) = a.next /\ Len(a.kept) = a.next
    BY <1>7 DEF Used, Sound, Agrees
  <2>2. \A i \in 0 .. a.next - 1 : Tooled(c, i) <=> Tooled(a, i)
    <3> SUFFICES ASSUME NEW i \in 0 .. a.next - 1 PROVE k[i + 1] = a.kept[i + 1]
      BY <1>7 DEF Tooled
    <3>1. i + 1 \in 1 .. Len(a.kept)
      BY <1>1, <2>1
    <3> QED
      BY <1>4, <3>1
  <2>3. a.open # Answers!None => /\ a.open.index \in 0 .. a.next - 1
                                 /\ a.open.kind \in Answers!Streamed /\ ~Tooled(a, a.open.index)
    BY <2>1 DEF Sound, Agrees
  <2>4. DOMAIN c.told.view = 0 .. Used(c) - 1
    BY <1>1, <1>3, <1>7, <2>1
  <2>5. ASSUME NEW i \in 0 .. Used(c) - 1 PROVE c.told.view[i] = Seen(c, i)
    <3>1. CASE i = a.next
      <4>1. Tooled(c, a.next)
        BY <1>1, <1>2, <1>4, <1>7, <2>1 DEF Tooled
      <4> QED
        BY <1>1, <1>3, <1>7, <2>3, <3>1, <4>1 DEF Seen
    <3>2. CASE i # a.next
      BY <1>1, <1>3, <1>7, <2>1, <2>2, <3>2 DEF Seen
    <3> QED
      BY <3>1, <3>2
  <2>6. c.open # Answers!None => c.open.index \in 0 .. Used(c) - 1
    BY <1>1, <1>7, <2>1, <2>3
  <2> QED
    BY <1>1, <1>4, <1>7, <2>1, <2>2, <2>3, <2>4, <2>5, <2>6 DEF Agrees
<1> QED
  BY <1>3, <1>5, <1>7, <1>8 DEF Sound, SameCall

\* Anthropic's blocks that are no text have a beginning and an end of their own.
LEMMA BlockSound ==
    ASSUME NEW a \in Accs, Sound(a), a.by = "anthropic", NEW kind \in {"tool", "thinking"}
    PROVE  LET b == [Answers!Open(Answers!Close(a), kind) EXCEPT !.upstream = kind] IN
           b \in Accs /\ Sound(b) /\ b.by = a.by /\ b.upstream = kind
<1>1. PICK c \in Accs : c = Answers!Close(a) /\ Sound(c) /\ Same(a, c) /\ c.open = Answers!None
  BY CloseSound
<1>2. kind \in Answers!Kinds
  BY DEF Answers!Kinds
<1>3. PICK d \in Accs : d = Answers!Open(c, kind) /\ Sound(d) /\ Same(c, d)
  BY <1>1, <1>2, OpenSound DEF Same
<1>4. Upstream(d, kind) = [Answers!Open(Answers!Close(a), kind) EXCEPT !.upstream = kind]
  BY <1>1, <1>3 DEF Upstream
<1>5. /\ Upstream(d, kind) \in Accs /\ Sound(Upstream(d, kind))
      /\ Upstream(d, kind).by = d.by /\ Upstream(d, kind).upstream = kind
  BY <1>2, <1>3, UpstreamSound
<1> QED
  BY <1>1, <1>3, <1>4, <1>5 DEF Same

\* Whatever the provider, a tool call is sound.
LEMMA ToolSound ==
    ASSUME NEW a \in Accs, Sound(a)
    PROVE  /\ Answers!ToolCall(a) \in Accs /\ Sound(Answers!ToolCall(a))
           /\ Answers!ToolCall(a).by = a.by
           /\ a.by = "anthropic" => Answers!ToolCall(a).upstream = "tool"
           /\ a.by # "anthropic" => Answers!ToolCall(a).upstream = a.upstream
<1>1. CASE a.by = "anthropic"
  BY <1>1, BlockSound DEF Answers!ToolCall
<1>2. CASE a.by = "openai"
  <2>1. Answers!ToolCall(a) = ToolBegins(a)
    BY <1>2 DEF Answers!ToolCall, ToolBegins
  <2> QED
    BY <1>2, <2>1, ToolBeginsSound DEF SameCall
<1>3. CASE a.by = "gemini"
  <2>1. Answers!ToolCall(a) = Answers!Whole(a, "tool")
    BY <1>3 DEF Answers!ToolCall
  <2> QED
    BY <1>3, <2>1, WholeSound DEF SameCall, Answers!Kinds
<1>4. CASE a.by = "local"
  <2>1. PICK c \in Accs : c = Answers!Close(a) /\ Sound(c) /\ Same(a, c) /\ c.open = Answers!None
    BY CloseSound
  <2>2. Answers!ToolCall(a) = Answers!Whole(c, "tool")
    BY <1>4, <2>1 DEF Answers!ToolCall
  <2>3. c.by # "openai" /\ "tool" \in Answers!Kinds
    BY <1>4, <2>1 DEF Same, Answers!Kinds
  <2> QED
    BY <1>4, <2>1, <2>2, <2>3, WholeSound DEF SameCall, Same
<1> QED
  BY <1>1, <1>2, <1>3, <1>4 DEF Accs, Answers!Providers

-----------------------------------------------------------------------------
(* The end of the stream.                                                  *)

\* OpenAI's calls of tools end with the stream, in their order.
StopNext(a, k, b) == IF a.kept[k].kind = "tool" THEN Answers!StopTool(b, k - 1) ELSE b
\* The function that stops OpenAI's tools one after the other.
Stops(f, a) ==
    f = [i \in 0 .. Len(a.kept) |-> IF i = 0 THEN a ELSE IF a.kept[i].kind = "tool"
            THEN Answers!StopTool(f[i - 1], i - 1) ELSE f[i - 1]]

\* What it has done up to a place.
LEMMA StoppedIs ==
    ASSUME NEW a \in Accs
    PROVE  \E f \in [0 .. Len(a.kept) -> Accs] :
              /\ f[0] = a
              /\ \A i \in 1 .. Len(a.kept) : f[i] = StopNext(a, i, f[i - 1])
              /\ Answers!StopTools(a) = f[Len(a.kept)]
<1>1. PICK n \in Nat : n = Len(a.kept)
  BY DEF Accs, Parts
<1>2. ASSUME NEW k \in 1 .. n, NEW b \in Accs PROVE StopNext(a, k, b) \in Accs
  <2>1. k - 1 \in Nat /\ "tool" \in Answers!Kinds
    BY DEF Answers!Kinds
  <2>2. Answers!Block("tool", << >>) \in Part
    BY <2>1, BlockType, EmptyContent
  <2>3. Answers!StopTool(b, k - 1) \in Accs
    BY <2>1, <2>2, EmitIs DEF Answers!StopTool
  <2> QED
    BY <2>3 DEF StopNext
<1> DEFINE g == [x \in (1 .. n) \X Accs |-> StopNext(a, x[1], x[2])]
<1>3. \A k \in 1 .. n : \A b \in Accs : g[<<k, b>>] \in Accs
  BY <1>2
<1>4. PICK f \in [0 .. n -> Accs] : Follows(f, n, a, g)
  <2> HIDE DEF g
  <2> QED
    BY <1>1, <1>3, Recursion
<1>5. \A k \in 1 .. n : f[k] = StopNext(a, k, f[k - 1])
  <2> SUFFICES ASSUME NEW k \in 1 .. n PROVE f[k] = StopNext(a, k, f[k - 1])
    OBVIOUS
  <2>1. k - 1 \in 0 .. n
    OBVIOUS
  <2>2. <<k, f[k - 1]>> \in (1 .. n) \X Accs
    BY <2>1
  <2> QED
    BY <1>4, <2>2 DEF Follows
<1>6. Stops(f, a)
  <2>1. f = [i \in 0 .. n |-> f[i]]
    OBVIOUS
  <2>2. ASSUME NEW i \in 0 .. n
        PROVE  f[i] = IF i = 0 THEN a ELSE IF a.kept[i].kind = "tool"
                      THEN Answers!StopTool(f[i - 1], i - 1) ELSE f[i - 1]
    <3>1. i # 0 => i \in 1 .. n
      OBVIOUS
    <3> QED
      BY <1>4, <1>5, <3>1 DEF Follows, StopNext
  <2>3. f = [i \in 0 .. n |-> IF i = 0 THEN a ELSE IF a.kept[i].kind = "tool"
                      THEN Answers!StopTool(f[i - 1], i - 1) ELSE f[i - 1]]
    BY <2>1, <2>2, Zenon
  <2> QED
    BY <1>1, <2>3 DEF Stops
<1>7. PICK h : h = (CHOOSE e : Stops(e, a))
  OBVIOUS
<1>8. Stops(h, a)
  BY <1>6, <1>7, Zenon
<1>9. Answers!StopTools(a) = h[n]
  BY <1>1, <1>7, Zenon DEF Answers!StopTools, Stops
<1>10. h[0] = a /\ \A i \in 1 .. n : h[i] = StopNext(a, i, h[i - 1])
  <2>1. h[0] = a
    BY <1>1, <1>8 DEF Stops
  <2>2. ASSUME NEW i \in 1 .. n PROVE h[i] = StopNext(a, i, h[i - 1])
    <3>1. i \in 0 .. n /\ i # 0
      OBVIOUS
    <3>2. h[i] = IF a.kept[i].kind = "tool" THEN Answers!StopTool(h[i - 1], i - 1) ELSE h[i - 1]
      BY <1>1, <1>8, <3>1, Zenon DEF Stops
    <3> QED
      BY <3>2 DEF StopNext
  <2> QED
    BY <2>1, <2>2
<1>11. h \in [0 .. n -> Accs]
  <2> DEFINE S == {i \in 0 .. n : h[i] \in Accs}
  <2>1. 0 \in S
    BY <1>10
  <2>2. ASSUME NEW i \in 0 .. n - 1, i \in S PROVE i + 1 \in S
    <3>1. i + 1 \in 1 .. n /\ (i + 1) - 1 = i /\ i + 1 \in 0 .. n
      OBVIOUS
    <3> QED
      BY <1>2, <1>10, <2>2, <3>1
  <2> HIDE DEF S
  <2>3. 0 .. n \subseteq S
    BY <1>1, <2>1, <2>2, UpTo
  <2>4. \A i \in 0 .. n : h[i] \in Accs
    BY <2>3 DEF S
  <2>5. h = [i \in 0 .. n |-> h[i]]
    BY <1>1, <1>8 DEF Stops
  <2> QED
    BY <2>4, <2>5
<1> QED
  BY <1>1, <1>9, <1>10, <1>11

\* The tools before the n-th have ended.
Stopped(a, n, b) ==
    \E t \in Audience :
       /\ b = [a EXCEPT !.told = t] /\ t.garbled = FALSE
       /\ DOMAIN t.view = 0 .. a.next - 1
       /\ \A j \in 0 .. a.next - 1 :
             t.view[j] = IF Tooled(a, j) /\ j >= n THEN "tool" ELSE "ended"

\* Its step.
LEMMA StopOne ==
    ASSUME NEW a \in Accs, a.by = "openai", Len(a.kept) = a.next, NEW n \in 0 .. a.next - 1,
           NEW b \in Accs, Stopped(a, n, b)
    PROVE  Stopped(a, n + 1, StopNext(a, n + 1, b))
<1>1. PICK t \in Audience :
       /\ b = [a EXCEPT !.told = t] /\ t.garbled = FALSE
       /\ DOMAIN t.view = 0 .. a.next - 1
       /\ \A j \in 0 .. a.next - 1 :
             t.view[j] = IF Tooled(a, j) /\ j >= n THEN "tool" ELSE "ended"
  BY DEF Stopped
<1>2. a.next \in Nat /\ n \in Nat /\ (n + 1) - 1 = n /\ "tool" \in Answers!Kinds
  BY DEF Accs, Answers!Kinds
<1>3. \A j \in 0 .. a.next - 1 : j # n => (j >= n <=> j >= n + 1)
  BY <1>2
<1>4. CASE a.kept[n + 1].kind # "tool"
  <2>1. StopNext(a, n + 1, b) = b /\ ~Tooled(a, n)
    BY <1>4 DEF StopNext, Tooled
  <2>2. \A j \in 0 .. a.next - 1 :
             t.view[j] = IF Tooled(a, j) /\ j >= n + 1 THEN "tool" ELSE "ended"
    BY <1>1, <1>3, <2>1
  <2> QED
    BY <1>1, <2>1, <2>2 DEF Stopped
<1>5. CASE a.kept[n + 1].kind = "tool"
  <2>1. Tooled(a, n)
    BY <1>5 DEF Tooled
  <2>2. PICK block \in Part : block = Answers!Block("tool", << >>) /\ block.kind = "tool"
    BY <1>2, BlockType, EmptyContent
  <2>3. PICK e \in Events : e = Event("stop", n, block)
    BY <1>2, EmitIs
  <2>4. e.what = "stop" /\ e.index = n /\ e.block = block
    BY <2>3 DEF Event
  <2>5. t.view[n] = "tool" /\ n \in DOMAIN t.view
    BY <1>1, <1>2, <2>1
  <2>6. Answers!Fits(t.view, e)
    BY <2>2, <2>4, <2>5 DEF Answers!Fits, Answers!Has
  <2>7. PICK u \in Audience : u = Answers!Hear(t, e) /\ Heard(t, u, e)
    BY <1>1, <2>6, HearFits
  <2>8. /\ u.garbled = FALSE /\ u.view[n] = "ended"
        /\ DOMAIN u.view = (0 .. a.next - 1) \cup {n}
        /\ \A j \in 0 .. a.next - 1 : j # n => u.view[j] = t.view[j]
    BY <1>1, <2>4, <2>7 DEF Heard
  <2>9. DOMAIN u.view = 0 .. a.next - 1
    BY <2>8
  <2>10. \A j \in 0 .. a.next - 1 :
             u.view[j] = IF Tooled(a, j) /\ j >= n + 1 THEN "tool" ELSE "ended"
    <3>1. ~(n >= n + 1)
      BY <1>2
    <3> QED
      BY <1>1, <1>3, <2>8, <3>1
  <2>11. StopNext(a, n + 1, b) = [a EXCEPT !.told = u]
    <3>1. b.told = t
      BY <1>1 DEF Accs
    <3>2. StopNext(a, n + 1, b) = [b EXCEPT !.told = u]
      BY <1>2, <1>5, <2>2, <2>3, <2>7, <3>1 DEF StopNext, Answers!StopTool, Answers!Emit, Event
    <3> QED
      BY <1>1, <3>2
  <2> QED
    BY <2>8, <2>9, <2>10, <2>11 DEF Stopped
<1> QED
  BY <1>4, <1>5

\* What has ended.
AllEnded(a) == \A i \in DOMAIN a.told.view : a.told.view[i] = "ended"

\* When it is done no tool is open.
LEMMA StopToolsSound ==
    ASSUME NEW a \in Accs, Sound(a), a.by = "openai", a.open = Answers!None
    PROVE  /\ Answers!StopTools(a) \in Accs /\ Answers!StopTools(a).told.garbled = FALSE
           /\ AllEnded(Answers!StopTools(a)) /\ Answers!StopTools(a).by = a.by
<1>1. a.next \in Nat /\ Len(a.kept) = a.next /\ a.told \in Audience
  BY DEF Accs, Sound, Agrees
<1>2. PICK n \in Nat : n = a.next
  BY <1>1
<1>3. PICK f \in [0 .. n -> Accs] :
         /\ f[0] = a /\ \A i \in 1 .. n : f[i] = StopNext(a, i, f[i - 1])
         /\ Answers!StopTools(a) = f[n]
  BY <1>1, <1>2, StoppedIs
<1> DEFINE S == {i \in 0 .. n : Stopped(a, i, f[i])}
<1>4. 0 \in S
  <2>1. a = [a EXCEPT !.told = a.told] /\ a.told.garbled = FALSE
        /\ DOMAIN a.told.view = 0 .. a.next - 1
    BY DEF Accs, Sound, Agrees, Used
  <2>2. \A j \in 0 .. a.next - 1 :
             a.told.view[j] = IF Tooled(a, j) /\ j >= 0 THEN "tool" ELSE "ended"
    BY <1>1 DEF Sound, Agrees, Used, Seen
  <2>3. Stopped(a, 0, a)
    BY <1>1, <2>1, <2>2 DEF Stopped
  <2> QED
    BY <1>2, <1>3, <2>3
<1>5. ASSUME NEW i \in 0 .. n - 1, i \in S PROVE i + 1 \in S
  <2>1. i + 1 \in 1 .. n /\ (i + 1) - 1 = i /\ i + 1 \in 0 .. n /\ i \in 0 .. n
    OBVIOUS
  <2>2. f[i] \in Accs /\ i \in 0 .. a.next - 1
    BY <1>2, <1>3, <2>1
  <2>3. Stopped(a, i + 1, StopNext(a, i + 1, f[i]))
    BY <1>1, <1>5, <2>2, StopOne
  <2> QED
    BY <1>3, <2>1, <2>3
<1> HIDE DEF S
<1>6. n \in S
  <2>1. 0 .. n \subseteq S
    BY <1>2, <1>4, <1>5, UpTo
  <2> QED
    BY <1>2, <2>1
<1>7. Stopped(a, n, f[n]) /\ f[n] \in Accs
  BY <1>2, <1>3, <1>6 DEF S
<1>8. PICK t \in Audience :
       /\ f[n] = [a EXCEPT !.told = t] /\ t.garbled = FALSE
       /\ DOMAIN t.view = 0 .. a.next - 1
       /\ \A j \in 0 .. a.next - 1 :
             t.view[j] = IF Tooled(a, j) /\ j >= n THEN "tool" ELSE "ended"
  BY <1>7 DEF Stopped
<1>9. \A j \in 0 .. a.next - 1 : t.view[j] = "ended"
  BY <1>2, <1>8
<1>10. PICK b \in Accs : b = f[n]
  BY <1>7
<1>11. b = Answers!StopTools(a) /\ b.told = t /\ b.by = a.by
  BY <1>3, <1>8, <1>10 DEF Accs
<1>12. AllEnded(b)
  BY <1>8, <1>9, <1>11 DEF AllEnded
<1> QED
  BY <1>8, <1>10, <1>11, <1>12

\* The stream ends. Anthropic's blocks end before it, if it does not break off.
LEMMA FlushSound ==
    ASSUME NEW a \in Accs, Sound(a)
    PROVE  /\ Answers!Flush(a) \in Accs /\ Answers!Flush(a).told.garbled = FALSE
           /\ Answers!Flush(a).by = a.by
           /\ a.by # "anthropic" \/ a.open = Answers!None => AllEnded(Answers!Flush(a))
<1>1. ASSUME NEW b \in Accs, Sound(b), b.open = Answers!None, b.by # "openai"
      PROVE  AllEnded(b)
  BY <1>1 DEF AllEnded, Sound, Agrees, Seen, Tooled
<1>2. CASE a.by = "anthropic"
  BY <1>1, <1>2 DEF Answers!Flush, Sound
<1>3. CASE a.by # "anthropic"
  <2>1. PICK b \in Accs : b = Answers!FinishFence(a) /\ Sound(b) /\ SameCall(a, b)
    BY FinishSound
  <2>2. PICK c \in Accs : /\ c = Answers!Close(b) /\ Sound(c) /\ Same(b, c)
                          /\ c.open = Answers!None
    BY <2>1, CloseSound
  <2>3. c.by = a.by
    BY <2>1, <2>2 DEF SameCall, Same
  <2>4. CASE a.by = "openai"
    <3>1. Answers!Flush(a) = Answers!StopTools(c)
      BY <2>1, <2>2, <2>4 DEF Answers!Flush
    <3> QED
      BY <2>2, <2>3, <2>4, <3>1, StopToolsSound
  <2>5. CASE a.by # "openai"
    <3>1. Answers!Flush(a) = c
      BY <1>3, <2>1, <2>2, <2>5 DEF Answers!Flush
    <3> QED
      BY <1>1, <2>2, <2>3, <2>5, <3>1 DEF Sound
  <2> QED
    BY <2>4, <2>5
<1> QED
  BY <1>2, <1>3

-----------------------------------------------------------------------------
(* Sequences of sequences.                                                 *)

\* c joins the first members of a sequence of sequences.
Joins(c, parts) ==
    c = [i \in 0 .. Len(parts) |-> IF i = 0 THEN << >> ELSE c[i - 1] \o parts[i]]

\* Concat's function, place by place.
LEMMA ConcatIs ==
    ASSUME NEW S, NEW parts \in Seq(Seq(S))
    PROVE  \E c \in [0 .. Len(parts) -> Seq(S)] :
              /\ c[0] = << >> /\ \A i \in 1 .. Len(parts) : c[i] = c[i - 1] \o parts[i]
              /\ Answers!Concat(parts) = c[Len(parts)]
<1>1. PICK n \in Nat : n = Len(parts) /\ \A i \in 1 .. n : parts[i] \in Seq(S)
  OBVIOUS
<1> DEFINE g == [x \in (1 .. n) \X Seq(S) |-> x[2] \o parts[x[1]]]
<1>2. \A k \in 1 .. n : \A v \in Seq(S) : g[<<k, v>>] \in Seq(S)
  BY <1>1
<1>3. PICK c \in [0 .. n -> Seq(S)] : Follows(c, n, << >>, g)
  <2>1. << >> \in Seq(S)
    OBVIOUS
  <2> HIDE DEF g
  <2> QED
    BY <1>1, <1>2, <2>1, Recursion
<1>4. \A k \in 1 .. n : c[k] = c[k - 1] \o parts[k]
  <2> SUFFICES ASSUME NEW k \in 1 .. n PROVE c[k] = c[k - 1] \o parts[k]
    OBVIOUS
  <2>1. k - 1 \in 0 .. n
    OBVIOUS
  <2>2. <<k, c[k - 1]>> \in (1 .. n) \X Seq(S)
    BY <2>1
  <2> QED
    BY <1>3, <2>2 DEF Follows
<1>5. Joins(c, parts)
  <2>1. c = [i \in 0 .. n |-> c[i]]
    OBVIOUS
  <2>2. ASSUME NEW i \in 0 .. n
        PROVE  c[i] = IF i = 0 THEN << >> ELSE c[i - 1] \o parts[i]
    <3>1. i # 0 => i \in 1 .. n
      OBVIOUS
    <3> QED
      BY <1>3, <1>4, <3>1 DEF Follows
  <2>3. c = [i \in 0 .. n |-> IF i = 0 THEN << >> ELSE c[i - 1] \o parts[i]]
    BY <2>1, <2>2, Zenon
  <2> QED
    BY <1>1, <2>3 DEF Joins
<1>6. PICK h : h = (CHOOSE e : Joins(e, parts))
  OBVIOUS
<1>7. Joins(h, parts)
  BY <1>5, <1>6, Zenon
<1>8. Answers!Concat(parts) = h[n]
  BY <1>1, <1>6, Zenon DEF Answers!Concat, Joins
<1>9. h[0] = << >> /\ \A i \in 1 .. n : h[i] = h[i - 1] \o parts[i]
  <2>1. h[0] = << >>
    BY <1>1, <1>7 DEF Joins
  <2>2. ASSUME NEW i \in 1 .. n PROVE h[i] = h[i - 1] \o parts[i]
    <3>1. i \in 0 .. n /\ i # 0
      OBVIOUS
    <3> QED
      BY <1>1, <1>7, <3>1, Zenon DEF Joins
  <2> QED
    BY <2>1, <2>2
<1>10. h \in [0 .. n -> Seq(S)]
  <2> DEFINE T == {i \in 0 .. n : h[i] \in Seq(S)}
  <2>1. 0 \in T
    <3>1. << >> \in Seq(S) /\ 0 \in 0 .. n
      BY <1>1
    <3> QED
      BY <1>9, <3>1, Zenon
  <2>2. ASSUME NEW i \in 0 .. n - 1, i \in T PROVE i + 1 \in T
    <3>1. i + 1 \in 1 .. n /\ (i + 1) - 1 = i /\ i + 1 \in 0 .. n
      OBVIOUS
    <3>2. PICK s \in Seq(S), more \in Seq(S) : s = h[i] /\ more = parts[i + 1]
      BY <1>1, <2>2, <3>1
    <3>3. h[i + 1] = s \o more
      BY <1>9, <3>1, <3>2
    <3>4. s \o more \in Seq(S)
      OBVIOUS
    <3> QED
      BY <3>1, <3>3, <3>4, Zenon
  <2> HIDE DEF T
  <2>3. 0 .. n \subseteq T
    BY <1>1, <2>1, <2>2, UpTo
  <2>4. \A i \in 0 .. n : h[i] \in Seq(S)
    BY <2>3 DEF T
  <2>5. h = [i \in 0 .. n |-> h[i]]
    BY <1>1, <1>7 DEF Joins
  <2> QED
    BY <2>4, <2>5
<1> QED
  BY <1>1, <1>8, <1>9, <1>10

\* What joins parts of a type has that type.
LEMMA ConcatType ==
    ASSUME NEW S, NEW parts \in Seq(Seq(S)) PROVE Answers!Concat(parts) \in Seq(S)
<1>1. PICK c \in [0 .. Len(parts) -> Seq(S)] : Answers!Concat(parts) = c[Len(parts)]
  BY ConcatIs
<1>2. Len(parts) \in 0 .. Len(parts)
  OBVIOUS
<1> QED
  BY <1>1, <1>2

\* So have those of some places.
LEMMA ThoseType ==
    ASSUME NEW S, NEW s \in Seq(S), NEW places PROVE Answers!Those(s, places) \in Seq(S)
<1>1. PICK parts : parts = [i \in DOMAIN s |-> IF i \in places THEN <<s[i]>> ELSE << >>]
  OBVIOUS
<1>2. parts \in Seq(Seq(S))
  <2>1. PICK n \in Nat : n = Len(s) /\ s \in [1 .. n -> S]
    OBVIOUS
  <2>2. parts \in [1 .. n -> Seq(S)]
    BY <1>1, <2>1
  <2> QED
    BY <2>2
<1>3. Answers!Concat(parts) \in Seq(S)
  BY <1>2, ConcatType
<1> QED
  BY <1>1, <1>3 DEF Answers!Those

\* The text of blocks is content.
LEMMA TextOfType == ASSUME NEW blocks \in Parts PROVE Answers!TextOf(blocks) \in Content
<1>1. PICK parts : parts = [i \in DOMAIN blocks |->
                              IF blocks[i].kind = "text" THEN blocks[i].content ELSE << >>]
  OBVIOUS
<1>2. parts \in Seq(Seq(Answers!Pieces))
  <2>1. PICK n \in Nat : n = Len(blocks) /\ blocks \in [1 .. n -> Part]
    BY DEF Parts
  <2>2. \A i \in 1 .. n : blocks[i].content \in Seq(Answers!Pieces)
    BY <2>1 DEF Part, Content
  <2>3. parts \in [1 .. n -> Seq(Answers!Pieces)]
    BY <1>1, <2>1, <2>2
  <2> QED
    BY <2>3
<1>3. Answers!Concat(parts) \in Seq(Answers!Pieces)
  BY <1>2, ConcatType
<1> QED
  BY <1>1, <1>3 DEF Answers!TextOf, Content

-----------------------------------------------------------------------------
(* The history.                                                            *)

\* A block of the history.
Saved == [kind : Answers!Kinds, content : Content, state : Content \cup {Answers!NoState}]

\* The size of a set is the same in every module.
LEMMA SameSize == ASSUME NEW S PROVE Answers!Cardinality(S) = Cardinality(S)
  BY Zenon DEF Answers!Cardinality, Cardinality

\* How many Html blocks come before one.
LEMMA OrdinalType ==
    ASSUME NEW blocks, NEW n \in Nat, DOMAIN blocks = 1 .. n, NEW i
    PROVE  Answers!Ordinal(blocks, i) \in Nat
<1>1. PICK before : before = {j \in Answers!HtmlPlaces(blocks) : j < i}
  OBVIOUS
<1>2. before \subseteq 1 .. n
  BY <1>1 DEF Answers!HtmlPlaces
<1>3. IsFiniteSet(1 .. n)
  <2>1. 1 \in Int /\ n \in Int
    OBVIOUS
  <2> QED
    BY <2>1, FS_Interval
<1>4. IsFiniteSet(before)
  BY <1>2, <1>3, FS_Subset
<1>5. Cardinality(before) \in Nat
  BY <1>4, FS_CardinalityType
<1> QED
  BY <1>1, <1>5, SameSize DEF Answers!Ordinal

\* The canvas states keep the type of the history.
LEMMA WithStatesType ==
    ASSUME NEW blocks \in Seq(Saved), NEW p \in Apps
    PROVE  Answers!WithStates(blocks, p) \in Seq(Saved)
<1>1. PICK n \in Nat : n = Len(blocks) /\ blocks \in [1 .. n -> Saved]
  OBVIOUS
<1>2. PICK s : s = Answers!WithStates(blocks, p)
  OBVIOUS
<1>3. DOMAIN s = 1 .. n /\ s = [i \in 1 .. n |-> s[i]]
  BY <1>1, <1>2 DEF Answers!WithStates
<1>4. ASSUME NEW i \in 1 .. n PROVE s[i] \in Saved
  <2>1. CASE i \in Answers!HtmlPlaces(blocks)
             /\ Answers!Has(p.renderers, Answers!Ordinal(blocks, i))
    <3>1. PICK r \in Renderer : r = p.renderers[Answers!Ordinal(blocks, i)]
      BY <2>1, NumberedIs DEF Answers!Has, Apps
    <3>2. s[i] = [blocks[i] EXCEPT !.state = r.of]
      BY <1>1, <1>2, <2>1, <3>1 DEF Answers!WithStates
    <3>3. blocks[i] \in Saved /\ r.of \in Content
      BY <1>1 DEF Renderer
    <3> QED
      BY <3>2, <3>3 DEF Saved
  <2>2. CASE ~(i \in Answers!HtmlPlaces(blocks)
               /\ Answers!Has(p.renderers, Answers!Ordinal(blocks, i)))
    BY <1>1, <1>2, <2>2 DEF Answers!WithStates
  <2> QED
    BY <2>1, <2>2
<1> QED
  BY <1>2, <1>3, <1>4

\* A committed block is one of the history.
LEMMA CommittedType ==
    ASSUME NEW blocks \in Parts PROVE Answers!Committed(blocks) \in Seq(Saved)
<1>1. PICK n \in Nat : n = Len(blocks) /\ blocks \in [1 .. n -> Part]
  BY DEF Parts
<1>2. PICK s : s = Answers!Committed(blocks)
  OBVIOUS
<1>3. s \in [1 .. n -> Saved]
  BY <1>1, <1>2 DEF Answers!Committed, Part, Saved
<1> QED
  BY <1>2, <1>3

\* App begins with its type.
LEMMA EmptyAppType == Answers!EmptyApp \in Apps
<1>1. << >> \in Numbered(Nat) /\ << >> \in Numbered(Renderer)
  <2>1. \A S : << >> \in [{} -> S] /\ {} \in SUBSET Nat
    OBVIOUS
  <2> QED
    BY <2>1 DEF Numbered
<1> QED
  BY <1>1, EmptyContent DEF Answers!EmptyApp, Apps

\* What a saved transcript is replayed to.
LEMMA ReplayedType ==
    ASSUME NEW blocks \in Seq(Saved), NEW from \in Nat
    PROVE  Answers!Replayed(blocks, from) \in Apps
<1>1. PICK shown \in Seq(Saved) : shown = Answers!Those(blocks, {i \in DOMAIN blocks :
          blocks[i].kind \in Answers!Streamed /\ blocks[i].content # << >>})
  BY ThoseType
<1>2. PICK html \in Seq(Saved) : html = Answers!Those(blocks, Answers!HtmlPlaces(blocks))
  BY ThoseType
<1>3. PICK es : es = [i \in DOMAIN shown |->
              [kind |-> IF shown[i].kind = "html" THEN "canvas" ELSE "text",
               content |-> shown[i].content, id |-> from + Answers!Ordinal(shown, i),
               preview |-> FALSE]]
  OBVIOUS
<1>4. es \in Seq(Entry)
  <2>1. PICK n \in Nat : n = Len(shown) /\ shown \in [1 .. n -> Saved]
    OBVIOUS
  <2>2. ASSUME NEW i \in 1 .. n
        PROVE  from + Answers!Ordinal(shown, i) \in Nat /\ shown[i].content \in Content
    <3>1. Answers!Ordinal(shown, i) \in Nat
      BY OrdinalType
    <3>2. shown[i].content \in Content
      BY <2>1 DEF Saved
    <3> QED
      BY <3>1, <3>2
  <2>3. es \in [1 .. n -> Entry]
    BY <1>3, <2>1, <2>2 DEF Entry
  <2> QED
    BY <2>3
<1>5. PICK n \in Nat : n = Len(html) /\ html \in [1 .. n -> Saved]
  OBVIOUS
<1>6. PICK rs : rs = [k \in from .. from + n - 1 |->
              LET b == html[k - from + 1] IN
              [source |-> b.content,
               of |-> IF b.state = Answers!NoState THEN b.content ELSE b.state]]
  OBVIOUS
<1>7. rs \in Numbered(Renderer)
  <2>1. ASSUME NEW k \in from .. from + n - 1 PROVE rs[k] \in Renderer
    <3>1. PICK b \in Saved : b = html[k - from + 1]
      BY <1>5
    <3>2. rs[k] = [source |-> b.content,
                   of |-> IF b.state = Answers!NoState THEN b.content ELSE b.state]
      BY <1>6, <3>1
    <3> QED
      BY <3>2 DEF Renderer, Saved
  <2>2. rs \in [from .. from + n - 1 -> Renderer]
    BY <1>6, <2>1
  <2>3. from .. from + n - 1 \in SUBSET Nat
    BY <1>5
  <2> QED
    BY <2>2, <2>3 DEF Numbered
<1>8. Answers!EmptyApp \in Apps
  BY EmptyAppType
<1>9. PICK next \in Nat : next = from + n
  OBVIOUS
<1>10. Answers!Replayed(blocks, from)
         = [Answers!EmptyApp EXCEPT !.entries = es, !.next_id = next, !.renderers = rs]
  BY <1>1, <1>2, <1>3, <1>5, <1>6, <1>9 DEF Answers!Replayed
<1> QED
  BY <1>4, <1>7, <1>8, <1>9, <1>10 DEF Apps

-----------------------------------------------------------------------------
(* The invariant.                                                          *)

\* An accumulator between two steps.
Resting ==
    [by : Answers!Providers, inside : Answers!Streamed, held : Content, open : Opens,
     next : Nat, kept : Parts, upstream : Answers!Kinds \cup {"none"}, told : {Answers!Nobody}]

\* The variables but the accumulator's.
WTypes ==
    /\ acc \in Resting /\ seen \in Views /\ garbled \in BOOLEAN /\ app \in Apps
    /\ answer \in Parts /\ last_text \in Content
    /\ messages \in Seq(Saved) /\ transcript \in Seq(Saved)
    /\ spent \in [pieces : Nat, items : Nat, turns : Nat]

\* Anthropic's blocks begin and end with those of the upstream.
Between(a) ==
    /\ a.by = "anthropic" /\ a.upstream = "none" => a.open = Answers!None
    /\ a.by # "anthropic" => a.upstream = "none"

\* The invariant.
WInv ==
    /\ WTypes /\ garbled = FALSE
    /\ phase = "streaming" => Sound(Answers!Telling(acc)) /\ Between(Answers!Telling(acc))
    /\ phase = "answered" /\ ~cut => \A i \in DOMAIN seen : seen[i] = "ended"

\* An accumulator that has its listeners is of its type.
LEMMA TellingIs ==
    ASSUME WTypes
    PROVE  /\ Answers!Telling(acc) \in Accs
           /\ Answers!Telling(acc).by = acc.by
           /\ Answers!Telling(acc).upstream = acc.upstream
           /\ Answers!Telling(acc).inside = acc.inside
           /\ Answers!Telling(acc).open = acc.open
<1>1. [view |-> seen, garbled |-> garbled, app |-> app] \in Audience
  BY DEF WTypes, Audience
<1> QED
  BY <1>1 DEF WTypes, Resting, Accs, Answers!Telling

\* What is told is what the consumers then are.
LEMMA ToldIs ==
    ASSUME NEW a \in Accs, Answers!Told(a)
    PROVE  /\ acc' \in Resting /\ seen' = a.told.view /\ garbled' = a.told.garbled
           /\ seen' \in Views /\ garbled' \in BOOLEAN /\ a.told.app \in Apps
           /\ acc'.by = a.by /\ acc'.kept = a.kept
<1>1. a.told \in Audience
  BY DEF Accs
<1>2. a.told.view \in Views /\ a.told.garbled \in BOOLEAN /\ a.told.app \in Apps
  BY <1>1 DEF Audience
<1> QED
  BY <1>2 DEF Accs, Resting, Answers!Told

\* A step of a call that goes on.
LEMMA StreamsKeep ==
    ASSUME WInv, NEW a \in Accs, Sound(a), Between(a), Answers!Streams(a),
           UNCHANGED <<phase, answer, last_text, messages, transcript>>,
           phase = "streaming", spent' \in [pieces : Nat, items : Nat, turns : Nat]
    PROVE  WInv'
<1>1. /\ acc' \in Resting /\ seen' = a.told.view /\ garbled' = a.told.garbled
      /\ seen' \in Views /\ garbled' \in BOOLEAN /\ a.told.app \in Apps
  BY ToldIs DEF Answers!Streams
<1>2. app' = a.told.app /\ acc' = [a EXCEPT !.told = Answers!Nobody]
  BY DEF Answers!Streams, Answers!Told
<1>3. WTypes'
  BY <1>1, <1>2 DEF WInv, WTypes
<1>4. Answers!Telling(acc)' = a
  <2>1. a.told = [view |-> seen', garbled |-> garbled', app |-> app']
    <3>1. a.told \in Audience
      BY DEF Accs
    <3> QED
      BY <1>1, <1>2, <3>1 DEF Audience
  <2> QED
    BY <1>2, <2>1 DEF Answers!Telling, Accs
<1>5. garbled' = FALSE
  BY <1>1 DEF Sound
<1>6. Sound(Answers!Telling(acc))' /\ Between(Answers!Telling(acc))'
  BY <1>4 DEF Sound, Agrees, Used, Seen, Tooled, Between
<1> QED
  BY <1>3, <1>5, <1>6 DEF WInv

\* A call begins.
LEMMA FreshIs ==
    ASSUME NEW by \in Answers!Providers, NEW c \in Audience, c.garbled = FALSE, c.view = << >>
    PROVE  /\ Answers!Accumulator(by) \in Resting
           /\ Sound([Answers!Accumulator(by) EXCEPT !.told = c])
           /\ Between([Answers!Accumulator(by) EXCEPT !.told = c])
<1>1. Answers!Accumulator(by) \in Resting
  BY EmptyContent DEF Answers!Accumulator, Resting, Opens, Parts, Answers!Streamed
<1>2. PICK a : a = [Answers!Accumulator(by) EXCEPT !.told = c]
  OBVIOUS
<1>3. /\ a.by = by /\ a.open = Answers!None /\ a.next = 0 /\ a.kept = << >>
      /\ a.upstream = "none" /\ a.told = c
  BY <1>2 DEF Answers!Accumulator
<1>4. Used(a) = 0 /\ DOMAIN a.told.view = 0 .. Used(a) - 1
  BY <1>3 DEF Used
<1>5. Sound(a) /\ Between(a)
  BY <1>3, <1>4 DEF Sound, Agrees, Between
<1> QED
  BY <1>1, <1>2, <1>5

\* Nothing seen is a view.
LEMMA NoView == << >> \in Views
<1>1. << >> \in [{} -> Answers!Kinds \cup {"ended"}] /\ {} \in SUBSET Nat
  OBVIOUS
<1> QED
  BY <1>1 DEF Views, Numbered

\* Between calls and turns.
LEMMA RestKeeps ==
    ASSUME WInv, WTypes', UNCHANGED garbled,
           phase' # "streaming", phase' = "answered" => UNCHANGED <<phase, seen, cut>>
    PROVE  WInv'
  BY DEF WInv

\* A new accumulator is sound.
LEMMA NewAccumulator ==
    ASSUME WInv, NEW by \in Answers!Providers, acc' = Answers!Accumulator(by), seen' = << >>,
           UNCHANGED <<garbled, messages, transcript>>, app' \in Apps, phase' = "streaming",
           answer' \in Parts, last_text' \in Content,
           spent' \in [pieces : Nat, items : Nat, turns : Nat]
    PROVE  WInv'
<1>1. PICK c : c = [view |-> seen', garbled |-> garbled', app |-> app']
  OBVIOUS
<1>2. c \in Audience /\ c.garbled = FALSE /\ c.view = << >>
  BY <1>1, NoView DEF Audience, WInv
<1>3. /\ acc' \in Resting /\ Sound([Answers!Accumulator(by) EXCEPT !.told = c])
      /\ Between([Answers!Accumulator(by) EXCEPT !.told = c])
  BY <1>2, FreshIs
<1>4. Answers!Telling(acc)' = [Answers!Accumulator(by) EXCEPT !.told = c]
  BY <1>1 DEF Answers!Telling
<1>5. Sound(Answers!Telling(acc))' /\ Between(Answers!Telling(acc))'
  BY <1>3, <1>4 DEF Sound, Agrees, Used, Seen, Tooled, Between
<1>6. WTypes'
  BY <1>3, NoView DEF WInv, WTypes
<1> QED
  BY <1>5, <1>6 DEF WInv

\* A line is added to the log.
LEMMA AppendedType ==
    ASSUME NEW p \in Apps, NEW e \in Entry
    PROVE  [p EXCEPT !.entries = Append(@, e)] \in Apps
<1>1. Append(p.entries, e) \in Seq(Entry)
  BY DEF Apps
<1> QED
  BY <1>1 DEF Apps

\* It holds at the start.
LEMMA WInitially == Answers!Init => WInv
<1> SUFFICES ASSUME Answers!Init PROVE WInv
  OBVIOUS
<1>1. Answers!EmptyApp \in Apps
  BY EmptyAppType
<1>2. "local" \in Answers!Providers
  BY DEF Answers!Providers
<1>3. [view |-> << >>, garbled |-> FALSE, app |-> Answers!EmptyApp] \in Audience
  BY <1>1, NoView DEF Audience
<1>4. Answers!Accumulator("local") \in Resting
  BY <1>2, <1>3, FreshIs
<1>5. << >> \in Parts /\ << >> \in Seq(Saved)
  BY DEF Parts
<1> QED
  BY <1>1, <1>4, <1>5, NoView, EmptyContent DEF Answers!Init, WInv, WTypes

\* A fragment is made of the pieces that come next.
LEMMA FragmentType ==
    ASSUME NEW n \in Nat, NEW lead \in BOOLEAN, NEW tail \in BOOLEAN,
           NEW before, before = IF lead THEN <<n + 1>> ELSE << >>,
           NEW after, after = IF tail THEN <<n + (IF lead THEN 2 ELSE 1)>> ELSE << >>,
           n + Len(before \o after) <= MaxPieces
    PROVE  before \in Content /\ after \in Content
<1>1. CASE lead /\ tail
  <2>1. Len(before \o after) = 2
    BY <1>1
  <2>2. n + 1 \in Answers!Pieces /\ n + 2 \in Answers!Pieces
    BY <2>1, PiecesAssumption DEF Answers!Pieces
  <2> QED
    BY <1>1, <2>2 DEF Content
<1>2. CASE lead /\ ~tail
  <2>1. Len(before \o after) = 1
    BY <1>2
  <2>2. n + 1 \in Answers!Pieces
    BY <2>1, PiecesAssumption DEF Answers!Pieces
  <2> QED
    BY <1>2, <2>2 DEF Content
<1>3. CASE ~lead /\ tail
  <2>1. Len(before \o after) = 1
    BY <1>3
  <2>2. n + 1 \in Answers!Pieces
    BY <2>1, PiecesAssumption DEF Answers!Pieces
  <2> QED
    BY <1>3, <2>2 DEF Content
<1>4. CASE ~lead /\ ~tail
  BY <1>4 DEF Content
<1> QED
  BY <1>1, <1>2, <1>3, <1>4

\* A fragment keeps it.
LEMMA WText ==
    ASSUME WInv, NEW lead \in BOOLEAN, NEW fence \in BOOLEAN, NEW tail \in BOOLEAN,
           NEW hold \in BOOLEAN, Answers!Text(lead, fence, tail, hold)
    PROVE  WInv'
<1>1. PICK a \in Accs : a = Answers!Telling(acc) /\ a.by = acc.by /\ a.upstream = acc.upstream
                        /\ Sound(a) /\ Between(a)
  BY TellingIs DEF WInv, Answers!Text
<1>2. PICK n \in Nat : n = spent.pieces
  BY DEF WInv, WTypes
<1>3. PICK before, after : /\ before = IF lead THEN <<n + 1>> ELSE << >>
                           /\ after = IF tail THEN <<n + (IF lead THEN 2 ELSE 1)>> ELSE << >>
  OBVIOUS
<1>4. PICK f : f = [lead |-> before, fence |-> fence, hold |-> hold, tail |-> after]
  OBVIOUS
<1>5. /\ phase = "streaming" /\ (acc.by = "anthropic" => acc.upstream = "text")
      /\ n + Len(before \o after) <= MaxPieces
      /\ Answers!Streams(Answers!PushFragment(a, f))
      /\ spent' = [spent EXCEPT !.pieces = n + Len(before \o after)]
      /\ UNCHANGED <<phase, answer, last_text, messages, transcript>>
  BY <1>1, <1>2, <1>3, <1>4 DEF Answers!Text, Answers!hostVars
<1>6. before \in Content /\ after \in Content
  BY <1>2, <1>3, <1>5, FragmentType
<1>7. PICK b \in Accs : b = Answers!PushFragment(a, f) /\ Sound(b) /\ SameCall(a, b)
  BY <1>1, <1>4, <1>6, PushSound
<1>8. Between(b)
  BY <1>1, <1>5, <1>7 DEF Between, SameCall
<1>9. spent' \in [pieces : Nat, items : Nat, turns : Nat]
  <2>1. before \o after \in Content
    BY <1>6 DEF Content
  <2>2. n + Len(before \o after) \in Nat
    BY <2>1 DEF Content
  <2> QED
    BY <1>5, <2>2 DEF WInv, WTypes
<1> QED
  BY <1>5, <1>7, <1>8, <1>9, StreamsKeep

\* A block of Anthropic's that starts or stops keeps it.
LEMMA WBlock ==
    ASSUME WInv, Answers!TextBlockStarts \/ Answers!BlockStops PROVE WInv'
<1>1. PICK a \in Accs : a = Answers!Telling(acc) /\ a.by = acc.by /\ a.upstream = acc.upstream
                        /\ Sound(a) /\ Between(a)
  BY TellingIs DEF WInv, Answers!TextBlockStarts, Answers!BlockStops
<1>2. /\ phase = "streaming" /\ spent' \in [pieces : Nat, items : Nat, turns : Nat]
      /\ UNCHANGED <<phase, answer, last_text, messages, transcript>>
  BY DEF Answers!TextBlockStarts, Answers!BlockStops, Answers!turnVars, Answers!hostVars,
         WInv, WTypes
<1>3. CASE Answers!TextBlockStarts
  <2>1. PICK b \in Accs : /\ b = Upstream(a, "text") /\ Sound(b) /\ b.by = a.by
                          /\ b.upstream = "text"
    BY <1>1, UpstreamSound DEF Answers!Kinds, Answers!Streamed
  <2>2. Answers!Streams(b) /\ acc.by = "anthropic"
    BY <1>1, <1>3, <2>1 DEF Answers!TextBlockStarts, Upstream
  <2>3. Between(b)
    BY <1>1, <2>1, <2>2 DEF Between
  <2> QED
    BY <1>2, <2>1, <2>2, <2>3, StreamsKeep
<1>4. CASE Answers!BlockStops
  <2>1. PICK b \in Accs : /\ b = Upstream(a, "none") /\ Sound(b) /\ b.by = a.by
                          /\ b.upstream = "none"
    BY <1>1, UpstreamSound
  <2>2. PICK c \in Accs : /\ c = IF acc.upstream = "text" THEN Answers!FinishFence(b) ELSE b
                          /\ Sound(c) /\ SameCall(b, c)
    BY <2>1, FinishSound DEF SameCall
  <2>3. PICK d \in Accs : /\ d = Answers!Close(c) /\ Sound(d) /\ Same(c, d)
                          /\ d.open = Answers!None
    BY <2>2, CloseSound
  <2>4. Answers!Streams(d)
    BY <1>1, <1>4, <2>1, <2>2, <2>3 DEF Answers!BlockStops, Upstream
  <2>5. Between(d)
    BY <2>1, <2>2, <2>3 DEF Between, Same, SameCall
  <2> QED
    BY <1>2, <2>3, <2>4, <2>5, StreamsKeep
<1> QED
  BY <1>3, <1>4

\* A tool call or a thought keeps it.
LEMMA WItem ==
    ASSUME WInv, Answers!Tool \/ Answers!Think PROVE WInv'
<1>1. PICK a \in Accs : a = Answers!Telling(acc) /\ a.by = acc.by /\ a.upstream = acc.upstream
                        /\ Sound(a) /\ Between(a)
  BY TellingIs DEF WInv, Answers!Tool, Answers!Think
<1>2. /\ phase = "streaming" /\ acc.upstream = "none"
      /\ spent' \in [pieces : Nat, items : Nat, turns : Nat]
      /\ UNCHANGED <<phase, answer, last_text, messages, transcript>>
  BY DEF Answers!Tool, Answers!Think, Answers!turnVars, Answers!hostVars, WInv, WTypes
<1>3. CASE Answers!Tool
  <2>1. PICK b \in Accs : /\ b = Answers!ToolCall(a) /\ Sound(b) /\ b.by = a.by
                          /\ a.by = "anthropic" => b.upstream = "tool"
                          /\ a.by # "anthropic" => b.upstream = a.upstream
    BY <1>1, ToolSound
  <2>2. Answers!Streams(b) /\ Between(b)
    BY <1>1, <1>3, <2>1 DEF Answers!Tool, Between
  <2> QED
    BY <1>2, <2>1, <2>2, StreamsKeep
<1>4. CASE acc.by = "gemini"
           /\ Answers!Streams(Answers!EmitChunk(a, Answers!Block("thinking", << >>)))
  <2>1. PICK chunk \in Part : chunk = Answers!Block("thinking", << >>)
    BY BlockType, EmptyContent DEF Answers!Kinds
  <2>2. PICK b \in Accs : b = Answers!EmitChunk(a, chunk) /\ Sound(b) /\ Same(a, b)
    BY <1>1, <1>4, EmitChunkSound
  <2>3. Answers!Streams(b) /\ Between(b)
    BY <1>1, <1>4, <2>1, <2>2 DEF Between, Same
  <2> QED
    BY <1>2, <2>2, <2>3, StreamsKeep
<1>5. CASE /\ acc.by = "anthropic"
           /\ Answers!Streams([Answers!Open(Answers!Close(a), "thinking")
                                  EXCEPT !.upstream = "thinking"])
  <2>1. PICK b \in Accs : /\ b = [Answers!Open(Answers!Close(a), "thinking")
                                     EXCEPT !.upstream = "thinking"]
                          /\ Sound(b) /\ b.by = a.by /\ b.upstream = "thinking"
    BY <1>1, <1>5, BlockSound
  <2>2. Answers!Streams(b) /\ Between(b)
    BY <1>1, <1>5, <2>1 DEF Between
  <2> QED
    BY <1>2, <2>1, <2>2, StreamsKeep
<1> QED
  BY <1>1, <1>3, <1>4, <1>5 DEF Answers!Think

\* What a call answers is parts.
LEMMA ContentOfType ==
    ASSUME NEW a \in Accs PROVE Answers!ContentOf(a) \in Parts
<1>1. a.kept \in Parts /\ a.held \in Content /\ "text" \in Answers!Kinds
  BY DEF Accs, Answers!Kinds, Answers!Streamed
<1>2. a.open # Answers!None => Answers!Block(a.open.kind, a.open.content) \in Part
  BY OpenIs, BlockType
<1>3. Answers!Block("text", a.held) \in Part
  BY <1>1, BlockType
<1>4. \A b \in Part : <<b>> \in Parts
  BY DEF Parts
<1> QED
  BY <1>1, <1>2, <1>3, <1>4 DEF Answers!ContentOf

\* The end of a call keeps it.
LEMMA WCallEnds == ASSUME WInv, Answers!CallEnds PROVE WInv'
<1>1. PICK a \in Accs : a = Answers!Telling(acc) /\ a.by = acc.by /\ a.upstream = acc.upstream
                        /\ Sound(a) /\ Between(a)
  BY TellingIs DEF WInv, Answers!CallEnds
<1>2. PICK b \in Accs : /\ b = Answers!Flush(a) /\ b.told.garbled = FALSE /\ b.by = a.by
                        /\ a.by # "anthropic" \/ a.open = Answers!None => AllEnded(b)
  BY <1>1, FlushSound
<1>3. PICK k \in Parts : k = Answers!ContentOf(b)
  BY ContentOfType
<1>4. PICK c : c = [b EXCEPT !.kept = k]
  OBVIOUS
<1>5. c \in Accs /\ c.told = b.told
  BY <1>4 DEF Accs
<1>6. /\ Answers!Told(c) /\ app' \in {b.told.app, Answers!FlushLiveText(b.told.app)}
      /\ answer' = answer \o k /\ last_text' = Answers!TextOf(k)
      /\ cut' = (cut \/ acc.upstream # "none") /\ phase' = "answered"
      /\ UNCHANGED <<messages, transcript, spent>>
  BY <1>1, <1>2, <1>3, <1>4 DEF Answers!CallEnds, Answers!hostVars
<1>7. /\ acc' \in Resting /\ seen' = b.told.view /\ garbled' = FALSE
      /\ seen' \in Views /\ b.told.app \in Apps
  BY <1>2, <1>5, <1>6, ToldIs
<1>8. app' \in Apps
  BY <1>6, <1>7, LiveTextType
<1>9. answer' \in Parts /\ last_text' \in Content
  BY <1>6, TextOfType DEF WInv, WTypes, Parts
<1>10. WTypes'
  BY <1>6, <1>7, <1>8, <1>9 DEF WInv, WTypes
<1>11. ~cut' => \A i \in DOMAIN seen' : seen'[i] = "ended"
  BY <1>1, <1>2, <1>6, <1>7 DEF Between, AllEnded
<1> QED
  BY <1>6, <1>7, <1>10, <1>11 DEF WInv

\* The start of a turn or of a call keeps it.
LEMMA WTurn ==
    ASSUME WInv, \/ \E by \in Answers!Providers : Answers!StartTurn(by)
                 \/ Answers!NextCall
    PROVE  WInv'
<1>1. ASSUME NEW by \in Answers!Providers, Answers!StartTurn(by) PROVE WInv'
  <2>1. PICK e : e = [kind |-> "user", content |-> << >>, id |-> 0, preview |-> FALSE]
    OBVIOUS
  <2>2. e \in Entry
    BY <2>1, EmptyContent DEF Entry
  <2>3. app' = [app EXCEPT !.entries = Append(@, e)]
    BY <1>1, <2>1 DEF Answers!StartTurn
  <2>4. app' \in Apps
    BY <2>2, <2>3, AppendedType DEF WInv, WTypes
  <2>5. spent' \in [pieces : Nat, items : Nat, turns : Nat]
    BY <1>1 DEF Answers!StartTurn, WInv, WTypes
  <2>6. answer' \in Parts /\ last_text' \in Content
    BY <1>1, EmptyContent DEF Answers!StartTurn, Parts
  <2>7. /\ acc' = Answers!Accumulator(by) /\ seen' = << >> /\ phase' = "streaming"
        /\ UNCHANGED <<garbled, messages, transcript>>
    BY <1>1 DEF Answers!StartTurn, Answers!hostVars
  <2> QED
    BY <2>4, <2>5, <2>6, <2>7, NewAccumulator
<1>2. CASE Answers!NextCall
  <2>1. PICK by \in Answers!Providers : by = acc.by
    BY DEF WInv, WTypes, Resting
  <2>2. /\ acc' = Answers!Accumulator(by) /\ seen' = << >> /\ phase' = "streaming"
        /\ UNCHANGED <<garbled, messages, transcript>>
        /\ app' \in Apps /\ answer' \in Parts /\ last_text' \in Content
        /\ spent' \in [pieces : Nat, items : Nat, turns : Nat]
    BY <1>2, <2>1 DEF Answers!NextCall, Answers!turnVars, Answers!hostVars, WInv, WTypes
  <2> QED
    BY <2>2, NewAccumulator
<1> QED
  BY <1>1, <1>2

\* The steps of the host and of App keep it.
LEMMA WHost ==
    ASSUME WInv, \/ Answers!TurnCompletes \/ Answers!TurnFails
                 \/ Answers!ClearLog \/ Answers!Resume
    PROVE  WInv'
<1>1. /\ phase' = "idle" /\ UNCHANGED <<acc, seen, garbled, answer, last_text, spent>>
  BY DEF Answers!TurnCompletes, Answers!TurnFails, Answers!ClearLog, Answers!Resume,
         Answers!callVars, Answers!turnVars
<1>0. app \in Apps /\ messages \in Seq(Saved) /\ transcript \in Seq(Saved)
      /\ answer \in Parts /\ last_text \in Content
  BY DEF WInv, WTypes
<1>2. app' \in Apps /\ messages' \in Seq(Saved) /\ transcript' \in Seq(Saved)
  <2>1. CASE Answers!TurnCompletes
    <3>1. PICK p \in Apps : p = [app EXCEPT !.live_text = last_text]
      BY <1>0 DEF Apps
    <3>2. PICK shown \in Apps : /\ shown \in {Answers!FlushLiveText(app), Answers!FlushLiveText(p)}
                                /\ app' = shown
                                /\ Answers!Save(messages \o Answers!Committed(answer), shown)
      <4>1. Answers!FlushLiveText(app) \in Apps /\ Answers!FlushLiveText(p) \in Apps
        BY <1>0, LiveTextType
      <4> QED
        BY <2>1, <3>1, <4>1 DEF Answers!TurnCompletes
    <3>3. PICK after \in Seq(Saved) : after = messages \o Answers!Committed(answer)
      <4>1. Answers!Committed(answer) \in Seq(Saved)
        BY <1>0, CommittedType
      <4>2. messages \o Answers!Committed(answer) \in Seq(Saved)
        BY <1>0, <4>1
      <4> QED
        BY <4>2
    <3>4. Answers!WithStates(after, shown) \in Seq(Saved)
      BY WithStatesType
    <3> QED
      BY <1>0, <3>2, <3>3, <3>4 DEF Answers!Save
  <2>2. CASE Answers!TurnFails
    BY <1>0, <2>2, LiveTextType DEF Answers!TurnFails, Answers!hostVars
  <2>3. CASE Answers!ClearLog
    <3>1. app' = [app EXCEPT !.entries = << >>, !.live_text = << >>] /\ << >> \in Seq(Entry)
      BY <2>3 DEF Answers!ClearLog
    <3> QED
      BY <1>0, <2>3, <3>1, EmptyContent DEF Answers!ClearLog, Answers!hostVars, Apps
  <2>4. CASE Answers!Resume
    BY <1>0, <2>4, ReplayedType DEF Answers!Resume
  <2> QED
    BY <2>1, <2>2, <2>3, <2>4
<1>3. WTypes'
  BY <1>1, <1>2 DEF WInv, WTypes
<1> QED
  BY <1>1, <1>3, RestKeeps

\* Every step keeps it.
LEMMA WStep == WInv /\ [Answers!Next]_(Answers!vars) => WInv'
<1> SUFFICES ASSUME WInv, [Answers!Next]_(Answers!vars) PROVE WInv'
  OBVIOUS
<1>1. CASE UNCHANGED Answers!vars
  BY <1>1 DEF Answers!vars, Answers!callVars, Answers!turnVars, Answers!hostVars, WInv, WTypes,
     Sound, Agrees, Used, Seen, Tooled, Between, Answers!Telling
<1>2. CASE Answers!Next
  BY <1>2, WText, WBlock, WItem, WCallEnds, WTurn, WHost DEF Answers!Next
<1> QED
  BY <1>1, <1>2

\* For every provider, and however text, fences, thoughts and tools alternate, the events of
\* a call make sense to whoever follows them.
THEOREM WellFormed == Answers!Spec => []EventsAreWellFormed
<1>1. WInv => EventsAreWellFormed
  BY DEF WInv, EventsAreWellFormed, Answers!EventsAreWellFormed
<1> QED
  BY <1>1, WInitially, WStep, PTL DEF Answers!Spec

-----------------------------------------------------------------------------
(* Counting the Html blocks.                                               *)

Html(x) == x.kind = "html"
\* The Html blocks before a place, and all of them.
HtmlBefore(s, i) == {j \in Answers!HtmlPlaces(s) : j < i}
Count(s) == Answers!Ordinal(s, Len(s) + 1)

\* The Html blocks before a place are finitely many.
LEMMA BeforeIs ==
    ASSUME NEW s, NEW n \in Nat, DOMAIN s = 1 .. n, NEW i
    PROVE  /\ IsFiniteSet(HtmlBefore(s, i)) /\ HtmlBefore(s, i) \subseteq 1 .. n
           /\ Answers!Ordinal(s, i) = Cardinality(HtmlBefore(s, i))
           /\ Answers!Ordinal(s, i) \in Nat
<1>1. HtmlBefore(s, i) \subseteq 1 .. n
  BY DEF HtmlBefore, Answers!HtmlPlaces
<1>2. IsFiniteSet(1 .. n)
  <2>1. 1 \in Int /\ n \in Int
    OBVIOUS
  <2> QED
    BY <2>1, FS_Interval
<1>3. IsFiniteSet(HtmlBefore(s, i))
  BY <1>1, <1>2, FS_Subset
<1>4. Answers!Ordinal(s, i) = Cardinality(HtmlBefore(s, i))
  BY SameSize DEF Answers!Ordinal, HtmlBefore
<1> QED
  BY <1>1, <1>3, <1>4, FS_CardinalityType

\* One more after an Html block.
LEMMA OrdinalNext ==
    ASSUME NEW s, NEW n \in Nat, DOMAIN s = 1 .. n, NEW i \in 1 .. n
    PROVE  Answers!Ordinal(s, i + 1)
             = IF Html(s[i]) THEN Answers!Ordinal(s, i) + 1 ELSE Answers!Ordinal(s, i)
<1>1. CASE Html(s[i])
  <2>1. HtmlBefore(s, i + 1) = HtmlBefore(s, i) \cup {i} /\ i \notin HtmlBefore(s, i)
    BY <1>1 DEF HtmlBefore, Answers!HtmlPlaces, Html
  <2>2. Cardinality(HtmlBefore(s, i) \cup {i}) = Cardinality(HtmlBefore(s, i)) + 1
    BY <2>1, BeforeIs, FS_AddElement
  <2> QED
    BY <1>1, <2>1, <2>2, BeforeIs
<1>2. CASE ~Html(s[i])
  <2>1. HtmlBefore(s, i + 1) = HtmlBefore(s, i)
    BY <1>2 DEF HtmlBefore, Answers!HtmlPlaces, Html
  <2> QED
    BY <1>2, <2>1, BeforeIs
<1> QED
  BY <1>1, <1>2

\* None before the first place.
LEMMA OrdinalFirst ==
    ASSUME NEW s, NEW n \in Nat, DOMAIN s = 1 .. n
    PROVE  Answers!Ordinal(s, 1) = 0
<1>1. HtmlBefore(s, 1) = {}
  BY DEF HtmlBefore, Answers!HtmlPlaces
<1> QED
  BY <1>1, BeforeIs, FS_EmptySet

\* A later place has no fewer before it, and one after an Html block more.
LEMMA OrdinalGrows ==
    ASSUME NEW s, NEW n \in Nat, DOMAIN s = 1 .. n, NEW i \in 1 .. n + 1,
           NEW j \in 1 .. n + 1, i <= j
    PROVE  /\ Answers!Ordinal(s, i) <= Answers!Ordinal(s, j)
           /\ i < j /\ Html(s[i]) => Answers!Ordinal(s, i) < Answers!Ordinal(s, j)
<1>1. ASSUME NEW k \in 1 .. n + 1, k <= j
      PROVE  Answers!Ordinal(s, k) <= Answers!Ordinal(s, j)
  <2>1. HtmlBefore(s, k) \subseteq HtmlBefore(s, j)
    BY <1>1 DEF HtmlBefore, Answers!HtmlPlaces
  <2>2. Cardinality(HtmlBefore(s, k)) <= Cardinality(HtmlBefore(s, j))
    BY <2>1, BeforeIs, FS_Subset
  <2> QED
    BY <2>2, BeforeIs
<1>2. CASE i < j /\ Html(s[i])
  <2>1. i \in 1 .. n /\ i + 1 \in 1 .. n + 1 /\ i + 1 <= j
    BY <1>2
  <2>2. Answers!Ordinal(s, i + 1) = Answers!Ordinal(s, i) + 1
    BY <1>2, <2>1, OrdinalNext
  <2>3. Answers!Ordinal(s, i) \in Nat /\ Answers!Ordinal(s, j) \in Nat
    BY BeforeIs
  <2>4. Answers!Ordinal(s, i + 1) <= Answers!Ordinal(s, j)
    BY <1>1, <2>1
  <2> QED
    BY <1>1, <2>2, <2>3, <2>4
<1> QED
  BY <1>1, <1>2

\* Sequences that are alike up to a place.
LEMMA SameOrdinal ==
    ASSUME NEW s, NEW n \in Nat, DOMAIN s = 1 .. n, NEW t, NEW m \in Nat, DOMAIN t = 1 .. m,
           NEW i \in Nat, i <= n + 1, i <= m + 1,
           \A j \in 1 .. i - 1 : Html(s[j]) <=> Html(t[j])
    PROVE  Answers!Ordinal(s, i) = Answers!Ordinal(t, i)
<1>1. HtmlBefore(s, i) = HtmlBefore(t, i)
  BY DEF HtmlBefore, Answers!HtmlPlaces, Html
<1> QED
  BY <1>1, BeforeIs

\* The count is the number of Html blocks.
LEMMA CountIs ==
    ASSUME NEW S, NEW s \in Seq(S)
    PROVE  /\ Count(s) \in Nat /\ Count(s) = Answers!Cardinality(Answers!HtmlPlaces(s))
           /\ \A i \in Answers!HtmlPlaces(s) :
                 Answers!Ordinal(s, i) \in Nat /\ Answers!Ordinal(s, i) < Count(s)
<1>1. PICK n \in Nat : n = Len(s) /\ DOMAIN s = 1 .. n
  OBVIOUS
<1>2. HtmlBefore(s, n + 1) = Answers!HtmlPlaces(s)
  BY <1>1 DEF HtmlBefore, Answers!HtmlPlaces
<1>3. Count(s) \in Nat /\ Count(s) = Answers!Cardinality(Answers!HtmlPlaces(s))
  BY <1>1, <1>2, BeforeIs, SameSize DEF Count
<1>4. ASSUME NEW i \in Answers!HtmlPlaces(s)
      PROVE  Answers!Ordinal(s, i) \in Nat /\ Answers!Ordinal(s, i) < Count(s)
  <2>1. i \in 1 .. n /\ Html(s[i])
    BY <1>1 DEF Answers!HtmlPlaces, Html
  <2>2. i \in 1 .. n + 1 /\ n + 1 \in 1 .. n + 1 /\ i < n + 1
    BY <2>1
  <2>3. Answers!Ordinal(s, i) < Answers!Ordinal(s, n + 1)
    BY <1>1, <2>1, <2>2, OrdinalGrows
  <2> QED
    BY <1>1, <2>3, BeforeIs DEF Count
<1> QED
  BY <1>3, <1>4

\* A block is added.
LEMMA CountAppends ==
    ASSUME NEW S, NEW s \in Seq(S), NEW x \in S
    PROVE  /\ Count(Append(s, x)) = IF Html(x) THEN Count(s) + 1 ELSE Count(s)
           /\ \A i \in 1 .. Len(s) + 1 :
                 Answers!Ordinal(Append(s, x), i) = Answers!Ordinal(s, i)
           /\ Answers!HtmlPlaces(Append(s, x))
                = Answers!HtmlPlaces(s) \cup (IF Html(x) THEN {Len(s) + 1} ELSE {})
<1>1. PICK n \in Nat : n = Len(s) /\ DOMAIN s = 1 .. n
  OBVIOUS
<1>2. PICK t \in Seq(S) : /\ t = Append(s, x) /\ DOMAIN t = 1 .. n + 1 /\ Len(t) = n + 1
                          /\ t[n + 1] = x /\ \A i \in 1 .. n : t[i] = s[i]
  <2>1. /\ Append(s, x) \in Seq(S) /\ DOMAIN Append(s, x) = 1 .. n + 1
        /\ Len(Append(s, x)) = n + 1
        /\ Append(s, x)[n + 1] = x /\ \A i \in 1 .. n : Append(s, x)[i] = s[i]
    BY <1>1
  <2> QED
    BY <2>1
<1>3. ASSUME NEW i \in 1 .. n + 1 PROVE Answers!Ordinal(t, i) = Answers!Ordinal(s, i)
  <2>0. PICK k \in Nat : k = n + 1 /\ DOMAIN t = 1 .. k
    BY <1>2
  <2>1. i \in Nat /\ i <= n + 1 /\ i <= k + 1 /\ \A j \in 1 .. i - 1 : t[j] = s[j]
    BY <1>2, <2>0
  <2>2. \A j \in 1 .. i - 1 : Html(t[j]) <=> Html(s[j])
    BY <2>1
  <2> QED
    BY <1>1, <2>0, <2>1, <2>2, SameOrdinal
<1>4. Count(t) = IF Html(x) THEN Count(s) + 1 ELSE Count(s)
  <2>1. n + 1 \in 1 .. n + 1 /\ n + 1 \in Nat
    OBVIOUS
  <2>2. Answers!Ordinal(t, (n + 1) + 1)
          = IF Html(x) THEN Answers!Ordinal(t, n + 1) + 1 ELSE Answers!Ordinal(t, n + 1)
    BY <1>2, <2>1, OrdinalNext
  <2> QED
    BY <1>1, <1>2, <1>3, <2>1, <2>2 DEF Count
<1>5. Answers!HtmlPlaces(t)
        = Answers!HtmlPlaces(s) \cup (IF Html(x) THEN {n + 1} ELSE {})
  BY <1>1, <1>2 DEF Answers!HtmlPlaces, Html
<1> QED
  BY <1>1, <1>2, <1>3, <1>4, <1>5

\* Blocks of the same kinds are counted alike.
LEMMA CountSame ==
    ASSUME NEW S, NEW T, NEW s \in Seq(S), NEW t \in Seq(T), Len(s) = Len(t),
           \A i \in 1 .. Len(s) : Html(s[i]) <=> Html(t[i])
    PROVE  /\ Count(s) = Count(t) /\ Answers!HtmlPlaces(s) = Answers!HtmlPlaces(t)
           /\ \A i \in 1 .. Len(s) + 1 : Answers!Ordinal(s, i) = Answers!Ordinal(t, i)
<1>1. PICK n \in Nat : n = Len(s) /\ DOMAIN s = 1 .. n /\ n = Len(t) /\ DOMAIN t = 1 .. n
  OBVIOUS
<1>2. ASSUME NEW i \in 1 .. n + 1 PROVE Answers!Ordinal(s, i) = Answers!Ordinal(t, i)
  <2>1. i \in Nat /\ i <= n + 1 /\ \A j \in 1 .. i - 1 : j \in 1 .. n
    OBVIOUS
  <2>2. \A j \in 1 .. i - 1 : Html(s[j]) <=> Html(t[j])
    BY <1>1, <2>1
  <2> QED
    BY <1>1, <2>1, <2>2, SameOrdinal
<1>3. n + 1 \in 1 .. n + 1
  OBVIOUS
<1>4. Answers!HtmlPlaces(s) = Answers!HtmlPlaces(t)
  BY <1>1 DEF Answers!HtmlPlaces, Html
<1> QED
  BY <1>1, <1>2, <1>3, <1>4 DEF Count

\* The places of blocks that follow others.
LEMMA CountJoins ==
    ASSUME NEW S, NEW s \in Seq(S), NEW t \in Seq(S)
    PROVE  /\ \A i \in 1 .. Len(s) + 1 :
                 Answers!Ordinal(s \o t, i) = Answers!Ordinal(s, i)
           /\ \A i \in 1 .. Len(t) + 1 :
                 Answers!Ordinal(s \o t, Len(s) + i) = Count(s) + Answers!Ordinal(t, i)
           /\ Count(s \o t) = Count(s) + Count(t)
<1>1. PICK n \in Nat, m \in Nat : /\ n = Len(s) /\ DOMAIN s = 1 .. n
                                  /\ m = Len(t) /\ DOMAIN t = 1 .. m
  OBVIOUS
<1>2. PICK u \in Seq(S) : /\ u = s \o t /\ DOMAIN u = 1 .. n + m /\ Len(u) = n + m
                          /\ \A i \in 1 .. n : u[i] = s[i]
                          /\ \A i \in 1 .. m : u[n + i] = t[i]
  <2>0. PICK u \in Seq(S) : u = s \o t
    <3>1. s \o t \in Seq(S)
      OBVIOUS
    <3> QED
      BY <3>1
  <2>1. DOMAIN u = 1 .. n + m /\ Len(u) = n + m
    BY <1>1, <2>0
  <2>2. \A i \in 1 .. n : u[i] = s[i]
    BY <1>1, <2>0
  <2>3. \A i \in 1 .. m : u[n + i] = t[i]
    BY <1>1, <2>0
  <2> QED
    BY <2>0, <2>1, <2>2, <2>3
<1>3. ASSUME NEW i \in 1 .. n + 1 PROVE Answers!Ordinal(u, i) = Answers!Ordinal(s, i)
  <2>0. PICK k \in Nat : k = n + m /\ DOMAIN u = 1 .. k
    BY <1>2
  <2>1. i \in Nat /\ i <= n + 1 /\ i <= k + 1 /\ \A j \in 1 .. i - 1 : j \in 1 .. n
    BY <2>0
  <2>2. \A j \in 1 .. i - 1 : Html(u[j]) <=> Html(s[j])
    BY <1>2, <2>1
  <2> QED
    BY <1>1, <2>0, <2>1, <2>2, SameOrdinal, SMTT(30)
<1>4. Count(s) \in Nat /\ Count(s) = Answers!Ordinal(s, n + 1)
  BY <1>1, CountIs DEF Count
<1> DEFINE T == {i \in 0 .. m : Answers!Ordinal(u, n + (i + 1))
                                  = Count(s) + Answers!Ordinal(t, i + 1)}
<1>5. 0 \in T
  <2>1. n + 1 \in 1 .. n + 1 /\ 0 \in 0 .. m /\ n + (0 + 1) = n + 1 /\ 0 + 1 = 1
    OBVIOUS
  <2>2. Answers!Ordinal(t, 1) = 0
    BY <1>1, OrdinalFirst
  <2>3. Answers!Ordinal(u, n + 1) = Count(s)
    BY <1>3, <1>4, <2>1
  <2> QED
    BY <1>4, <2>1, <2>2, <2>3
<1>6. ASSUME NEW i \in 0 .. m - 1, i \in T PROVE i + 1 \in T
  <2>1. /\ i + 1 \in 1 .. m /\ n + (i + 1) \in 1 .. n + m /\ n + m \in Nat /\ i + 1 \in 0 .. m
        /\ (n + (i + 1)) + 1 = n + ((i + 1) + 1)
    OBVIOUS
  <2>2. PICK k \in Nat, l \in Nat : k = Answers!Ordinal(u, n + (i + 1))
                                    /\ l = Answers!Ordinal(t, i + 1)
    BY <1>1, <1>2, <2>1, BeforeIs
  <2>3. Answers!Ordinal(u, (n + (i + 1)) + 1) = IF Html(u[n + (i + 1)]) THEN k + 1 ELSE k
    BY <1>2, <2>1, <2>2, OrdinalNext
  <2>4. Answers!Ordinal(t, (i + 1) + 1) = IF Html(t[i + 1]) THEN l + 1 ELSE l
    BY <1>1, <2>1, <2>2, OrdinalNext
  <2>5. u[n + (i + 1)] = t[i + 1]
    BY <1>2, <2>1
  <2>6. k = Count(s) + l
    BY <1>6, <2>2
  <2> QED
    BY <1>4, <2>1, <2>2, <2>3, <2>4, <2>5, <2>6
<1> HIDE DEF T
<1>7. 0 .. m \subseteq T
  BY <1>1, <1>5, <1>6, UpTo
<1>8. ASSUME NEW i \in 1 .. m + 1
      PROVE  Answers!Ordinal(u, n + i) = Count(s) + Answers!Ordinal(t, i)
  <2>1. i - 1 \in T /\ (i - 1) + 1 = i
    BY <1>7
  <2> QED
    BY <2>1 DEF T
<1>9. Count(u) = Count(s) + Count(t)
  <2>1. m + 1 \in 1 .. m + 1 /\ (n + m) + 1 = n + (m + 1)
    OBVIOUS
  <2> QED
    BY <1>1, <1>2, <1>8, <2>1 DEF Count
<1> QED
  BY <1>1, <1>2, <1>3, <1>8, <1>9

-----------------------------------------------------------------------------
(* The canvases and their sources.                                         *)

\* The canvases of a number all show the same, and so does their renderer.
Matches(p, id, what) ==
    /\ \A j \in DOMAIN p.entries :
          p.entries[j].kind = "canvas" /\ p.entries[j].id = id => p.entries[j].content = what
    /\ id \in DOMAIN p.renderers => p.renderers[id].of = what

\* None of them has a renderer or is complete.
Sketched(p, id) ==
    /\ id \notin DOMAIN p.renderers
    /\ \A j \in DOMAIN p.entries :
          p.entries[j].kind = "canvas" /\ p.entries[j].id = id => p.entries[j].preview

\* No number is used before it is given.
Counted(p) ==
    /\ \A j \in DOMAIN p.entries : p.entries[j].kind = "canvas" => p.entries[j].id < p.next_id
    /\ \A id \in DOMAIN p.renderers : id < p.next_id

SameCanvas(e, f) == e.kind = "canvas" /\ e.id = f.id /\ e.content = f.content

\* Apart from the canvases of some numbers, q shows nothing that p does not.
Beyond(p, q, ids) ==
    /\ \A j \in DOMAIN q.entries :
          q.entries[j].kind = "canvas" /\ q.entries[j].id \notin ids =>
             \E i \in DOMAIN p.entries : SameCanvas(p.entries[i], q.entries[j])
    /\ \A id \in DOMAIN q.renderers \ ids :
          id \in DOMAIN p.renderers /\ q.renderers[id] = p.renderers[id]

\* So what matched still does.
LEMMA StillMatches ==
    ASSUME NEW p, NEW q, NEW ids, Beyond(p, q, ids), NEW id, id \notin ids, NEW what,
           Matches(p, id, what)
    PROVE  Matches(q, id, what)
  BY DEF Beyond, Matches, SameCanvas

\* And the numbers are still given in order.
LEMMA StillCounted ==
    ASSUME NEW p \in Apps, NEW q \in Apps, NEW ids, Beyond(p, q, ids), Counted(p),
           p.next_id <= q.next_id, \A id \in ids : id < q.next_id
    PROVE  Counted(q)
<1>1. p.next_id \in Nat /\ q.next_id \in Nat
  BY DEF Apps
<1>2. ASSUME NEW j \in DOMAIN q.entries, q.entries[j].kind = "canvas"
      PROVE  q.entries[j].id < q.next_id
  <2>1. PICK e \in Entry : e = q.entries[j]
    BY DEF Apps
  <2>2. CASE e.id \in ids
    BY <2>1, <2>2
  <2>3. CASE e.id \notin ids
    <3>1. PICK i \in DOMAIN p.entries : SameCanvas(p.entries[i], e)
      BY <1>2, <2>1, <2>3 DEF Beyond
    <3>2. e.id < p.next_id /\ e.id \in Nat
      BY <2>1, <3>1 DEF Counted, SameCanvas, Entry
    <3> QED
      BY <1>1, <2>1, <3>2
  <2> QED
    BY <2>2, <2>3
<1>3. ASSUME NEW id \in DOMAIN q.renderers PROVE id < q.next_id
  <2>1. id \in Nat
    BY NumberedIs DEF Apps
  <2>2. CASE id \notin ids
    <3>1. id < p.next_id
      BY <2>2 DEF Beyond, Counted
    <3> QED
      BY <1>1, <2>1, <3>1
  <2> QED
    BY <2>2
<1> QED
  BY <1>2, <1>3 DEF Counted

\* One of those that stay is itself.
LEMMA Unchanged ==
    ASSUME NEW p, NEW q, NEW ids, q.renderers = p.renderers,
           \A j \in DOMAIN q.entries : q.entries[j].kind = "canvas" /\ q.entries[j].id \notin ids =>
              j \in DOMAIN p.entries /\ SameCanvas(p.entries[j], q.entries[j])
    PROVE  Beyond(p, q, ids)
  BY DEF Beyond

\* A line that is added to the log and is no canvas of another number.
LEMMA LineBeyond ==
    ASSUME NEW p \in Apps, NEW q, NEW x \in Entry, q.entries = Append(p.entries, x),
           q.renderers = p.renderers, NEW ids, x.kind = "canvas" => x.id \in ids
    PROVE  /\ Beyond(p, q, ids)
           /\ DOMAIN q.entries = 1 .. Len(p.entries) + 1
           /\ q.entries[Len(p.entries) + 1] = x
           /\ \A j \in 1 .. Len(p.entries) : q.entries[j] = p.entries[j]
<1>1. PICK s \in Seq(Entry) : s = p.entries
  BY DEF Apps
<1>2. /\ DOMAIN Append(s, x) = 1 .. Len(s) + 1 /\ Append(s, x)[Len(s) + 1] = x
      /\ \A j \in 1 .. Len(s) : Append(s, x)[j] = s[j]
  OBVIOUS
<1>3. ASSUME NEW j \in DOMAIN q.entries, q.entries[j].kind = "canvas", q.entries[j].id \notin ids
      PROVE  j \in DOMAIN p.entries /\ SameCanvas(p.entries[j], q.entries[j])
  <2>1. j # Len(s) + 1 => j \in 1 .. Len(s)
    BY <1>1, <1>2, <1>3
  <2>2. j # Len(s) + 1
    BY <1>1, <1>2, <1>3
  <2>3. q.entries[j] = p.entries[j] /\ j \in DOMAIN s
    BY <1>1, <1>2, <2>1, <2>2
  <2> QED
    BY <1>1, <1>3, <2>3 DEF SameCanvas
<1>4. Beyond(p, q, ids)
  BY <1>3, Unchanged
<1> QED
  BY <1>1, <1>2, <1>4

\* The live text goes to the log.
LEMMA LiveTextBeyond ==
    ASSUME NEW p \in Apps
    PROVE  LET q == Answers!FlushLiveText(p) IN
           q \in Apps /\ Beyond(p, q, {}) /\ q.next_id = p.next_id /\ q.renderers = p.renderers
<1>1. CASE p.live_text = << >>
  <2>1. Answers!FlushLiveText(p) = p
    BY <1>1 DEF Answers!FlushLiveText
  <2> QED
    BY <2>1 DEF Beyond, SameCanvas
<1>2. CASE p.live_text # << >>
  <2>1. PICK x : x = [kind |-> "text", content |-> p.live_text, id |-> 0, preview |-> FALSE]
    OBVIOUS
  <2>2. x \in Entry /\ x.kind # "canvas"
    BY <2>1 DEF Entry, Apps
  <2>3. PICK q \in Apps : q = Answers!FlushLiveText(p)
    BY LiveTextType
  <2>4. q = [p EXCEPT !.entries = Append(@, x), !.live_text = << >>]
    BY <1>2, <2>1, <2>3 DEF Answers!FlushLiveText
  <2>5. q.entries = Append(p.entries, x) /\ q.renderers = p.renderers /\ q.next_id = p.next_id
    BY <2>4 DEF Apps
  <2>6. Beyond(p, q, {})
    BY <2>2, <2>5, LineBeyond
  <2> QED
    BY <2>3, <2>5, <2>6
<1> QED
  BY <1>1, <1>2

\* A canvas begins under the next number.
LEMMA StartBeyond ==
    ASSUME NEW p \in Apps, Counted(p), NEW index \in Nat
    PROVE  LET q == Answers!HtmlBlockStart(p, index) IN
           /\ q \in Apps /\ Beyond(p, q, {p.next_id}) /\ Counted(q)
           /\ q.next_id = p.next_id + 1
           /\ index \in DOMAIN q.ids /\ q.ids[index] = p.next_id
           /\ Matches(q, p.next_id, << >>) /\ Sketched(q, p.next_id)
<1>1. PICK f \in Apps : f = Answers!FlushLiveText(p) /\ Beyond(p, f, {})
                        /\ f.next_id = p.next_id /\ f.renderers = p.renderers
  BY LiveTextBeyond
<1>2. f.next_id \in Nat /\ Counted(f)
  BY <1>1, StillCounted DEF Apps
<1>3. PICK x : x = [kind |-> "canvas", content |-> << >>, id |-> f.next_id, preview |-> TRUE]
  OBVIOUS
<1>4. x \in Entry /\ x.id = f.next_id /\ x.content = << >> /\ x.preview
  BY <1>2, <1>3, EmptyContent DEF Entry
<1>5. PICK q \in Apps : q = Answers!HtmlBlockStart(p, index)
  BY StartType
<1>6. q = [f EXCEPT !.entries = Append(f.entries, x),
                    !.ids = Answers!Put(f.ids, index, f.next_id), !.next_id = f.next_id + 1]
  BY <1>1, <1>3, <1>5 DEF Answers!HtmlBlockStart
<1>7. /\ q.entries = Append(f.entries, x) /\ q.renderers = f.renderers
      /\ q.ids = Answers!Put(f.ids, index, f.next_id) /\ q.next_id = f.next_id + 1
  BY <1>6 DEF Apps
<1>8. /\ Beyond(f, q, {f.next_id})
      /\ DOMAIN q.entries = 1 .. Len(f.entries) + 1
      /\ q.entries[Len(f.entries) + 1] = x
      /\ \A j \in 1 .. Len(f.entries) : q.entries[j] = f.entries[j]
  BY <1>4, <1>7, LineBeyond
<1>9. index \in DOMAIN q.ids /\ q.ids[index] = f.next_id
  <2>1. f.ids \in Numbered(Nat)
    BY DEF Apps
  <2>2. PICK ids \in Numbered(Nat), id \in Nat : ids = f.ids /\ id = f.next_id
    BY <1>2, <2>1
  <2>3. DOMAIN Answers!Put(ids, index, id) = DOMAIN ids \cup {index}
        /\ Answers!Put(ids, index, id)[index] = id
    BY PutIs
  <2> QED
    BY <1>7, <2>2, <2>3
<1>10. ASSUME NEW j \in DOMAIN q.entries, q.entries[j].kind = "canvas",
              q.entries[j].id = f.next_id
       PROVE  q.entries[j] = x
  <2>1. PICK n \in Nat : n = Len(f.entries) /\ DOMAIN f.entries = 1 .. n
    BY DEF Apps
  <2>2. CASE j \in 1 .. n
    BY <1>2, <1>8, <1>10, <2>1, <2>2 DEF Counted
  <2> QED
    BY <1>8, <2>1, <2>2
<1>11. f.next_id \notin DOMAIN f.renderers
  BY <1>2 DEF Counted
<1>12. Matches(q, f.next_id, << >>) /\ Sketched(q, f.next_id)
  BY <1>4, <1>7, <1>10, <1>11 DEF Matches, Sketched
<1>13. Beyond(p, q, {f.next_id})
  BY <1>1, <1>8 DEF Beyond, SameCanvas
<1>14. Counted(q)
  BY <1>2, <1>7, <1>8, StillCounted
<1> QED
  BY <1>1, <1>5, <1>7, <1>9, <1>12, <1>13, <1>14

\* Its text is added to.
LEMMA DeltaBeyond ==
    ASSUME NEW p \in Apps, NEW index \in DOMAIN p.ids, NEW more \in Content
    PROVE  LET q == Answers!HtmlBlockDelta(p, index, more)
               id == p.ids[index]
           IN /\ q \in Apps /\ Beyond(p, q, {id}) /\ q.next_id = p.next_id /\ q.ids = p.ids
              /\ Sketched(p, id) => Sketched(q, id)
              /\ \A what : Sketched(p, id) /\ Matches(p, id, what) => Matches(q, id, what \o more)
<1>1. PICK id \in Nat : id = p.ids[index] /\ index \in Nat
  BY NumberedIs DEF Apps
<1>2. PICK n \in Nat : n = Len(p.entries) /\ p.entries \in [1 .. n -> Entry]
  BY DEF Apps
<1>3. PICK place : place = {i \in DOMAIN p.entries :
                      /\ Answers!Has(p.ids, index) /\ p.entries[i].preview
                      /\ i \in Answers!PlaceOf(p, id)}
  OBVIOUS
<1>4. PICK es : es = [i \in DOMAIN p.entries |->
        IF i \in place THEN [p.entries[i] EXCEPT !.content = @ \o more] ELSE p.entries[i]]
  OBVIOUS
<1>5. PICK q \in Apps : q = Answers!HtmlBlockDelta(p, index, more)
  BY <1>1, DeltaType
<1>6. q = [p EXCEPT !.entries = es]
  BY <1>1, <1>3, <1>4, <1>5 DEF Answers!HtmlBlockDelta
<1>7. /\ q.entries = es /\ q.renderers = p.renderers /\ q.next_id = p.next_id
      /\ q.ids = p.ids
  BY <1>6 DEF Apps
<1>8. DOMAIN es = 1 .. n
  BY <1>2, <1>4
<1>9. \A i \in 1 .. n : i \in place <=>
         p.entries[i].preview /\ p.entries[i].kind = "canvas" /\ p.entries[i].id = id
  BY <1>2, <1>3 DEF Answers!Has, Answers!PlaceOf
<1>10. ASSUME NEW i \in 1 .. n
       PROVE  /\ es[i].kind = p.entries[i].kind /\ es[i].id = p.entries[i].id
              /\ es[i].preview = p.entries[i].preview
              /\ es[i].content = IF i \in place THEN p.entries[i].content \o more
                                 ELSE p.entries[i].content
  <2>1. PICK e \in Entry : e = p.entries[i]
    BY <1>2
  <2>2. es[i] = IF i \in place THEN [e EXCEPT !.content = @ \o more] ELSE e
    BY <1>2, <1>4, <2>1
  <2> QED
    BY <2>1, <2>2 DEF Entry
<1>11. Beyond(p, q, {id})
  <2>1. ASSUME NEW j \in DOMAIN q.entries, q.entries[j].kind = "canvas",
               q.entries[j].id \notin {id}
        PROVE  j \in DOMAIN p.entries /\ SameCanvas(p.entries[j], q.entries[j])
    BY <1>2, <1>7, <1>8, <1>9, <1>10, <2>1 DEF SameCanvas
  <2> QED
    BY <1>7, <2>1, Unchanged
<1>12. Sketched(p, id) => Sketched(q, id)
  BY <1>2, <1>7, <1>8, <1>10 DEF Sketched
<1>13. ASSUME NEW what, Sketched(p, id), Matches(p, id, what)
       PROVE  Matches(q, id, what \o more)
  <2>1. ASSUME NEW j \in 1 .. n, es[j].kind = "canvas", es[j].id = id
        PROVE  es[j].content = what \o more
    BY <1>2, <1>9, <1>10, <1>13, <2>1 DEF Sketched, Matches
  <2> QED
    BY <1>7, <1>8, <1>13, <2>1 DEF Matches, Sketched
<1> QED
  BY <1>1, <1>5, <1>7, <1>11, <1>12, <1>13

\* It is complete.
LEMMA StopBeyond ==
    ASSUME NEW p \in Apps, NEW index \in DOMAIN p.ids
    PROVE  LET q == Answers!HtmlBlockStop(p, index)
               id == p.ids[index]
           IN /\ q \in Apps /\ Beyond(p, q, {id}) /\ q.next_id = p.next_id
              /\ \A what : Matches(p, id, what) => Matches(q, id, what)
<1>1. PICK id \in Nat : id = p.ids[index] /\ index \in Nat
  BY NumberedIs DEF Apps
<1>2. PICK n \in Nat : n = Len(p.entries) /\ p.entries \in [1 .. n -> Entry]
  BY DEF Apps
<1>3. PICK place : place = Answers!PlaceOf(p, id)
  OBVIOUS
<1>4. PICK es : es = [i \in DOMAIN p.entries |-> IF i \in place
                        THEN [p.entries[i] EXCEPT !.preview = FALSE] ELSE p.entries[i]]
  OBVIOUS
<1>5. PICK ids : ids = [j \in DOMAIN p.ids \ {index} |-> p.ids[j]]
  OBVIOUS
<1>6. PICK freed : freed = [p EXCEPT !.ids = ids, !.entries = es]
  OBVIOUS
<1>7. PICK q \in Apps : q = Answers!HtmlBlockStop(p, index)
  BY <1>1, StopType
<1>8. freed.entries = es /\ freed.renderers = p.renderers /\ freed.next_id = p.next_id
  BY <1>6 DEF Apps
<1>9. DOMAIN es = 1 .. n
  BY <1>2, <1>4
<1>10. ASSUME NEW i \in 1 .. n
       PROVE  /\ es[i].kind = p.entries[i].kind /\ es[i].id = p.entries[i].id
              /\ es[i].content = p.entries[i].content
  <2>1. PICK e \in Entry : e = p.entries[i]
    BY <1>2
  <2>2. es[i] = IF i \in place THEN [e EXCEPT !.preview = FALSE] ELSE e
    BY <1>2, <1>4, <2>1
  <2> QED
    BY <2>1, <2>2 DEF Entry
<1>11. \A i \in 1 .. n : es[i].kind = "canvas" => SameCanvas(p.entries[i], es[i])
  BY <1>10 DEF SameCanvas
<1>12. CASE place = {}
  <2>1. q = freed
    BY <1>1, <1>3, <1>4, <1>5, <1>6, <1>7, <1>12 DEF Answers!HtmlBlockStop, Answers!Has
  <2>2. Beyond(p, q, {id})
    BY <1>2, <1>8, <1>9, <1>11, <2>1, Unchanged
  <2>3. ASSUME NEW what, Matches(p, id, what) PROVE Matches(q, id, what)
    BY <1>2, <1>8, <1>9, <1>10, <2>1, <2>3 DEF Matches
  <2> QED
    BY <1>1, <1>7, <1>8, <2>1, <2>2, <2>3
<1>13. CASE place # {}
  <2>1. PICK found : found = (CHOOSE i \in place : TRUE)
    OBVIOUS
  <2>2. /\ found \in DOMAIN p.entries /\ p.entries[found].kind = "canvas"
        /\ p.entries[found].id = id
    BY <1>3, <1>13, <2>1 DEF Answers!PlaceOf
  <2>3. PICK r : r = [source |-> p.entries[found].content, of |-> p.entries[found].content]
    OBVIOUS
  <2>4. r \in Renderer /\ r.of = p.entries[found].content
    BY <1>2, <2>2, <2>3 DEF Renderer, Entry
  <2>5. PICK rs : rs = Answers!Put(p.renderers, id, r)
    OBVIOUS
  <2>6. PICK old \in Numbered(Renderer) : old = p.renderers
    BY DEF Apps
  <2>7. /\ DOMAIN rs = DOMAIN old \cup {id} /\ rs[id] = r
        /\ \A j \in DOMAIN old : j # id => rs[j] = old[j]
    BY <2>4, <2>5, <2>6, PutIs
  <2>8. q = [freed EXCEPT !.renderers = rs]
    BY <1>1, <1>3, <1>4, <1>5, <1>6, <1>7, <1>8, <1>13, <2>1, <2>3, <2>5
       DEF Answers!HtmlBlockStop, Answers!Has
  <2>9. q.entries = es /\ q.renderers = rs /\ q.next_id = p.next_id
    BY <1>6, <1>8, <2>8 DEF Apps
  <2>10. Beyond(p, q, {id})
    <3>1. \A k \in DOMAIN rs \ {id} : k \in DOMAIN old /\ rs[k] = old[k]
      BY <2>7
    <3>2. \A i \in DOMAIN es : es[i].kind = "canvas" =>
             i \in DOMAIN p.entries /\ SameCanvas(p.entries[i], es[i])
      BY <1>2, <1>9, <1>11
    <3> QED
      BY <2>6, <2>9, <3>1, <3>2 DEF Beyond
  <2>11. ASSUME NEW what, Matches(p, id, what) PROVE Matches(q, id, what)
    <3>1. r.of = what
      BY <2>2, <2>4, <2>11 DEF Matches
    <3> QED
      BY <1>2, <1>9, <1>10, <2>7, <2>9, <2>11, <3>1 DEF Matches
  <2> QED
    BY <1>1, <1>7, <2>9, <2>10, <2>11
<1> QED
  BY <1>12, <1>13

-----------------------------------------------------------------------------
(* Canvases and Html blocks in step.                                       *)

\* The canvases of the turn, from a number on, are those of the blocks, in their order.
AllMatch(p, from, blocks) ==
    \A i \in Answers!HtmlPlaces(blocks) :
        Matches(p, from + Answers!Ordinal(blocks, i), blocks[i].content)

\* There are as many canvases as Html blocks, and then they match, or more.
InStep(p, from, blocks) ==
    /\ from + Count(blocks) <= p.next_id
    /\ from + Count(blocks) = p.next_id => AllMatch(p, from, blocks)

\* The last Html block has the highest number.
LEMMA LastOrdinal ==
    ASSUME NEW S, NEW s \in Seq(S), NEW e \in 1 .. Len(s), Html(s[e]),
           \A i \in e + 1 .. Len(s) : ~Html(s[i])
    PROVE  /\ Answers!Ordinal(s, e) + 1 = Count(s)
           /\ \A i \in Answers!HtmlPlaces(s) :
                 i # e => Answers!Ordinal(s, i) < Answers!Ordinal(s, e)
<1>1. PICK n \in Nat : n = Len(s) /\ DOMAIN s = 1 .. n
  OBVIOUS
<1>2. HtmlBefore(s, n + 1) = HtmlBefore(s, e + 1)
  BY <1>1 DEF HtmlBefore, Answers!HtmlPlaces, Html
<1>3. Answers!Ordinal(s, e + 1) = Answers!Ordinal(s, e) + 1
  BY <1>1, OrdinalNext
<1>4. Count(s) = Answers!Ordinal(s, e + 1)
  BY <1>1, <1>2, BeforeIs DEF Count
<1>5. ASSUME NEW i \in Answers!HtmlPlaces(s), i # e
      PROVE  Answers!Ordinal(s, i) < Answers!Ordinal(s, e)
  <2>1. i \in 1 .. n /\ Html(s[i])
    BY <1>1 DEF Answers!HtmlPlaces, Html
  <2>2. i \in 1 .. n + 1 /\ e \in 1 .. n + 1 /\ i < e
    BY <1>1, <1>5, <2>1
  <2> QED
    BY <1>1, <2>1, <2>2, OrdinalGrows
<1> QED
  BY <1>3, <1>4, <1>5

\* What matches of one block more.
LEMMA MatchAppends ==
    ASSUME NEW p, NEW from \in Nat, NEW K \in Parts, NEW x \in Part
    PROVE  AllMatch(p, from, Append(K, x)) <=>
              /\ AllMatch(p, from, K)
              /\ Html(x) => Matches(p, from + Count(K), x.content)
<1>1. PICK n \in Nat : n = Len(K) /\ DOMAIN K = 1 .. n /\ K \in Seq(Part)
  BY DEF Parts
<1>2. PICK L \in Seq(Part) : /\ L = Append(K, x) /\ L[n + 1] = x
                             /\ \A i \in 1 .. n : L[i] = K[i]
  <2>1. /\ Append(K, x) \in Seq(Part) /\ Append(K, x)[n + 1] = x
        /\ \A i \in 1 .. n : Append(K, x)[i] = K[i]
    BY <1>1
  <2> QED
    BY <2>1
<1>3. /\ \A i \in 1 .. n + 1 : Answers!Ordinal(L, i) = Answers!Ordinal(K, i)
      /\ Answers!HtmlPlaces(L)
           = Answers!HtmlPlaces(K) \cup (IF Html(x) THEN {n + 1} ELSE {})
  BY <1>1, <1>2, CountAppends
<1>4. Count(K) = Answers!Ordinal(L, n + 1)
  BY <1>1, <1>3 DEF Count
<1>5. \A i \in Answers!HtmlPlaces(K) :
         /\ i \in Answers!HtmlPlaces(L) /\ i \in 1 .. n /\ L[i] = K[i]
         /\ Answers!Ordinal(L, i) = Answers!Ordinal(K, i)
  BY <1>1, <1>2, <1>3 DEF Answers!HtmlPlaces
<1>6. Html(x) => n + 1 \in Answers!HtmlPlaces(L)
  BY <1>3
<1>7. \A i \in Answers!HtmlPlaces(L) :
         i \in Answers!HtmlPlaces(K) \/ (Html(x) /\ i = n + 1)
  BY <1>3
<1> QED
  BY <1>2, <1>4, <1>5, <1>6, <1>7 DEF AllMatch

\* A step after which the blocks are of the same kinds.
LEMMA StaysInStep ==
    ASSUME NEW p \in Apps, NEW q \in Apps, NEW from \in Nat, NEW K \in Parts, NEW L \in Parts,
           NEW id, Beyond(p, q, {id}), q.next_id = p.next_id, Len(K) = Len(L),
           \A i \in 1 .. Len(K) : K[i].kind = L[i].kind,
           from + Count(K) = p.next_id =>
              \A i \in Answers!HtmlPlaces(K) :
                 IF from + Answers!Ordinal(K, i) = id
                 THEN Matches(p, id, K[i].content) => Matches(q, id, L[i].content)
                 ELSE L[i].content = K[i].content,
           InStep(p, from, K)
    PROVE  InStep(q, from, L)
<1>1. PICK n \in Nat : /\ n = Len(K) /\ DOMAIN K = 1 .. n /\ n = Len(L)
                       /\ K \in Seq(Part) /\ L \in Seq(Part)
  BY DEF Parts
<1>2. /\ Count(K) = Count(L) /\ Answers!HtmlPlaces(K) = Answers!HtmlPlaces(L)
      /\ \A i \in 1 .. n + 1 : Answers!Ordinal(K, i) = Answers!Ordinal(L, i)
  <2>1. \A i \in 1 .. n : Html(K[i]) <=> Html(L[i])
    BY <1>1 DEF Html
  <2> QED
    BY <1>1, <2>1, CountSame
<1>3. ASSUME from + Count(K) = p.next_id, NEW i \in Answers!HtmlPlaces(K)
      PROVE  Matches(q, from + Answers!Ordinal(L, i), L[i].content)
  <2>1. i \in 1 .. n + 1
    BY <1>1 DEF Answers!HtmlPlaces
  <2>2. PICK k : k = from + Answers!Ordinal(K, i) /\ k = from + Answers!Ordinal(L, i)
    BY <1>2, <2>1
  <2>3. Matches(p, k, K[i].content)
    BY <1>3, <2>2 DEF InStep, AllMatch
  <2>4. CASE k = id
    BY <1>3, <2>2, <2>3, <2>4
  <2>5. CASE k # id
    <3>1. k \notin {id}
      BY <2>5
    <3>2. Matches(q, k, K[i].content)
      BY <2>3, <3>1, StillMatches
    <3> QED
      BY <1>3, <2>2, <2>5, <3>2
  <2> QED
    BY <2>4, <2>5
<1> QED
  BY <1>2, <1>3 DEF InStep, AllMatch

\* A canvas begins, and an Html block.
LEMMA StartInStep ==
    ASSUME NEW p \in Apps, NEW q \in Apps, NEW from \in Nat, NEW K \in Parts, NEW x \in Part,
           Beyond(p, q, {p.next_id}), q.next_id = p.next_id + 1, Html(x),
           Matches(q, p.next_id, x.content), InStep(p, from, K)
    PROVE  InStep(q, from, Append(K, x))
<1>1. p.next_id \in Nat /\ K \in Seq(Part)
  BY DEF Apps, Parts
<1>2. Count(K) \in Nat /\ Count(Append(K, x)) = Count(K) + 1
  BY <1>1, CountIs, CountAppends
<1>3. from + Count(Append(K, x)) <= q.next_id
  BY <1>1, <1>2 DEF InStep
<1>4. ASSUME from + Count(Append(K, x)) = q.next_id PROVE AllMatch(q, from, Append(K, x))
  <2>1. from + Count(K) = p.next_id
    BY <1>1, <1>2, <1>4
  <2>2. ASSUME NEW i \in Answers!HtmlPlaces(K)
        PROVE  Matches(q, from + Answers!Ordinal(K, i), K[i].content)
    <3>1. Answers!Ordinal(K, i) \in Nat /\ Answers!Ordinal(K, i) < Count(K)
      BY <1>1, CountIs
    <3>2. from + Answers!Ordinal(K, i) \notin {p.next_id}
      BY <1>2, <2>1, <3>1
    <3>3. Matches(p, from + Answers!Ordinal(K, i), K[i].content)
      BY <2>1 DEF InStep, AllMatch
    <3> QED
      BY <3>2, <3>3, StillMatches
  <2>3. AllMatch(q, from, K)
    BY <2>2 DEF AllMatch
  <2> QED
    BY <2>1, <2>3, MatchAppends
<1> QED
  BY <1>3, <1>4 DEF InStep

\* Fewer Html blocks than canvases.
LEMMA BehindInStep ==
    ASSUME NEW p \in Apps, NEW q \in Apps, NEW from \in Nat, NEW K \in Parts, NEW L \in Parts,
           q.next_id = p.next_id, Count(L) < Count(K), InStep(p, from, K)
    PROVE  InStep(q, from, L)
<1>1. p.next_id \in Nat /\ Count(K) \in Nat /\ Count(L) \in Nat
  BY CountIs DEF Apps, Parts
<1> QED
  BY <1>1 DEF InStep

\* A block that is no canvas goes among them.
LEMMA AddedInStep ==
    ASSUME NEW p, NEW from \in Nat, NEW K \in Parts, NEW x \in Part, ~Html(x)
    PROVE  /\ InStep(p, from, K) => InStep(p, from, Append(K, x))
           /\ \A y \in Part : InStep(p, from, Append(K, y)) =>
                 InStep(p, from, Append(Append(K, x), y))
<1>1. PICK L \in Parts : L = Append(K, x) /\ Count(L) = Count(K)
  <2>1. K \in Seq(Part) /\ Append(K, x) \in Parts
    BY DEF Parts
  <2> QED
    BY <2>1, CountAppends
<1>2. AllMatch(p, from, L) <=> AllMatch(p, from, K)
  BY <1>1, MatchAppends
<1>3. ASSUME NEW y \in Part, InStep(p, from, Append(K, y)) PROVE InStep(p, from, Append(L, y))
  <2>1. Count(Append(L, y)) = Count(Append(K, y))
    <3>1. K \in Seq(Part) /\ L \in Seq(Part)
      BY DEF Parts
    <3> QED
      BY <1>1, <3>1, CountAppends
  <2>2. AllMatch(p, from, Append(L, y)) <=> AllMatch(p, from, Append(K, y))
    BY <1>1, <1>2, MatchAppends
  <2> QED
    BY <1>3, <2>1, <2>2 DEF InStep
<1> QED
  BY <1>1, <1>2, <1>3 DEF InStep

-----------------------------------------------------------------------------
(* What an accumulator keeps, in step with the canvases.                   *)

\* An event that is heard changes the log.
LEMMA HearApp ==
    ASSUME NEW c \in Audience, NEW e \in Events
    PROVE  Answers!Hear(c, e).app = Answers!Apply(c.app, e)
  BY DEF Answers!Hear

\* What closing does, field by field.
LEMMA CloseIs ==
    ASSUME NEW a \in Accs, a.open # Answers!None
    PROVE  LET b == Answers!Close(a)
               e == Event("stop", a.open.index, Answers!Block(a.open.kind, << >>))
           IN /\ b.by = a.by /\ b.open = Answers!None
              /\ b.kept = IF Answers!KeptOnClose(a)
                          THEN Append(a.kept, Answers!Block(a.open.kind, a.open.content))
                          ELSE a.kept
              /\ b.told.app = Answers!Apply(a.told.app, e)
<1>1. /\ a.open.index \in Nat /\ a.open.kind \in Answers!Kinds /\ a.open.content \in Content
      /\ a.told \in Audience
  BY OpenIs DEF Accs
<1>2. PICK block \in Part : block = Answers!Block(a.open.kind, << >>)
  BY <1>1, BlockType, EmptyContent
<1>3. PICK e \in Events : e = Event("stop", a.open.index, block)
  BY <1>1, EmitIs
<1>4. PICK t : t = Answers!Hear(a.told, e)
  OBVIOUS
<1>5. Answers!Emit(a, "stop", a.open.index, block) = [a EXCEPT !.told = t]
  BY <1>3, <1>4 DEF Answers!Emit, Event
<1>6. PICK k : k = IF Answers!KeptOnClose(a)
                   THEN Append(a.kept, Answers!Block(a.open.kind, a.open.content)) ELSE a.kept
  BY Zenon
<1>7. PICK m : m = IF a.by = "local" THEN a.next + 1 ELSE a.next
  OBVIOUS
<1>8. PICK d : d = [a EXCEPT !.told = t]
  BY Zenon
<1>9. d.kept = a.kept /\ d.next = a.next
  BY <1>8 DEF Accs
<1>10. PICK b : b = Answers!Close(a)
  OBVIOUS
<1>11. b = [d EXCEPT !.open = Answers!None, !.kept = k, !.next = m]
  BY <1>2, <1>5, <1>6, <1>7, <1>8, <1>9, <1>10, Zenon DEF Answers!Close
<1>12. b.by = a.by /\ b.open = Answers!None /\ b.kept = k /\ b.told = t
  BY <1>8, <1>11 DEF Accs
<1>13. t.app = Answers!Apply(a.told.app, e)
  BY <1>1, <1>4, HearApp
<1> QED
  BY <1>2, <1>3, <1>6, <1>10, <1>12, <1>13

\* What opening does, field by field.
LEMMA OpensIs ==
    ASSUME NEW a \in Accs, NEW kind \in Answers!Kinds
    PROVE  LET b == Answers!Open(a, kind)
               e == Event("start", a.next, Answers!Block(kind, << >>))
           IN /\ b.by = a.by
              /\ b.open = [index |-> a.next, kind |-> kind, content |-> << >>]
              /\ b.kept = IF a.by = "openai" THEN Append(a.kept, Answers!Block(kind, << >>))
                          ELSE a.kept
              /\ b.told.app = Answers!Apply(a.told.app, e)
<1>1. a.next \in Nat /\ a.told \in Audience
  BY DEF Accs
<1>2. PICK block \in Part : block = Answers!Block(kind, << >>)
  BY BlockType, EmptyContent
<1>3. PICK e \in Events : e = Event("start", a.next, block)
  BY <1>1, EmitIs
<1>4. PICK t : t = Answers!Hear(a.told, e)
  OBVIOUS
<1>5. PICK k : k = IF a.by = "openai" THEN Append(a.kept, block) ELSE a.kept
  BY Zenon
<1>6. PICK m : m = IF a.by = "local" THEN a.next ELSE a.next + 1
  OBVIOUS
<1>7. PICK o : o = [index |-> a.next, kind |-> kind, content |-> << >>]
  BY Zenon
<1>8. PICK d : d = [a EXCEPT !.told = t]
  BY Zenon
<1>9. d.kept = a.kept /\ d.next = a.next /\ Answers!Emit(a, "start", a.next, block) = d
  BY <1>3, <1>4, <1>8 DEF Accs, Answers!Emit, Event
<1>10. PICK b : b = Answers!Open(a, kind)
  OBVIOUS
<1>11. b = [d EXCEPT !.open = o, !.kept = k, !.next = m]
  BY <1>2, <1>5, <1>6, <1>7, <1>9, <1>10, Zenon DEF Answers!Open
<1>12. b.by = a.by /\ b.open = o /\ b.kept = k /\ b.told = t
  BY <1>8, <1>11 DEF Accs
<1>13. t.app = Answers!Apply(a.told.app, e)
  BY <1>1, <1>4, HearApp
<1> QED
  BY <1>2, <1>3, <1>5, <1>7, <1>10, <1>12, <1>13

\* What delivering a chunk does, field by field.
LEMMA DeliveredIs ==
    ASSUME NEW a \in Accs, a.open # Answers!None, NEW chunk \in Part
    PROVE  LET b == Delivered(a, chunk) IN
           /\ b.by = a.by /\ b.open.kind = a.open.kind /\ b.open.index = a.open.index
           /\ b.open.content = a.open.content \o chunk.content /\ b.open # Answers!None
           /\ b.kept = Answers!KeptOnDelta(a, chunk.content)
           /\ b.told.app = Answers!Apply(a.told.app, Event("delta", a.open.index, chunk))
<1>1. /\ a.open \in [index : Nat, kind : Answers!Kinds, content : Content]
      /\ a.told \in Audience /\ a.open.index \in Nat /\ a.open.kind \in Answers!Kinds
  BY DEF Accs, Opens
<1>2. PICK e \in Events : e = Event("delta", a.open.index, chunk)
  BY <1>1, EmitIs
<1>3. PICK t : t = Answers!Hear(a.told, e)
  OBVIOUS
<1>4. PICK d : d = [a EXCEPT !.told = t]
  BY Zenon
<1>5. d.open = a.open /\ Answers!Emit(a, "delta", a.open.index, chunk) = d
  BY <1>2, <1>3, <1>4 DEF Accs, Answers!Emit, Event
<1>6. PICK k : k = Answers!KeptOnDelta(a, chunk.content)
  OBVIOUS
<1>7. PICK o : o = [a.open EXCEPT !.content = @ \o chunk.content]
  BY Zenon
<1>8. /\ o.index = a.open.index /\ o.kind = a.open.kind
      /\ o.content = a.open.content \o chunk.content
  BY <1>1, <1>7, Zenon
<1>9. PICK b : b = Delivered(a, chunk)
  OBVIOUS
<1>10. b = [d EXCEPT !.open = o, !.kept = k]
  BY <1>5, <1>6, <1>7, <1>9, Zenon DEF Delivered
<1>11. b.by = a.by /\ b.open = o /\ b.kept = k /\ b.told = t
  BY <1>4, <1>10 DEF Accs
<1>12. t.app = Answers!Apply(a.told.app, e)
  BY <1>1, <1>3, HearApp
<1>13. o # Answers!None
  BY <1>1, <1>8 DEF Answers!None, Answers!Kinds, Answers!Streamed
<1> QED
  BY <1>2, <1>6, <1>8, <1>9, <1>11, <1>12, <1>13, Zenon

\* The Html block that is open and will be kept later.
Awaited(a) ==
    /\ a.open.kind = "html"
    /\ a.by \in {"gemini", "local"} \/ (a.by = "anthropic" /\ a.open.content = << >>)
ToKeep(a) ==
    IF Awaited(a) THEN Append(a.kept, Answers!Block("html", a.open.content)) ELSE a.kept

\* The place of the open block among them.
Place(a) == IF a.by = "openai" THEN a.open.index + 1 ELSE Len(ToKeep(a))

\* The canvas that is being drawn has the last number, and is the last Html block.
Sketches(a, from) ==
    a.open.kind = "html" =>
       LET p == a.told.app
           K == ToKeep(a)
       IN /\ from < p.next_id
          /\ a.open.index \in DOMAIN p.ids /\ p.ids[a.open.index] = p.next_id - 1
          /\ Sketched(p, p.next_id - 1)
          /\ Place(a) \in 1 .. Len(K) /\ Html(K[Place(a)])
          /\ \A i \in Place(a) + 1 .. Len(K) : ~Html(K[i])

\* The renderers hold what belongs to the canvases of the history.
Agree(p, past) ==
    \A i \in Answers!HtmlPlaces(past) :
        Answers!Ordinal(past, i) \in DOMAIN p.renderers =>
            p.renderers[Answers!Ordinal(past, i)].of = past[i].content

\* OpenAI's open block is one it keeps.
Owns(a) ==
    a.by = "openai" /\ a.open # Answers!None => a.kept[a.open.index + 1].kind = a.open.kind

\* The canvases and blocks of a turn are in step while an accumulator works.
Tracks(a, from, blocks, past) ==
    /\ Counted(a.told.app) /\ Agree(a.told.app, past)
    /\ InStep(a.told.app, from, blocks \o ToKeep(a)) /\ Sketches(a, from) /\ Owns(a)

\* What a turn goes on from.
Basis(from, blocks, past) ==
    from \in Nat /\ blocks \in Parts /\ past \in Seq(Saved) /\ Count(past) <= from

\* The listeners' App is one.
LEMMA ToldApp == ASSUME NEW a \in Accs PROVE a.told.app \in Apps /\ a.told \in Audience
  BY DEF Accs, Audience

\* The earlier canvases are not touched.
LEMMA StillAgree ==
    ASSUME NEW p, NEW q, NEW ids, Beyond(p, q, ids), NEW past \in Seq(Saved), Agree(p, past),
           \A id \in ids : id \in Nat /\ Count(past) <= id
    PROVE  Agree(q, past)
<1> SUFFICES ASSUME NEW i \in Answers!HtmlPlaces(past),
                    Answers!Ordinal(past, i) \in DOMAIN q.renderers
             PROVE  q.renderers[Answers!Ordinal(past, i)].of = past[i].content
  BY DEF Agree
<1>1. /\ Answers!Ordinal(past, i) \in Nat /\ Count(past) \in Nat
      /\ Answers!Ordinal(past, i) < Count(past)
  BY CountIs
<1>2. Answers!Ordinal(past, i) \notin ids
  BY <1>1
<1> QED
  BY <1>2 DEF Beyond, Agree

\* What is kept are parts.
LEMMA KeepsType ==
    ASSUME NEW a \in Accs
    PROVE  /\ ToKeep(a) \in Parts /\ a.kept \in Parts
           /\ a.open.kind = "html" => a.open # Answers!None
<1>1. a.open.kind = "html" => a.open # Answers!None
  BY DEF Answers!None
<1>2. a.kept \in Parts /\ "html" \in Answers!Kinds
  BY DEF Accs, Answers!Kinds, Answers!Streamed
<1>3. CASE Awaited(a)
  <2>1. Answers!Block("html", a.open.content) \in Part
    BY <1>1, <1>2, <1>3, OpenIs, BlockType DEF Awaited
  <2>2. Append(a.kept, Answers!Block("html", a.open.content)) \in Parts
    BY <1>2, <2>1 DEF Parts
  <2> QED
    BY <1>1, <1>2, <1>3, <2>2 DEF ToKeep
<1> QED
  BY <1>1, <1>2, <1>3 DEF ToKeep

\* Joining and adding.
LEMMA JoinAppends ==
    ASSUME NEW s \in Parts, NEW t \in Parts, NEW x \in Part
    PROVE  s \o Append(t, x) = Append(s \o t, x) /\ s \o t \in Parts
  BY DEF Parts

\* Nothing is said of it.
LEMMA TracksQuietly ==
    ASSUME NEW a, NEW b, NEW from, NEW blocks, NEW past, Tracks(a, from, blocks, past),
           b.by = a.by, b.open = a.open, b.kept = a.kept, b.told.app = a.told.app
    PROVE  Tracks(b, from, blocks, past) /\ (Awaited(b) <=> Awaited(a))
<1>1. ToKeep(b) = ToKeep(a) /\ Place(b) = Place(a) /\ (Awaited(b) <=> Awaited(a))
  BY DEF ToKeep, Place, Awaited
<1> QED
  BY <1>1 DEF Tracks, Sketches, Owns

\* A block that is no Html block is kept.
LEMMA TracksBeside ==
    ASSUME NEW a \in Accs, Sound(a), NEW b \in Accs, NEW from, NEW blocks, NEW past,
           Basis(from, blocks, past), Tracks(a, from, blocks, past),
           b.by = a.by, b.open = a.open, b.told.app = a.told.app,
           NEW x \in Part, ~Html(x), b.kept = Append(a.kept, x),
           a.by = "anthropic" => a.open.kind # "html"
    PROVE  Tracks(b, from, blocks, past)
<1>1. a.kept \in Parts /\ b.kept \in Parts /\ blocks \in Parts /\ from \in Nat
  BY DEF Accs, Basis
<1>2. PICK n \in Nat : n = Len(a.kept) /\ Len(b.kept) = n + 1 /\ b.kept[n + 1] = x
                       /\ \A i \in 1 .. n : b.kept[i] = a.kept[i]
  BY <1>1 DEF Parts
<1>3. Awaited(b) <=> Awaited(a)
  BY DEF Awaited
<1>4. PICK K \in Parts : K = blocks \o a.kept
  BY <1>1, JoinAppends
<1>7. Owns(b)
  <2>1. a.by = "openai" /\ a.open # Answers!None => a.open.index + 1 \in 1 .. n
    BY <1>2 DEF Sound, Agrees, Used, Accs
  <2> QED
    BY <1>2, <2>1 DEF Owns, Tracks
<1>5. CASE Awaited(a)
  <2>1. PICK y \in Part : y = Answers!Block("html", a.open.content) /\ Html(y)
    BY <1>5, KeepsType, OpenIs, BlockType DEF Awaited, Html
  <2>2. ToKeep(a) = Append(a.kept, y) /\ ToKeep(b) = Append(b.kept, y)
    BY <1>3, <1>5, <2>1 DEF ToKeep
  <2>3. /\ blocks \o Append(a.kept, y) = Append(K, y) /\ blocks \o b.kept = Append(K, x)
        /\ blocks \o Append(b.kept, y) = Append(blocks \o b.kept, y)
    <3>1. PICK s \in Parts, t \in Parts, u \in Parts :
             s = a.kept /\ t = b.kept /\ u = blocks /\ t = Append(s, x) /\ K = u \o s
      BY <1>1, <1>4
    <3>2. u \o Append(s, y) = Append(u \o s, y) /\ u \o Append(s, x) = Append(u \o s, x)
      BY JoinAppends
    <3>3. u \o Append(t, y) = Append(u \o t, y)
      BY JoinAppends
    <3> QED
      BY <3>1, <3>2, <3>3
  <2>4. InStep(b.told.app, from, blocks \o ToKeep(b))
    BY <1>1, <2>2, <2>3, AddedInStep DEF Tracks
  <2>5. a.by # "openai" /\ Len(ToKeep(b)) = n + 2 /\ ToKeep(b)[n + 2] = y
    BY <1>1, <1>2, <1>5, <2>2 DEF Awaited, Parts
  <2>6. Place(b) = n + 2
    BY <2>5 DEF Place
  <2>7. Sketches(b, from)
    BY <2>1, <2>5, <2>6 DEF Sketches, Tracks
  <2> QED
    BY <1>7, <2>4, <2>7 DEF Tracks
<1>6. CASE ~Awaited(a)
  <2>1. ToKeep(a) = a.kept /\ ToKeep(b) = b.kept
    BY <1>3, <1>6 DEF ToKeep
  <2>2. blocks \o ToKeep(b) = Append(K, x)
    BY <1>1, <1>4, <2>1, JoinAppends, SMTT(30)
  <2>3. InStep(b.told.app, from, blocks \o ToKeep(b))
    BY <1>1, <1>4, <2>1, <2>2, AddedInStep DEF Tracks
  <2>4. a.by = "openai" \/ a.open.kind # "html" => Sketches(b, from)
    BY <1>2, <2>1 DEF Sketches, Tracks, Place
  <2>5. a.by = "openai" \/ a.open.kind # "html"
    BY <1>6 DEF Awaited, Accs, Answers!Providers
  <2> QED
    BY <1>7, <2>3, <2>4, <2>5 DEF Tracks
<1> QED
  BY <1>5, <1>6

\* The open block is closed.
LEMMA CloseTracks ==
    ASSUME NEW a \in Accs, Sound(a), NEW from, NEW blocks, NEW past, Basis(from, blocks, past),
           Tracks(a, from, blocks, past), a.by = "anthropic" => ~Awaited(a)
    PROVE  Tracks(Answers!Close(a), from, blocks, past)
<1>1. CASE a.open = Answers!None
  BY <1>1 DEF Answers!Close
<1>2. CASE a.open # Answers!None
  <2>1. PICK b \in Accs : b = Answers!Close(a)
    BY CloseSound
  <2>2. PICK e : e = Event("stop", a.open.index, Answers!Block(a.open.kind, << >>))
    OBVIOUS
  <2>3. /\ b.by = a.by /\ b.open = Answers!None
        /\ b.kept = IF Answers!KeptOnClose(a)
                    THEN Append(a.kept, Answers!Block(a.open.kind, a.open.content))
                    ELSE a.kept
        /\ b.told.app = Answers!Apply(a.told.app, e)
    BY <1>2, <2>1, <2>2, CloseIs
  <2>4. PICK p \in Apps, q \in Apps : p = a.told.app /\ q = b.told.app
    BY ToldApp
  <2>5. ToKeep(b) = b.kept /\ Sketches(b, from) /\ Owns(b)
    BY <2>3 DEF ToKeep, Awaited, Sketches, Owns, Answers!None
  <2>6. e.what = "stop" /\ e.index = a.open.index /\ e.block.kind = a.open.kind
    BY <2>2 DEF Event, Answers!Block
  <2>7. PICK x \in Part : x = Answers!Block(a.open.kind, a.open.content) /\ x.kind = a.open.kind
    BY <1>2, OpenIs, BlockType
  <2>8. CASE a.open.kind = "html"
    <3>1. q = Answers!HtmlBlockStop(p, a.open.index)
      BY <2>3, <2>4, <2>6, <2>8 DEF Answers!Apply
    <3>2. a.open.index \in DOMAIN p.ids /\ p.ids[a.open.index] = p.next_id - 1
          /\ from < p.next_id /\ p.next_id \in Nat
      BY <2>4, <2>8 DEF Tracks, Sketches, Apps
    <3>3. PICK id \in Nat : id = p.next_id - 1 /\ from <= id /\ id < p.next_id
      <4>1. PICK m \in Nat, n \in Nat : m = p.next_id /\ n = from /\ n < m
        BY <3>2 DEF Basis
      <4>2. m - 1 \in Nat /\ n <= m - 1 /\ m - 1 < m
        BY <4>1
      <4> QED
        BY <4>1, <4>2
    <3>4. /\ Beyond(p, q, {id}) /\ q.next_id = p.next_id
          /\ \A what : Matches(p, id, what) => Matches(q, id, what)
      BY <3>1, <3>2, <3>3, StopBeyond
    <3>5. Counted(q)
      BY <2>4, <3>2, <3>3, <3>4, StillCounted DEF Tracks
    <3>6. Agree(q, past)
      <4>1. Count(past) <= id /\ past \in Seq(Saved) /\ Count(past) \in Nat
        BY <3>3, CountIs DEF Basis
      <4> QED
        BY <2>4, <3>4, <4>1, StillAgree DEF Tracks
    <3>7. ToKeep(b) = ToKeep(a)
      BY <2>3, <2>5, <2>8 DEF ToKeep, Awaited, Answers!KeptOnClose, Accs, Answers!Providers,
         Answers!Streamed
    <3>8. PICK K \in Parts : K = blocks \o ToKeep(a)
      BY KeepsType, JoinAppends DEF Basis, Parts
    <3>9. InStep(q, from, K)
      <4>1. InStep(p, from, K) /\ from \in Nat
        BY <2>4, <3>8 DEF Tracks, Basis
      <4> QED
        BY <3>4, <4>1, StaysInStep
    <3> QED
      BY <2>1, <2>4, <2>5, <3>5, <3>6, <3>7, <3>8, <3>9 DEF Tracks
  <2>9. CASE a.open.kind # "html"
    <3>1. q = p
      BY <2>3, <2>4, <2>6, <2>9 DEF Answers!Apply
    <3>2. ToKeep(a) = a.kept
      BY <2>9 DEF ToKeep, Awaited
    <3>3. blocks \in Parts /\ a.kept \in Parts /\ from \in Nat
      BY DEF Basis, Accs
    <3>4. InStep(q, from, blocks \o b.kept)
      <4>1. PICK K \in Parts : K = blocks \o a.kept /\ blocks \o Append(a.kept, x) = Append(K, x)
        BY <3>3, JoinAppends
      <4>2. InStep(p, from, K)
        BY <2>4, <3>2, <4>1 DEF Tracks
      <4>3. InStep(p, from, Append(K, x))
        BY <2>7, <2>9, <3>3, <4>2, AddedInStep DEF Html
      <4> QED
        BY <2>3, <2>7, <3>1, <4>1, <4>2, <4>3
    <3> QED
      BY <2>1, <2>4, <2>5, <3>1, <3>4 DEF Tracks
  <2> QED
    BY <2>8, <2>9
<1> QED
  BY <1>1, <1>2

\* A block is opened.
LEMMA OpenTracks ==
    ASSUME NEW a \in Accs, Sound(a), a.open = Answers!None, NEW kind \in Answers!Kinds,
           a.by = "openai" => kind \in Answers!Streamed,
           NEW from, NEW blocks, NEW past, Basis(from, blocks, past),
           Tracks(a, from, blocks, past)
    PROVE  Tracks(Answers!Open(a, kind), from, blocks, past)
<1>1. PICK b \in Accs : b = Answers!Open(a, kind)
  BY OpenSound
<1>2. PICK e : e = Event("start", a.next, Answers!Block(kind, << >>))
  OBVIOUS
<1>3. /\ b.by = a.by /\ b.open = [index |-> a.next, kind |-> kind, content |-> << >>]
      /\ b.kept = IF a.by = "openai" THEN Append(a.kept, Answers!Block(kind, << >>)) ELSE a.kept
      /\ b.told.app = Answers!Apply(a.told.app, e)
  BY <1>1, <1>2, OpensIs
<1>4. PICK p \in Apps, q \in Apps : p = a.told.app /\ q = b.told.app
  BY <1>1, ToldApp
<1>5. e.what = "start" /\ e.index = a.next /\ e.block.kind = kind
  BY <1>2 DEF Event, Answers!Block
<1>6. PICK x \in Part : /\ x = Answers!Block(kind, << >>) /\ x.kind = kind
                        /\ x.content = << >>
  BY BlockType, EmptyContent
<1>7. blocks \in Parts /\ a.kept \in Parts /\ from \in Nat
  BY DEF Basis, Accs
<1>8. PICK K \in Parts : K = blocks \o a.kept /\ blocks \o Append(a.kept, x) = Append(K, x)
  BY <1>7, JoinAppends
<1>9. ToKeep(a) = a.kept
  BY DEF ToKeep, Awaited, Answers!None
<1>13. Owns(b)
  <2>1. a.by = "openai" => a.next = Len(a.kept)
    BY DEF Sound, Agrees
  <2>2. PICK s \in Seq(Part), m \in Nat : /\ s = a.kept /\ m = Len(s)
                                         /\ Append(s, x)[m + 1] = x
    <3>1. PICK s \in Seq(Part) : s = a.kept
      BY <1>7 DEF Parts
    <3>2. Len(s) \in Nat /\ Append(s, x)[Len(s) + 1] = x
      OBVIOUS
    <3> QED
      BY <3>1, <3>2
  <2>3. b.open.index = a.next /\ b.open.kind = kind
    BY <1>3
  <2>4. a.by = "openai" => b.kept[m + 1] = x
    BY <1>3, <1>6, <2>2
  <2> QED
    BY <1>3, <1>6, <2>1, <2>2, <2>3, <2>4 DEF Owns
<1>10. InStep(p, from, K) /\ Counted(p) /\ Agree(p, past)
  BY <1>4, <1>8, <1>9 DEF Tracks
<1>11. CASE kind = "html"
  <2>1. q = Answers!HtmlBlockStart(p, a.next) /\ a.next \in Nat
    BY <1>3, <1>4, <1>5, <1>11 DEF Answers!Apply, Accs
  <2>2. /\ Beyond(p, q, {p.next_id}) /\ Counted(q) /\ q.next_id = p.next_id + 1
        /\ a.next \in DOMAIN q.ids /\ q.ids[a.next] = p.next_id
        /\ Matches(q, p.next_id, << >>) /\ Sketched(q, p.next_id)
    BY <1>10, <2>1, StartBeyond
  <2>3. PICK k \in Parts : k = Append(a.kept, x) /\ k = ToKeep(b)
    <3>1. Append(a.kept, x) \in Parts
      BY <1>7 DEF Parts
    <3>2. ToKeep(b) = Append(a.kept, x)
      BY <1>3, <1>6, <1>11 DEF ToKeep, Awaited, Accs, Answers!Providers
    <3> QED
      BY <3>1, <3>2
  <2>4. InStep(q, from, Append(K, x))
    BY <1>6, <1>7, <1>10, <1>11, <2>2, StartInStep DEF Html
  <2>5. p.next_id \in Nat /\ from <= p.next_id /\ Count(past) <= p.next_id
        /\ past \in Seq(Saved)
    <3>1. Count(K) \in Nat /\ Count(past) \in Nat /\ p.next_id \in Nat
      BY CountIs DEF Parts, Basis, Apps
    <3> QED
      BY <1>7, <1>10, <3>1 DEF InStep, Basis
  <2>6. Agree(q, past)
    BY <1>10, <2>2, <2>5, StillAgree
  <2>8. /\ Len(k) \in 1 .. Len(k) /\ k[Len(k)] = x /\ Len(k) \in Nat
        /\ Len(k) = Len(a.kept) + 1
    <3>1. PICK s \in Seq(Part) : s = a.kept
      BY <1>7 DEF Parts
    <3>2. PICK m \in Nat : /\ m = Len(s) /\ Len(Append(s, x)) = m + 1
                            /\ Append(s, x)[m + 1] = x
      OBVIOUS
    <3>3. k = Append(s, x)
      BY <2>3, <3>1
    <3>4. Len(k) = m + 1 /\ k[m + 1] = x
      BY <3>2, <3>3
    <3> QED
      BY <3>1, <3>2, <3>4
  <2>7. Place(b) = Len(k)
    <3>1. a.by = "openai" => a.next = Len(a.kept)
      BY DEF Sound, Agrees
    <3>2. Len(k) = Len(a.kept) + 1
      BY <2>8
    <3> QED
      BY <1>3, <2>3, <3>1, <3>2 DEF Place
  <2>9. Sketches(b, from)
    <3>1. from < q.next_id /\ q.next_id - 1 = p.next_id
      BY <1>7, <2>2, <2>5
    <3>2. b.open.index = a.next
      BY <1>3
    <3>3. \A i \in Len(k) + 1 .. Len(k) : FALSE
      BY <2>8
    <3>4. Html(x)
      BY <1>6, <1>11 DEF Html
    <3> QED
      BY <1>4, <2>2, <2>3, <2>7, <2>8, <3>1, <3>2, <3>3, <3>4 DEF Sketches
  <2> QED
    BY <1>1, <1>4, <1>8, <1>13, <2>2, <2>3, <2>4, <2>6, <2>9 DEF Tracks
<1>12. CASE kind # "html"
  <2>1. q = p
    BY <1>3, <1>4, <1>5, <1>12 DEF Answers!Apply
  <2>2. ToKeep(b) = b.kept /\ Sketches(b, from)
    BY <1>3, <1>12 DEF ToKeep, Awaited, Sketches
  <2>3. InStep(p, from, Append(K, x))
    BY <1>6, <1>7, <1>10, <1>12, AddedInStep DEF Html
  <2> QED
    BY <1>1, <1>3, <1>4, <1>6, <1>8, <1>10, <1>13, <2>1, <2>2, <2>3 DEF Tracks
<1> QED
  BY <1>11, <1>12

\* t is s but that its member e has grown.
Grown(s, t, e, more) ==
    /\ Len(t) = Len(s) /\ \A i \in 1 .. Len(s) : t[i].kind = s[i].kind
    /\ \A i \in 1 .. Len(s) : i # e => t[i].content = s[i].content
    /\ t[e].content = s[e].content \o more

\* The members of sequences that are joined.
LEMMA JoinedIs ==
    ASSUME NEW S, NEW f \in Seq(S), NEW g \in Seq(S), NEW n \in Nat, n = Len(f),
           NEW m \in Nat, m = Len(g)
    PROVE  /\ f \o g \in Seq(S) /\ Len(f \o g) = n + m
           /\ \A i \in 1 .. n + m : (f \o g)[i] = IF i <= n THEN f[i] ELSE g[i - n]
<1>1. f \o g \in Seq(S)
  OBVIOUS
<1>2. PICK u : u = f \o g
  OBVIOUS
<1>3. Len(u) = n + m /\ \A i \in 1 .. n + m : u[i] = IF i <= n THEN f[i] ELSE g[i - n]
  BY <1>2
<1> QED
  BY <1>1, <1>2, <1>3

\* So are the sequences they are the end of.
LEMMA GrownJoins ==
    ASSUME NEW r \in Parts, NEW s \in Parts, NEW t \in Parts, NEW e \in 1 .. Len(s), NEW more,
           Grown(s, t, e, more)
    PROVE  /\ r \o s \in Parts /\ r \o t \in Parts /\ Len(r) + e \in 1 .. Len(r \o s)
           /\ (r \o s)[Len(r) + e] = s[e] /\ Grown(r \o s, r \o t, Len(r) + e, more)
           /\ (\A i \in e + 1 .. Len(s) : ~Html(s[i])) =>
                 \A i \in Len(r) + e + 1 .. Len(r \o s) : ~Html((r \o s)[i])
<1>1. PICK n \in Nat, m \in Nat : n = Len(r) /\ m = Len(s) /\ m = Len(t)
                                  /\ r \in Seq(Part) /\ s \in Seq(Part) /\ t \in Seq(Part)
  BY DEF Parts, Grown
<1>2. PICK K : /\ K = r \o s /\ K \in Seq(Part) /\ Len(K) = n + m
               /\ \A i \in 1 .. n + m : K[i] = IF i <= n THEN r[i] ELSE s[i - n]
  <2>1. /\ r \o s \in Seq(Part) /\ Len(r \o s) = n + m
        /\ \A i \in 1 .. n + m : (r \o s)[i] = IF i <= n THEN r[i] ELSE s[i - n]
    <3>1. PICK f \in Seq(Part), g \in Seq(Part) : f = r /\ g = s /\ n = Len(f) /\ m = Len(g)
      BY <1>1
    <3>2. /\ f \o g \in Seq(Part) /\ Len(f \o g) = n + m
          /\ \A i \in 1 .. n + m : (f \o g)[i] = IF i <= n THEN f[i] ELSE g[i - n]
      BY <3>1, JoinedIs
    <3> QED
      BY <3>1, <3>2
  <2> QED
    BY <2>1
<1>3. PICK L : /\ L = r \o t /\ L \in Seq(Part) /\ Len(L) = n + m
               /\ \A i \in 1 .. n + m : L[i] = IF i <= n THEN r[i] ELSE t[i - n]
  <2>1. /\ r \o t \in Seq(Part) /\ Len(r \o t) = n + m
        /\ \A i \in 1 .. n + m : (r \o t)[i] = IF i <= n THEN r[i] ELSE t[i - n]
    BY <1>1, JoinedIs
  <2> QED
    BY <2>1
<1>4. n + e \in n + 1 .. n + m /\ (n + e) - n = e /\ ~(n + e <= n)
  BY <1>1
<1>5. K[n + e] = s[e] /\ L[n + e] = t[e]
  BY <1>2, <1>3, <1>4
<1>6. Grown(K, L, n + e, more)
  <2>1. ASSUME NEW i \in 1 .. n + m
        PROVE  L[i].kind = K[i].kind /\ (i # n + e => L[i].content = K[i].content)
    <3>1. CASE i <= n
      BY <1>2, <1>3, <3>1
    <3>2. CASE ~(i <= n)
      <4>1. i - n \in 1 .. m /\ (i # n + e => i - n # e)
        BY <1>1, <3>2
      <4>2. K[i] = s[i - n] /\ L[i] = t[i - n]
        BY <1>2, <1>3, <3>2
      <4>3. \A j \in 1 .. m : t[j].kind = s[j].kind /\ (j # e => t[j].content = s[j].content)
        BY <1>1 DEF Grown
      <4> QED
        BY <4>1, <4>2, <4>3
    <3> QED
      BY <3>1, <3>2
  <2>2. t[e].content = s[e].content \o more
    BY DEF Grown
  <2> QED
    BY <1>2, <1>3, <1>5, <2>1, <2>2 DEF Grown
<1>7. ASSUME \A i \in e + 1 .. Len(s) : ~Html(s[i]), NEW i \in n + e + 1 .. n + m
      PROVE  ~Html(K[i])
  <2>1. i \in 1 .. n + m /\ ~(i <= n) /\ i - n \in e + 1 .. m
    BY <1>1
  <2>2. K[i] = s[i - n]
    BY <1>2, <2>1
  <2> QED
    BY <1>1, <1>7, <2>1, <2>2
<1> QED
  BY <1>1, <1>2, <1>3, <1>5, <1>6, <1>7 DEF Parts

\* The last Html block has grown.
LastHtmlGrows(s, t, more) ==
    \E e \in 1 .. Len(s) :
       Grown(s, t, e, more) /\ Html(s[e]) /\ \A i \in e + 1 .. Len(s) : ~Html(s[i])

\* It is the last of the turn.
LEMMA LastHtmlJoins ==
    ASSUME NEW r \in Parts, NEW s \in Parts, NEW t \in Parts, NEW e \in 1 .. Len(s), NEW more,
           Grown(s, t, e, more), Html(s[e]), \A i \in e + 1 .. Len(s) : ~Html(s[i])
    PROVE  LastHtmlGrows(r \o s, r \o t, more)
<1>1. PICK f : f = Len(r) + e
  OBVIOUS
<1>2. /\ f \in 1 .. Len(r \o s) /\ (r \o s)[f] = s[e] /\ Grown(r \o s, r \o t, f, more)
      /\ \A i \in f + 1 .. Len(r \o s) : ~Html((r \o s)[i])
  BY <1>1, GrownJoins
<1> QED
  BY <1>2 DEF LastHtmlGrows

\* The text of the last canvas and of its block grow.
LEMMA GrownInStep ==
    ASSUME NEW p \in Apps, NEW q \in Apps, NEW from \in Nat, NEW K \in Parts, NEW L \in Parts,
           NEW e \in 1 .. Len(K), NEW more, Grown(K, L, e, more), Html(K[e]),
           \A i \in e + 1 .. Len(K) : ~Html(K[i]), NEW top \in Nat, top = p.next_id - 1,
           Beyond(p, q, {top}), q.next_id = p.next_id,
           \A what : Matches(p, top, what) => Matches(q, top, what \o more),
           InStep(p, from, K)
    PROVE  InStep(q, from, L)
<1>1. K \in Seq(Part) /\ p.next_id \in Nat /\ Count(K) \in Nat
  BY CountIs DEF Parts, Apps
<1>2. /\ Answers!Ordinal(K, e) + 1 = Count(K)
      /\ \A i \in Answers!HtmlPlaces(K) :
            i # e => Answers!Ordinal(K, i) < Answers!Ordinal(K, e)
  BY <1>1, LastOrdinal
<1>3. e \in Answers!HtmlPlaces(K)
  BY <1>1 DEF Answers!HtmlPlaces, Html
<1>4. \A i \in Answers!HtmlPlaces(K) : Answers!Ordinal(K, i) \in Nat /\ i \in 1 .. Len(K)
  <2>1. \A i \in Answers!HtmlPlaces(K) : Answers!Ordinal(K, i) \in Nat
    BY <1>1, CountIs
  <2>2. \A i \in Answers!HtmlPlaces(K) : i \in 1 .. Len(K)
    BY <1>1 DEF Answers!HtmlPlaces
  <2> QED
    BY <2>1, <2>2
<1>5. ASSUME from + Count(K) = p.next_id, NEW i \in Answers!HtmlPlaces(K)
      PROVE  IF from + Answers!Ordinal(K, i) = top
             THEN Matches(p, top, K[i].content) => Matches(q, top, L[i].content)
             ELSE L[i].content = K[i].content
  <2>1. i # e => L[i].content = K[i].content /\ from + Answers!Ordinal(K, i) # top
    BY <1>1, <1>2, <1>3, <1>4, <1>5 DEF Grown
  <2>2. i = e => L[i].content = K[i].content \o more /\ from + Answers!Ordinal(K, i) = top
    BY <1>1, <1>2, <1>3, <1>4, <1>5 DEF Grown
  <2> QED
    BY <2>1, <2>2
<1>6. Len(K) = Len(L) /\ \A i \in 1 .. Len(K) : K[i].kind = L[i].kind
  BY DEF Grown
<1>7. PICK id : id = top
  OBVIOUS
<1>8. Beyond(p, q, {id})
  BY <1>7
<1>9. from + Count(K) = p.next_id =>
         \A i \in Answers!HtmlPlaces(K) :
            IF from + Answers!Ordinal(K, i) = id
            THEN Matches(p, id, K[i].content) => Matches(q, id, L[i].content)
            ELSE L[i].content = K[i].content
  BY <1>5, <1>7
<1> HIDE <1>5, <1>7
<1> QED
  BY <1>6, <1>8, <1>9, StaysInStep

\* A text grows.
LEMMA TextInStep ==
    ASSUME NEW p \in Apps, NEW q \in Apps, NEW from \in Nat, NEW K \in Parts, NEW L \in Parts,
           NEW e, NEW more, Grown(K, L, e, more), ~Html(K[e]),
           Beyond(p, q, {}), q.next_id = p.next_id, InStep(p, from, K)
    PROVE  InStep(q, from, L)
<1>1. PICK id : id = p.next_id
  OBVIOUS
<1>2. Beyond(p, q, {id})
  BY DEF Beyond
<1>3. ASSUME from + Count(K) = p.next_id, NEW i \in Answers!HtmlPlaces(K)
      PROVE  L[i].content = K[i].content /\ from + Answers!Ordinal(K, i) # id
  <2>1. i \in 1 .. Len(K) /\ i # e
    BY DEF Answers!HtmlPlaces, Html, Parts
  <2>2. /\ Answers!Ordinal(K, i) \in Nat /\ Count(K) \in Nat
        /\ Answers!Ordinal(K, i) < Count(K)
    BY CountIs DEF Parts
  <2> QED
    BY <1>1, <1>3, <2>1, <2>2 DEF Grown
<1>4. Len(K) = Len(L) /\ \A i \in 1 .. Len(K) : K[i].kind = L[i].kind
  BY DEF Grown
<1> QED
  BY <1>2, <1>3, <1>4, StaysInStep

\* One that is kept grows.
LEMMA LongerGrown ==
    ASSUME NEW s \in Parts, NEW e \in 1 .. Len(s), NEW more \in Content
    PROVE  Longer(s, e, more) \in Parts /\ Grown(s, Longer(s, e, more), e, more)
<1>1. PICK m \in Nat : m = Len(s) /\ s \in [1 .. m -> Part]
  BY DEF Parts
<1>2. PICK y \in Part : y = s[e]
  BY <1>1
<1>3. PICK x : x = [y EXCEPT !.content = @ \o more]
  OBVIOUS
<1>4. x.kind = y.kind /\ x.content = y.content \o more
  BY <1>3 DEF Part
<1>5. PICK t \in Parts : /\ t = Longer(s, e, more) /\ Len(t) = m
                         /\ \A i \in 1 .. m : t[i].kind = s[i].kind
  BY <1>1, Extended
<1>6. t = [s EXCEPT ![e] = x]
  BY <1>2, <1>3, <1>5 DEF Longer
<1>7. t[e] = x /\ \A i \in 1 .. m : i # e => t[i] = s[i]
  BY <1>1, <1>6
<1> QED
  BY <1>1, <1>2, <1>4, <1>5, <1>7 DEF Grown

\* One that will be kept last grows.
LastGrows(s, x, y, more) ==
    /\ Grown(Append(s, x), Append(s, y), Len(s) + 1, more)
    /\ Len(Append(s, x)) = Len(s) + 1 /\ Len(Append(s, y)) = Len(s) + 1 /\ Len(s) \in Nat

\* And so do they all.
LEMMA LastGrown ==
    ASSUME NEW s \in Parts, NEW x \in Part, NEW y \in Part, NEW more \in Content,
           y.kind = x.kind, y.content = x.content \o more
    PROVE  LastGrows(s, x, y, more)
<1>1. PICK m \in Nat : m = Len(s) /\ s \in Seq(Part)
  BY DEF Parts
<1>2. /\ Len(Append(s, x)) = m + 1 /\ Append(s, x) \in Seq(Part)
      /\ Append(s, x)[m + 1] = x /\ \A i \in 1 .. m : Append(s, x)[i] = s[i]
  BY <1>1
<1>3. /\ Len(Append(s, y)) = m + 1 /\ Append(s, y) \in Seq(Part)
      /\ Append(s, y)[m + 1] = y /\ \A i \in 1 .. m : Append(s, y)[i] = s[i]
  BY <1>1
<1>4. \A i \in 1 .. m + 1 : i = m + 1 \/ i \in 1 .. m
  OBVIOUS
<1>5. Grown(Append(s, x), Append(s, y), m + 1, more)
  BY <1>2, <1>3, <1>4 DEF Grown
<1> QED
  BY <1>1, <1>2, <1>3, <1>5 DEF LastGrows

\* The open Html block has grown, or Anthropic's new one has gone into the last.
HtmlGrows(a, b, more) ==
    \/ Grown(ToKeep(a), ToKeep(b), Place(a), more) /\ Place(b) = Place(a)
    \/ /\ a.by = "anthropic" /\ b.by = "anthropic" /\ Awaited(a) /\ Len(a.kept) \in 1 .. Len(a.kept)
       /\ Html(a.kept[Len(a.kept)]) /\ Grown(a.kept, ToKeep(b), Len(a.kept), more)

\* Which is so for every provider.
LEMMA HtmlKept ==
    ASSUME NEW a \in Accs, Sound(a), a.open.kind = "html", NEW chunk \in Part,
           Html(chunk), a.by = "anthropic" => chunk.content # << >>,
           NEW from, Sketches(a, from)
    PROVE  /\ HtmlGrows(a, Delivered(a, chunk), chunk.content)
           /\ a.by = "anthropic" => ~Awaited(Delivered(a, chunk))
<1>1. a.open # Answers!None /\ a.kept \in Parts /\ ToKeep(a) \in Parts
  BY KeepsType
<1>2. PICK more \in Content, c \in Content : more = chunk.content /\ c = a.open.content
  BY <1>1, OpenIs DEF Part
<1>3. PICK b : b = Delivered(a, chunk)
  OBVIOUS
<1>4. /\ b.by = a.by /\ b.open.kind = "html" /\ b.open.index = a.open.index
      /\ b.open.content = c \o more /\ b.kept = Answers!KeptOnDelta(a, more)
  BY <1>1, <1>2, <1>3, DeliveredIs
<1>5. PICK x \in Part : x = Answers!Block("html", c) /\ x.kind = "html" /\ x.content = c
  BY BlockType DEF Answers!Kinds, Answers!Streamed
<1>6. PICK y \in Part : y = Answers!Block("html", c \o more) /\ y.kind = "html"
                        /\ y.content = c \o more
  <2>1. PICK d \in Content : d = c \o more
    <3>1. c \o more \in Content
      BY DEF Content
    <3> QED
      BY <3>1
  <2>2. /\ Answers!Block("html", d) \in Part /\ Answers!Block("html", d).kind = "html"
        /\ Answers!Block("html", d).content = d
    BY BlockType DEF Answers!Kinds, Answers!Streamed
  <2> QED
    BY <2>1, <2>2
<1>10. PICK k \in Parts, n \in Nat :
         /\ k = a.kept /\ n = Len(k)
         /\ Grown(Append(k, x), Append(k, y), n + 1, more)
         /\ Len(Append(k, x)) = n + 1 /\ Len(Append(k, y)) = n + 1
  <2>1. PICK k \in Parts : k = a.kept
    BY <1>1
  <2>2. y.kind = x.kind /\ y.content = x.content \o more
    BY <1>5, <1>6
  <2>3. LastGrows(k, x, y, more)
    BY <2>2, LastGrown
  <2> QED
    BY <2>1, <2>3 DEF LastGrows
<1>7. CASE a.by \in {"gemini", "local"}
  <2>1. b.kept = a.kept
    BY <1>4, <1>7 DEF Answers!KeptOnDelta
  <2>2. ToKeep(a) = Append(a.kept, x) /\ ToKeep(b) = Append(a.kept, y)
    BY <1>2, <1>4, <1>5, <1>6, <1>7, <2>1 DEF ToKeep, Awaited
  <2>3. /\ Grown(Append(a.kept, x), Append(a.kept, y), Len(a.kept) + 1, more)
        /\ Len(Append(a.kept, x)) = Len(a.kept) + 1 /\ Len(Append(a.kept, y)) = Len(a.kept) + 1
    BY <1>10
  <2>4. Place(a) = Len(a.kept) + 1 /\ Place(b) = Len(a.kept) + 1
    BY <1>4, <1>7, <2>2, <2>3 DEF Place
  <2> QED
    BY <1>2, <1>3, <1>7, <2>2, <2>3, <2>4 DEF HtmlGrows
<1>8. CASE a.by = "openai"
  <2>1. ToKeep(a) = a.kept /\ ToKeep(b) = b.kept
    BY <1>4, <1>8 DEF ToKeep, Awaited
  <2>2. Place(a) = a.open.index + 1 /\ Place(b) = Place(a) /\ Place(a) \in 1 .. Len(a.kept)
    BY <1>4, <1>8, <2>1 DEF Place, Sketches
  <2>3. b.kept = Longer(a.kept, Place(a), more)
    BY <1>4, <1>8, <2>2 DEF Answers!KeptOnDelta, Longer
  <2> QED
    BY <1>1, <1>2, <1>3, <1>8, <2>1, <2>2, <2>3, LongerGrown DEF HtmlGrows
<1>9. CASE a.by = "anthropic"
  <2>1. ~Awaited(b) /\ ToKeep(b) = b.kept /\ Place(b) = Len(b.kept)
    <3>1. c \o more # << >>
      BY <1>2, <1>9 DEF Content
    <3> QED
      BY <1>4, <1>9, <3>1 DEF Awaited, ToKeep, Place
  <2>2. PICK m \in Nat : m = Len(a.kept) /\ (a.kept # << >> => m \in 1 .. m)
                         /\ (m \in 1 .. m => a.kept # << >>) /\ Answers!Last(a.kept) = a.kept[m]
    BY <1>1 DEF Parts, Answers!Last
  <2>3. b.kept = IF a.kept # << >> /\ a.kept[m].kind = "html" THEN Longer(a.kept, m, more)
                 ELSE Append(a.kept, Answers!Block("html", more))
    BY <1>4, <1>9, <2>2 DEF Answers!KeptOnDelta, Longer, Answers!Streamed
  <2>4. CASE Awaited(a)
    <3>1. c = << >> /\ c \o more = more /\ ToKeep(a) = Append(a.kept, x)
      <4>1. c = << >> /\ ToKeep(a) = Append(a.kept, x)
        BY <1>2, <1>5, <1>9, <2>4 DEF Awaited, ToKeep
      <4>2. << >> \o more = more
        BY DEF Content
      <4> QED
        BY <4>1, <4>2
    <3>2. CASE a.kept # << >> /\ a.kept[m].kind = "html"
      <4>1. b.kept = Longer(a.kept, m, more) /\ m \in 1 .. Len(a.kept)
        BY <2>2, <2>3, <3>2
      <4>2. Grown(a.kept, b.kept, m, more)
        BY <1>1, <4>1, LongerGrown
      <4> QED
        BY <1>2, <1>3, <1>4, <1>9, <2>1, <2>2, <2>4, <3>2, <4>1, <4>2 DEF HtmlGrows, Html
    <3>3. CASE ~(a.kept # << >> /\ a.kept[m].kind = "html")
      <4>1. b.kept = Append(a.kept, y)
        BY <1>6, <2>3, <3>1, <3>3
      <4>2. /\ Grown(Append(a.kept, x), Append(a.kept, y), m + 1, more)
            /\ Len(Append(a.kept, x)) = m + 1 /\ Len(Append(a.kept, y)) = m + 1
        BY <1>10, <2>2
      <4>3. Place(a) = m + 1 /\ Place(b) = m + 1
        BY <1>4, <1>9, <2>1, <3>1, <4>1, <4>2 DEF Place
      <4> QED
        BY <1>2, <1>3, <1>9, <2>1, <3>1, <4>1, <4>2, <4>3 DEF HtmlGrows
    <3> QED
      BY <3>2, <3>3
  <2>5. CASE ~Awaited(a)
    <3>1. ToKeep(a) = a.kept /\ Place(a) = m /\ m \in 1 .. m /\ a.kept[m].kind = "html"
      BY <1>9, <2>2, <2>5 DEF ToKeep, Place, Sketches, Html
    <3>2. a.kept # << >>
      BY <2>2, <3>1
    <3>3. b.kept = Longer(a.kept, m, more)
      BY <2>3, <3>1, <3>2
    <3>4. Grown(a.kept, b.kept, m, more)
      BY <1>1, <2>2, <3>1, <3>3, LongerGrown
    <3>5. Len(b.kept) = m
      BY <2>2, <3>4 DEF Grown
    <3> QED
      BY <1>2, <1>3, <1>9, <2>1, <3>1, <3>4, <3>5 DEF HtmlGrows
  <2> QED
    BY <2>4, <2>5
<1> QED
  BY <1>7, <1>8, <1>9 DEF Accs, Answers!Providers

\* What is kept of a chunk that is no Html.
TextKept(a, b, more) ==
    \/ ToKeep(b) = ToKeep(a)
    \/ \E e \in 1 .. Len(ToKeep(a)) : Grown(ToKeep(a), ToKeep(b), e, more) /\ ~Html(ToKeep(a)[e])
    \/ \E x \in Part : ~Html(x) /\ ToKeep(b) = Append(ToKeep(a), x)

\* Is so for every provider.
LEMMA TextIsKept ==
    ASSUME NEW a \in Accs, Sound(a), a.open # Answers!None, NEW chunk \in Part,
           a.open.kind # "html", Owns(a)
    PROVE  TextKept(a, Delivered(a, chunk), chunk.content)
<1>1. a.kept \in Parts /\ a.open.kind \in Answers!Kinds /\ a.open.index \in Nat
  BY KeepsType, OpenIs
<1>2. PICK more \in Content : more = chunk.content
  BY DEF Part
<1>3. PICK b : b = Delivered(a, chunk)
  OBVIOUS
<1>4. /\ b.by = a.by /\ b.open.kind = a.open.kind
      /\ b.kept = Answers!KeptOnDelta(a, more)
  BY <1>1, <1>2, <1>3, DeliveredIs
<1>5. ToKeep(a) = a.kept /\ ToKeep(b) = b.kept
  BY <1>4 DEF ToKeep, Awaited
<1>6. ASSUME NEW e \in 1 .. Len(a.kept), a.kept[e].kind = a.open.kind,
             b.kept = Longer(a.kept, e, more)
      PROVE  TextKept(a, b, more)
  <2>1. Grown(a.kept, b.kept, e, more)
    BY <1>1, <1>6, LongerGrown
  <2> QED
    BY <1>5, <1>6, <2>1 DEF TextKept, Html
<1>7. CASE a.by = "openai"
  <2>1. a.open.index + 1 \in 1 .. Len(a.kept)
    BY <1>1, <1>7 DEF Sound, Agrees, Used, Accs
  <2>2. b.kept = Longer(a.kept, a.open.index + 1, more)
    BY <1>4, <1>7 DEF Answers!KeptOnDelta, Longer
  <2> QED
    BY <1>2, <1>3, <1>6, <1>7, <2>1, <2>2 DEF Owns
<1>8. CASE a.by # "openai" /\ (a.by # "anthropic" \/ a.open.kind \notin Answers!Streamed)
  BY <1>2, <1>3, <1>4, <1>5, <1>8 DEF Answers!KeptOnDelta, TextKept
<1>9. CASE a.by = "anthropic" /\ a.open.kind \in Answers!Streamed
  <2>1. PICK n \in Nat : n = Len(a.kept) /\ (a.kept # << >> => n \in 1 .. n)
                         /\ Answers!Last(a.kept) = a.kept[n]
    BY <1>1 DEF Parts, Answers!Last
  <2>2. b.kept = IF a.kept # << >> /\ a.kept[n].kind = a.open.kind
                 THEN Longer(a.kept, n, more)
                 ELSE Append(a.kept, Answers!Block(a.open.kind, more))
    BY <1>4, <1>9, <2>1 DEF Answers!KeptOnDelta, Longer
  <2>3. PICK x \in Part : x = Answers!Block(a.open.kind, more) /\ ~Html(x)
    BY <1>1, BlockType DEF Html
  <2> QED
    BY <1>2, <1>3, <1>5, <1>6, <2>1, <2>2, <2>3 DEF TextKept
<1> QED
  BY <1>7, <1>8, <1>9

\* A chunk for the open block.
LEMMA DeliveredTracks ==
    ASSUME NEW a \in Accs, Sound(a), a.open # Answers!None, NEW chunk \in Part,
           chunk.kind = a.open.kind,
           Html(chunk) /\ a.by = "anthropic" => chunk.content # << >>,
           NEW from, NEW blocks, NEW past, Basis(from, blocks, past),
           Tracks(a, from, blocks, past)
    PROVE  /\ Tracks(Delivered(a, chunk), from, blocks, past)
           /\ a.by = "anthropic" => ~Awaited(Delivered(a, chunk))
<1>1. PICK b \in Accs : b = Delivered(a, chunk)
  BY DeltaSound
<1>2. /\ b.by = a.by /\ b.open.kind = a.open.kind /\ b.open.index = a.open.index
      /\ b.open # Answers!None
      /\ b.kept = Answers!KeptOnDelta(a, chunk.content)
      /\ b.told.app = Answers!Apply(a.told.app, Event("delta", a.open.index, chunk))
  BY <1>1, DeliveredIs
<1>3. PICK p \in Apps, q \in Apps : p = a.told.app /\ q = b.told.app
  BY <1>1, ToldApp
<1>4. PICK s \in Parts, t \in Parts, r \in Parts : s = ToKeep(a) /\ t = ToKeep(b) /\ r = blocks
  BY <1>1, KeepsType DEF Basis
<1>5. PICK more \in Content : more = chunk.content
  BY DEF Part
<1>6. /\ Counted(p) /\ Agree(p, past) /\ InStep(p, from, r \o s) /\ from \in Nat
      /\ past \in Seq(Saved) /\ Sketches(a, from) /\ Owns(a) /\ Count(past) <= from
  BY <1>3, <1>4 DEF Tracks, Basis
<1>7. Owns(b)
  <2> SUFFICES ASSUME a.by = "openai" PROVE b.kept[a.open.index + 1].kind = a.open.kind
    BY <1>2 DEF Owns
  <2>1. a.open.index + 1 \in 1 .. Len(a.kept)
    BY OpenIs DEF Sound, Agrees, Used, Accs
  <2>2. b.kept[a.open.index + 1].kind = a.kept[a.open.index + 1].kind
    BY <1>2, <1>5, <2>1, KeptOnDeltaIs
  <2> QED
    BY <1>6, <2>2 DEF Owns
<1>8. q = Answers!Apply(p, Event("delta", a.open.index, chunk))
  BY <1>2, <1>3
<1>9. CASE a.open.kind = "html"
  <2>1. q = Answers!HtmlBlockDelta(p, a.open.index, more)
    BY <1>5, <1>8, <1>9 DEF Answers!Apply, Event
  <2>2. HtmlGrows(a, b, more) /\ (a.by = "anthropic" => ~Awaited(b))
    BY <1>1, <1>5, <1>6, <1>9, HtmlKept DEF Html
  <2>3. /\ from < p.next_id /\ a.open.index \in DOMAIN p.ids
        /\ p.ids[a.open.index] = p.next_id - 1 /\ Sketched(p, p.next_id - 1)
        /\ Place(a) \in 1 .. Len(s) /\ Html(s[Place(a)])
        /\ \A i \in Place(a) + 1 .. Len(s) : ~Html(s[i])
    BY <1>3, <1>4, <1>6, <1>9 DEF Sketches
  <2>4. PICK id \in Nat : id = p.next_id - 1 /\ from <= id /\ id < p.next_id
    <3>1. PICK m \in Nat, n \in Nat : m = p.next_id /\ n = from /\ n < m
      BY <1>6, <2>3 DEF Apps
    <3>2. m - 1 \in Nat /\ n <= m - 1 /\ m - 1 < m
      BY <3>1
    <3> QED
      BY <3>1, <3>2
  <2>5. /\ Beyond(p, q, {id}) /\ q.next_id = p.next_id /\ q.ids = p.ids /\ Sketched(q, id)
        /\ \A what : Matches(p, id, what) => Matches(q, id, what \o more)
    BY <2>1, <2>3, <2>4, DeltaBeyond
  <2>6. Counted(q)
    <3>1. p.next_id <= q.next_id /\ \A k \in {id} : k < q.next_id
      BY <2>4, <2>5 DEF Apps
    <3> QED
      BY <1>6, <2>5, <3>1, StillCounted
  <2>7. Agree(q, past)
    <3>1. \A k \in {id} : k \in Nat /\ Count(past) <= k
      BY <1>6, <2>4, CountIs
    <3> QED
      BY <1>6, <2>5, <3>1, StillAgree
  <2>8. InStep(q, from, r \o t) /\ Sketches(b, from)
    <3>1. CASE Grown(s, t, Place(a), more) /\ Place(b) = Place(a)
      <4>1. PICK e \in 1 .. Len(s) : e = Place(a)
        BY <2>3
      <4>2. PICK K \in Parts, L \in Parts, f \in Nat :
               /\ K = r \o s /\ L = r \o t /\ Grown(K, L, f, more) /\ f \in 1 .. Len(K)
               /\ Html(K[f]) /\ \A i \in f + 1 .. Len(K) : ~Html(K[i])
        <5>1. Grown(s, t, e, more) /\ Html(s[e]) /\ \A i \in e + 1 .. Len(s) : ~Html(s[i])
          BY <2>3, <3>1, <4>1
        <5>2. PICK K \in Parts : K = r \o s
          BY JoinAppends
        <5>3. PICK L \in Parts : L = r \o t
          BY JoinAppends
        <5>4. LastHtmlGrows(K, L, more)
          BY <5>1, <5>2, <5>3, LastHtmlJoins
        <5>5. PICK f \in Nat : /\ f \in 1 .. Len(K) /\ Grown(K, L, f, more) /\ Html(K[f])
                              /\ \A i \in f + 1 .. Len(K) : ~Html(K[i])
          BY <5>4 DEF LastHtmlGrows
        <5> QED
          BY <5>2, <5>3, <5>5
      <4>3. InStep(q, from, L)
        <5>1. PICK top \in Nat : top = id /\ top = p.next_id - 1
          BY <2>4
        <5>2. Beyond(p, q, {top}) /\ q.next_id = p.next_id
          BY <2>5, <5>1
        <5>3. \A what : Matches(p, top, what) => Matches(q, top, what \o more)
          BY <2>5, <5>1
        <5>4. InStep(p, from, K) /\ from \in Nat
          BY <1>6, <4>2
        <5> HIDE <2>4, <2>5
        <5> QED
          BY <4>2, <5>1, <5>2, <5>3, <5>4, GrownInStep
      <4>4. Len(t) = Len(s) /\ \A i \in 1 .. Len(s) : Html(t[i]) <=> Html(s[i])
        BY <3>1 DEF Grown, Html
      <4>5. e \in 1 .. Len(t) /\ Html(t[e]) /\ \A i \in e + 1 .. Len(t) : ~Html(t[i])
        BY <2>3, <4>1, <4>4
      <4> QED
        BY <1>2, <1>3, <1>4, <2>3, <2>4, <2>5, <3>1, <4>1, <4>2, <4>3, <4>5 DEF Sketches
    <3>2. CASE /\ a.by = "anthropic" /\ Awaited(a) /\ Len(a.kept) \in 1 .. Len(a.kept)
               /\ Html(a.kept[Len(a.kept)]) /\ Grown(a.kept, t, Len(a.kept), more)
      <4>1. PICK k \in Parts, n \in Nat : k = a.kept /\ n = Len(k)
        BY <3>2, KeepsType
      <4>2. PICK x \in Part : s = Append(k, x) /\ Html(x)
        BY <1>4, <3>2, <4>1, OpenIs, BlockType DEF ToKeep, Html, Answers!Kinds, Answers!Streamed
      <4>3. PICK K \in Parts, L \in Parts, M \in Parts :
               K = r \o s /\ L = r \o t /\ M = r \o k /\ K = Append(M, x)
        <5>1. r \o Append(k, x) = Append(r \o k, x) /\ r \o k \in Parts
          BY JoinAppends
        <5>2. PICK M \in Parts : M = r \o k
          BY <5>1
        <5>3. r \o s \in Parts /\ r \o t \in Parts
          BY DEF Parts
        <5> QED
          BY <4>2, <5>1, <5>2, <5>3
      <4>4. Count(K) = Count(M) + 1 /\ Count(M) \in Nat
        BY <4>2, <4>3, CountAppends, CountIs DEF Parts
      <4>5. Count(L) = Count(M)
        <5>1. Grown(M, L, Len(r) + n, more)
          BY <3>2, <4>1, <4>3, GrownJoins
        <5>2. Len(M) = Len(L) /\ \A i \in 1 .. Len(M) : Html(M[i]) <=> Html(L[i])
          BY <5>1 DEF Grown, Html
        <5> QED
          BY <5>2, CountSame DEF Parts
      <4>6. InStep(q, from, L)
        <5>1. Count(L) < Count(K)
          BY <4>4, <4>5
        <5> QED
          BY <1>6, <2>5, <4>3, <5>1, BehindInStep
      <4>7. Place(b) = n /\ n \in 1 .. Len(t) /\ Len(t) = n /\ Html(t[n])
        <5>1. Len(t) = n /\ n \in 1 .. n /\ t[n].kind = k[n].kind
          BY <3>2, <4>1 DEF Grown
        <5> QED
          BY <1>2, <1>4, <3>2, <4>1, <5>1 DEF Place, Html
      <4>8. \A i \in n + 1 .. n : FALSE
        BY <4>1
      <4> QED
        BY <1>2, <1>3, <1>4, <2>3, <2>4, <2>5, <4>3, <4>6, <4>7, <4>8 DEF Sketches
    <3> QED
      BY <1>4, <2>2, <3>1, <3>2 DEF HtmlGrows
  <2> QED
    BY <1>1, <1>3, <1>4, <1>7, <2>2, <2>6, <2>7, <2>8 DEF Tracks
<1>10. CASE a.open.kind # "html"
  <2>1. Beyond(p, q, {}) /\ q.next_id = p.next_id
    <3>1. q = p \/ q = [p EXCEPT !.live_text = @ \o more]
      BY <1>5, <1>8, <1>10 DEF Answers!Apply, Event
    <3>2. q.entries = p.entries /\ q.renderers = p.renderers /\ q.next_id = p.next_id
      BY <3>1 DEF Apps
    <3> QED
      BY <3>2 DEF Beyond, SameCanvas
  <2>2. Counted(q)
    <3>1. p.next_id <= q.next_id /\ \A k \in {} : k < q.next_id
      BY <2>1 DEF Apps
    <3> QED
      BY <1>6, <2>1, <3>1, StillCounted
  <2>3. Agree(q, past)
    BY <1>6, <2>1, StillAgree
  <2>4. TextKept(a, b, more)
    BY <1>1, <1>5, <1>6, <1>10, TextIsKept
  <2>5. PICK K \in Parts : K = r \o s
    BY JoinAppends DEF Parts
  <2>6. ASSUME NEW L \in Parts, NEW e, Grown(K, L, e, more), ~Html(K[e]) PROVE InStep(q, from, L)
    BY <1>6, <2>1, <2>5, <2>6, TextInStep
  <2>7. InStep(q, from, K)
    <3>1. /\ from + Count(K) <= q.next_id
          /\ from + Count(K) = q.next_id => AllMatch(q, from, K)
      <4>1. /\ from + Count(K) <= p.next_id
            /\ from + Count(K) = p.next_id => AllMatch(p, from, K)
        BY <1>6, <2>5 DEF InStep
      <4>2. ASSUME NEW k, NEW what, Matches(p, k, what) PROVE Matches(q, k, what)
        BY <2>1, <4>2, StillMatches
      <4>3. AllMatch(p, from, K) => AllMatch(q, from, K)
        BY <4>2 DEF AllMatch
      <4> QED
        BY <2>1, <4>1, <4>3
    <3> QED
      BY <3>1 DEF InStep
  <2>8. InStep(q, from, r \o t)
    <3>1. CASE t = s
      BY <2>5, <2>7, <3>1
    <3>2. ASSUME NEW e \in 1 .. Len(s), Grown(s, t, e, more), ~Html(s[e])
          PROVE  InStep(q, from, r \o t)
      <4>1. PICK L \in Parts, f \in Nat :
               L = r \o t /\ Grown(K, L, f, more) /\ K[f] = s[e]
        <5>1. /\ r \o t \in Parts /\ (r \o s)[Len(r) + e] = s[e]
              /\ Grown(r \o s, r \o t, Len(r) + e, more)
          BY <3>2, GrownJoins
        <5>2. r \in Parts /\ s \in Parts /\ Len(r) \in Nat /\ e \in Nat
          BY <2>5, <3>2 DEF Parts
        <5>3. Len(r) + e \in Nat
          BY <5>2
        <5> QED
          BY <2>5, <5>1, <5>3
      <4> QED
        BY <2>6, <3>2, <4>1
    <3>3. ASSUME NEW x \in Part, ~Html(x), t = Append(s, x) PROVE InStep(q, from, r \o t)
      <4>1. r \o t = Append(K, x)
        BY <2>5, <3>3, JoinAppends
      <4> QED
        BY <1>6, <2>7, <3>3, <4>1, AddedInStep
    <3> QED
      BY <1>4, <2>4, <3>1, <3>2, <3>3 DEF TextKept
  <2>9. Sketches(b, from) /\ ~Awaited(b)
    BY <1>2, <1>10 DEF Sketches, Awaited
  <2> QED
    BY <1>1, <1>3, <1>4, <1>7, <2>2, <2>3, <2>8, <2>9 DEF Tracks
<1> QED
  BY <1>9, <1>10

\* A block that is no text says nothing to the log.
LEMMA Unread ==
    ASSUME NEW c \in Audience, NEW e \in Events, e.block.kind \notin Answers!Streamed
    PROVE  Answers!Hear(c, e).app = c.app
<1>1. e.block.kind # "text" /\ e.block.kind # "html"
  BY DEF Answers!Streamed
<1> QED
  BY <1>1, HearApp, Zenon DEF Answers!Apply

\* Events of such a block leave all but the listeners as it is.
LEMMA EmitUnread ==
    ASSUME NEW a \in Accs, NEW what \in {"start", "delta", "stop"}, NEW index \in Nat,
           NEW kind \in Answers!Kinds, kind \notin Answers!Streamed
    PROVE  \E t \in Audience :
              /\ Answers!Emit(a, what, index, Answers!Block(kind, << >>)) = [a EXCEPT !.told = t]
              /\ t.app = a.told.app
<1>1. PICK block \in Part : block = Answers!Block(kind, << >>) /\ block.kind = kind
  BY BlockType, EmptyContent
<1>2. PICK e \in Events : e = Event(what, index, block) /\ e.block = block
  <2>1. Event(what, index, block) \in Events
    BY EmitIs
  <2> QED
    BY <2>1 DEF Event
<1>3. a.told \in Audience
  BY DEF Accs
<1>4. PICK t \in Audience : t = Answers!Hear(a.told, e)
  BY <1>3, HearType
<1>5. t.app = a.told.app
  BY <1>1, <1>2, <1>3, <1>4, Unread
<1>6. Answers!Emit(a, what, index, block) = [a EXCEPT !.told = t]
  BY <1>2, <1>4 DEF Answers!Emit, Event
<1> QED
  BY <1>1, <1>5, <1>6

\* Only the listeners hear that a tool stops, and the log does not change.
Quiet(a, b) ==
    /\ b.by = a.by /\ b.open = a.open /\ b.kept = a.kept /\ b.told.app = a.told.app

\* Stopping OpenAI's tools is heard by the listeners only.
LEMMA StopToolsQuiet == ASSUME NEW a \in Accs PROVE Quiet(a, Answers!StopTools(a))
<1>1. PICK n \in Nat : n = Len(a.kept)
  BY DEF Accs, Parts
<1>2. PICK f \in [0 .. n -> Accs] :
         /\ f[0] = a /\ \A i \in 1 .. n : f[i] = StopNext(a, i, f[i - 1])
         /\ Answers!StopTools(a) = f[n]
  BY <1>1, StoppedIs
<1>3. ASSUME NEW k \in 1 .. n, NEW b \in Accs PROVE Quiet(b, StopNext(a, k, b))
  <2>1. CASE a.kept[k].kind # "tool"
    BY <2>1 DEF StopNext, Quiet
  <2>2. CASE a.kept[k].kind = "tool"
    <3>1. "tool" \in Answers!Kinds /\ "tool" \notin Answers!Streamed /\ k - 1 \in Nat
      BY DEF Answers!Kinds, Answers!Streamed
    <3>2. PICK t \in Audience :
             /\ Answers!Emit(b, "stop", k - 1, Answers!Block("tool", << >>)) = [b EXCEPT !.told = t]
             /\ t.app = b.told.app
      BY <3>1, EmitUnread
    <3>3. PICK c : c = [b EXCEPT !.told = t]
      BY Zenon
    <3>4. c.by = b.by /\ c.open = b.open /\ c.kept = b.kept /\ c.told = t
      BY <3>3 DEF Accs
    <3>5. StopNext(a, k, b) = c
      BY <2>2, <3>2, <3>3 DEF StopNext, Answers!StopTool
    <3> QED
      BY <3>2, <3>4, <3>5 DEF Quiet
  <2> QED
    BY <2>1, <2>2
<1> DEFINE S == {i \in 0 .. n : Quiet(a, f[i])}
<1>4. 0 \in S
  BY <1>2 DEF Quiet
<1>5. ASSUME NEW i \in 0 .. n - 1, i \in S PROVE i + 1 \in S
  <2>1. i + 1 \in 1 .. n /\ (i + 1) - 1 = i /\ i + 1 \in 0 .. n /\ i \in 0 .. n
    OBVIOUS
  <2>2. Quiet(f[i], f[i + 1]) /\ Quiet(a, f[i])
    BY <1>2, <1>3, <1>5, <2>1
  <2> QED
    BY <2>1, <2>2 DEF Quiet
<1> HIDE DEF S
<1>6. 0 .. n \subseteq S
  BY <1>4, <1>5, UpTo
<1> QED
  BY <1>2, <1>6 DEF S

-----------------------------------------------------------------------------
(* The steps of an accumulator.                                            *)

\* Nothing of Anthropic's is awaited between them.
Stands(a, from, blocks, past) ==
    Tracks(a, from, blocks, past) /\ (a.by = "anthropic" => ~Awaited(a))

\* A chunk is emitted.
LEMMA EmitChunkTracks ==
    ASSUME NEW a \in Accs, Sound(a), NEW chunk \in Part,
           a.by = "openai" => chunk.kind \in Answers!Streamed,
           Html(chunk) /\ a.by = "anthropic" => chunk.content # << >>,
           NEW from, NEW blocks, NEW past, Basis(from, blocks, past),
           Stands(a, from, blocks, past)
    PROVE  Stands(Answers!EmitChunk(a, chunk), from, blocks, past)
<1>1. PICK f \in Accs : /\ f = IF a.open.kind = chunk.kind THEN a ELSE Answers!Close(a)
                        /\ Sound(f) /\ f.by = a.by /\ Tracks(f, from, blocks, past)
                        /\ f.open # Answers!None => f.open.kind = chunk.kind
  BY CloseSound, CloseTracks DEF Same, Stands
<1>2. chunk.kind \in Answers!Kinds
  BY DEF Part
<1>3. PICK r \in Accs : /\ r = IF f.open = Answers!None THEN Answers!Open(f, chunk.kind) ELSE f
                        /\ Sound(r) /\ r.by = a.by /\ Tracks(r, from, blocks, past)
                        /\ r.open # Answers!None /\ r.open.kind = chunk.kind
  <2>1. CASE f.open = Answers!None
    <3>1. f.by = "openai" => chunk.kind \in Answers!Streamed
      BY <1>1
    <3>2. PICK b \in Accs : /\ b = Answers!Open(f, chunk.kind) /\ Sound(b) /\ b.by = f.by
                            /\ b.open # Answers!None /\ b.open.kind = chunk.kind
      BY <1>1, <1>2, <2>1, <3>1, OpenSound DEF Same
    <3>3. Tracks(b, from, blocks, past)
      BY <1>1, <1>2, <2>1, <3>1, <3>2, OpenTracks
    <3> QED
      BY <1>1, <2>1, <3>2, <3>3
  <2>2. CASE f.open # Answers!None
    BY <1>1, <2>2
  <2> QED
    BY <2>1, <2>2
<1>4. Answers!EmitChunk(a, chunk) = Delivered(r, chunk)
  BY <1>1, <1>3 DEF Answers!EmitChunk, Delivered
<1>5. Delivered(r, chunk).by = a.by
  BY <1>3, DeltaSound DEF Same
<1>6. /\ Tracks(Delivered(r, chunk), from, blocks, past)
      /\ r.by = "anthropic" => ~Awaited(Delivered(r, chunk))
  BY <1>3, DeliveredTracks
<1> QED
  BY <1>3, <1>4, <1>5, <1>6 DEF Stands

\* So is text that may be empty.
LEMMA EmitTextTracks ==
    ASSUME NEW a \in Accs, Sound(a), NEW kind \in Answers!Streamed, NEW more \in Content,
           NEW from, NEW blocks, NEW past, Basis(from, blocks, past),
           Stands(a, from, blocks, past)
    PROVE  Stands(Answers!EmitText(a, kind, more), from, blocks, past)
<1>1. CASE more = << >>
  BY <1>1 DEF Answers!EmitText
<1>2. CASE more # << >>
  <2>1. PICK chunk \in Part : /\ chunk = Answers!Block(kind, more) /\ chunk.kind = kind
                              /\ chunk.content = more
    BY BlockType DEF Answers!Kinds
  <2>2. Stands(Answers!EmitChunk(a, chunk), from, blocks, past)
    BY <1>2, <2>1, EmitChunkTracks
  <2> QED
    BY <1>2, <2>1, <2>2 DEF Answers!EmitText
<1> QED
  BY <1>1, <1>2

\* The parser and the upstream say nothing.
LEMMA QuietlyStands ==
    ASSUME NEW a, NEW b, Quiet(a, b), NEW from, NEW blocks, NEW past,
           Stands(a, from, blocks, past)
    PROVE  Stands(b, from, blocks, past)
  BY TracksQuietly DEF Stands, Quiet

\* They are such steps.
LEMMA ParsingQuiet ==
    ASSUME NEW a \in Accs, NEW inside, NEW held, NEW kind
    PROVE  Quiet(a, Parsing(a, inside, held)) /\ Quiet(a, Upstream(a, kind))
<1>1. PICK b : b = Parsing(a, inside, held)
  OBVIOUS
<1>2. PICK c : c = Upstream(a, kind)
  OBVIOUS
<1>3. /\ b.by = a.by /\ b.open = a.open /\ b.kept = a.kept /\ b.told = a.told
      /\ c.by = a.by /\ c.open = a.open /\ c.kept = a.kept /\ c.told = a.told
  BY <1>1, <1>2 DEF Accs, Parsing, Upstream
<1> QED
  BY <1>1, <1>2, <1>3 DEF Quiet

\* So they keep the step.
LEMMA ParsingStands ==
    ASSUME NEW a \in Accs, NEW inside, NEW held, NEW from, NEW blocks, NEW past,
           Stands(a, from, blocks, past)
    PROVE  Stands(Parsing(a, inside, held), from, blocks, past)
<1>1. PICK b : b = Parsing(a, inside, held) /\ Quiet(a, b)
  BY ParsingQuiet
<1> QED
  BY <1>1, QuietlyStands

\* A fragment of text is pushed.
LEMMA PushTracks ==
    ASSUME NEW a \in Accs, Sound(a), NEW lead \in Content, NEW tail \in Content,
           NEW fence \in BOOLEAN, NEW hold \in BOOLEAN,
           NEW f, f = [lead |-> lead, fence |-> fence, hold |-> hold, tail |-> tail],
           NEW from, NEW blocks, NEW past, Basis(from, blocks, past),
           Stands(a, from, blocks, past)
    PROVE  Stands(Answers!PushFragment(a, f), from, blocks, past)
<1>1. /\ a.inside \in Answers!Streamed /\ a.held \in Content
      /\ f.lead = lead /\ f.fence = fence /\ f.hold = hold /\ f.tail = tail
      /\ Answers!Other(a.inside) \in Answers!Streamed
  BY DEF Accs, Answers!Other, Answers!Streamed
<1>2. PICK more \in Content : more = a.held \o lead
  <2>1. a.held \o lead \in Content
    BY <1>1 DEF Content
  <2> QED
    BY <2>1
<1>3. CASE fence
  <2>1. PICK b \in Accs : /\ b = Answers!EmitText(a, a.inside, more) /\ Sound(b)
                          /\ b.inside = a.inside /\ Stands(b, from, blocks, past)
    BY <1>1, EmitTextSound, EmitTextTracks DEF Same
  <2>2. PICK side \in Answers!Streamed : side = Answers!Other(a.inside)
    BY <1>1
  <2>3. PICK c \in Accs : /\ c = Parsing(b, side, << >>) /\ Sound(c)
                          /\ c.inside = side /\ Stands(c, from, blocks, past)
    BY <2>1, EmptyContent, ParsingSound, ParsingStands
  <2>4. CASE hold
    <3>1. Answers!PushFragment(a, f) = Parsing(c, side, tail)
      BY <1>1, <1>2, <1>3, <2>1, <2>2, <2>3, <2>4 DEF Answers!PushFragment, Parsing, Accs
    <3> QED
      BY <2>3, <3>1, ParsingQuiet, QuietlyStands
  <2>5. CASE ~hold
    <3>1. Answers!PushFragment(a, f) = Answers!EmitText(c, side, tail)
      BY <1>1, <1>2, <1>3, <2>1, <2>2, <2>3, <2>5 DEF Answers!PushFragment, Parsing
    <3> QED
      BY <2>3, <3>1, EmitTextTracks
  <2> QED
    BY <2>4, <2>5
<1>4. CASE ~fence /\ hold
  <2>1. Answers!PushFragment(a, f) = Parsing(a, a.inside, more)
    BY <1>1, <1>2, <1>4 DEF Answers!PushFragment, Parsing, Accs
  <2> QED
    BY <2>1, ParsingQuiet, QuietlyStands
<1>5. CASE ~fence /\ ~hold
  <2>1. PICK b \in Accs : /\ b = Parsing(a, a.inside, << >>) /\ Sound(b)
                          /\ Stands(b, from, blocks, past)
    BY <1>1, EmptyContent, ParsingSound, ParsingStands, SMTT(30)
  <2>2. Answers!PushFragment(a, f) = Answers!EmitText(b, a.inside, more)
    BY <1>1, <1>2, <1>5, <2>1 DEF Answers!PushFragment, Parsing, Accs
  <2> QED
    BY <1>1, <2>1, <2>2, EmitTextTracks
<1> QED
  BY <1>3, <1>4, <1>5

\* The parser is finished.
LEMMA FinishTracks ==
    ASSUME NEW a \in Accs, Sound(a), NEW from, NEW blocks, NEW past,
           Basis(from, blocks, past), Stands(a, from, blocks, past)
    PROVE  Stands(Answers!FinishFence(a), from, blocks, past)
<1>1. a.inside \in Answers!Streamed /\ a.held \in Content
  BY DEF Accs
<1>2. PICK b \in Accs : b = Answers!EmitText(a, a.inside, a.held) /\ Stands(b, from, blocks, past)
  BY <1>1, EmitTextSound, EmitTextTracks
<1>3. Answers!FinishFence(a) = Parsing(b, "text", << >>)
  BY <1>2 DEF Answers!FinishFence, Parsing, Accs
<1> QED
  BY <1>2, <1>3, ParsingQuiet, QuietlyStands

\* The open block is closed between steps.
LEMMA CloseStands ==
    ASSUME NEW a \in Accs, Sound(a), NEW from, NEW blocks, NEW past,
           Basis(from, blocks, past), Stands(a, from, blocks, past)
    PROVE  Stands(Answers!Close(a), from, blocks, past)
<1>1. Answers!Close(a).open = Answers!None
  BY CloseSound
<1> QED
  BY <1>1, CloseTracks DEF Stands, Awaited, Answers!None

\* A tool call that comes whole.
LEMMA WholeTracks ==
    ASSUME NEW a \in Accs, Sound(a), a.by # "openai", a.by = "local" => a.open = Answers!None,
           NEW from, NEW blocks, NEW past, Basis(from, blocks, past), a.by # "anthropic",
           Stands(a, from, blocks, past)
    PROVE  Stands(Answers!Whole(a, "tool"), from, blocks, past)
<1>1. "tool" \in Answers!Kinds /\ "tool" \notin Answers!Streamed /\ a.next \in Nat
  BY DEF Answers!Kinds, Answers!Streamed, Accs
<1>2. PICK t \in Audience :
         /\ Answers!Emit(a, "start", a.next, Answers!Block("tool", << >>)) = [a EXCEPT !.told = t]
         /\ t.app = a.told.app
  BY <1>1, EmitUnread
<1>3. PICK b \in Accs : /\ b = [a EXCEPT !.told = t] /\ b.told = t /\ b.by = a.by
                        /\ b.open = a.open /\ b.kept = a.kept /\ b.next = a.next
  <2>1. PICK b : b = [a EXCEPT !.told = t]
    BY Zenon
  <2>2. /\ b \in Accs /\ b.told = t /\ b.by = a.by
        /\ b.open = a.open /\ b.kept = a.kept /\ b.next = a.next
    BY <2>1 DEF Accs
  <2> QED
    BY <2>1, <2>2, Zenon
<1>4. PICK u \in Audience :
         /\ Answers!Emit(b, "stop", a.next, Answers!Block("tool", << >>)) = [b EXCEPT !.told = u]
         /\ u.app = t.app
  <2>1. \E u \in Audience :
         /\ Answers!Emit(b, "stop", a.next, Answers!Block("tool", << >>)) = [b EXCEPT !.told = u]
         /\ u.app = b.told.app
    BY <1>1, EmitUnread, Zenon
  <2> QED
    BY <1>3, <2>1, Zenon
<1>5. PICK c : c = [b EXCEPT !.told = u]
  BY Zenon
<1>6. c.told = u /\ c.by = a.by /\ c.open = a.open /\ c.kept = a.kept /\ c.next = a.next
  BY <1>3, <1>5 DEF Accs
<1>7. PICK x \in Part : x = Answers!Block("tool", << >>) /\ x.kind = "tool"
  BY <1>1, BlockType, EmptyContent
<1>8. PICK k, m : k = Append(a.kept, x) /\ m = a.next + 1
  BY Zenon
<1>9. PICK d \in Accs : d = Answers!Whole(a, "tool")
  BY <1>1, WholeSound
<1>10. d = [c EXCEPT !.next = m, !.kept = k]
  BY <1>2, <1>3, <1>4, <1>5, <1>6, <1>7, <1>8, <1>9, Zenon DEF Answers!Whole
<1>11. d.told = u /\ d.by = a.by /\ d.open = a.open /\ d.kept = k
  BY <1>3, <1>5, <1>6, <1>10 DEF Accs
<1>12. Tracks(d, from, blocks, past)
  <2>1. d.told.app = a.told.app /\ ~Html(x) /\ Tracks(a, from, blocks, past)
    BY <1>2, <1>4, <1>7, <1>11 DEF Html, Stands
  <2> QED
    BY <1>8, <1>11, <2>1, TracksBeside
<1> QED
  BY <1>9, <1>11, <1>12 DEF Stands

\* A tool of OpenAI's begins.
LEMMA ToolBeginsTracks ==
    ASSUME NEW a \in Accs, Sound(a), a.by = "openai", NEW from, NEW blocks, NEW past,
           Basis(from, blocks, past), Stands(a, from, blocks, past)
    PROVE  Stands(ToolBegins(a), from, blocks, past)
<1>1. "tool" \in Answers!Kinds /\ "tool" \notin Answers!Streamed /\ a.next \in Nat
  BY DEF Answers!Kinds, Answers!Streamed, Accs
<1>2. PICK t \in Audience :
         /\ Answers!Emit(a, "start", a.next, Answers!Block("tool", << >>)) = [a EXCEPT !.told = t]
         /\ t.app = a.told.app
  BY <1>1, EmitUnread
<1>3. PICK c : c = [a EXCEPT !.told = t]
  BY Zenon
<1>4. c.told = t /\ c.by = a.by /\ c.open = a.open /\ c.kept = a.kept /\ c.next = a.next
  BY <1>3 DEF Accs
<1>5. PICK x \in Part : x = Answers!Block("tool", << >>) /\ x.kind = "tool"
  BY <1>1, BlockType, EmptyContent
<1>6. PICK k, m : k = Append(a.kept, x) /\ m = a.next + 1
  BY Zenon
<1>7. PICK d \in Accs : d = ToolBegins(a)
  BY ToolBeginsSound
<1>8. d = [c EXCEPT !.next = m, !.kept = k]
  BY <1>2, <1>3, <1>4, <1>5, <1>6, <1>7, Zenon DEF ToolBegins
<1>9. d.told = t /\ d.by = a.by /\ d.open = a.open /\ d.kept = k
  BY <1>3, <1>4, <1>8 DEF Accs
<1>10. Tracks(d, from, blocks, past)
  <2>1. d.told.app = a.told.app /\ ~Html(x) /\ Tracks(a, from, blocks, past)
    BY <1>2, <1>5, <1>9 DEF Html, Stands
  <2> QED
    BY <1>6, <1>9, <2>1, TracksBeside
<1> QED
  BY <1>7, <1>9, <1>10 DEF Stands

\* Anthropic's blocks that are no text.
LEMMA BlockTracks ==
    ASSUME NEW a \in Accs, Sound(a), a.by = "anthropic", NEW kind \in {"tool", "thinking"},
           NEW from, NEW blocks, NEW past, Basis(from, blocks, past),
           Stands(a, from, blocks, past)
    PROVE  Stands([Answers!Open(Answers!Close(a), kind) EXCEPT !.upstream = kind],
                  from, blocks, past)
<1>1. PICK c \in Accs : /\ c = Answers!Close(a) /\ Sound(c) /\ c.by = a.by
                        /\ c.open = Answers!None /\ Stands(c, from, blocks, past)
  BY CloseSound, CloseStands DEF Same
<1>2. kind \in Answers!Kinds /\ c.by # "openai" /\ kind # "html"
  BY <1>1 DEF Answers!Kinds
<1>3. PICK d \in Accs : /\ d = Answers!Open(c, kind) /\ Tracks(d, from, blocks, past)
                        /\ d.open.kind = kind
  <2>1. Tracks(c, from, blocks, past)
    BY <1>1 DEF Stands
  <2> QED
    BY <1>1, <1>2, <2>1, OpenSound, OpenTracks
<1>4. Stands(d, from, blocks, past)
  BY <1>2, <1>3 DEF Stands, Awaited
<1>5. [Answers!Open(Answers!Close(a), kind) EXCEPT !.upstream = kind] = Upstream(d, kind)
  BY <1>1, <1>3 DEF Upstream
<1> QED
  BY <1>4, <1>5, ParsingQuiet, QuietlyStands

\* Whatever the provider, a tool call keeps the step.
LEMMA ToolTracks ==
    ASSUME NEW a \in Accs, Sound(a), NEW from, NEW blocks, NEW past,
           Basis(from, blocks, past), Stands(a, from, blocks, past)
    PROVE  Stands(Answers!ToolCall(a), from, blocks, past)
<1>1. CASE a.by = "anthropic"
  BY <1>1, BlockTracks DEF Answers!ToolCall
<1>2. CASE a.by = "openai"
  <2>1. Answers!ToolCall(a) = ToolBegins(a)
    BY <1>2 DEF Answers!ToolCall, ToolBegins
  <2> QED
    BY <1>2, <2>1, ToolBeginsTracks
<1>3. CASE a.by = "gemini"
  <2>1. Answers!ToolCall(a) = Answers!Whole(a, "tool")
    BY <1>3 DEF Answers!ToolCall
  <2> QED
    BY <1>3, <2>1, WholeTracks
<1>4. CASE a.by = "local"
  <2>1. PICK c \in Accs : /\ c = Answers!Close(a) /\ Sound(c) /\ c.by = a.by
                          /\ c.open = Answers!None /\ Stands(c, from, blocks, past)
    BY CloseSound, CloseStands DEF Same
  <2>2. Answers!ToolCall(a) = Answers!Whole(c, "tool")
    BY <1>4, <2>1 DEF Answers!ToolCall
  <2> QED
    BY <1>4, <2>1, <2>2, WholeTracks
<1> QED
  BY <1>1, <1>2, <1>3, <1>4 DEF Accs, Answers!Providers

\* The stream ends, and what the provider keeps is in step.
LEMMA FlushTracks ==
    ASSUME NEW a \in Accs, Sound(a), NEW from, NEW blocks, NEW past,
           Basis(from, blocks, past), Stands(a, from, blocks, past)
    PROVE  LET b == Answers!Flush(a) IN
           /\ Tracks(b, from, blocks, past)
           /\ InStep(b.told.app, from, blocks \o Answers!ContentOf(b))
<1>1. ASSUME NEW b, Tracks(b, from, blocks, past), ~Awaited(b), Answers!ContentOf(b) = b.kept
      PROVE  InStep(b.told.app, from, blocks \o Answers!ContentOf(b))
  BY <1>1 DEF Tracks, ToKeep
<1>2. CASE a.by = "anthropic"
  <2>1. Answers!Flush(a) = a /\ Tracks(a, from, blocks, past) /\ ~Awaited(a)
    BY <1>2 DEF Answers!Flush, Stands
  <2>2. CASE a.kept # << >>
    <3>1. Answers!ContentOf(a) = a.kept
      BY <1>2, <2>2 DEF Answers!ContentOf
    <3> QED
      BY <1>1, <2>1, <3>1
  <2>3. CASE a.kept = << >>
    <3>1. a.open.kind # "html"
      <4>1. ToKeep(a) = << >> /\ Place(a) = 0
        BY <1>2, <2>1, <2>3 DEF ToKeep, Place
      <4> QED
        BY <2>1, <4>1 DEF Tracks, Sketches
    <3>2. PICK x \in Part : Answers!ContentOf(a) = <<x>> /\ ~Html(x)
      <4>1. CASE a.open = Answers!None
        <5>1. a.held \in Content /\ "text" \in Answers!Kinds
          BY DEF Accs, Answers!Kinds, Answers!Streamed
        <5>2. PICK x \in Part : x = Answers!Block("text", a.held) /\ x.kind = "text"
          BY <5>1, BlockType
        <5> QED
          BY <1>2, <2>3, <4>1, <5>2 DEF Answers!ContentOf, Html
      <4>2. CASE a.open # Answers!None
        <5>1. PICK x \in Part : /\ x = Answers!Block(a.open.kind, a.open.content)
                                /\ x.kind = a.open.kind
          BY <4>2, OpenIs, BlockType
        <5> QED
          BY <1>2, <2>3, <3>1, <4>2, <5>1 DEF Answers!ContentOf, Html
      <4> QED
        BY <4>1, <4>2
    <3>3. PICK K \in Parts : /\ K = blocks /\ blocks \o ToKeep(a) = K
                             /\ blocks \o <<x>> = Append(K, x)
      <4>1. blocks \o << >> = blocks /\ blocks \o <<x>> = Append(blocks, x)
        BY DEF Basis, Parts
      <4>2. ToKeep(a) = << >>
        BY <2>1, <2>3 DEF ToKeep
      <4> QED
        BY <4>1, <4>2 DEF Basis
    <3>4. InStep(a.told.app, from, K) /\ from \in Nat
      BY <2>1, <3>3 DEF Tracks, Basis
    <3>5. InStep(a.told.app, from, Append(K, x))
      BY <3>2, <3>4, AddedInStep
    <3> QED
      BY <2>1, <3>2, <3>3, <3>5
  <2> QED
    BY <2>2, <2>3
<1>3. CASE a.by # "anthropic"
  <2>1. PICK b \in Accs : /\ b = Answers!FinishFence(a) /\ Sound(b) /\ b.by = a.by
                          /\ Stands(b, from, blocks, past)
    BY FinishSound, FinishTracks DEF SameCall
  <2>2. PICK c \in Accs : /\ c = Answers!Close(b) /\ c.by = a.by
                          /\ c.open = Answers!None /\ Stands(c, from, blocks, past)
    BY <2>1, CloseSound, CloseStands DEF Same
  <2>3. PICK d : /\ d = Answers!Flush(a) /\ Quiet(c, d)
    <3>1. CASE a.by = "openai"
      BY <2>1, <2>2, <3>1, StopToolsQuiet DEF Answers!Flush
    <3>2. CASE a.by # "openai"
      BY <1>3, <2>1, <2>2, <3>2 DEF Answers!Flush, Quiet
    <3> QED
      BY <3>1, <3>2
  <2>4. Stands(d, from, blocks, past)
    BY <2>2, <2>3, QuietlyStands
  <2>5. ~Awaited(d) /\ Answers!ContentOf(d) = d.kept
    BY <1>3, <2>2, <2>3 DEF Quiet, Awaited, Answers!ContentOf, Answers!None
  <2> QED
    BY <1>1, <2>3, <2>4, <2>5 DEF Stands
<1> QED
  BY <1>2, <1>3

\* The accumulator that has told its listeners is the next state's.
LEMMA TellingNext ==
    ASSUME NEW a \in Accs, Answers!Streams(a) PROVE Answers!Telling(acc)' = a
<1>1. /\ acc' = [a EXCEPT !.told = Answers!Nobody] /\ seen' = a.told.view
      /\ garbled' = a.told.garbled /\ app' = a.told.app
  BY DEF Answers!Streams, Answers!Told
<1>2. a.told = [view |-> seen', garbled |-> garbled', app |-> app']
  <2>1. a.told \in Audience
    BY DEF Accs
  <2> QED
    BY <1>1, <2>1 DEF Audience
<1> QED
  BY <1>1, <1>2, Zenon DEF Answers!Telling, Accs

-----------------------------------------------------------------------------
(* Those blocks of a history.                                              *)

\* None of nothing.
LEMMA CountNone == Count(<< >>) = 0 /\ Answers!HtmlPlaces(<< >>) = {}
<1>1. PICK n \in Nat : n = 0 /\ DOMAIN << >> = 1 .. n /\ Len(<< >>) + 1 = 1
  OBVIOUS
<1>2. Answers!HtmlPlaces(<< >>) = {}
  BY <1>1 DEF Answers!HtmlPlaces
<1> QED
  BY <1>1, <1>2, OrdinalFirst DEF Count

\* What is one block longer.
LEMMA OneMore ==
    ASSUME NEW S, NEW s \in Seq(S), NEW x \in S, NEW n \in Nat, n = Len(s)
    PROVE  /\ s \o <<x>> = Append(s, x) /\ s \o << >> = s /\ Append(s, x) \in Seq(S)
           /\ Len(Append(s, x)) = n + 1 /\ Append(s, x)[n + 1] = x
           /\ \A i \in 1 .. n : Append(s, x)[i] = s[i]
  OBVIOUS

\* The Html blocks, in their order.
LEMMA HtmlOnes ==
    ASSUME NEW S, NEW s \in Seq(S)
    PROVE  LET html == Answers!Those(s, Answers!HtmlPlaces(s)) IN
           /\ Len(html) = Count(s)
           /\ \A i \in Answers!HtmlPlaces(s) : html[Answers!Ordinal(s, i) + 1] = s[i]
<1>1. PICK n \in Nat : n = Len(s) /\ s \in [1 .. n -> S] /\ DOMAIN s = 1 .. n
  OBVIOUS
<1>2. PICK P : P = Answers!HtmlPlaces(s)
  OBVIOUS
<1>3. PICK parts : parts = [i \in DOMAIN s |-> IF i \in P THEN <<s[i]>> ELSE << >>]
  OBVIOUS
<1>4. parts \in Seq(Seq(S)) /\ Len(parts) = n
  <2>1. parts \in [1 .. n -> Seq(S)]
    BY <1>1, <1>3
  <2> QED
    BY <2>1
<1>5. PICK c \in [0 .. n -> Seq(S)] :
         /\ c[0] = << >> /\ \A i \in 1 .. n : c[i] = c[i - 1] \o parts[i]
         /\ Answers!Concat(parts) = c[n]
  BY <1>4, ConcatIs
<1>6. Answers!Those(s, P) = c[n]
  BY <1>3, <1>5 DEF Answers!Those
<1> DEFINE T == {k \in 0 .. n : /\ Len(c[k]) = Answers!Ordinal(s, k + 1)
                                /\ \A i \in 1 .. k : i \in P =>
                                      c[k][Answers!Ordinal(s, i) + 1] = s[i]}
<1>7. 0 \in T
  <2>1. 0 \in 0 .. n /\ 0 + 1 = 1 /\ Len(<< >>) = 0 /\ \A i \in 1 .. 0 : FALSE
    BY <1>1
  <2> QED
    BY <1>1, <1>5, <2>1, OrdinalFirst
<1>8. ASSUME NEW k \in 0 .. n - 1, k \in T PROVE k + 1 \in T
  <2>1. /\ k + 1 \in 1 .. n /\ (k + 1) - 1 = k /\ k + 1 \in 0 .. n /\ k \in 0 .. n
        /\ k + 1 \in Nat
    OBVIOUS
  <2>2. PICK l \in 1 .. n : l = k + 1
    BY <2>1
  <2>3. PICK d \in Seq(S), m \in Nat : d = c[k] /\ m = Len(d)
    BY <1>5, <2>1
  <2>4. /\ m = Answers!Ordinal(s, l)
        /\ \A i \in 1 .. k : i \in P => d[Answers!Ordinal(s, i) + 1] = s[i]
    BY <1>8, <2>2, <2>3
  <2>5. c[l] = d \o parts[l] /\ s[l] \in S
    BY <1>1, <1>5, <2>1, <2>2, <2>3
  <2>6. Answers!Ordinal(s, l + 1) = IF Html(s[l]) THEN m + 1 ELSE m
    BY <1>1, <2>2, <2>4, OrdinalNext
  <2>7. CASE l \in P
    <3>1. Html(s[l]) /\ parts[l] = <<s[l]>>
      BY <1>1, <1>2, <1>3, <2>7 DEF Answers!HtmlPlaces, Html
    <3>2. PICK e : /\ e = c[l] /\ Len(e) = m + 1 /\ e[m + 1] = s[l]
                   /\ \A i \in 1 .. m : e[i] = d[i]
      <4>1. PICK x \in S : x = s[l]
        BY <2>5
      <4>2. /\ d \o <<x>> = Append(d, x) /\ Len(Append(d, x)) = m + 1 /\ Append(d, x)[m + 1] = x
            /\ \A i \in 1 .. m : Append(d, x)[i] = d[i]
        BY <2>3, OneMore
      <4>3. c[l] = Append(d, x)
        BY <2>5, <3>1, <4>1, <4>2
      <4> QED
        BY <4>1, <4>2, <4>3
    <3>3. ASSUME NEW i \in 1 .. l, i \in P PROVE e[Answers!Ordinal(s, i) + 1] = s[i]
      <4>1. CASE i = l
        BY <2>4, <3>2, <4>1
      <4>2. CASE i # l
        <5>1. i \in 1 .. k /\ i \in 1 .. n + 1 /\ l \in 1 .. n + 1 /\ i <= l /\ i < l
          BY <2>2, <4>2
        <5>2. Html(s[i])
          BY <1>2, <3>3 DEF Answers!HtmlPlaces, Html
        <5>3. Answers!Ordinal(s, i) \in Nat /\ Answers!Ordinal(s, i) < Answers!Ordinal(s, l)
          BY <1>1, <5>1, <5>2, BeforeIs, OrdinalGrows
        <5>4. Answers!Ordinal(s, i) + 1 \in 1 .. m
          BY <2>4, <5>3
        <5> QED
          BY <2>4, <3>2, <3>3, <5>1, <5>4
      <4> QED
        BY <4>1, <4>2
    <3>4. Len(e) = Answers!Ordinal(s, l + 1)
      BY <2>6, <3>1, <3>2
    <3> QED
      BY <2>1, <2>2, <3>2, <3>3, <3>4
  <2>8. CASE l \notin P
    <3>1. ~Html(s[l]) /\ parts[l] = << >>
      BY <1>1, <1>2, <1>3, <2>8 DEF Answers!HtmlPlaces, Html
    <3>2. c[l] = d
      BY <2>3, <2>5, <3>1, OneMore
    <3>3. ASSUME NEW i \in 1 .. l, i \in P PROVE d[Answers!Ordinal(s, i) + 1] = s[i]
      <4>1. i \in 1 .. k
        BY <2>2, <2>8, <3>3
      <4> QED
        BY <2>4, <3>3, <4>1
    <3>4. Len(d) = Answers!Ordinal(s, l + 1)
      BY <2>3, <2>6, <3>1
    <3> QED
      BY <2>1, <2>2, <3>2, <3>3, <3>4
  <2> QED
    BY <2>7, <2>8
<1> HIDE DEF T
<1>9. n \in T
  <2>1. 0 .. n \subseteq T
    BY <1>1, <1>7, <1>8, UpTo
  <2> QED
    BY <1>1, <2>1
<1>10. Len(c[n]) = Count(s) /\ \A i \in 1 .. n : i \in P => c[n][Answers!Ordinal(s, i) + 1] = s[i]
  BY <1>1, <1>9 DEF T, Count
<1>11. \A i \in P : i \in 1 .. n
  BY <1>1, <1>2 DEF Answers!HtmlPlaces
<1> QED
  BY <1>2, <1>6, <1>10, <1>11

\* Of some blocks there are no more.
LEMMA FewerOnes ==
    ASSUME NEW S, NEW s \in Seq(S), NEW P
    PROVE  Count(Answers!Those(s, P)) <= Count(s)
<1>1. PICK n \in Nat : n = Len(s) /\ s \in [1 .. n -> S] /\ DOMAIN s = 1 .. n
  OBVIOUS
<1>3. PICK parts : parts = [i \in DOMAIN s |-> IF i \in P THEN <<s[i]>> ELSE << >>]
  OBVIOUS
<1>4. parts \in Seq(Seq(S)) /\ Len(parts) = n
  <2>1. parts \in [1 .. n -> Seq(S)]
    BY <1>1, <1>3
  <2> QED
    BY <2>1
<1>5. PICK c \in [0 .. n -> Seq(S)] :
         /\ c[0] = << >> /\ \A i \in 1 .. n : c[i] = c[i - 1] \o parts[i]
         /\ Answers!Concat(parts) = c[n]
  BY <1>4, ConcatIs
<1>6. Answers!Those(s, P) = c[n]
  BY <1>3, <1>5 DEF Answers!Those
<1> DEFINE T == {k \in 0 .. n : Count(c[k]) <= Answers!Ordinal(s, k + 1)}
<1>7. 0 \in T
  <2>1. 0 \in 0 .. n /\ 0 + 1 = 1
    BY <1>1
  <2>2. Count(<< >>) = 0
    BY CountNone
  <2> QED
    BY <1>1, <1>5, <2>1, <2>2, OrdinalFirst
<1>8. ASSUME NEW k \in 0 .. n - 1, k \in T PROVE k + 1 \in T
  <2>1. /\ k + 1 \in 1 .. n /\ (k + 1) - 1 = k /\ k + 1 \in 0 .. n /\ k \in 0 .. n
        /\ k + 1 \in Nat
    OBVIOUS
  <2>2. PICK l \in 1 .. n : l = k + 1
    BY <2>1
  <2>3. PICK d \in Seq(S), m \in Nat : d = c[k] /\ m = Count(d)
    BY <1>5, <2>1, CountIs
  <2>4. PICK o \in Nat : o = Answers!Ordinal(s, l) /\ m <= o
    BY <1>1, <1>8, <2>2, <2>3, BeforeIs
  <2>5. c[l] = d \o parts[l]
    BY <1>5, <2>1, <2>2, <2>3
  <2>6. Answers!Ordinal(s, l + 1) = IF Html(s[l]) THEN o + 1 ELSE o
    BY <1>1, <2>4, OrdinalNext
  <2>7. PICK x \in S : x = s[l]
    BY <1>1
  <2>8. c[l] = d \/ c[l] = Append(d, x)
    <3>1. parts[l] = <<x>> \/ parts[l] = << >>
      BY <1>1, <1>3, <2>7
    <3>2. d \o <<x>> = Append(d, x) /\ d \o << >> = d
      BY OneMore
    <3> QED
      BY <2>5, <3>1, <3>2
  <2>9. Count(Append(d, x)) = IF Html(x) THEN m + 1 ELSE m
    BY <2>3, CountAppends
  <2>10. Count(c[l]) <= Answers!Ordinal(s, l + 1)
    <3>2. CASE Html(x)
      <4>1. Count(c[l]) = m \/ Count(c[l]) = m + 1
        BY <2>3, <2>8, <2>9, <3>2
      <4>2. Answers!Ordinal(s, l + 1) = o + 1
        BY <2>6, <2>7, <3>2
      <4>3. m <= o + 1 /\ m + 1 <= o + 1
        BY <2>4
      <4> QED
        BY <4>1, <4>2, <4>3
    <3>3. CASE ~Html(x)
      <4>1. Count(c[l]) = m
        BY <2>3, <2>8, <2>9, <3>3
      <4>2. Answers!Ordinal(s, l + 1) = o
        BY <2>6, <2>7, <3>3
      <4> QED
        BY <2>4, <4>1, <4>2
    <3> QED
      BY <3>2, <3>3
  <2> QED
    BY <2>1, <2>2, <2>10
<1> HIDE DEF T
<1>9. n \in T
  <2>1. 0 .. n \subseteq T
    BY <1>1, <1>7, <1>8, UpTo
  <2> QED
    BY <1>1, <2>1
<1> QED
  BY <1>1, <1>6, <1>9 DEF T, Count

-----------------------------------------------------------------------------
(* The history and its canvases.                                           *)

\* Every state of a history is that of its block.
AtHome(blocks) ==
    \A i \in Answers!HtmlPlaces(blocks) :
        blocks[i].state \in {Answers!NoState, blocks[i].content}

\* Nothing but the text of the log changes.
LEMMA LaterLines ==
    ASSUME NEW p \in Apps, NEW q \in Apps, Beyond(p, q, {}), q.next_id = p.next_id
    PROVE  /\ Counted(p) => Counted(q)
           /\ \A past \in Seq(Saved) : Agree(p, past) => Agree(q, past)
           /\ \A from, blocks : InStep(p, from, blocks) => InStep(q, from, blocks)
<1>1. ASSUME Counted(p) PROVE Counted(q)
  <2>1. p.next_id <= q.next_id /\ \A k \in {} : k < q.next_id
    BY DEF Apps
  <2> QED
    BY <1>1, <2>1, StillCounted
<1>2. ASSUME NEW past \in Seq(Saved), Agree(p, past) PROVE Agree(q, past)
  BY <1>2, StillAgree
<1>3. ASSUME NEW id, NEW what, Matches(p, id, what) PROVE Matches(q, id, what)
  BY <1>3, StillMatches
<1>4. ASSUME NEW from, NEW blocks, InStep(p, from, blocks) PROVE InStep(q, from, blocks)
  BY <1>3, <1>4 DEF InStep, AllMatch
<1> QED
  BY <1>1, <1>2, <1>4

\* A call begins in step.
LEMMA FreshStands ==
    ASSUME NEW by, NEW c, NEW from, NEW blocks, NEW past, Basis(from, blocks, past),
           Counted(c.app), Agree(c.app, past), InStep(c.app, from, blocks)
    PROVE  Stands([Answers!Accumulator(by) EXCEPT !.told = c], from, blocks, past)
<1>1. PICK a : a = [Answers!Accumulator(by) EXCEPT !.told = c]
  OBVIOUS
<1>2. a.by = by /\ a.open = Answers!None /\ a.kept = << >> /\ a.told = c
  BY <1>1 DEF Answers!Accumulator
<1>3. ~Awaited(a) /\ ToKeep(a) = << >> /\ Sketches(a, from) /\ Owns(a)
  BY <1>2 DEF Awaited, ToKeep, Sketches, Owns, Answers!None
<1>4. blocks \o << >> = blocks
  BY DEF Basis, Parts
<1> QED
  BY <1>1, <1>2, <1>3, <1>4 DEF Stands, Tracks

\* Committing keeps kinds and contents.
LEMMA CommittedIs ==
    ASSUME NEW blocks \in Parts
    PROVE  LET s == Answers!Committed(blocks) IN
           /\ s \in Seq(Saved) /\ Len(s) = Len(blocks)
           /\ \A i \in 1 .. Len(blocks) :
                 /\ s[i].kind = blocks[i].kind /\ s[i].content = blocks[i].content
                 /\ s[i].state = Answers!NoState
<1>1. PICK n \in Nat : n = Len(blocks) /\ DOMAIN blocks = 1 .. n
  BY DEF Parts
<1>2. PICK s \in Seq(Saved) : s = Answers!Committed(blocks)
  BY CommittedType
<1>3. DOMAIN s = 1 .. n /\ \A i \in 1 .. n : s[i] = [kind |-> blocks[i].kind,
         content |-> blocks[i].content, state |-> Answers!NoState]
  BY <1>1, <1>2 DEF Answers!Committed
<1> QED
  BY <1>1, <1>2, <1>3

\* So does saving with states.
LEMMA WithStatesIs ==
    ASSUME NEW blocks \in Seq(Saved), NEW p \in Apps
    PROVE  LET s == Answers!WithStates(blocks, p) IN
           /\ s \in Seq(Saved) /\ Len(s) = Len(blocks)
           /\ \A i \in 1 .. Len(blocks) :
                 /\ s[i].kind = blocks[i].kind /\ s[i].content = blocks[i].content
                 /\ s[i].state = IF i \in Answers!HtmlPlaces(blocks)
                                    /\ Answers!Ordinal(blocks, i) \in DOMAIN p.renderers
                                 THEN p.renderers[Answers!Ordinal(blocks, i)].of
                                 ELSE blocks[i].state
<1>1. PICK n \in Nat : n = Len(blocks) /\ blocks \in [1 .. n -> Saved]
  OBVIOUS
<1>2. PICK s \in Seq(Saved) : s = Answers!WithStates(blocks, p)
  BY WithStatesType
<1>3. DOMAIN s = 1 .. n
  BY <1>1, <1>2 DEF Answers!WithStates
<1>4. ASSUME NEW i \in 1 .. n
      PROVE  /\ s[i].kind = blocks[i].kind /\ s[i].content = blocks[i].content
             /\ s[i].state = IF i \in Answers!HtmlPlaces(blocks)
                                /\ Answers!Ordinal(blocks, i) \in DOMAIN p.renderers
                             THEN p.renderers[Answers!Ordinal(blocks, i)].of
                             ELSE blocks[i].state
  <2>1. PICK b \in Saved : b = blocks[i]
    BY <1>1
  <2>2. PICK v : v = p.renderers[Answers!Ordinal(blocks, i)].of
    OBVIOUS
  <2>3. s[i] = IF i \in Answers!HtmlPlaces(blocks)
                  /\ Answers!Ordinal(blocks, i) \in DOMAIN p.renderers
               THEN [b EXCEPT !.state = v] ELSE b
    BY <1>1, <1>2, <2>1, <2>2 DEF Answers!WithStates, Answers!Has
  <2>4. /\ [b EXCEPT !.state = v].kind = b.kind /\ [b EXCEPT !.state = v].content = b.content
        /\ [b EXCEPT !.state = v].state = v
    BY DEF Saved
  <2> QED
    BY <2>1, <2>2, <2>3, <2>4
<1> QED
  BY <1>1, <1>2, <1>3, <1>4

\* A turn that has kept step leaves a history that agrees with the canvases.
LEMMA TurnAgrees ==
    ASSUME NEW p \in Apps, NEW past \in Seq(Saved), NEW blocks \in Parts,
           AtHome(past), Agree(p, past), AllMatch(p, Count(past), blocks)
    PROVE  LET after == past \o Answers!Committed(blocks) IN
           /\ after \in Seq(Saved) /\ Count(after) = Count(past) + Count(blocks)
           /\ AtHome(after) /\ Agree(p, after)
<1>1. PICK s \in Seq(Saved), m \in Nat :
         /\ s = Answers!Committed(blocks) /\ m = Len(s) /\ m = Len(blocks)
         /\ \A i \in 1 .. m : /\ s[i].kind = blocks[i].kind /\ s[i].content = blocks[i].content
                              /\ s[i].state = Answers!NoState
  <2>1. Len(blocks) \in Nat
    BY DEF Parts
  <2> QED
    BY <2>1, CommittedIs
<1>2. PICK n \in Nat : n = Len(past) /\ DOMAIN past = 1 .. n
  OBVIOUS
<1>3. PICK u \in Seq(Saved) : u = past \o s /\ Len(u) = n + m
         /\ \A i \in 1 .. n + m : u[i] = IF i <= n THEN past[i] ELSE s[i - n]
  <2>1. PICK f \in Seq(Saved), g \in Seq(Saved) : f = past /\ g = s /\ n = Len(f) /\ m = Len(g)
    BY <1>1, <1>2
  <2>2. /\ f \o g \in Seq(Saved) /\ Len(f \o g) = n + m
        /\ \A i \in 1 .. n + m : (f \o g)[i] = IF i <= n THEN f[i] ELSE g[i - n]
    BY <2>1, JoinedIs
  <2> QED
    BY <2>1, <2>2
<1>4. /\ Count(s) = Count(blocks) /\ Answers!HtmlPlaces(s) = Answers!HtmlPlaces(blocks)
      /\ \A i \in 1 .. m + 1 : Answers!Ordinal(s, i) = Answers!Ordinal(blocks, i)
  <2>1. \A i \in 1 .. m : Html(s[i]) <=> Html(blocks[i])
    BY <1>1 DEF Html
  <2>2. blocks \in Seq(Part)
    BY DEF Parts
  <2> QED
    <3>1. Len(s) = Len(blocks) /\ \A i \in 1 .. Len(s) : Html(s[i]) <=> Html(blocks[i])
      BY <1>1, <2>1
    <3>2. ASSUME NEW t \in Seq(Part), Len(s) = Len(t),
                 \A i \in 1 .. Len(s) : Html(s[i]) <=> Html(t[i])
          PROVE  /\ Count(s) = Count(t) /\ Answers!HtmlPlaces(s) = Answers!HtmlPlaces(t)
                 /\ \A i \in 1 .. Len(s) + 1 : Answers!Ordinal(s, i) = Answers!Ordinal(t, i)
      BY <3>2, CountSame, SMTT(30)
    <3>3. /\ Count(s) = Count(blocks)
          /\ Answers!HtmlPlaces(s) = Answers!HtmlPlaces(blocks)
          /\ \A i \in 1 .. Len(s) + 1 : Answers!Ordinal(s, i) = Answers!Ordinal(blocks, i)
      BY <2>2, <3>1, <3>2
    <3> QED
      BY <1>1, <3>3
<1>5. /\ \A i \in 1 .. n + 1 : Answers!Ordinal(u, i) = Answers!Ordinal(past, i)
      /\ \A i \in 1 .. m + 1 : Answers!Ordinal(u, n + i) = Count(past) + Answers!Ordinal(s, i)
      /\ Count(u) = Count(past) + Count(s)
  BY <1>1, <1>2, <1>3, CountJoins
<1>6. ASSUME NEW i \in Answers!HtmlPlaces(u)
      PROVE  /\ u[i].state \in {Answers!NoState, u[i].content}
             /\ Answers!Ordinal(u, i) \in DOMAIN p.renderers =>
                   p.renderers[Answers!Ordinal(u, i)].of = u[i].content
  <2>1. i \in 1 .. n + m /\ u[i].kind = "html"
    BY <1>3 DEF Answers!HtmlPlaces
  <2>2. CASE i <= n
    <3>1. i \in 1 .. n /\ i \in 1 .. n + 1 /\ u[i] = past[i]
      BY <1>3, <2>1, <2>2
    <3>2. i \in Answers!HtmlPlaces(past)
      BY <1>2, <2>1, <3>1 DEF Answers!HtmlPlaces
    <3> QED
      BY <1>5, <3>1, <3>2 DEF AtHome, Agree
  <2>3. CASE ~(i <= n)
    <3>1. PICK k \in 1 .. m : i = n + k /\ u[i] = s[k] /\ k \in 1 .. m + 1
      <4>1. i - n \in 1 .. m /\ i = n + (i - n) /\ i - n \in 1 .. m + 1
        BY <2>1, <2>3
      <4> QED
        BY <1>3, <2>1, <2>3, <4>1
    <3>2. k \in Answers!HtmlPlaces(blocks)
      <4>1. k \in DOMAIN blocks /\ blocks[k].kind = "html"
        BY <1>1, <2>1, <3>1 DEF Parts
      <4> QED
        BY <4>1 DEF Answers!HtmlPlaces
    <3>3. Answers!Ordinal(u, i) = Count(past) + Answers!Ordinal(blocks, k)
      BY <1>4, <1>5, <3>1
    <3>4. Matches(p, Count(past) + Answers!Ordinal(blocks, k), blocks[k].content)
      BY <3>2 DEF AllMatch
    <3> QED
      BY <1>1, <3>1, <3>3, <3>4 DEF Matches
  <2> QED
    BY <2>2, <2>3
<1> QED
  BY <1>1, <1>3, <1>4, <1>5, <1>6 DEF AtHome, Agree

\* Saving keeps it so.
LEMMA SavedAgrees ==
    ASSUME NEW p \in Apps, NEW blocks \in Seq(Saved), AtHome(blocks), Agree(p, blocks)
    PROVE  LET s == Answers!WithStates(blocks, p) IN
           s \in Seq(Saved) /\ Count(s) = Count(blocks) /\ AtHome(s) /\ Agree(p, s)
<1>1. PICK s \in Seq(Saved), n \in Nat :
         /\ s = Answers!WithStates(blocks, p) /\ n = Len(blocks) /\ Len(s) = n
         /\ \A i \in 1 .. n :
                 /\ s[i].kind = blocks[i].kind /\ s[i].content = blocks[i].content
                 /\ s[i].state = IF i \in Answers!HtmlPlaces(blocks)
                                    /\ Answers!Ordinal(blocks, i) \in DOMAIN p.renderers
                                 THEN p.renderers[Answers!Ordinal(blocks, i)].of
                                 ELSE blocks[i].state
  <2>1. Len(blocks) \in Nat
    OBVIOUS
  <2> QED
    BY <2>1, WithStatesIs
<1>2. /\ Count(s) = Count(blocks) /\ Answers!HtmlPlaces(s) = Answers!HtmlPlaces(blocks)
      /\ \A i \in 1 .. n + 1 : Answers!Ordinal(s, i) = Answers!Ordinal(blocks, i)
  <2>1. \A i \in 1 .. n : Html(s[i]) <=> Html(blocks[i])
    BY <1>1 DEF Html
  <2> QED
    BY <1>1, <2>1, CountSame
<1>3. ASSUME NEW i \in Answers!HtmlPlaces(s)
      PROVE  /\ s[i].state \in {Answers!NoState, s[i].content}
             /\ Answers!Ordinal(s, i) \in DOMAIN p.renderers =>
                   p.renderers[Answers!Ordinal(s, i)].of = s[i].content
  <2>1. i \in 1 .. n /\ i \in 1 .. n + 1 /\ i \in Answers!HtmlPlaces(blocks)
    BY <1>1, <1>2, <1>3 DEF Answers!HtmlPlaces
  <2> QED
    BY <1>1, <1>2, <2>1 DEF AtHome, Agree
<1> QED
  BY <1>1, <1>2, <1>3 DEF AtHome, Agree

\* A replayed history agrees with its canvases.
LEMMA ReplayAgrees ==
    ASSUME NEW blocks \in Seq(Saved)
    PROVE  LET q == Answers!Replayed(blocks, 0) IN
           /\ q \in Apps /\ Counted(q) /\ q.next_id = Count(blocks)
           /\ AtHome(blocks) => Agree(q, blocks)
<1>1. PICK shown \in Seq(Saved) :
         /\ shown = Answers!Those(blocks, {i \in DOMAIN blocks :
               blocks[i].kind \in Answers!Streamed /\ blocks[i].content # << >>})
         /\ Count(shown) <= Count(blocks)
  BY ThoseType, FewerOnes
<1>2. PICK html \in Seq(Saved) :
         /\ html = Answers!Those(blocks, Answers!HtmlPlaces(blocks))
         /\ Len(html) = Count(blocks)
         /\ \A i \in Answers!HtmlPlaces(blocks) :
               html[Answers!Ordinal(blocks, i) + 1] = blocks[i]
  BY ThoseType, HtmlOnes
<1>3. PICK n \in Nat : n = Count(blocks)
  BY CountIs
<1>4. PICK q \in Apps : q = Answers!Replayed(blocks, 0)
  BY ReplayedType
<1>5. q = [Answers!EmptyApp EXCEPT
             !.entries = [i \in DOMAIN shown |->
                [kind |-> IF shown[i].kind = "html" THEN "canvas" ELSE "text",
                 content |-> shown[i].content, id |-> 0 + Answers!Ordinal(shown, i),
                 preview |-> FALSE]],
             !.next_id = 0 + n,
             !.renderers = [k \in 0 .. 0 + n - 1 |->
                LET b == html[k - 0 + 1] IN
                [source |-> b.content,
                 of |-> IF b.state = Answers!NoState THEN b.content ELSE b.state]]]
  BY <1>1, <1>2, <1>3, <1>4 DEF Answers!Replayed
<1>6. /\ q.entries = [i \in DOMAIN shown |->
            [kind |-> IF shown[i].kind = "html" THEN "canvas" ELSE "text",
             content |-> shown[i].content, id |-> 0 + Answers!Ordinal(shown, i),
             preview |-> FALSE]]
      /\ q.next_id = n
      /\ q.renderers = [k \in 0 .. 0 + n - 1 |->
            LET b == html[k - 0 + 1] IN
            [source |-> b.content,
             of |-> IF b.state = Answers!NoState THEN b.content ELSE b.state]]
  BY <1>5 DEF Answers!EmptyApp
<1>7. Counted(q)
  <2>1. ASSUME NEW j \in DOMAIN q.entries, q.entries[j].kind = "canvas"
        PROVE  q.entries[j].id < q.next_id
    <3>1. j \in DOMAIN shown /\ q.entries[j].id = 0 + Answers!Ordinal(shown, j)
          /\ shown[j].kind = "html"
      BY <1>6, <2>1
    <3>2. j \in Answers!HtmlPlaces(shown)
      BY <3>1 DEF Answers!HtmlPlaces
    <3>3. /\ Answers!Ordinal(shown, j) \in Nat /\ Count(shown) \in Nat
          /\ Answers!Ordinal(shown, j) < Count(shown)
      BY <3>2, CountIs
    <3> QED
      BY <1>1, <1>3, <1>6, <3>1, <3>3
  <2>2. \A id \in DOMAIN q.renderers : id < q.next_id
    BY <1>3, <1>6
  <2> QED
    BY <2>1, <2>2 DEF Counted
<1>8. ASSUME AtHome(blocks), NEW i \in Answers!HtmlPlaces(blocks)
      PROVE  q.renderers[Answers!Ordinal(blocks, i)].of = blocks[i].content
  <2>1. PICK o \in Nat : o = Answers!Ordinal(blocks, i) /\ o < n
    BY <1>3, CountIs
  <2>2. o \in 0 .. 0 + n - 1 /\ o - 0 + 1 = o + 1
    BY <2>1
  <2>3. html[o - 0 + 1] = blocks[i]
    BY <1>2, <2>1, <2>2
  <2>4. q.renderers[o].of = IF blocks[i].state = Answers!NoState THEN blocks[i].content
                            ELSE blocks[i].state
    BY <1>6, <2>2, <2>3
  <2> QED
    BY <1>8, <2>1, <2>4 DEF AtHome
<1> QED
  BY <1>3, <1>4, <1>6, <1>7, <1>8 DEF Agree

-----------------------------------------------------------------------------
(* The invariant of the canvas states.                                     *)

\* The history whose canvases are still known by number.
Past == IF skewed THEN << >> ELSE messages

\* The history is at home and as long as the canvases between turns; within one, the answer
\* so far keeps step with the canvases since it began.
HInv ==
    /\ start.canvases \in Nat /\ skewed \in BOOLEAN
    /\ Counted(app) /\ Agree(app, Past)
    /\ ~skewed => AtHome(messages) /\ AtHome(transcript)
    /\ phase = "idle" /\ ~skewed => app.next_id = Count(messages)
    /\ phase # "idle" => /\ Count(Past) <= start.canvases
                         /\ ~skewed => Count(messages) = start.canvases
    /\ phase = "streaming" => Stands(Answers!Telling(acc), start.canvases, answer, Past)
    /\ phase = "answered" => InStep(app, start.canvases, answer)

\* A turn has what to go on from.
LEMMA BasisIs ==
    ASSUME WInv, HInv
    PROVE  /\ Past \in Seq(Saved) /\ app \in Apps /\ answer \in Parts
           /\ messages \in Seq(Saved) /\ transcript \in Seq(Saved)
           /\ phase # "idle" => Basis(start.canvases, answer, Past)
<1>1. /\ messages \in Seq(Saved) /\ transcript \in Seq(Saved) /\ answer \in Parts /\ app \in Apps
      /\ << >> \in Seq(Saved)
  BY DEF WInv, WTypes
<1>2. Past \in Seq(Saved)
  BY <1>1 DEF Past
<1> QED
  BY <1>1, <1>2 DEF HInv, Basis

\* It holds at the start.
LEMMA HInitially == Answers!Init => HInv
<1> SUFFICES ASSUME Answers!Init PROVE HInv
  OBVIOUS
<1>1. app = Answers!EmptyApp /\ messages = << >> /\ transcript = << >> /\ skewed = FALSE
      /\ phase = "idle" /\ start.canvases = 0
  BY DEF Answers!Init
<1>2. app.entries = << >> /\ app.next_id = 0 /\ DOMAIN app.renderers = {}
  BY <1>1 DEF Answers!EmptyApp
<1>3. Past = << >> /\ Count(messages) = 0 /\ Answers!HtmlPlaces(messages) = {}
      /\ Answers!HtmlPlaces(transcript) = {} /\ Answers!HtmlPlaces(Past) = {}
  BY <1>1, CountNone DEF Past
<1>4. Counted(app) /\ Agree(app, Past) /\ AtHome(messages) /\ AtHome(transcript)
  BY <1>2, <1>3 DEF Counted, Agree, AtHome
<1>5. app.next_id = Count(messages)
  BY <1>2, <1>3
<1>6. phase = "idle" /\ start.canvases \in Nat /\ phase # "streaming" /\ phase # "answered"
  BY <1>1
<1>7. skewed \in BOOLEAN
  BY <1>1, Zenon
<1> QED
  BY <1>4, <1>5, <1>6, <1>7, Zenon DEF HInv

\* A step of a call that goes on.
LEMMA StreamsStand ==
    ASSUME WInv, HInv, phase = "streaming", NEW b \in Accs, Answers!Streams(b),
           Stands(b, start.canvases, answer, Past),
           UNCHANGED <<phase, start, answer, messages, transcript, skewed>>
    PROVE  HInv'
<1>1. Answers!Telling(acc)' = b /\ app' = b.told.app
  BY TellingNext DEF Answers!Streams
<1>2. Past' = Past
  BY DEF Past
<1>3. Counted(app)' /\ Agree(app, Past)'
  <2>1. Counted(b.told.app) /\ Agree(b.told.app, Past)
    BY DEF Stands, Tracks
  <2> QED
    BY <1>1, <1>2, <2>1 DEF Counted, Agree
<1>4. Stands(Answers!Telling(acc), start.canvases, answer, Past)'
  BY <1>1, <1>2
<1>5. (~skewed => AtHome(messages) /\ AtHome(transcript))'
  BY DEF HInv
<1> QED
  BY <1>2, <1>3, <1>4, <1>5 DEF HInv

\* A fragment keeps it.
LEMMA HText ==
    ASSUME WInv, HInv, NEW lead \in BOOLEAN, NEW fence \in BOOLEAN, NEW tail \in BOOLEAN,
           NEW hold \in BOOLEAN, Answers!Text(lead, fence, tail, hold)
    PROVE  HInv'
<1>1. PICK a \in Accs : a = Answers!Telling(acc) /\ Sound(a)
  BY TellingIs DEF WInv, Answers!Text
<1>2. PICK n \in Nat : n = spent.pieces
  BY DEF WInv, WTypes
<1>3. PICK before, after : /\ before = IF lead THEN <<n + 1>> ELSE << >>
                           /\ after = IF tail THEN <<n + (IF lead THEN 2 ELSE 1)>> ELSE << >>
  OBVIOUS
<1>4. PICK f : f = [lead |-> before, fence |-> fence, hold |-> hold, tail |-> after]
  OBVIOUS
<1>5. /\ phase = "streaming" /\ n + Len(before \o after) <= MaxPieces
      /\ Answers!Streams(Answers!PushFragment(a, f))
      /\ UNCHANGED <<phase, start, answer, messages, transcript, skewed>>
  BY <1>1, <1>2, <1>3, <1>4 DEF Answers!Text, Answers!hostVars
<1>6. before \in Content /\ after \in Content
  BY <1>2, <1>3, <1>5, FragmentType
<1>7. Stands(a, start.canvases, answer, Past) /\ Basis(start.canvases, answer, Past)
  BY <1>1, <1>5, BasisIs DEF HInv
<1>8. PICK b \in Accs : b = Answers!PushFragment(a, f)
  BY <1>1, <1>4, <1>6, PushSound
<1>9. Stands(b, start.canvases, answer, Past)
  BY <1>1, <1>4, <1>6, <1>7, <1>8, PushTracks
<1> QED
  BY <1>5, <1>8, <1>9, StreamsStand

\* A block of Anthropic's that starts or stops keeps it.
LEMMA HBlock ==
    ASSUME WInv, HInv, Answers!TextBlockStarts \/ Answers!BlockStops PROVE HInv'
<1>1. PICK a \in Accs : a = Answers!Telling(acc) /\ Sound(a)
  BY TellingIs DEF WInv, Answers!TextBlockStarts, Answers!BlockStops
<1>2. /\ phase = "streaming" /\ UNCHANGED <<phase, start, answer, messages, transcript, skewed>>
  BY DEF Answers!TextBlockStarts, Answers!BlockStops, Answers!turnVars, Answers!hostVars
<1>3. Stands(a, start.canvases, answer, Past) /\ Basis(start.canvases, answer, Past)
  BY <1>1, <1>2, BasisIs DEF HInv
<1>4. ASSUME NEW kind \in Answers!Kinds \cup {"none"}
      PROVE  \E b \in Accs : /\ b = Upstream(a, kind) /\ Sound(b)
                             /\ Stands(b, start.canvases, answer, Past)
  <2>1. PICK b \in Accs : b = Upstream(a, kind) /\ Sound(b) /\ Quiet(a, b)
    BY <1>1, <1>4, UpstreamSound, ParsingQuiet
  <2>2. Stands(b, start.canvases, answer, Past)
    BY <1>3, <2>1, QuietlyStands
  <2> QED
    BY <2>1, <2>2
<1>5. CASE Answers!TextBlockStarts
  <2>1. PICK b \in Accs : b = Upstream(a, "text") /\ Stands(b, start.canvases, answer, Past)
    BY <1>4 DEF Answers!Kinds, Answers!Streamed
  <2>2. Answers!Streams(b)
    BY <1>1, <1>5, <2>1 DEF Answers!TextBlockStarts, Upstream
  <2> QED
    BY <1>2, <2>1, <2>2, StreamsStand
<1>6. CASE Answers!BlockStops
  <2>1. PICK b \in Accs : /\ b = Upstream(a, "none") /\ Sound(b)
                          /\ Stands(b, start.canvases, answer, Past)
    BY <1>4
  <2>2. PICK c \in Accs : /\ c = IF acc.upstream = "text" THEN Answers!FinishFence(b) ELSE b
                          /\ Sound(c) /\ Stands(c, start.canvases, answer, Past)
    BY <1>3, <2>1, FinishSound, FinishTracks
  <2>3. PICK d \in Accs : d = Answers!Close(c) /\ Stands(d, start.canvases, answer, Past)
    BY <1>3, <2>2, CloseSound, CloseStands
  <2>4. Answers!Streams(d)
    BY <1>1, <1>6, <2>1, <2>2, <2>3 DEF Answers!BlockStops, Upstream
  <2> QED
    BY <1>2, <2>3, <2>4, StreamsStand
<1> QED
  BY <1>5, <1>6

\* A tool call or a thought keeps it.
LEMMA HItem ==
    ASSUME WInv, HInv, Answers!Tool \/ Answers!Think PROVE HInv'
<1>1. PICK a \in Accs : a = Answers!Telling(acc) /\ a.by = acc.by /\ Sound(a)
  BY TellingIs DEF WInv, Answers!Tool, Answers!Think
<1>2. /\ phase = "streaming" /\ UNCHANGED <<phase, start, answer, messages, transcript, skewed>>
  BY DEF Answers!Tool, Answers!Think, Answers!turnVars, Answers!hostVars
<1>3. Stands(a, start.canvases, answer, Past) /\ Basis(start.canvases, answer, Past)
  BY <1>1, <1>2, BasisIs DEF HInv
<1>4. CASE Answers!Tool
  <2>1. PICK b \in Accs : b = Answers!ToolCall(a)
    BY <1>1, ToolSound
  <2>2. Answers!Streams(b) /\ Stands(b, start.canvases, answer, Past)
    BY <1>1, <1>3, <1>4, <2>1, ToolTracks DEF Answers!Tool
  <2> QED
    BY <1>2, <2>1, <2>2, StreamsStand
<1>5. CASE acc.by = "gemini"
           /\ Answers!Streams(Answers!EmitChunk(a, Answers!Block("thinking", << >>)))
  <2>1. PICK chunk \in Part : /\ chunk = Answers!Block("thinking", << >>)
                              /\ chunk.kind = "thinking"
    BY BlockType, EmptyContent DEF Answers!Kinds
  <2>2. PICK b \in Accs : b = Answers!EmitChunk(a, chunk)
    BY <1>1, <1>5, EmitChunkSound
  <2>3. Answers!Streams(b)
    BY <1>5, <2>1, <2>2
  <2>4. Stands(b, start.canvases, answer, Past)
    <3>1. a.by # "openai" /\ ~Html(chunk)
      BY <1>1, <1>5, <2>1 DEF Html
    <3> QED
      BY <1>1, <1>3, <2>2, <3>1, EmitChunkTracks
  <2> QED
    BY <1>2, <2>2, <2>3, <2>4, StreamsStand
<1>6. CASE /\ acc.by = "anthropic"
           /\ Answers!Streams([Answers!Open(Answers!Close(a), "thinking")
                                  EXCEPT !.upstream = "thinking"])
  <2>1. PICK b \in Accs : b = [Answers!Open(Answers!Close(a), "thinking")
                                  EXCEPT !.upstream = "thinking"]
    BY <1>1, <1>6, BlockSound
  <2>2. Answers!Streams(b) /\ Stands(b, start.canvases, answer, Past)
    BY <1>1, <1>3, <1>6, <2>1, BlockTracks
  <2> QED
    BY <1>2, <2>1, <2>2, StreamsStand
<1> QED
  BY <1>1, <1>4, <1>5, <1>6 DEF Answers!Think

\* The end of a call keeps it.
LEMMA HCallEnds == ASSUME WInv, HInv, Answers!CallEnds PROVE HInv'
<1>1. PICK a \in Accs : a = Answers!Telling(acc) /\ Sound(a)
  BY TellingIs DEF WInv, Answers!CallEnds
<1>2. phase = "streaming" /\ phase' = "answered"
      /\ UNCHANGED <<start, messages, transcript, skewed>>
  BY DEF Answers!CallEnds, Answers!hostVars
<1>3. Stands(a, start.canvases, answer, Past) /\ Basis(start.canvases, answer, Past)
  BY <1>1, <1>2, BasisIs DEF HInv
<1>4. PICK b \in Accs : /\ b = Answers!Flush(a) /\ Tracks(b, start.canvases, answer, Past)
                        /\ InStep(b.told.app, start.canvases, answer \o Answers!ContentOf(b))
  BY <1>1, <1>3, FlushSound, FlushTracks
<1>5. PICK p \in Apps : p = b.told.app /\ Counted(p) /\ Agree(p, Past)
  BY <1>4, ToldApp DEF Tracks
<1>6. PICK q \in Apps : q = Answers!FlushLiveText(p) /\ Beyond(p, q, {}) /\ q.next_id = p.next_id
  BY LiveTextBeyond
<1>7. app' \in {p, q} /\ answer' = answer \o Answers!ContentOf(b)
  BY <1>1, <1>4, <1>5, <1>6 DEF Answers!CallEnds
<1>8. Past' = Past /\ Past \in Seq(Saved)
  BY <1>2, BasisIs DEF Past
<1>9. /\ Counted(q) /\ Agree(q, Past)
      /\ InStep(q, start.canvases, answer \o Answers!ContentOf(b))
  BY <1>4, <1>5, <1>6, <1>8, LaterLines
<1>10. Counted(app)' /\ Agree(app, Past)' /\ InStep(app, start.canvases, answer)'
  <2>1. /\ Counted(app') /\ Agree(app', Past)
        /\ InStep(app', start.canvases, answer \o Answers!ContentOf(b))
    BY <1>4, <1>5, <1>7, <1>9
  <2>2. start.canvases' = start.canvases
    BY <1>2
  <2> QED
    BY <1>7, <1>8, <2>1, <2>2
<1> QED
  BY <1>2, <1>8, <1>10 DEF HInv

\* A call begins.
LEMMA CallBegins ==
    ASSUME WInv, HInv, NEW by, acc' = Answers!Accumulator(by), phase' = "streaming",
           UNCHANGED <<messages, transcript, skewed>>,
           start.canvases' \in Nat, answer' \in Parts, Counted(app'), Agree(app', Past),
           InStep(app', start.canvases', answer'), Count(Past) <= start.canvases',
           ~skewed => Count(messages) = start.canvases'
    PROVE  HInv'
<1>1. PICK c : c = [view |-> seen', garbled |-> garbled', app |-> app']
  OBVIOUS
<1>2. PICK from, blocks, past : from = start.canvases' /\ blocks = answer' /\ past = Past
  OBVIOUS
<1>3. Past' = Past /\ Past \in Seq(Saved)
  BY BasisIs DEF Past
<1>4. /\ Basis(from, blocks, past) /\ Counted(c.app) /\ Agree(c.app, past)
      /\ InStep(c.app, from, blocks)
  <2>1. c.app = app'
    BY <1>1
  <2> QED
    BY <1>2, <1>3, <2>1 DEF Basis
<1>5. Stands([Answers!Accumulator(by) EXCEPT !.told = c], from, blocks, past)
  BY <1>4, FreshStands
<1>6. Answers!Telling(acc)' = [Answers!Accumulator(by) EXCEPT !.told = c]
  BY <1>1 DEF Answers!Telling
<1>7. Stands(Answers!Telling(acc), start.canvases, answer, Past)'
  BY <1>2, <1>3, <1>5, <1>6
<1>8. (~skewed => AtHome(messages) /\ AtHome(transcript))' /\ (skewed \in BOOLEAN)'
  BY DEF HInv
<1> QED
  BY <1>3, <1>7, <1>8 DEF HInv

\* It is the first of a turn.
LEMMA HStarts ==
    ASSUME WInv, HInv, NEW by \in Answers!Providers, Answers!StartTurn(by) PROVE HInv'
<1>1. PICK e : e = [kind |-> "user", content |-> << >>, id |-> 0, preview |-> FALSE]
  OBVIOUS
<1>2. e \in Entry /\ e.kind # "canvas"
  BY <1>1, EmptyContent DEF Entry
<1>3. PICK p \in Apps : p = app /\ Counted(p) /\ Agree(p, Past) /\ Past \in Seq(Saved)
  BY BasisIs DEF HInv
<1>4. PICK q \in Apps : q = [p EXCEPT !.entries = Append(@, e)]
  BY <1>2, AppendedType
<1>5. q.entries = Append(p.entries, e) /\ q.renderers = p.renderers /\ q.next_id = p.next_id
  BY <1>4 DEF Apps
<1>6. Beyond(p, q, {})
  BY <1>2, <1>5, LineBeyond
<1>7. /\ phase = "idle" /\ phase' = "streaming" /\ acc' = Answers!Accumulator(by)
      /\ UNCHANGED <<messages, transcript, skewed>> /\ app' = q /\ answer' = << >>
      /\ start.canvases' = p.next_id
  BY <1>1, <1>3, <1>4 DEF Answers!StartTurn, Answers!hostVars
<1>8. Counted(q) /\ Agree(q, Past)
  BY <1>3, <1>5, <1>6, LaterLines
<1>9. PICK n \in Nat : n = p.next_id
  BY DEF Apps
<1>10. InStep(q, n, << >>)
  <2>1. Count(<< >>) = 0 /\ Answers!HtmlPlaces(<< >>) = {}
    BY CountNone
  <2> QED
    BY <1>5, <1>9, <2>1 DEF InStep, AllMatch
<1>11. Count(Past) <= n /\ (~skewed => Count(messages) = n)
  <2>1. CASE skewed
    BY <1>9, <2>1, CountNone DEF Past
  <2>2. CASE ~skewed
    BY <1>3, <1>7, <1>9, <2>2 DEF Past, HInv
  <2> QED
    BY <2>1, <2>2
<1>12. << >> \in Parts
  BY DEF Parts
<1> QED
  BY <1>7, <1>8, <1>9, <1>10, <1>11, <1>12, CallBegins

\* It goes on after a tool.
LEMMA HNextCall == ASSUME WInv, HInv, Answers!NextCall PROVE HInv'
<1>1. /\ phase = "answered" /\ phase' = "streaming" /\ acc' = Answers!Accumulator(acc.by)
      /\ UNCHANGED <<messages, transcript, skewed, app, start, answer>>
  BY DEF Answers!NextCall, Answers!turnVars, Answers!hostVars
<1>2. Basis(start.canvases, answer, Past)
  BY <1>1, BasisIs
<1>3. /\ start.canvases' \in Nat /\ answer' \in Parts /\ Count(Past) <= start.canvases'
  BY <1>1, <1>2 DEF Basis
<1>4. /\ Counted(app') /\ Agree(app', Past) /\ InStep(app', start.canvases', answer')
      /\ ~skewed => Count(messages) = start.canvases'
  BY <1>1 DEF HInv
<1> QED
  BY <1>1, <1>3, <1>4, CallBegins

\* How many canvases a turn may leave.
LEMMA SkewsIs ==
    ASSUME NEW blocks \in Parts
    PROVE  Answers!Skews(blocks) <=> app.next_id # start.canvases + Count(blocks)
<1>1. Count(blocks) = Answers!Cardinality(Answers!HtmlPlaces(blocks))
  BY CountIs DEF Parts
<1> QED
  BY <1>1 DEF Answers!Skews

\* A turn that fails keeps it, or the canvases are known no more.
LEMMA HFails == ASSUME WInv, HInv, Answers!TurnFails PROVE HInv'
<1>1. /\ phase # "idle" /\ phase' = "idle" /\ app' \in {app, Answers!FlushLiveText(app)}
      /\ skewed' = (skewed \/ Answers!Skews(<< >>)) /\ UNCHANGED <<start, messages, transcript>>
  BY DEF Answers!TurnFails, Answers!hostVars, Answers!turnVars
<1>2. PICK p \in Apps : p = app /\ Counted(p) /\ Agree(p, Past) /\ Past \in Seq(Saved)
  BY BasisIs DEF HInv
<1>3. PICK q \in Apps : q = Answers!FlushLiveText(p) /\ Beyond(p, q, {}) /\ q.next_id = p.next_id
  BY LiveTextBeyond
<1>4. Counted(q) /\ Agree(q, Past)
  BY <1>2, <1>3, LaterLines
<1>5. Counted(app') /\ Agree(app', Past) /\ app'.next_id = app.next_id
  BY <1>1, <1>2, <1>3, <1>4
<1>6. ~skewed' => ~skewed /\ app.next_id = start.canvases
  <2>1. ~skewed' => ~skewed /\ ~Answers!Skews(<< >>)
    BY <1>1, Zenon
  <2>2. << >> \in Parts
    BY DEF Parts
  <2>3. Answers!Skews(<< >>) <=> app.next_id # start.canvases + Count(<< >>)
    BY <2>2, SkewsIs
  <2>4. Count(<< >>) = 0 /\ start.canvases \in Nat
    BY CountNone DEF HInv
  <2> QED
    BY <2>1, <2>3, <2>4
<1>7. skewed' \in BOOLEAN /\ start.canvases' \in Nat
  BY <1>1, Zenon DEF HInv
<1>8. Agree(app', Past')
  <2>1. CASE skewed'
    BY <2>1, CountNone DEF Past, Agree
  <2>2. CASE ~skewed'
    BY <1>1, <1>5, <1>6, <2>2 DEF Past
  <2> QED
    BY <2>1, <2>2
<1>9. ~skewed' => /\ AtHome(messages') /\ AtHome(transcript')
                  /\ app'.next_id = Count(messages')
  BY <1>1, <1>5, <1>6 DEF HInv
<1> QED
  BY <1>1, <1>5, <1>7, <1>8, <1>9 DEF HInv

\* A turn that completes keeps it, or the canvases are known no more.
LEMMA HCompletes == ASSUME WInv, HInv, Answers!TurnCompletes PROVE HInv'
<1>1. PICK o \in Apps : /\ o = app /\ Counted(o) /\ Agree(o, Past) /\ Past \in Seq(Saved)
                        /\ answer \in Parts /\ messages \in Seq(Saved)
  BY BasisIs DEF HInv
<1>2. PICK p \in Apps : p \in {o, [o EXCEPT !.live_text = last_text]} /\ Beyond(o, p, {})
                        /\ p.next_id = o.next_id /\ app' = Answers!FlushLiveText(p)
  <2>1. PICK p : p = [o EXCEPT !.live_text = last_text]
    OBVIOUS
  <2>2. /\ p \in Apps /\ p.entries = o.entries /\ p.renderers = o.renderers
        /\ p.next_id = o.next_id
    BY <2>1 DEF Apps, WInv, WTypes
  <2>3. Beyond(o, p, {}) /\ Beyond(o, o, {})
    BY <2>2 DEF Beyond, SameCanvas
  <2>4. app' \in {Answers!FlushLiveText(o), Answers!FlushLiveText(p)}
    BY <1>1, <2>1 DEF Answers!TurnCompletes
  <2> QED
    BY <2>1, <2>2, <2>3, <2>4
<1>3. PICK q \in Apps : q = app' /\ Beyond(p, q, {}) /\ q.next_id = p.next_id
  BY <1>2, LiveTextBeyond
<1>4. /\ phase = "answered" /\ phase' = "idle" /\ UNCHANGED start
      /\ skewed' = (skewed \/ Answers!Skews(answer))
      /\ Answers!Save(messages \o Answers!Committed(answer), q)
  BY <1>3 DEF Answers!TurnCompletes, Answers!turnVars
<1>5. PICK from \in Nat : from = start.canvases /\ InStep(o, from, answer)
  BY <1>1, <1>4 DEF HInv
<1>6. Counted(q) /\ Agree(q, Past) /\ InStep(q, from, answer)
  <2>1. Counted(p) /\ Agree(p, Past) /\ InStep(p, from, answer)
    BY <1>1, <1>2, <1>5, LaterLines
  <2> QED
    BY <1>1, <1>3, <2>1, LaterLines
<1>7. skewed' \in BOOLEAN
  BY <1>4, Zenon DEF HInv
<1>8. ASSUME ~skewed'
      PROVE  /\ AtHome(messages') /\ AtHome(transcript') /\ Agree(q, messages')
             /\ q.next_id = Count(messages')
  <2>1. ~skewed /\ ~Answers!Skews(answer)
    BY <1>4, <1>8, Zenon
  <2>2. q.next_id = from + Count(answer)
    BY <1>1, <1>2, <1>3, <1>5, <2>1, SkewsIs
  <2>3. from = Count(messages) /\ AtHome(messages) /\ AtHome(transcript) /\ Past = messages
    BY <1>4, <1>5, <2>1 DEF HInv, Past
  <2>4. AllMatch(q, Count(messages), answer)
    BY <1>6, <2>2, <2>3 DEF InStep
  <2>5. Agree(q, messages)
    BY <1>6, <2>3
  <2>6. PICK after \in Seq(Saved) :
           /\ after = messages \o Answers!Committed(answer)
           /\ Count(after) = Count(messages) + Count(answer) /\ AtHome(after) /\ Agree(q, after)
    BY <1>1, <2>3, <2>4, <2>5, TurnAgrees
  <2>7. PICK stored \in Seq(Saved) :
           /\ stored = Answers!WithStates(after, q) /\ Count(stored) = Count(after)
           /\ AtHome(stored) /\ Agree(q, stored)
    BY <2>6, SavedAgrees
  <2>8. \/ messages' = after /\ transcript' = transcript
        \/ messages' = stored /\ transcript' = stored
    BY <1>4, <2>6, <2>7 DEF Answers!Save
  <2>9. q.next_id = Count(after)
    BY <2>2, <2>3, <2>6
  <2> QED
    BY <2>3, <2>6, <2>7, <2>8, <2>9
<1>9. Agree(q, Past')
  <2>1. CASE skewed'
    BY <2>1, CountNone DEF Past, Agree
  <2>2. CASE ~skewed'
    BY <1>8, <2>2 DEF Past
  <2> QED
    BY <2>1, <2>2
<1>10. start.canvases' \in Nat
  BY <1>4, <1>5
<1> QED
  BY <1>3, <1>4, <1>6, <1>7, <1>8, <1>9, <1>10 DEF HInv

\* Between turns App keeps it.
LEMMA HIdles == ASSUME WInv, HInv, Answers!ClearLog \/ Answers!Resume PROVE HInv'
<1>1. phase = "idle" /\ UNCHANGED <<phase, start, transcript, skewed>>
  BY DEF Answers!ClearLog, Answers!Resume, Answers!turnVars, Answers!hostVars
<1>2. PICK p \in Apps : p = app /\ Counted(p) /\ Agree(p, Past) /\ Past \in Seq(Saved)
  BY BasisIs DEF HInv
<1>3. CASE Answers!ClearLog
  <2>1. PICK q : q = [p EXCEPT !.entries = << >>, !.live_text = << >>]
    OBVIOUS
  <2>2. /\ q \in Apps /\ q.entries = << >> /\ q.renderers = p.renderers
        /\ q.next_id = p.next_id
    <3>1. << >> \in Seq(Entry)
      OBVIOUS
    <3> QED
      BY <2>1, <3>1, EmptyContent DEF Apps
  <2>3. Beyond(p, q, {})
    BY <2>2 DEF Beyond
  <2>4. app' = q /\ UNCHANGED messages
    BY <1>2, <1>3, <2>1 DEF Answers!ClearLog, Answers!hostVars
  <2>5. Counted(q) /\ Agree(q, Past) /\ Past' = Past
    BY <1>1, <1>2, <2>2, <2>3, <2>4, LaterLines DEF Past
  <2>6. Counted(app') /\ Agree(app', Past') /\ app'.next_id = app.next_id
    BY <1>2, <2>2, <2>4, <2>5
  <2> QED
    BY <1>1, <2>4, <2>6 DEF HInv
<1>4. CASE Answers!Resume
  <2>1. transcript \in Seq(Saved)
    BY BasisIs
  <2>2. PICK q : /\ q = Answers!Replayed(transcript, 0) /\ Counted(q)
                 /\ q.next_id = Count(transcript)
                 /\ AtHome(transcript) => Agree(q, transcript)
    BY <2>1, ReplayAgrees
  <2>3. app' = q /\ messages' = transcript
    BY <1>4, <2>2 DEF Answers!Resume
  <2>4. Agree(q, Past')
    <3>1. CASE skewed'
      BY <3>1, CountNone DEF Past, Agree
    <3>2. CASE ~skewed'
      BY <1>1, <2>2, <2>3, <3>2 DEF Past, HInv
    <3> QED
      BY <3>1, <3>2
  <2> QED
    BY <1>1, <2>2, <2>3, <2>4 DEF HInv
<1> QED
  BY <1>3, <1>4

\* Every step keeps it.
LEMMA HStep == WInv /\ HInv /\ [Answers!Next]_(Answers!vars) => HInv'
<1> SUFFICES ASSUME WInv, HInv, [Answers!Next]_(Answers!vars) PROVE HInv'
  OBVIOUS
<1>1. CASE UNCHANGED Answers!vars
  <2>1. /\ UNCHANGED <<phase, acc, seen, garbled, app, answer, messages, transcript>>
        /\ UNCHANGED <<start, skewed>>
    BY <1>1 DEF Answers!vars, Answers!callVars, Answers!turnVars, Answers!hostVars
  <2>2. Past' = Past /\ Answers!Telling(acc)' = Answers!Telling(acc)
    BY <2>1 DEF Past, Answers!Telling
  <2> QED
    BY <2>1, <2>2 DEF HInv
<1>2. CASE Answers!Next
  BY <1>2, HText, HBlock, HItem, HCallEnds, HStarts, HNextCall, HCompletes, HFails, HIdles
     DEF Answers!Next
<1> QED
  BY <1>1, <1>2

\* The interactive state that is saved with a canvas is its own, over any number of turns,
\* saves and resumes, as long as canvases and Html blocks have kept step.
THEOREM StatesHome == Answers!Spec => []StatesReturnHome
<1>1. WInv /\ HInv => StatesReturnHome
  BY DEF HInv, AtHome, StatesReturnHome, Answers!StatesReturnHome
<1> QED
  BY <1>1, WInitially, WStep, HInitially, HStep, PTL DEF Answers!Spec

-----------------------------------------------------------------------------
(* The types.                                                              *)

\* What the bounds count stays within them, a stream is cut or not, and the turn is somewhere.
Within ==
    /\ phase \in {"idle", "streaming", "answered"} /\ cut \in BOOLEAN
    /\ spent.pieces <= MaxPieces /\ spent.items <= MaxItems /\ spent.turns <= MaxTurns

\* It is so at the start.
LEMMA WithinInit == Answers!Init => Within
<1> SUFFICES ASSUME Answers!Init PROVE Within
  OBVIOUS
<1>1. phase = "idle" /\ cut = FALSE /\ spent = [pieces |-> 0, items |-> 0, turns |-> 0]
  BY DEF Answers!Init
<1>2. spent.pieces = 0 /\ spent.items = 0 /\ spent.turns = 0 /\ cut \in BOOLEAN
  BY <1>1
<1> QED
  BY <1>1, <1>2, PiecesAssumption, BoundsAssumption DEF Within

\* And after every step.
LEMMA WithinStep == WTypes /\ Within /\ [Answers!Next]_(Answers!vars) => Within'
<1> SUFFICES ASSUME WTypes, Within, [Answers!Next]_(Answers!vars) PROVE Within'
  OBVIOUS
<1>1. phase' \in {"idle", "streaming", "answered"}
  <2>1. ASSUME NEW by \in Answers!Providers, Answers!StartTurn(by) PROVE phase' = "streaming"
    BY <2>1 DEF Answers!StartTurn
  <2>2. ASSUME NEW lead \in BOOLEAN, NEW fence \in BOOLEAN, NEW tail \in BOOLEAN,
               NEW hold \in BOOLEAN, Answers!Text(lead, fence, tail, hold)
        PROVE  UNCHANGED phase
    BY <2>2 DEF Answers!Text
  <2>3. CASE \/ Answers!TextBlockStarts \/ Answers!BlockStops \/ Answers!Tool
             \/ Answers!Think \/ UNCHANGED Answers!vars
    BY <2>3 DEF Within, Answers!vars, Answers!TextBlockStarts, Answers!BlockStops,
       Answers!Tool, Answers!Think
  <2>4. CASE \/ Answers!CallEnds \/ Answers!NextCall \/ Answers!TurnCompletes
             \/ Answers!TurnFails \/ Answers!ClearLog \/ Answers!Resume
    BY <2>4 DEF Within, Answers!CallEnds, Answers!NextCall, Answers!TurnCompletes,
       Answers!TurnFails, Answers!ClearLog, Answers!Resume
  <2> QED
    BY <2>1, <2>2, <2>3, <2>4 DEF Within, Answers!Next
<1>2. cut' \in BOOLEAN
  <2>1. ASSUME NEW by \in Answers!Providers, Answers!StartTurn(by) PROVE cut' = FALSE
    BY <2>1 DEF Answers!StartTurn
  <2>2. CASE Answers!CallEnds
    BY <2>2, Zenon DEF Answers!CallEnds, Within
  <2>3. ASSUME NEW lead \in BOOLEAN, NEW fence \in BOOLEAN, NEW tail \in BOOLEAN,
               NEW hold \in BOOLEAN, Answers!Text(lead, fence, tail, hold)
        PROVE  UNCHANGED cut
    BY <2>3 DEF Answers!Text
  <2>4. CASE \/ Answers!TextBlockStarts \/ Answers!BlockStops \/ Answers!Tool
             \/ Answers!Think \/ UNCHANGED Answers!vars \/ Answers!NextCall
             \/ Answers!TurnCompletes \/ Answers!TurnFails \/ Answers!ClearLog
             \/ Answers!Resume
    <3>1. UNCHANGED cut
      BY <2>4 DEF Answers!vars, Answers!turnVars, Answers!TextBlockStarts, Answers!BlockStops,
         Answers!Tool, Answers!Think, Answers!NextCall, Answers!TurnCompletes,
         Answers!TurnFails, Answers!ClearLog, Answers!Resume
    <3> QED BY <3>1 DEF Within
  <2>5. \/ Answers!CallEnds \/ UNCHANGED cut \/ cut' = FALSE \/ cut' \in BOOLEAN
    BY <2>1, <2>3, <2>4 DEF Answers!Next
  <2> QED
    BY <2>2, <2>5, Zenon DEF Within
<1>3. /\ spent'.pieces <= MaxPieces /\ spent'.items <= MaxItems /\ spent'.turns <= MaxTurns
  <2>1. CASE UNCHANGED spent
    BY <2>1 DEF Within
  <2>2. ASSUME NEW by \in Answers!Providers, Answers!StartTurn(by)
        PROVE  /\ spent'.pieces = spent.pieces /\ spent'.items = spent.items
               /\ spent'.turns <= MaxTurns
    BY <2>2, BoundsAssumption DEF Answers!StartTurn, WTypes
  <2>3. ASSUME NEW lead \in BOOLEAN, NEW fence \in BOOLEAN, NEW tail \in BOOLEAN,
               NEW hold \in BOOLEAN, Answers!Text(lead, fence, tail, hold)
        PROVE  /\ spent'.pieces <= MaxPieces /\ spent'.items = spent.items
               /\ spent'.turns = spent.turns
    <3>1. PICK n : n <= MaxPieces /\ spent' = [spent EXCEPT !.pieces = n]
      BY <2>3 DEF Answers!Text
    <3> QED BY <3>1 DEF WTypes
  <2>4. ASSUME Answers!Tool \/ Answers!Think
        PROVE  /\ spent'.pieces = spent.pieces /\ spent'.items <= MaxItems
               /\ spent'.turns = spent.turns
    <3>1. spent.items < MaxItems /\ spent' = [spent EXCEPT !.items = @ + 1]
      BY <2>4 DEF Answers!Tool, Answers!Think
    <3> QED BY <3>1, BoundsAssumption DEF WTypes
  <2>5. \/ UNCHANGED spent \/ Answers!Tool \/ Answers!Think
        \/ \E by \in Answers!Providers : Answers!StartTurn(by)
        \/ \E lead, fence, tail, hold \in BOOLEAN : Answers!Text(lead, fence, tail, hold)
    BY DEF Answers!Next, Answers!vars, Answers!TextBlockStarts, Answers!BlockStops,
       Answers!CallEnds, Answers!NextCall, Answers!TurnCompletes, Answers!TurnFails,
       Answers!ClearLog, Answers!Resume
  <2> QED
    BY <2>1, <2>2, <2>3, <2>4, <2>5 DEF Within
<1> QED
  BY <1>1, <1>2, <1>3 DEF Within

\* The variables of the way of an answer have their types.
LEMMA AnswersTyping == Answers!Spec => []Answers!TypeOK
<1>1. WInv /\ HInv /\ Within => Answers!TypeOK
  <2> SUFFICES ASSUME WInv, HInv, Within PROVE Answers!TypeOK
    OBVIOUS
  <2>1. Answers!Blocks = Part /\ Content = Seq(Answers!Pieces)
    BY DEF Answers!Blocks, Part, Content
  <2>2. /\ acc.by \in Answers!Providers /\ acc.inside \in Answers!Streamed
        /\ acc.kept \in Seq(Answers!Blocks) /\ acc.held \in Seq(Answers!Pieces)
        /\ acc.next \in Nat /\ acc.told = Answers!Nobody
        /\ acc.upstream \in Answers!Kinds \cup {"none"} /\ acc.open \in Opens
    BY <2>1 DEF WInv, WTypes, Resting, Parts, Content
  <2>3. acc.open.kind \in Answers!Kinds \cup {"none"}
    BY <2>2 DEF Opens, Answers!None
  <2>4. garbled \in BOOLEAN /\ skewed \in BOOLEAN /\ cut \in BOOLEAN
    BY Zenon DEF WInv, WTypes, HInv, Within
  <2>5. \A i \in DOMAIN messages : messages[i].kind \in Answers!Kinds
    <3>1. messages \in Seq(Saved)
      BY DEF WInv, WTypes
    <3>2. ASSUME NEW x \in Saved PROVE x.kind \in Answers!Kinds
      BY DEF Saved
    <3> QED BY <3>1, <3>2
  <2>6. /\ app.next_id \in Nat /\ app.live_text \in Seq(Answers!Pieces)
        /\ \A id \in DOMAIN app.renderers : id < app.next_id
    BY DEF WInv, WTypes, HInv, Counted, Apps, Content
  <2>7. answer \in Seq(Answers!Blocks) /\ last_text \in Seq(Answers!Pieces)
    BY <2>1 DEF WInv, WTypes, Parts, Content
  <2>8. spent \in [pieces : 0 .. MaxPieces, items : 0 .. MaxItems, turns : 0 .. MaxTurns]
    BY PiecesAssumption, BoundsAssumption DEF WInv, WTypes, Within
  <2> QED
    BY <2>2, <2>3, <2>4, <2>5, <2>6, <2>7, <2>8 DEF Within, Answers!TypeOK
<1>2. WInv => WTypes
  BY DEF WInv
<1> QED
  BY <1>1, <1>2, WInitially, WStep, HInitially, HStep, WithinInit, WithinStep, PTL
     DEF Answers!Spec

\* In every state of a behaviour the variables of the component that runs have their types:
\* the work of every component stays within them, for all values of the constants.
THEOREM RecordsTyping == FocusSpec => []RecordsTypeOK
<1>1. FocusInit => focus \in Foci
  BY DEF FocusInit
<1>2. focus \in Foci /\ [FocusNext]_allVars => (focus \in Foci)'
  BY DEF FocusNext, allVars
<1>3. focus \in Foci /\ TypeOK /\ Permissions!TypeOK /\ Fences!TypeOK /\ Answers!TypeOK
        /\ Routes!TypeOK /\ Installs!TypeOK => RecordsTypeOK
  BY DEF RecordsTypeOK
<1>4. FocusSpec => FocusInit /\ [][FocusNext]_allVars
  BY DEF FocusSpec
<1> QED
  BY <1>1, <1>2, <1>3, <1>4, EachAsAlone, Typing, PermissionsTyping, FencesTyping,
     AnswersTyping, RoutesTyping, InstallsTyping, PTL

=============================================================================

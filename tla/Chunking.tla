------------------------------ MODULE Chunking ------------------------------
(***************************************************************************)
(* How the content of a file becomes the chunks that search finds: the     *)
(* five extractors (crates/pipeline/extract), the limits they keep, and    *)
(* the chunker.  A file is a sequence of items of its format: lines of a   *)
(* text or of a Markdown file, tokens of an HTML file, paragraphs of a     *)
(* DOCX file, pages of a PDF file.  A character is known by the item it    *)
(* comes from, its column and its size in bytes.  What the parsers behind  *)
(* the formats do (lopdf, zip, UTF-8) and their failures are left out, and *)
(* so are spaces: a text has no blank at its ends.                         *)
(***************************************************************************)
EXTENDS Integers, Sequences, FiniteSets, SequencesExt, FiniteSetsExt

CONSTANTS
  Format,       \* the formats looked at
  MaxItems,     \* bound: items of a file
  Widths,       \* bound: characters of a text item
  Wide,         \* the widths of the texts whose characters take 3 bytes
  Levels,       \* bound: levels of a Markdown heading
  Marks,        \* bound: how many '>' a heading's title holds
  MaxChars,     \* MAX_CHARS, the size of a chunk
  OverlapChars, \* OVERLAP_CHARS
  MaxExtracted, \* ExtractLimits::max_extracted_chars
  MaxSegments,  \* ExtractLimits::max_segments
  MaxPages,     \* ExtractLimits::max_pdf_pages
  MaxXml        \* ExtractLimits::max_docx_xml_bytes

ASSUME ChunkingAssumption ==
  /\ Format \subseteq {"text", "markdown", "html", "docx", "pdf"}
  /\ Widths \subseteq Nat \ {0} /\ Wide \subseteq Widths
  /\ Levels \subseteq 1 .. 6 /\ Marks \subseteq Nat
  /\ {MaxItems, MaxExtracted, MaxPages, MaxXml} \subseteq Nat /\ MaxSegments \in Nat \ {0}
  /\ OverlapChars \in Nat /\ MaxChars \in Nat /\ OverlapChars < MaxChars

VARIABLES
  format,   \* of the file
  content,  \* its items
  stage,    \* "found", "extracted" or "chunked"
  output,   \* ExtractOutput: its segments, and whether it has warnings
  chunks    \* Vec<ExtractedChunk>; the first one is the whole document

vars == <<format, content, stage, output, chunks>>

-----------------------------------------------------------------------------
(* A loop over 1 .. n: its state after each number of steps.               *)
Loop(start, Step(_, _), n) ==
  LET after[k \in 0 .. n] == IF k = 0 THEN start ELSE Step(after[k - 1], k)
  IN  after

Sums(numbers)  == Loop(0, LAMBDA sum, k : sum + numbers[k], Len(numbers))
Total(numbers) == Sums(numbers)[Len(numbers)]

(* What a list has at some places, in its order.                           *)
KeptSoFar(list, places) ==
  LET Keep(kept, k) == IF k \in places THEN Append(kept, list[k]) ELSE kept
  IN  Loop(<<>>, Keep, Len(list))
Kept(list, places) == KeptSoFar(list, places)[Len(list)]

Least(a, b)    == IF a < b THEN a ELSE b
Greatest(a, b) == IF a > b THEN a ELSE b

-----------------------------------------------------------------------------
(* Files. *)

Texts     == {[kind |-> "text", width |-> w] : w \in Widths}
Plain(k)  == [kind |-> k]
Headings  == {[kind |-> "heading", level |-> l, marks |-> m] : l \in Levels, m \in Marks}
Fences    == {[kind |-> "fence", mark |-> m] : m \in {"backtick", "tilde"}}
Items(f)  ==
  Texts \cup CASE f = "text"     -> {Plain("blank")}
               [] f = "markdown" -> {Plain("blank")} \cup Headings \cup Fences
               [] f = "html"     -> {Plain(k) : k \in {"block", "open", "close",
                                                       "skip", "endskip", "br"}}
               [] f = "docx"     -> {}
               [] f = "pdf"      -> {Plain("empty"), Plain("unreadable")}

Files(f) == UNION {[1 .. n -> Items(f)] : n \in 0 .. MaxItems}

(* Characters and texts. *)
NewLine    == <<0, 0, 1>>
Word(i, w) == [c \in 1 .. w |-> <<i, c, IF w \in Wide THEN 3 ELSE 1>>]
Seen(text) == ToSet(text) \ {NewLine}

Join(texts) ==
  LET lines == FlattenSeq([k \in DOMAIN texts |-> <<NewLine>> \o texts[k]])
  IN  SubSeq(lines, 2, Len(lines))

Trim(text) ==
  LET ink == {k \in DOMAIN text : text[k] # NewLine}
  IN  IF ink = {} THEN <<>> ELSE SubSeq(text, Min(ink), Max(ink))

Bytes(text) == Total([k \in DOMAIN text |-> text[k][3]])

(* An ExtractedSegment.  path is its heading_path, as the items of the     *)
(* titles in it and their '>'.                                             *)
Segment(kind, text, first, last, path) ==
  [kind |-> kind, text |-> text, first |-> first, last |-> last, path |-> path]

-----------------------------------------------------------------------------
(* Text and Markdown: line by line. *)

LineText(i, line) ==
  CASE line.kind = "text"    -> Word(i, line.width)
    [] line.kind = "heading" -> Word(i, 1)
    [] line.kind = "fence"   -> Word(i, 1)
    [] line.kind = "blank"   -> <<>>

HeadingPath(headings) == [k \in DOMAIN headings |-> headings[k].title]

Close(s, kind, last) ==
  LET segment == Segment(kind, Join(s.lines), s.first, last, HeadingPath(s.headings))
  IN  [s EXCEPT !.segments = Append(@, segment), !.lines = <<>>, !.fence = "none"]

FlushParagraph(s, last) == IF s.lines = <<>> THEN s ELSE Close(s, "paragraph", last)

AddLine(s, i, line) ==
  [s EXCEPT !.lines = Append(@, LineText(i, line)),
            !.first = IF s.lines = <<>> THEN i ELSE @]

(* HeadingStack: a heading ends the ones of its level and below. A faulty  *)
(* variant ends only the ones below.                                       *)
StackedBelow(headings, h) ==
  Append(Kept(headings, {k \in DOMAIN headings : headings[k].level <= h.level}), h)
Stacked(headings, h) ==
  Append(Kept(headings, {k \in DOMAIN headings : headings[k].level < h.level}), h)

AddHeading(s, i, line) ==
  LET title == [unit |-> i, marks |-> line.marks]
      under == Stacked(s.headings, [level |-> line.level, title |-> title])
      path  == HeadingPath(under)
  IN  [FlushParagraph(s, i - 1) EXCEPT
         !.headings = under,
         !.segments = Append(@, Segment("heading", LineText(i, line), i, i, path))]

OpenFence(s, i, line) ==
  [FlushParagraph(s, i - 1) EXCEPT !.fence = line.mark, !.first = i, !.lines = <<>>]

(* A fence that is never closed takes in the rest of the file. *)
CloseFence(s, last) == Close(s, "code", last)

ReadLine(s, i, line) ==
  CASE s.fence # "none" ->
         IF line.kind = "fence" /\ line.mark = s.fence
         THEN CloseFence(s, i)
         ELSE [s EXCEPT !.lines = Append(@, LineText(i, line))]
    [] s.fence = "none" /\ line.kind = "heading" -> AddHeading(s, i, line)
    [] s.fence = "none" /\ line.kind = "fence"   -> OpenFence(s, i, line)
    [] s.fence = "none" /\ line.kind = "blank"   -> FlushParagraph(s, i - 1)
    [] s.fence = "none" /\ line.kind = "text"    -> AddLine(s, i, line)

LinesRead(lines) ==
  LET start == [segments |-> <<>>, lines |-> <<>>, first |-> 0,
                headings |-> <<>>, fence |-> "none"]
  IN  Loop(start, LAMBDA s, i : ReadLine(s, i, lines[i]), Len(lines))

LineSegments(lines) ==
  LET end == LinesRead(lines)[Len(lines)]
  IN  IF end.fence = "none" THEN FlushParagraph(end, Len(lines)).segments
                            ELSE CloseFence(end, Len(lines)).segments

(* normalized.chars().count(): the marks and the line ends count too. *)
LineChars(lines) ==
  LET Size(i) == 1 + Len(LineText(i, lines[i]))
                   + CASE lines[i].kind = "heading" -> lines[i].level + 1
                       [] lines[i].kind = "fence"   -> 2
                       [] OTHER                     -> 0
  IN  Total([i \in DOMAIN lines |-> Size(i)])

-----------------------------------------------------------------------------
(* HTML: a state machine over tags and text, then one segment per block. *)

PushBlock(s) ==
  IF Trim(s.current) = <<>> THEN s
  ELSE LET block == [kind |-> s.kind, text |-> Trim(s.current), path |-> s.headings]
       IN  [s EXCEPT !.blocks = Append(@, block)]

(* The headings of an HTML file are put below each other, of whatever      *)
(* level.  No two have the same title here, and none holds a '>'.          *)
CloseHeading(s) ==
  LET title == Trim(s.current)
      path  == Append(s.headings, [unit |-> Head(title)[1], marks |-> 0])
      block == [kind |-> "heading", text |-> title, path |-> path]
      new   == IF title = <<>> THEN s
               ELSE [s EXCEPT !.headings = path, !.blocks = Append(@, block)]
  IN  [new EXCEPT !.current = <<>>, !.kind = "paragraph"]

ReadToken(s, i, token) ==
  CASE token.kind = "text"    -> IF s.skip > 0 THEN s
                                 ELSE [s EXCEPT !.current = @ \o Word(i, token.width)]
    [] token.kind = "br"      -> [s EXCEPT !.current = Append(@, NewLine)]
    [] token.kind = "skip"    -> [s EXCEPT !.skip = @ + 1]
    [] token.kind = "endskip" -> [s EXCEPT !.skip = Greatest(0, @ - 1)]
    [] token.kind = "open"    -> [PushBlock(s) EXCEPT !.current = <<>>, !.kind = "heading"]
    [] token.kind = "block"   -> [PushBlock(s) EXCEPT !.current = <<>>, !.kind = "paragraph"]
    [] token.kind = "close"   -> CloseHeading(s)

TokensRead(tokens) ==
  LET start == [blocks |-> <<>>, current |-> <<>>, kind |-> "paragraph",
                headings |-> <<>>, skip |-> 0]
  IN  Loop(start, LAMBDA s, i : ReadToken(s, i, tokens[i]), Len(tokens))

HtmlBlocks(tokens) == PushBlock(TokensRead(tokens)[Len(tokens)]).blocks

-----------------------------------------------------------------------------
(* The limits: what is kept is a beginning of the file, and a warning      *)
(* says when something may be missing.                                     *)

Chars(parts)   == [k \in DOMAIN parts |-> Len(parts[k].text)]
Weights(parts) == [k \in DOMAIN parts |-> Bytes(parts[k].text)]

Beginning(parts, sizes, limit) ==
  SubSeq(parts, 1, Max({k \in 0 .. Len(parts) : Sums(sizes)[k] <= limit}))

Output(segments, warned) == [segments |-> segments, warned |-> warned]

(* Faulty variant: the number of segments is cut without a word. *)
LimitedLinesSilently(segments, size) ==
  LET few  == SubSeq(segments, 1, Least(Len(segments), MaxSegments))
      kept == IF size > MaxExtracted THEN Beginning(few, Chars(few), MaxExtracted) ELSE few
  IN  Output(kept, size > MaxExtracted)

LimitedLines(segments, size) ==
  LET few  == SubSeq(segments, 1, Least(Len(segments), MaxSegments))
      kept == IF size > MaxExtracted THEN Beginning(few, Chars(few), MaxExtracted) ELSE few
  IN  Output(kept, Len(few) < Len(segments) \/ size > MaxExtracted)

LimitedText(segments, size) ==
  LET kept == IF size > MaxExtracted
              THEN Beginning(segments, Chars(segments), MaxExtracted) ELSE segments
  IN  Output(SubSeq(kept, 1, Least(Len(kept), MaxSegments)),
             size > MaxExtracted \/ Len(kept) > MaxSegments)

LimitedBlocks(blocks) ==
  LET kept == Beginning(blocks, Chars(blocks), MaxExtracted)
      n    == Least(Len(kept), MaxSegments)
      Of(k) == Segment(blocks[k].kind, blocks[k].text, k, k, blocks[k].path)
  IN  Output([k \in 1 .. n |-> Of(k)], n < Len(blocks) \/ n = MaxSegments)

(* The XML is cut by its size; a paragraph that is not whole is left out. *)
DocxParagraphs(content_) ==
  LET paragraphs == [i \in DOMAIN content_ |-> [text |-> Word(i, content_[i].width)]]
      whole      == Beginning(paragraphs, Weights(paragraphs), MaxXml)
      kept       == Beginning(whole, Chars(whole), MaxExtracted)
      n          == Least(Len(kept), MaxSegments)
      Of(k)      == Segment("paragraph", kept[k].text, k, k, <<>>)
  IN  Output([k \in 1 .. n |-> Of(k)], n < Len(content_))

(* A page is read while the pages before it are within the limit. *)
PagesRead(pages) ==
  LET Read(s, i) ==
        CASE s.size >= MaxExtracted        -> [s EXCEPT !.warned = TRUE]
          [] s.size < MaxExtracted /\ pages[i].kind = "text" ->
               LET text == Word(i, pages[i].width)
               IN  [s EXCEPT !.size = @ + Bytes(text),
                             !.segments = Append(@, Segment("other", text, i, i, <<>>))]
          [] s.size < MaxExtracted /\ pages[i].kind = "empty"      -> s
          [] s.size < MaxExtracted /\ pages[i].kind = "unreadable" -> [s EXCEPT !.warned = TRUE]
  IN  Loop([size |-> 0, segments |-> <<>>, warned |-> FALSE], Read, Least(Len(pages), MaxPages))

PdfPages(pages) ==
  LET end == PagesRead(pages)[Least(Len(pages), MaxPages)]
  IN  Output(end.segments, \/ end.warned
                           \/ MaxPages < Len(pages)
                           \/ Len(pages) > 0 /\ end.size = 0)

Extracted(f, c) ==
  CASE f = "text"     -> LimitedText(LineSegments(c), LineChars(c))
    [] f = "markdown" -> LimitedLines(LineSegments(c), LineChars(c))
    [] f = "html"     -> LimitedBlocks(HtmlBlocks(c))
    [] f = "docx"     -> DocxParagraphs(c)
    [] f = "pdf"      -> PdfPages(c)

-----------------------------------------------------------------------------
(* The chunker. *)

(* chunk_location_quality: every segment of a file has the quality of its  *)
(* format, and only lines are exact.                                       *)
Quality(f) == IF f \in {"text", "markdown"} THEN "exact" ELSE "approximate"

Chunk(kind, text, first, last, path, quality) ==
  [kind |-> kind, text |-> text, first |-> first, last |-> last, path |-> path,
   quality |-> quality]

(* append_text_windows: MaxChars characters at a time, the last ones of a  *)
(* window again in the next, and lines told by the share of the text.      *)
(* Faulty variant: the next window starts where the last one ended.        *)
NextWindowAtEnd(end) == end
NextWindow(end) == Greatest(0, end - OverlapChars)

Windows(text, first, last, path) ==
  LET size     == Len(text)
      lines    == Greatest(1, last - first)
      Line(at) == first + (lines * at) \div size
      from[start \in 0 .. size] ==
        LET end    == Least(start + MaxChars, size)
            window == Chunk("fallback", Trim(SubSeq(text, start + 1, end)),
                            Line(start), Line(end), path, "approximate")
        IN  IF end = size THEN <<window>> ELSE <<window>> \o from[NextWindow(end)]
  IN  IF size = 0 THEN <<>> ELSE from[0]

(* A text of a chunk's size is a chunk, a longer one is cut in windows. *)
Fitted(kind, text, first, last, path, quality) ==
  CASE Seen(text) = {} -> <<>>
    [] Seen(text) # {} /\ Bytes(text) > MaxChars ->
         Windows(text, first, last, path)
    [] Seen(text) # {} /\ Bytes(text) <= MaxChars ->
         <<Chunk(kind, text, first, last, path, quality)>>

(* append_markdown_sections: the level of a heading is read off the '>' of *)
(* its path; a heading of an HTML file that is never closed has none.      *)
PathLevel(path) == Greatest(1, Len(path) + Total([k \in DOMAIN path |-> path[k].marks]))

Title(segment) ==
  LET unit == Head(segment.text)[1]
      own  == {k \in DOMAIN segment.path : segment.path[k].unit = unit}
  IN  IF own = {} THEN [unit |-> unit, marks |-> 0] ELSE segment.path[Min(own)]

SectionsRead(segments) ==
  LET Open(s, k) ==
        LET level == PathLevel(segments[k].path)
            above == SubSeq(s.trail, 1, Least(Len(s.trail), level - 1))
            trail == Append(above, Title(segments[k]))
        IN  [trail    |-> trail,
             sections |-> Append(s.sections, [path |-> trail, members |-> <<k>>])]
      Put(s, k) ==
        IF s.sections = <<>>
        THEN [s EXCEPT !.sections = <<[path |-> <<>>, members |-> <<k>>]>>]
        ELSE [s EXCEPT !.sections[Len(s.sections)].members = Append(@, k)]
      Step(s, k) == IF segments[k].kind = "heading" THEN Open(s, k) ELSE Put(s, k)
  IN  Loop([trail |-> <<>>, sections |-> <<>>], Step, Len(segments))

Sections(segments) == SectionsRead(segments)[Len(segments)].sections

SectionChunks(segments, quality) ==
  LET Of(section) ==
        Fitted("section",
               Join([k \in DOMAIN section.members |-> segments[section.members[k]].text]),
               segments[Head(section.members)].first, segments[Last(section.members)].last,
               section.path, quality)
      sections == Sections(segments)
  IN  FlattenSeq([k \in DOMAIN sections |-> Of(sections[k])])

(* append_paragraph_chunks: paragraphs are put together until they fill a  *)
(* chunk.  The next buffer starts on the line after; a faulty variant      *)
(* starts it on the same line.                                             *)
NextBufferSameLine(last) == last
NextBuffer(last) == last + 1

FlushBuffer(s, quality) ==
  [s EXCEPT !.chunks = @ \o Fitted("paragraph", Trim(s.buffer), s.first, s.last, <<>>, quality),
            !.buffer = <<>>]

ParagraphsRead(segments, quality) ==
  LET Add(s, k) ==
        LET filled == [s EXCEPT !.first = IF @ = 0 THEN segments[k].first ELSE @,
                                !.last = segments[k].last,
                                !.buffer = Append(@ \o segments[k].text, NewLine)]
        IN  IF Bytes(filled.buffer) >= MaxChars
            THEN [FlushBuffer(filled, quality) EXCEPT !.first = NextBuffer(segments[k].last)]
            ELSE filled
  IN  Loop([chunks |-> <<>>, buffer |-> <<>>, first |-> 0, last |-> 0], Add, Len(segments))

ParagraphChunks(segments, quality) ==
  FlushBuffer(ParagraphsRead(segments, quality)[Len(segments)], quality).chunks

DocumentChunk(segments, quality) ==
  IF segments = <<>> THEN Chunk("document", <<>>, 1, 1, <<>>, "unknown")
  ELSE Chunk("document", Join([k \in DOMAIN segments |-> segments[k].text]),
             Head(segments).first, Last(segments).last, <<>>, quality)

Chunked(segments, quality) ==
  LET structured == \E k \in DOMAIN segments : segments[k].kind = "heading"
  IN  <<DocumentChunk(segments, quality)>>
        \o IF structured THEN SectionChunks(segments, quality)
                         ELSE ParagraphChunks(segments, quality)

-----------------------------------------------------------------------------
Init ==
  /\ format \in Format
  /\ content \in Files(format)
  /\ stage = "found"
  /\ output = Output(<<>>, FALSE)
  /\ chunks = <<>>

(* ExtractionWorker::run. *)
ExtractContent ==
  /\ stage = "found"
  /\ stage' = "extracted"
  /\ output' = Extracted(format, content)
  /\ UNCHANGED <<format, content, chunks>>

(* ChunkAndIndexWorker::run. *)
CutInChunks ==
  /\ stage = "extracted"
  /\ stage' = "chunked"
  /\ chunks' = Chunked(output.segments, Quality(format))
  /\ UNCHANGED <<format, content, output>>

Next == ExtractContent \/ CutInChunks
Spec == Init /\ [][Next]_vars

-----------------------------------------------------------------------------
(* Correctness *)

(* Whether an item is text a reader of the file sees: in an HTML file what *)
(* is between a script's or a style's tags is not.                         *)
Depths(tokens) ==
  LET Step(n, k) == CASE tokens[k].kind = "skip"    -> n + 1
                      [] tokens[k].kind = "endskip" -> Greatest(0, n - 1)
                      [] OTHER                      -> n
  IN  Loop(0, Step, Len(tokens))
Hidden(i) == Depths(content)[i] > 0

Letters(i) ==
  CASE content[i].kind = "text" /\ ~Hidden(i) -> Seen(Word(i, content[i].width))
    [] content[i].kind = "heading"            -> Seen(Word(i, 1))
    [] OTHER                                  -> {}

(* Nothing of a file is left out of the extracted text without a warning,  *)
(* whichever limit it meets (RFC-044 section 9.5; types.rs:274-276, "Empty *)
(* means the file was fully and cleanly processed").                       *)
CutIsWarned ==
  stage # "found" /\ ~output.warned =>
    \A i \in DOMAIN content :
      Letters(i) \subseteq UNION {Seen(output.segments[k].text) : k \in DOMAIN output.segments}

(* Every character of the extracted text is in a chunk of its own part of  *)
(* the file, and so is every run of characters one longer than the         *)
(* overlap, wherever the text is cut (chunker.rs:99-297).                  *)
PhrasesStayWhole ==
  stage = "chunked" =>
    \A k \in DOMAIN output.segments :
      LET text == output.segments[k].text
      IN  \A a \in DOMAIN text : \A b \in a .. Least(a + OverlapChars, Len(text)) :
            NewLine \notin ToSet(SubSeq(text, a, b)) =>
              \E c \in 2 .. Len(chunks) :
                ToSet(SubSeq(text, a, b)) \subseteq Seen(chunks[c].text)

(* A chunk that is not a window is embedded, and shown, as its own text:   *)
(* the segments whose lines, pages or blocks overlap its own are the ones  *)
(* it was made of (chunker.rs:186-250, embedding.rs:217-242,               *)
(* snippet.rs:306-316).                                                    *)
Overlapping(chunk) ==
  {k \in DOMAIN output.segments :
     output.segments[k].first <= chunk.last /\ output.segments[k].last >= chunk.first}

EmbeddedFromOwnText ==
  \A c \in DOMAIN chunks :
    chunks[c].kind # "fallback" =>
      UNION {Seen(output.segments[k].text) : k \in Overlapping(chunks[c])} = Seen(chunks[c].text)

(* A chunk of a Markdown file carries the headings it stands under, the    *)
(* outermost first, although the extractor and the chunker each keep a     *)
(* stack of their own and hand levels over as text (markdown.rs:106-128,   *)
(* chunker.rs:99-137) -- as long as no title above it holds the separator. *)
Enclosing(unit) ==
  LET heads == {h \in 1 .. unit : \E k \in DOMAIN output.segments :
                  output.segments[k].kind = "heading" /\ Head(output.segments[k].text)[1] = h}
  IN  {h \in heads : \A g \in heads : g > h => content[g].level > content[h].level}

UnderItsHeadings ==
  (/\ format = "markdown"
   /\ \E k \in DOMAIN output.segments : output.segments[k].kind = "heading"
   /\ \A i \in DOMAIN content : content[i].kind = "heading" => content[i].marks = 0) =>
    \A c \in 2 .. Len(chunks) :
      Seen(chunks[c].text) # {} =>
        LET unit == Min({x[1] : x \in Seen(chunks[c].text)})
            path == chunks[c].path
        IN  /\ ToSet(path) = {[unit |-> h, marks |-> 0] : h \in Enclosing(unit)}
            /\ \A i, j \in DOMAIN path : i < j => path[i].unit < path[j].unit

=============================================================================

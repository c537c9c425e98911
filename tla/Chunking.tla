------------------------------- MODULE Chunking -------------------------------
(***************************************************************************)
(* build_chunks of processing/chunking.py: a document's sections are cut   *)
(* into chunks. The texts of a section go page by page through windows of  *)
(* ChunkTokens tokens, each starting ChunkOverlap before the end of the    *)
(* one before; tables and images become chunks of their own. One counter   *)
(* numbers them all.                                                       *)
(*                                                                         *)
(* A text is its number of tokens; the texts equal to each other are the   *)
(* "stamp" (longer than the 30 characters a watermark needs), all others   *)
(* differ. A table or image is described by what decides on its chunk.     *)
(***************************************************************************)
EXTENDS Integers, Sequences, FiniteSets, SequencesExt

CONSTANTS
    ChunkTokens,     \* settings.chunk_tokens
    ChunkOverlap,    \* settings.chunk_overlap
    ChunkPages,
    Lengths,         \* tokens a text can have
    MaxInRoot,       \* bound: elements before the first heading
    MaxInSection     \* bound: elements below the heading

ASSUME ChunkingAssumption ==
    /\ ChunkTokens \in Nat \ {0} /\ ChunkOverlap \in Nat
    /\ ChunkPages \subseteq Nat /\ Lengths \subseteq Nat \ {0}
    /\ MaxInRoot \in Nat /\ MaxInSection \in Nat

SeparatorTokens == 1   \* the empty line between two texts
WatermarkPages == 3

VARIABLES
    source,     \* the root and a section with a heading: their elements
    cutting,    \* "text": windows of the section's pages, "items": its tables and images
    section,    \* the section being cut
    pagesLeft,  \* pages of its texts still to cut
    windowAt,   \* first token of the next window
    item,       \* the element looked at next
    chunks,
    tableFiles  \* numbers of the large tables stored in full

chunking == <<source, cutting, section, pagesLeft, windowAt, item, chunks, tableFiles>>

Text(page, tokens, stamp) == [type |-> "text", page |-> page, tokens |-> tokens, stamp |-> stamp]
Texts == {Text(p, n, FALSE) : p \in ChunkPages, n \in Lengths}
         \union {Text(p, 1, TRUE) : p \in ChunkPages}
\* what chunk_table tells apart, and whether an image has a file or a caption
TableKinds == {"small", "large", "phantom", "empty"}
ImageKinds == {"pictured", "bare"}
Items == {[type |-> "table", page |-> 1, kind |-> k] : k \in TableKinds}
         \union {[type |-> "image", page |-> 1, kind |-> k] : k \in ImageKinds}
ElementLists(bound) == UNION {[1..n -> Texts \union Items] : n \in 0..bound}

ChunkingTypeOK ==
    /\ cutting \in {"text", "items", "done"} /\ section \in 1..3
    /\ Range(pagesLeft) \subseteq ChunkPages /\ windowAt \in Nat /\ item \in Nat \ {0}
    /\ \A c \in DOMAIN chunks : /\ chunks[c].type \in {"text", "table", "image"}
                                /\ chunks[c].idx \in Nat /\ chunks[c].section \in 1..2
    /\ tableFiles \subseteq Nat

(* ------------------------- the texts of a section ----------------------- *)
\* _page_element_groups: pages in the order in which texts name them
PageOrder(s) ==
    FoldLeft(LAMBDA pages, e : IF e.type # "text" \/ e.page \in Range(pages) THEN pages
                               ELSE Append(pages, e.page),
             <<>>, source[s])

\* _find_watermark_texts: the stamp, once it stands on three pages
StampIsWatermark ==
    Cardinality({e.page : e \in {x \in Range(source[1]) \union Range(source[2]) :
                                     x.type = "text" /\ x.stamp}}) >= WatermarkPages

\* _tokenize_elements: where in the tokens of a page each of its texts stands
Spans(s, page) ==
    FoldLeft(LAMBDA spans, i :
                 LET e == source[s][i]
                     from == IF spans = <<>> THEN 0 ELSE Last(spans).to + SeparatorTokens
                 IN IF e.type # "text" \/ e.page # page \/ (e.stamp /\ StampIsWatermark) THEN spans
                    ELSE Append(spans, [el |-> i, from |-> from, to |-> from + e.tokens]),
             <<>>, [i \in DOMAIN source[s] |-> i])

Tokens(spans) == IF spans = <<>> THEN 0 ELSE Last(spans).to
Least(a, b) == IF a < b THEN a ELSE b
\* Mutant of WindowStep: the overlap is added to the step
WindowStepApart == ChunkTokens + ChunkOverlap
WindowStep == IF ChunkTokens > ChunkOverlap THEN ChunkTokens - ChunkOverlap ELSE 1

Chunk(type, page, els, from, to) ==
    [type |-> type, idx |-> Len(chunks), section |-> section, page |-> page,
     els |-> els, from |-> from, to |-> to]

\* One turn of token_windows and the chunk of chunk_section_text it makes; a
\* window that meets no text makes none.
CutWindow ==
    /\ cutting = "text" /\ pagesLeft # <<>>
    /\ LET page == Head(pagesLeft)
           spans == Spans(section, page)
           end == Least(windowAt + ChunkTokens, Tokens(spans))
           els == {spans[i].el : i \in {j \in DOMAIN spans : spans[j].from < end /\ spans[j].to > windowAt}}
       IN /\ chunks' = IF els = {} THEN chunks
                       ELSE Append(chunks, Chunk("text", page, els, windowAt, end))
          /\ IF end >= Tokens(spans)
             THEN pagesLeft' = Tail(pagesLeft) /\ windowAt' = 0
             ELSE windowAt' = windowAt + WindowStep /\ UNCHANGED pagesLeft
    /\ UNCHANGED <<source, cutting, section, item, tableFiles>>

EndOfText ==
    /\ cutting = "text" /\ pagesLeft = <<>>
    /\ cutting' = "items" /\ item' = 1
    /\ UNCHANGED <<source, section, pagesLeft, windowAt, chunks, tableFiles>>

(* --------------------------- tables and images -------------------------- *)
\* chunk_table and chunk_image give no chunk: a table with nothing in it or
\* garbled, an image with neither file nor caption outside every heading.
Skipped(s, e) ==
    \/ e.type = "table" /\ e.kind \in {"phantom", "empty"}
    \/ e.type = "image" /\ e.kind = "bare" /\ s = 1

LookAtItem ==
    /\ cutting = "items" /\ item <= Len(source[section])
    /\ LET e == source[section][item] IN
       IF e.type = "text" \/ Skipped(section, e) THEN UNCHANGED <<chunks, tableFiles>>
       ELSE /\ chunks' = Append(chunks, Chunk(e.type, e.page, {item}, 0, 0))
            /\ tableFiles' = IF e.type = "table" /\ e.kind = "large"
                             THEN tableFiles \union {Len(chunks)} ELSE tableFiles
    /\ item' = item + 1
    /\ UNCHANGED <<source, cutting, section, pagesLeft, windowAt>>

NextSection ==
    /\ cutting = "items" /\ item > Len(source[section])
    /\ IF section = 1 THEN cutting' = "text" /\ section' = 2 /\ pagesLeft' = PageOrder(2)
                      ELSE cutting' = "done" /\ UNCHANGED <<section, pagesLeft>>
    /\ UNCHANGED <<source, windowAt, item, chunks, tableFiles>>

\* The root comes first, when it has elements.
ChunkingInitOf(document) ==
    /\ source = document
    /\ cutting = "text" /\ section = IF source[1] = <<>> THEN 2 ELSE 1
    /\ pagesLeft = PageOrder(section)
    /\ windowAt = 0 /\ item = 1 /\ chunks = <<>> /\ tableFiles = {}

ChunkingInit ==
    \E r \in ElementLists(MaxInRoot), s \in ElementLists(MaxInSection) : ChunkingInitOf(<<r, s>>)

ChunkingNext == CutWindow \/ EndOfText \/ LookAtItem \/ NextSection
ChunkingSpec == ChunkingInit /\ [][ChunkingNext]_chunking

(* ------------------------------ Properties ------------------------------ *)
ChunksOf(s, i) == {c \in DOMAIN chunks : chunks[c].section = s /\ i \in chunks[c].els}

\* When the document is cut, every token of every text but a watermark lies in
\* a chunk that names its text, every table and image that is not skipped has
\* one chunk, and the chunk of a large table carries the number of its file
\* (token_windows, the spans and the running number taken together).
EveryElementIsChunked ==
    cutting = "done" => \A s \in 1..2 : \A i \in DOMAIN source[s] :
        LET e == source[s][i] IN
        IF e.type = "text"
        THEN \/ e.stamp /\ StampIsWatermark
             \/ \E k \in DOMAIN Spans(s, e.page) : LET span == Spans(s, e.page)[k] IN
                   /\ span.el = i /\ span.to - span.from = e.tokens
                   /\ \A t \in span.from..(span.to - 1) : \E c \in ChunksOf(s, i) :
                         chunks[c].page = e.page /\ t \in chunks[c].from..(chunks[c].to - 1)
        ELSE /\ Cardinality(ChunksOf(s, i)) = IF Skipped(s, e) THEN 0 ELSE 1
             /\ e.type = "table" /\ e.kind = "large" =>
                   \E c \in ChunksOf(s, i) : chunks[c].idx \in tableFiles

\* A chunk holds at most ChunkTokens tokens of one page of one section, no two
\* have the same number, and two windows of a page that follow each other
\* share ChunkOverlap tokens (one less than a window, should the overlap be
\* set longer than that). Windows of one token are left out of this: one on
\* an empty line is no chunk.
ChunksAreWindows ==
    /\ \A c \in DOMAIN chunks :
        /\ chunks[c].to - chunks[c].from <= ChunkTokens
        /\ \A i \in chunks[c].els : source[chunks[c].section][i].page = chunks[c].page
    /\ \A c, d \in DOMAIN chunks : c < d =>
        /\ chunks[c].idx < chunks[d].idx
        /\ ChunkTokens > SeparatorTokens
              /\ d = c + 1 /\ chunks[c].type = "text" /\ chunks[d].type = "text"
              /\ chunks[c].page = chunks[d].page /\ chunks[c].section = chunks[d].section
           => chunks[c].to - chunks[d].from = ChunkTokens - WindowStep

\* The chunks are the document: nothing is lost and nothing is cut otherwise
\* than in windows (build_chunks).
ChunksCoverTheDocument == EveryElementIsChunked /\ ChunksAreWindows

===============================================================================

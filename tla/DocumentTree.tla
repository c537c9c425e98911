---------------------------- MODULE DocumentTree ----------------------------
(***************************************************************************)
(* The tree of sections of one document: built from the elements of the    *)
(* partition, completed with the tables and figures found in the file      *)
(* (processing/structure.py, tables.py, images.py), stored as JSON and     *)
(* read back by whoever did not build it (processing/tree.py).             *)
(*                                                                         *)
(* A section or an element is named by its position in "sections" or       *)
(* "refs"; the root is section 1. An element's "id" is what the program    *)
(* numbers it with. A bounding box is a place on the page: two boxes       *)
(* overlap when they are the same place.                                   *)
(***************************************************************************)
EXTENDS Integers, Sequences, FiniteSets, SequencesExt, Filters

CONSTANTS
    LastPage,   \* pages of the document
    MaxLevel,   \* bound: depth of its headings
    Places,     \* where on a page a box can be
    NoBox,
    ElementBoxes, \* those of the elements the partition gives
    MaxParts    \* bound: elements, tables, figures and vector pages together

ASSUME TreeAssumption ==
    /\ LastPage \in Nat \ {0} /\ MaxLevel \in Nat \ {0} /\ MaxParts \in Nat
    /\ NoBox \notin Places /\ ElementBoxes \subseteq Places \union {NoBox}

VARIABLES
    treePhase,
    sections,   \* the Section objects, in the order they are made
    openPath,   \* stack of build_tree
    refs,       \* the ElementRef objects
    placed,     \* all_elements, later called placeholders
    counted,    \* el_counter
    numPages,
    inputs,     \* history: tables, figures and vector pages found, headings and drops
    storedTree  \* the sections of the stored JSON, in the order of walk_sections

tree == <<treePhase, sections, openPath, refs, placed, counted, numPages, inputs, storedTree>>

DocPages == 1..LastPage
Boxes == Places \union {NoBox}
Unset == 0
Phases == {"partition", "tables", "images", "serialize", "done"}

Root == [level |-> 0, parent |-> 0, first |-> 1, last |-> 1, elements |-> <<>>]
Ref(id, type, page, box) ==
    [id |-> id, type |-> type, page |-> page, box |-> box,
     table |-> Unset, figure |-> Unset, vector |-> FALSE]

TreeTypeOK ==
    /\ treePhase \in Phases
    /\ \A s \in DOMAIN sections :
        /\ sections[s].level \in 0..MaxLevel /\ sections[s].parent \in 0..(s - 1)
        /\ sections[s].first \in DocPages /\ sections[s].last \in DocPages
        /\ Range(sections[s].elements) \subseteq DOMAIN refs
    /\ Range(openPath) \subseteq DOMAIN sections /\ Range(placed) \subseteq DOMAIN refs
    /\ \A h \in DOMAIN refs : /\ refs[h].type \in {"text", "table", "image"}
                              /\ refs[h].page \in DocPages /\ refs[h].box \in Boxes
    /\ counted \in Nat /\ numPages \in DocPages

TreeInit ==
    /\ treePhase = "partition" /\ sections = <<Root>> /\ openPath = <<1>>
    /\ refs = <<>> /\ placed = <<>> /\ counted = 0 /\ numPages = 1
    /\ inputs = [parts |-> 0, drops |-> 0, tables |-> <<>>, figures |-> <<>>, vector |-> {}]
    /\ storedTree = <<>>

Larger(a, b) == IF a > b THEN a ELSE b
Smaller(a, b) == IF a < b THEN a ELSE b

(* ------------------------------ build_tree ------------------------------ *)
Reading(page, drops) ==
    /\ treePhase = "partition" /\ inputs.parts < MaxParts
    /\ inputs' = [inputs EXCEPT !.parts = @ + 1, !.drops = @ + drops]
    /\ numPages' = Larger(numPages, page)
    /\ UNCHANGED <<treePhase, storedTree>>

\* Mutant of OpenAbove: a section of the level of the new heading stays open
OpenUpTo(level) == Kept(openPath, {s \in DOMAIN sections : sections[s].level <= level})

\* Sections of the level of the new heading, or deeper, are closed.
OpenAbove(level) == Kept(openPath, {s \in DOMAIN sections : sections[s].level < level})

ReadHeading(page, level) ==
    /\ Reading(page, 0)
    /\ LET above == OpenAbove(level) IN
       /\ sections' = Append(sections, [Root EXCEPT !.level = level, !.parent = Last(above),
                                                    !.first = page, !.last = page])
       /\ openPath' = Append(above, Len(sections) + 1)
    /\ UNCHANGED <<refs, placed, counted>>

\* A heading without text is passed over, and not even counted.
ReadEmptyHeading(page) ==
    /\ Reading(page, 0)
    /\ UNCHANGED <<sections, openPath, refs, placed, counted>>

\* The element goes to the innermost open section; every open section but the
\* root comes to reach the element's page.
Stretched(s, page) ==
    [sections[s] EXCEPT !.first = Smaller(@, page), !.last = Larger(@, page)]

ReadElement(type, page, box) ==
    /\ Reading(page, 0)
    /\ counted' = counted + 1
    /\ refs' = Append(refs, Ref(counted + 1, type, page, box))
    /\ placed' = Append(placed, Len(refs) + 1)
    /\ LET reach == [s \in DOMAIN sections |->
                        IF s # 1 /\ s \in Range(openPath) THEN Stretched(s, page) ELSE sections[s]]
       IN sections' = [reach EXCEPT ![Last(openPath)].elements = Append(@, Len(refs) + 1)]
    /\ UNCHANGED openPath

\* Footers, page breaks and texts without text are counted and dropped.
ReadDropped(page) ==
    /\ Reading(page, 1)
    /\ counted' = counted + 1
    /\ UNCHANGED <<sections, openPath, refs, placed>>

EndOfElements ==
    /\ treePhase = "partition" /\ treePhase' = "tables"
    /\ UNCHANGED <<sections, openPath, refs, placed, counted, numPages, inputs, storedTree>>

(* ---------------------------- enrich_tables ----------------------------- *)
\* Finds of the extractors come in the order of their pages.
Finds(room) ==
    {f \in UNION {[1..n -> [page : DocPages, box : Places]] : n \in 0..room} :
        \A i, j \in DOMAIN f : i < j => f[i].page <= f[j].page}
Room == MaxParts - inputs.parts
Numbers(seq) == [i \in DOMAIN seq |-> i]
OfType(type) == Kept(placed, {h \in DOMAIN refs : refs[h].type = type})
OnPageOf(page, tables) == {i \in DOMAIN tables : tables[i].page = page}

\* Mutant of BestTable: a table that an element has already may be given again
BestTableAgain(h, tables, used) ==
    LET here == Kept(Numbers(tables), OnPageOf(refs[h].page, tables))
    IN IF here = <<>> THEN Unset ELSE Head(here)

\* The candidate that overlaps the element and comes first, else the first one.
BestTable(h, tables, used) ==
    LET free == Kept(Numbers(tables), OnPageOf(refs[h].page, tables) \ used)
        over == Kept(free, {i \in DOMAIN tables : tables[i].box = refs[h].box})
    IN IF over # <<>> THEN Head(over) ELSE IF free # <<>> THEN Head(free) ELSE Unset

\* match_to_placeholder: the table of each element, if it gets one
TableOf(tables) ==
    FoldLeft(LAMBDA m, h : [m EXCEPT ![h] = BestTable(h, tables, Range(m))],
             [h \in DOMAIN refs |-> Unset], OfType("table"))

\* Tables without an element get one, numbered from the length of the list.
SyntheticTables(tables, matched) ==
    LET left == Kept(Numbers(tables), DOMAIN tables \ matched)
    IN [k \in DOMAIN left |->
           [Ref(Len(placed) + k, "table", tables[left[k]].page, tables[left[k]].box)
               EXCEPT !.table = left[k]]]

\* _suppress_text_in_table_bboxes: text in the place of a table
Covered(all, held, h) ==
    /\ all[h].type = "text" /\ all[h].box # NoBox
    /\ \E g \in held : all[g].type = "table" /\ all[g].page = all[h].page /\ all[g].box = all[h].box

Held(secs) == UNION {Range(secs[s].elements) : s \in DOMAIN secs}

AttachTables(tables) ==
    LET m == TableOf(tables)
        new == SyntheticTables(tables, Range(m))
        all == [h \in DOMAIN refs |-> [refs[h] EXCEPT !.table = m[h]]] \o new
        full == [sections EXCEPT ![1].elements = @ \o [k \in DOMAIN new |-> Len(refs) + k]]
    IN /\ refs' = all
       /\ sections' = [s \in DOMAIN full |->
              [full[s] EXCEPT !.elements =
                  Kept(@, {h \in DOMAIN all : ~Covered(all, Held(full), h)})]]

EnrichTables ==
    /\ treePhase = "tables" /\ treePhase' = "images"
    /\ \E tables \in Finds(Room) :
        /\ inputs' = [inputs EXCEPT !.parts = @ + Len(tables), !.tables = tables]
        /\ IF tables = <<>> THEN UNCHANGED <<refs, sections>> ELSE AttachTables(tables)
    /\ UNCHANGED <<openPath, placed, counted, numPages, storedTree>>

(* ---------------------------- enrich_images ----------------------------- *)
\* match_image: the first unused image of the page that overlaps, else the first
BestImage(all, images, fig, used) ==
    LET free == Kept(images, {h \in DOMAIN all : all[h].id \notin used /\ all[h].page = fig.page})
        over == Kept(free, {h \in DOMAIN all : all[h].box = fig.box})
    IN IF over # <<>> THEN Head(over) ELSE IF free # <<>> THEN Head(free) ELSE Unset

\* find_section_for_page: the deepest section that reaches the page, the last
\* one among equals
SectionForPage(secs, page) ==
    LET reach == {s \in 2..Len(secs) : page \in secs[s].first..secs[s].last}
    IN IF reach = {} THEN 1
       ELSE CHOOSE s \in reach : \A t \in reach :
                secs[t].level < secs[s].level \/ (secs[t].level = secs[s].level /\ t <= s)

\* Work on images in progress: the objects, the sections, the next number.
Insert(w, ref) ==
    LET h == Len(w.refs) + 1 IN
    [w EXCEPT !.refs = Append(@, ref), !.next = @ + 1, !.placed = Append(@, h),
              !.sections[SectionForPage(w.sections, ref.page)].elements = Append(@, h)]

AttachFigure(figures, images, w, i) ==
    LET fig == figures[i]
        match == BestImage(w.refs, images, fig, w.used)
        done == IF match # Unset THEN w
                ELSE Insert(w, Ref(w.next, "image", fig.page, fig.box))
        h == IF match # Unset THEN match ELSE Len(done.refs)
    IN [done EXCEPT !.refs[h].figure = i, !.used = @ \union {done.refs[h].id}]

\* A page of drawings that has no image element yet gets one.
AttachVectorPage(w, page) ==
    Insert(w, [Ref(w.next, "image", page, NoBox) EXCEPT !.vector = TRUE])

WithImages(figures, vector) ==
    LET start == [refs |-> refs, sections |-> sections, placed |-> placed,
                  used |-> {}, next |-> Len(placed) + 1]
        figs == FoldLeft(LAMBDA w, i : AttachFigure(figures, OfType("image"), w, i),
                         start, Numbers(figures))
        shown == {figs.refs[h].page : h \in {g \in Range(figs.placed) : figs.refs[g].type = "image"}}
        bare == Kept([p \in DocPages |-> p], vector \ shown)
    IN FoldLeft(AttachVectorPage, figs, bare)

EnrichImages ==
    /\ treePhase = "images" /\ treePhase' = "serialize"
    /\ \E figures \in Finds(Room), vector \in SUBSET DocPages :
        /\ Cardinality(vector) + Len(figures) <= Room
        /\ inputs' = [inputs EXCEPT !.parts = @ + Len(figures) + Cardinality(vector),
                                    !.figures = figures, !.vector = vector]
        /\ LET w == WithImages(figures, vector) IN
           refs' = w.refs /\ sections' = w.sections /\ placed' = w.placed
    /\ UNCHANGED <<openPath, counted, numPages, storedTree>>

(* -------------------------- the stored document ------------------------- *)
\* walk_sections: sections are made in the order of the walk, without the root
Walk(secs) == Tail(secs)

\* serialize: the root is stored only in the place of children it does not have
Serialized(secs) == IF Len(secs) > 1 THEN Walk(secs) ELSE secs

Serialize ==
    /\ treePhase = "serialize" /\ treePhase' = "done"
    /\ storedTree' = Serialized(sections)
    /\ UNCHANGED <<sections, openPath, refs, placed, counted, numPages, inputs>>

TreeNext ==
    \/ \E page \in DocPages :
        \/ \E level \in 1..MaxLevel : ReadHeading(page, level)
        \/ ReadEmptyHeading(page)
        \/ \E type \in {"text", "table", "image"}, box \in ElementBoxes : ReadElement(type, page, box)
        \/ ReadDropped(page)
    \/ EndOfElements
    \/ EnrichTables
    \/ EnrichImages
    \/ Serialize

TreeSpec == TreeInit /\ [][TreeNext]_tree

(* ------------------------------ Properties ------------------------------ *)
Homes(h) == UNION {{<<s, i>> : i \in {j \in DOMAIN sections[s].elements : sections[s].elements[j] = h}} :
                       s \in DOMAIN sections}
Partitioned == 1..(counted - inputs.drops)
Made(type) == {h \in DOMAIN refs \ Partitioned : refs[h].type = type}

\* Every element stands in one place of one section, but for text covered by a
\* table once tables were found; so every table and figure found reaches the chunks through exactly
\* one element, and every vector page has an image (enrich_tables,
\* enrich_images: matching, insertion and suppression taken together).
EveryFindHasOneElement ==
    /\ \A h \in DOMAIN refs :
        IF inputs.tables # <<>> /\ Covered(refs, DOMAIN refs, h)
        THEN Homes(h) = {} ELSE Cardinality(Homes(h)) = 1
    /\ treePhase \notin {"partition", "tables"} =>
        \A t \in DOMAIN inputs.tables : Cardinality({h \in DOMAIN refs : refs[h].table = t}) = 1
    /\ treePhase \in {"serialize", "done"} =>
        /\ \A f \in DOMAIN inputs.figures : Cardinality({h \in DOMAIN refs : refs[h].figure = f}) = 1
        /\ \A p \in inputs.vector : \E h \in DOMAIN refs : refs[h].type = "image" /\ refs[h].page = p

\* the section and those around it, without the root: what no set leaves out
\* that has the section, and with each of its sections the one around that
Upward == {C \in SUBSET DOMAIN sections : \A s \in C : sections[s].parent \in C \union {0}}
Around(s) == {a \in 2..Len(sections) : \A C \in Upward : s \in C => a \in C}

\* The sections nest: a heading lies under a shallower one, a section and the
\* ones around it reach the page of each element read into it, and a figure
\* without an element is put where its page is, at the root only when no
\* section reaches it (build_tree, find_section_for_page).
SectionsReachTheirElements ==
    /\ \A s \in 2..Len(sections) : sections[sections[s].parent].level < sections[s].level
    /\ \A s \in DOMAIN sections : \A h \in Range(sections[s].elements) :
        \/ h \in Partitioned /\ \A a \in Around(s) :
              refs[h].page \in sections[a].first..sections[a].last
        \/ refs[h].type = "table" /\ s = 1
        \/ refs[h].type = "image" /\ IF s = 1
              THEN \A a \in 2..Len(sections) : refs[h].page \notin sections[a].first..sections[a].last
              ELSE refs[h].page \in sections[s].first..sections[s].last
    /\ \A h \in Partitioned : refs[h].page <= numPages

\* Numbers of elements repeat only when the partition dropped some, or when
\* tables and figures both got elements of their own: both count on from the
\* same length. Only such a repeat keeps an image from a figure of its page
\* that then gets an element of its own (match_image, its used ids).
NumbersRepeatOnlyAfterDrops ==
    /\ \A g, h \in DOMAIN refs : g # h /\ refs[g].id = refs[h].id =>
        \/ inputs.drops > 0
        \/ Made("table") # {} /\ Made("image") # {}
    /\ treePhase \in {"serialize", "done"} =>
        \A h \in Partitioned, g \in Made("image") :
            /\ refs[h].type = "image" /\ refs[h].figure = Unset
            /\ refs[g].figure # Unset /\ refs[g].page = refs[h].page
            => \E k \in DOMAIN refs \ {h} : refs[k].id = refs[h].id

\* Whoever reads the stored tree walks the sections the builder walked. What
\* the root holds besides (a preamble, tables without an element) is stored
\* only when there is no heading (serialize, deserialize).
StoredTreeKeepsTheSections ==
    treePhase = "done" =>
        /\ \A s \in 2..Len(sections) : storedTree[s - 1] = sections[s]
        /\ \A h \in Held(sections) \ Held(storedTree) :
            h \in Range(sections[1].elements) /\ Len(sections) > 1

\* What is found in the file is in the tree once, and in the stored tree, but
\* for what the root holds when there is a heading.
TreeKeepsWhatIsFound == EveryFindHasOneElement /\ StoredTreeKeepsTheSections

\* The sections nest and their numbered elements are where their pages are.
TreeIsWellNested == SectionsReachTheirElements /\ NumbersRepeatOnlyAfterDrops

=============================================================================

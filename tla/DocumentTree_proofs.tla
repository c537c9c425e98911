------------------------- MODULE DocumentTree_proofs -------------------------
(***************************************************************************)
(* What the tree of sections guarantees for a document of any length: the  *)
(* sections nest, and every element, table and figure is in it once.       *)
(***************************************************************************)
EXTENDS DocumentTree, FoldTheorems

-----------------------------------------------------------------------------
(* The tree: sections, elements and what was found *)

Types == {"text", "table", "image"}
Refs == [id : Nat, type : Types, page : DocPages, box : Boxes, table : Nat, figure : Nat,
         vector : BOOLEAN]
Secs == [level : 0..MaxLevel, parent : Nat, first : DocPages, last : DocPages, elements : Seq(Nat)]
Found == [page : DocPages, box : Places]
Inputs == [parts : Nat, drops : Nat, tables : Seq(Found), figures : Seq(Found),
           vector : SUBSET DocPages]

ShapeInv ==
    /\ treePhase \in Phases
    /\ sections \in Seq(Secs) /\ sections # <<>>
    /\ refs \in Seq(Refs) /\ placed \in Seq(Nat)
    /\ openPath \in Seq(Nat) /\ Range(openPath) \subseteq DOMAIN sections
    /\ 1 \in Range(openPath)
    /\ counted \in Nat /\ numPages \in DocPages /\ inputs \in Inputs

\* Sections hang below sections made before, and less deep.
NestInv ==
    /\ sections[1].parent = 0 /\ sections[1].level = 0
    /\ \A s \in DOMAIN sections : s # 1 =>
        /\ sections[s].parent \in 1..(s - 1)
        /\ sections[sections[s].parent].level < sections[s].level
    /\ Range(openPath) \in Upward

\* Each element read lies in the reach of the sections around it, the others
\* where the page leads.
ReachInv ==
    /\ \A s \in DOMAIN sections : \A h \in Range(sections[s].elements) :
        \/ h \in Partitioned /\ \A a \in Around(s) :
              refs[h].page \in sections[a].first..sections[a].last
        \/ h \notin Partitioned /\ refs[h].type = "table" /\ s = 1
        \/ h \notin Partitioned /\ refs[h].type = "image" /\ IF s = 1
              THEN \A a \in 2..Len(sections) : refs[h].page \notin sections[a].first..sections[a].last
              ELSE refs[h].page \in sections[s].first..sections[s].last
    /\ \A h \in Partitioned : refs[h].page <= numPages

\* The elements of each section.
ElementsIn(secs) == [s \in DOMAIN secs |-> secs[s].elements]
Uncovered == {h \in DOMAIN refs : ~(inputs.tables # <<>> /\ Covered(refs, DOMAIN refs, h))}
HomeInv == Placed(ElementsIn(sections), Uncovered)

\* Nothing but elements yet, numbered as they are counted.
OnlyRead ==
    /\ Len(refs) = counted - inputs.drops /\ placed = Numbers(refs)
    /\ inputs.tables = <<>> /\ inputs.figures = <<>> /\ inputs.vector = {}
    /\ \A h \in DOMAIN refs : refs[h].table = Unset /\ refs[h].figure = Unset

CountInv ==
    /\ counted - inputs.drops \in 0..Len(refs)
    /\ treePhase \in {"partition", "tables"} => OnlyRead
    /\ inputs.drops = 0 /\ (Made("table") = {} \/ Made("image") = {}) =>
          \A h \in DOMAIN refs : refs[h].id = h

ReadInv == ShapeInv /\ NestInv /\ ReachInv /\ HomeInv /\ CountInv

LEMMA TreeConstants ==
    /\ LastPage \in Nat \ {0} /\ MaxLevel \in Nat \ {0} /\ DocPages = 1..LastPage
    /\ 1 \in DocPages /\ \A p \in DocPages : p \in Nat
    /\ ElementBoxes \subseteq Boxes /\ Places \subseteq Boxes /\ NoBox \in Boxes
<1>1. LastPage \in Nat \ {0} /\ MaxLevel \in Nat \ {0} /\ DocPages = 1..LastPage
  BY TreeAssumption DEF TreeAssumption, DocPages
<1>2. 1 \in DocPages /\ \A p \in DocPages : p \in Nat
  BY <1>1
<1> QED
  BY <1>1, <1>2, TreeAssumption DEF TreeAssumption, Boxes

\* A section, an element: their fields.
LEMMA SecIs ==
    ASSUME NEW a \in Secs
    PROVE  /\ a.level \in 0..MaxLevel /\ a.parent \in Nat /\ a.first \in DocPages
           /\ a.last \in DocPages /\ a.elements \in Seq(Nat)
BY DEF Secs

LEMMA RefIs ==
    ASSUME NEW a \in Refs
    PROVE  /\ a.id \in Nat /\ a.type \in Types /\ a.page \in DocPages /\ a.box \in Boxes
           /\ a.table \in Nat /\ a.figure \in Nat
BY DEF Refs

\* What the invariant says of the sequences, by position.
LEMMA ShapeIs ==
    ASSUME ShapeInv
    PROVE  /\ Len(sections) \in Nat \ {0} /\ DOMAIN sections = 1..Len(sections)
           /\ 1 \in DOMAIN sections /\ \A s \in DOMAIN sections : sections[s] \in Secs
           /\ Len(refs) \in Nat /\ DOMAIN refs = 1..Len(refs)
           /\ \A h \in DOMAIN refs : refs[h] \in Refs
           /\ Len(placed) \in Nat /\ DOMAIN placed = 1..Len(placed)
<1>1. Len(sections) \in Nat \ {0} /\ DOMAIN sections = 1..Len(sections)
  BY EmptySeq, LenProperties DEF ShapeInv
<1>2. 1 \in DOMAIN sections
  BY <1>1
<1> QED
  BY <1>1, <1>2, LenProperties DEF ShapeInv

\* Sections around a section depend on the parents only.
LEMMA SameAround ==
    ASSUME DOMAIN sections' = DOMAIN sections, Len(sections') = Len(sections),
           \A s \in DOMAIN sections : sections'[s].parent = sections[s].parent
    PROVE  Upward' = Upward /\ \A s : Around(s)' = Around(s)
<1>1. Upward' = Upward
  BY DEF Upward
<1>2. ASSUME NEW s PROVE Around(s)' = Around(s)
  BY <1>1 DEF Around
<1> QED
  BY <1>1, <1>2

LEMMA TreeInitially ==
    ASSUME TreeInit
    PROVE  ReadInv
<1>1. /\ treePhase = "partition" /\ sections = <<Root>> /\ openPath = <<1>>
      /\ refs = <<>> /\ placed = <<>> /\ counted = 0 /\ numPages = 1
      /\ inputs = [parts |-> 0, drops |-> 0, tables |-> <<>>, figures |-> <<>>, vector |-> {}]
  BY DEF TreeInit
<1>2. Root \in Secs /\ Root.level = 0 /\ Root.parent = 0 /\ Root.elements = <<>>
  BY TreeConstants DEF Secs, Root
<1>3. /\ Len(sections) = 1 /\ DOMAIN sections = {1} /\ sections[1] = Root /\ sections \in Seq(Secs)
      /\ sections # <<>>
  BY <1>1, <1>2
<1>4. /\ Len(refs) = 0 /\ DOMAIN refs = {} /\ refs \in Seq(Refs) /\ placed \in Seq(Nat)
      /\ openPath \in Seq(Nat) /\ DOMAIN openPath = {1} /\ openPath[1] = 1
  BY <1>1
<1>5. Range(openPath) = {1}
  BY <1>4 DEF Range
<1>6. inputs \in Inputs /\ inputs.drops = 0 /\ inputs.tables = <<>> /\ inputs.figures = <<>> /\ inputs.vector = {}
  BY <1>1 DEF Inputs
<1>7. ShapeInv
  BY <1>1, <1>3, <1>4, <1>5, <1>6, TreeConstants DEF ShapeInv, Phases
<1>8. NestInv
  <2>1. Range(openPath) \in Upward
    BY <1>2, <1>3, <1>5 DEF Upward
  <2> QED BY <1>2, <1>3, <2>1 DEF NestInv
<1>9. Partitioned = {}
  <2>1. counted - inputs.drops = 0
    BY <1>1, <1>6
  <2> QED BY <2>1 DEF Partitioned
<1>10. \A s \in DOMAIN sections : sections[s].elements = <<>>
  BY <1>2, <1>3
<1>11. ReachInv
  <2>1. Range(<<>>) = {}
    BY DEF Range
  <2> QED BY <1>9, <1>10, <2>1 DEF ReachInv
<1>12. HomeInv
  BY <1>4, <1>10 DEF HomeInv, Placed, ElementsIn, Uncovered
<1>13. CountInv
  <2>1. Numbers(refs) = <<>>
    BY <1>4 DEF Numbers
  <2>2. counted - inputs.drops = 0 /\ 0 \in 0..0
    BY <1>1, <1>6
  <2> QED BY <1>1, <1>4, <1>6, <2>1, <2>2 DEF CountInv, OnlyRead
<1> QED
  BY <1>7, <1>8, <1>11, <1>12, <1>13 DEF ReadInv

\* What each element read changes.
LEMMA ReadingIs ==
    ASSUME ShapeInv, CountInv, NEW page \in DocPages, NEW drops \in {0, 1}, Reading(page, drops)
    PROVE  /\ treePhase = "partition" /\ treePhase' = "partition"
           /\ inputs' \in Inputs /\ inputs'.drops = inputs.drops + drops /\ inputs.drops \in Nat
           /\ inputs'.tables = <<>> /\ inputs'.figures = <<>> /\ inputs'.vector = {}
           /\ inputs.tables = <<>>
           /\ numPages' \in DocPages /\ numPages <= numPages' /\ page <= numPages'
           /\ counted \in Nat /\ Len(refs) = counted - inputs.drops /\ placed = Numbers(refs)
           /\ \A h \in DOMAIN refs : refs[h].table = Unset /\ refs[h].figure = Unset
           /\ Partitioned = DOMAIN refs
<1>1. /\ treePhase = "partition" /\ treePhase' = "partition" /\ inputs \in Inputs /\ OnlyRead
      /\ inputs' = [inputs EXCEPT !.parts = @ + 1, !.drops = @ + drops]
      /\ numPages' = Larger(numPages, page) /\ numPages \in DocPages /\ counted \in Nat
  BY DEF Reading, ShapeInv, CountInv
<1>2. /\ inputs.parts \in Nat /\ inputs.drops \in Nat /\ inputs.tables \in Seq(Found)
      /\ inputs.figures \in Seq(Found) /\ inputs.vector \in SUBSET DocPages
  BY <1>1 DEF Inputs
<1>3. inputs.parts + 1 \in Nat /\ inputs.drops + drops \in Nat
  BY <1>2
<1>4. /\ inputs'.parts = inputs.parts + 1 /\ inputs'.drops = inputs.drops + drops
      /\ inputs'.tables = inputs.tables /\ inputs'.figures = inputs.figures
      /\ inputs'.vector = inputs.vector /\ inputs' \in Inputs
  BY <1>1, <1>2, <1>3 DEF Inputs
<1>5. numPages' \in DocPages /\ numPages <= numPages' /\ page <= numPages'
  <2>1. page \in Nat /\ numPages \in Nat
    BY <1>1, TreeConstants
  <2> QED BY <1>1, <2>1 DEF Larger
<1>6. Partitioned = DOMAIN refs
  <2>1. Len(refs) = counted - inputs.drops /\ DOMAIN refs = 1..Len(refs)
    BY <1>1, ShapeIs DEF OnlyRead
  <2> QED BY <2>1 DEF Partitioned
<1> QED
  BY <1>1, <1>2, <1>4, <1>5, <1>6 DEF OnlyRead

\* The elements of sections are elements.
LEMMA ElementsAre ==
    ASSUME HomeInv, NEW s \in DOMAIN sections, NEW h \in Range(sections[s].elements)
    PROVE  h \in Uncovered /\ h \in DOMAIN refs
<1>1. PICK k \in DOMAIN sections[s].elements : h = sections[s].elements[k]
  BY DEF Range
<1>2. s \in DOMAIN ElementsIn(sections) /\ ElementsIn(sections)[s] = sections[s].elements
  BY DEF ElementsIn
<1> QED
  BY <1>1, <1>2 DEF HomeInv, Placed, Uncovered

LEMMA ReadHeadingStep ==
    ASSUME ReadInv, NEW page \in DocPages, NEW level \in 1..MaxLevel, ReadHeading(page, level)
    PROVE  ReadInv'
<1> DEFINE n == Len(sections)
           W == {s \in DOMAIN sections : sections[s].level < level}
           above == Kept(openPath, W)
           p == Last(above)
           new == [Root EXCEPT !.level = level, !.parent = p, !.first = page, !.last = page]
<1>1. ShapeInv /\ NestInv /\ ReachInv /\ HomeInv /\ CountInv
  BY DEF ReadInv
<1>2. /\ treePhase = "partition" /\ treePhase' = "partition"
      /\ inputs' \in Inputs /\ inputs'.drops = inputs.drops /\ inputs.drops \in Nat
      /\ inputs'.tables = <<>> /\ inputs'.figures = <<>> /\ inputs'.vector = {}
      /\ inputs.tables = <<>>
      /\ numPages' \in DocPages /\ numPages <= numPages'
      /\ counted \in Nat /\ Len(refs) = counted - inputs.drops /\ placed = Numbers(refs)
      /\ \A h \in DOMAIN refs : refs[h].table = Unset /\ refs[h].figure = Unset
      /\ Partitioned = DOMAIN refs
  <2>1. Reading(page, 0) /\ 0 \in {0, 1}
    BY DEF ReadHeading
  <2>2. inputs.drops \in Nat => inputs.drops + 0 = inputs.drops
    OBVIOUS
  <2> QED BY <1>1, <2>1, <2>2, ReadingIs
<1>3. sections' = Append(sections, new) /\ openPath' = Append(above, n + 1)
  BY DEF ReadHeading, OpenAbove
<1>4. UNCHANGED <<refs, placed, counted>>
  BY DEF ReadHeading
<1>5. /\ n \in Nat \ {0} /\ DOMAIN sections = 1..n /\ 1 \in DOMAIN sections
      /\ \A s \in DOMAIN sections : sections[s] \in Secs /\ s \in Nat
  <2>1. n \in Nat \ {0} /\ DOMAIN sections = 1..n /\ 1 \in DOMAIN sections
        /\ \A s \in DOMAIN sections : sections[s] \in Secs
    BY <1>1, ShapeIs
  <2> QED BY <2>1
<1>6. above \in Seq(Nat) /\ Range(above) = Range(openPath) \intersect W
  BY <1>1, KeptMembers DEF ShapeInv
<1>7. 1 \in Range(above)
  <2>1. sections[1].level = 0 /\ 0 < level
    BY <1>1 DEF NestInv
  <2> QED BY <1>1, <1>5, <1>6, <2>1 DEF ShapeInv
<1>8. p \in Range(above) /\ p \in DOMAIN sections /\ sections[p].level < level
  <2> HIDE DEF above
  <2>1. Len(above) \in Nat /\ DOMAIN above = 1..Len(above) /\ Len(above) # 0
    BY <1>6, <1>7, LenProperties DEF Range
  <2>2. Len(above) \in DOMAIN above
    BY <2>1
  <2> QED BY <1>6, <2>2 DEF Range, Last
<1> HIDE DEF above, p, n
<1>9. /\ new \in Secs /\ new.level = level /\ new.parent = p /\ new.elements = <<>>
  <2>1. Root \in Secs /\ Root.elements = <<>>
    BY TreeConstants DEF Root, Secs
  <2>2. level \in 0..MaxLevel /\ p \in Nat
    BY <1>5, <1>8, TreeConstants
  <2> QED BY <2>1, <2>2 DEF Secs
<1> HIDE DEF new
<1>10. /\ sections' \in Seq(Secs) /\ Len(sections') = n + 1 /\ DOMAIN sections' = 1..(n + 1)
       /\ sections'[n + 1] = new /\ \A s \in 1..n : sections'[s] = sections[s] /\ s \in 1..(n + 1)
       /\ \A s \in 1..(n + 1) : s \in 1..n \/ s = n + 1
  <2>1. sections \in Seq(Secs) /\ Len(sections) = n
    BY <1>1 DEF ShapeInv, n
  <2>2. sections' \in Seq(Secs) /\ Len(sections') = n + 1
    BY <1>3, <1>9, <2>1
  <2>3. DOMAIN sections' = 1..(n + 1)
    BY <2>2, LenProperties
  <2>4. sections'[n + 1] = new /\ \A s \in 1..n : sections'[s] = sections[s] /\ s \in 1..(n + 1)
    BY <1>3, <1>5, <1>9, <2>1
  <2> QED BY <1>5, <2>2, <2>3, <2>4
<1>11. openPath' \in Seq(Nat) /\ Range(openPath') = Range(above) \union {n + 1}
  BY <1>3, <1>5, <1>6, RangeGrows
<1>12. ShapeInv'
  <2>1. sections' # <<>>
    BY <1>5, <1>10
  <2>2. Range(openPath') \subseteq DOMAIN sections' /\ 1 \in Range(openPath')
    BY <1>5, <1>6, <1>7, <1>10, <1>11
  <2> QED BY <1>1, <1>2, <1>4, <1>10, <1>11, <2>1, <2>2 DEF ShapeInv
<1>13. NestInv'
  <2>1. sections'[1].parent = 0 /\ sections'[1].level = 0
    BY <1>1, <1>5, <1>10 DEF NestInv
  <2>2. ASSUME NEW s \in DOMAIN sections', s # 1
        PROVE  /\ sections'[s].parent \in 1..(s - 1)
               /\ sections'[sections'[s].parent].level < sections'[s].level
    <3>1. CASE s \in 1..n
      <4>1. /\ sections[s].parent \in 1..(s - 1)
            /\ sections[sections[s].parent].level < sections[s].level
        BY <1>1, <1>5, <2>2, <3>1 DEF NestInv
      <4>2. sections[s].parent \in 1..n
        BY <1>5, <3>1, <4>1
      <4> QED BY <1>10, <3>1, <4>1, <4>2
    <3>2. CASE s = n + 1
      <4>1. p \in 1..n /\ p \in 1..(s - 1)
        BY <1>5, <1>8, <3>2
      <4> QED BY <1>8, <1>9, <1>10, <3>2, <4>1
    <3> QED BY <1>10, <3>1, <3>2
  <2>3. Range(openPath') \in Upward'
    <3>1. ASSUME NEW s \in Range(openPath') PROVE sections'[s].parent \in Range(openPath') \union {0}
      <4>1. CASE s = n + 1
        BY <1>8, <1>9, <1>10, <1>11, <4>1
      <4>2. CASE s \in Range(above)
        <5>1. s \in 1..n /\ s \in Range(openPath) /\ sections[s].level < level /\ sections'[s] = sections[s]
          BY <1>5, <1>6, <1>10, <4>2
        <5>2. CASE s = 1
          BY <1>1, <5>1, <5>2 DEF NestInv
        <5>3. CASE s # 1
          <6>1. /\ sections[s].parent \in 1..(s - 1)
                /\ sections[sections[s].parent].level < sections[s].level
                /\ sections[s].parent \in Range(openPath) \union {0}
            BY <1>1, <1>5, <5>1, <5>3 DEF NestInv, Upward
          <6>2. sections[s].parent \in Range(openPath) /\ sections[s].parent \in DOMAIN sections
            BY <1>5, <5>1, <6>1
          <6>3. sections[sections[s].parent].level < level
            <7>1. sections[s].level \in Nat /\ sections[sections[s].parent].level \in Nat
              BY <1>5, <5>1, <6>2, SecIs
            <7> QED BY <5>1, <6>1, <7>1
          <6> QED BY <1>6, <1>11, <5>1, <6>2, <6>3
        <5> QED BY <5>2, <5>3
      <4> QED BY <1>11, <4>1, <4>2
    <3> QED BY <1>12, <3>1 DEF Upward, ShapeInv
  <2> QED BY <2>1, <2>2, <2>3 DEF NestInv
<1>14. Partitioned' = Partitioned
  BY <1>2, <1>4 DEF Partitioned
<1>15. ReachInv'
  <2>1. ASSUME NEW s \in DOMAIN sections', NEW h \in Range(sections'[s].elements)
        PROVE  /\ h \in Partitioned' /\ h \in DOMAIN refs
               /\ \A a \in Around(s)' : refs'[h].page \in sections'[a].first..sections'[a].last
    <3>1. s \in 1..n /\ h \in Range(sections[s].elements)
      <4>1. Range(<<>>) = {}
        BY DEF Range
      <4> QED BY <1>9, <1>10, <2>1, <4>1
    <3>2. h \in DOMAIN refs
      BY <1>1, <1>5, <3>1, ElementsAre
    <3>3. h \in Partitioned'
      BY <1>2, <1>14, <3>2
    <3>4. \A a \in Around(s) : refs[h].page \in sections[a].first..sections[a].last
      BY <1>1, <1>2, <1>5, <3>1, <3>2 DEF ReachInv
    <3>5. ASSUME NEW C \in Upward PROVE C \in Upward'
      BY <1>5, <1>10 DEF Upward
    <3>6. DOMAIN sections \in Upward
      <4>1. ASSUME NEW t \in DOMAIN sections PROVE sections[t].parent \in (DOMAIN sections) \union {0}
        <5>1. t \in 1..n /\ (t = 1 \/ sections[t].parent \in 1..(t - 1))
          BY <1>1, <1>5, <4>1 DEF NestInv
        <5>2. sections[1].parent = 0
          BY <1>1 DEF NestInv
        <5> QED BY <1>5, <5>1, <5>2
      <4> QED BY <4>1 DEF Upward
    <3>7. ASSUME NEW a \in Around(s)' PROVE a \in Around(s)
      <4>1. \A C \in Upward : s \in C => a \in C
        BY <3>5, <3>7 DEF Around
      <4>2. a \in DOMAIN sections
        BY <1>5, <3>1, <3>6, <4>1
      <4>3. a \in 2..Len(sections')
        BY <3>7 DEF Around
      <4>4. a \in 2..n
        BY <1>5, <1>10, <4>2, <4>3
      <4> QED BY <4>1, <4>4 DEF Around, n
    <3>8. ASSUME NEW a \in Around(s)' PROVE refs'[h].page \in sections'[a].first..sections'[a].last
      <4>1. a \in Around(s)
        BY <3>7, <3>8
      <4>2. a \in 1..n
        BY <1>5, <4>1 DEF Around, n
      <4> QED BY <1>4, <1>10, <3>4, <4>1, <4>2
    <3> QED BY <3>2, <3>3, <3>8
  <2>2. ASSUME NEW h \in Partitioned' PROVE refs'[h].page <= numPages'
    <3>1. h \in Partitioned /\ refs[h].page <= numPages /\ refs[h].page \in Nat
      BY <1>1, <1>2, <1>14, <2>2, ShapeIs, RefIs, TreeConstants DEF ReachInv
    <3>2. numPages \in Nat /\ numPages' \in Nat
      BY <1>1, <1>2, TreeConstants DEF ShapeInv
    <3> QED BY <1>2, <1>4, <3>1, <3>2
  <2> QED BY <2>1, <2>2 DEF ReachInv
<1>16. Uncovered' = Uncovered
  BY <1>2, <1>4 DEF Uncovered
<1>17. HomeInv'
  <2> DEFINE f == ElementsIn(sections)
             g == ElementsIn(sections')
  <2>1. DOMAIN f = 1..n /\ DOMAIN g = (DOMAIN f) \union {n + 1} /\ n + 1 \notin DOMAIN f
    BY <1>5, <1>10 DEF ElementsIn
  <2>2. g[n + 1] = <<>> /\ \A s \in DOMAIN f : g[s] = f[s]
    BY <1>5, <1>9, <1>10 DEF ElementsIn
  <2>3. Placed(f, Uncovered)
    BY <1>1 DEF HomeInv
  <2> HIDE DEF f, g
  <2>4. Placed(g, Uncovered)
    BY <2>1, <2>2, <2>3, PlacedEmpty
  <2>5. ElementsIn(sections)' = g
    BY DEF g, ElementsIn
  <2> QED BY <1>16, <2>4, <2>5 DEF HomeInv
<1>18. CountInv'
  <2>1. OnlyRead'
    BY <1>2, <1>4 DEF OnlyRead, Numbers
  <2>2. \A type : Made(type)' = Made(type)
    BY <1>4, <1>14 DEF Made
  <2> QED BY <1>1, <1>2, <1>4, <2>1, <2>2 DEF CountInv
<1> QED
  BY <1>12, <1>13, <1>15, <1>17, <1>18 DEF ReadInv

\* A step that reads nothing into the tree.
LEMMA ReadNothingStep ==
    ASSUME ReadInv, NEW page \in DocPages, NEW drops \in {0, 1}, Reading(page, drops),
           UNCHANGED <<sections, openPath, refs, placed>>, counted' = counted + drops
    PROVE  ReadInv'
<1>1. ShapeInv /\ NestInv /\ ReachInv /\ HomeInv /\ CountInv
  BY DEF ReadInv
<1>2. /\ treePhase = "partition" /\ treePhase' = "partition"
      /\ inputs' \in Inputs /\ inputs'.drops = inputs.drops + drops /\ inputs.drops \in Nat
      /\ inputs'.tables = <<>> /\ inputs'.figures = <<>> /\ inputs'.vector = {}
      /\ inputs.tables = <<>>
      /\ numPages' \in DocPages /\ numPages <= numPages'
      /\ counted \in Nat /\ Len(refs) = counted - inputs.drops /\ placed = Numbers(refs)
      /\ \A h \in DOMAIN refs : refs[h].table = Unset /\ refs[h].figure = Unset
      /\ Partitioned = DOMAIN refs
  BY <1>1, ReadingIs
<1>3. /\ counted' \in Nat /\ counted' - inputs'.drops = counted - inputs.drops
      /\ inputs'.drops = 0 => counted' = counted /\ inputs.drops = 0
  BY <1>2
<1>4. ShapeInv'
  BY <1>1, <1>2, <1>3 DEF ShapeInv
<1>5. NestInv'
  BY <1>1 DEF NestInv, Upward
<1>6. Partitioned' = Partitioned
  BY <1>3 DEF Partitioned
<1>7. ReachInv'
  <2>1. \A s : Around(s)' = Around(s)
    BY SameAround
  <2>2. \A h \in Partitioned' : refs'[h].page <= numPages'
    <3>1. \A h \in Partitioned : refs[h].page <= numPages /\ refs[h].page \in Nat
      BY <1>1, <1>2, ShapeIs, RefIs, TreeConstants DEF ReachInv
    <3>2. numPages \in Nat /\ numPages' \in Nat
      BY <1>1, <1>2, TreeConstants DEF ShapeInv
    <3> QED BY <1>2, <1>6, <3>1, <3>2
  <2> QED BY <1>1, <1>6, <2>1, <2>2 DEF ReachInv
<1>8. HomeInv'
  <2>1. Uncovered' = Uncovered
    BY <1>2 DEF Uncovered
  <2> QED BY <1>1, <2>1 DEF HomeInv, ElementsIn
<1>9. CountInv'
  <2>1. OnlyRead'
    BY <1>2, <1>3 DEF OnlyRead, Numbers
  <2>2. \A type : Made(type)' = Made(type)
    BY <1>6 DEF Made
  <2> QED BY <1>1, <1>2, <1>3, <2>1, <2>2 DEF CountInv
<1> QED
  BY <1>4, <1>5, <1>7, <1>8, <1>9 DEF ReadInv

\* One element more, in the section opened last.
LEMMA ReadElementStep ==
    ASSUME ReadInv, NEW page \in DocPages, NEW type \in Types, NEW box \in ElementBoxes,
           ReadElement(type, page, box)
    PROVE  ReadInv'
<1> DEFINE n == Len(refs)
           l == Last(openPath)
           new == Ref(counted + 1, type, page, box)
           open == {s \in DOMAIN sections : s # 1 /\ s \in Range(openPath)}
           reach == [s \in DOMAIN sections |->
                        IF s # 1 /\ s \in Range(openPath) THEN Stretched(s, page) ELSE sections[s]]
<1>1. ShapeInv /\ NestInv /\ ReachInv /\ HomeInv /\ CountInv
  BY DEF ReadInv
<1>2. /\ treePhase = "partition" /\ treePhase' = "partition"
      /\ inputs' \in Inputs /\ inputs'.drops = inputs.drops /\ inputs.drops \in Nat
      /\ inputs'.tables = <<>> /\ inputs'.figures = <<>> /\ inputs'.vector = {}
      /\ inputs.tables = <<>>
      /\ numPages' \in DocPages /\ numPages <= numPages' /\ page <= numPages'
      /\ counted \in Nat /\ Len(refs) = counted - inputs.drops /\ placed = Numbers(refs)
      /\ \A h \in DOMAIN refs : refs[h].table = Unset /\ refs[h].figure = Unset
      /\ Partitioned = DOMAIN refs
  <2>1. Reading(page, 0) /\ 0 \in {0, 1}
    BY DEF ReadElement
  <2>2. inputs.drops \in Nat => inputs.drops + 0 = inputs.drops
    OBVIOUS
  <2> QED BY <1>1, <2>1, <2>2, ReadingIs
<1>3. /\ counted' = counted + 1 /\ refs' = Append(refs, new) /\ placed' = Append(placed, n + 1)
      /\ sections' = [reach EXCEPT ![l].elements = Append(@, n + 1)] /\ UNCHANGED openPath
  BY DEF ReadElement
<1>4. /\ Len(sections) \in Nat /\ DOMAIN sections = 1..Len(sections)
      /\ \A s \in DOMAIN sections : sections[s] \in Secs
      /\ n \in Nat /\ DOMAIN refs = 1..n /\ \A h \in DOMAIN refs : refs[h] \in Refs
  BY <1>1, ShapeIs
<1>5. l \in Range(openPath) /\ l \in DOMAIN sections
  <2>1. /\ Len(openPath) \in Nat /\ DOMAIN openPath = 1..Len(openPath) /\ 1 \in Range(openPath)
        /\ Range(openPath) \subseteq DOMAIN sections
    BY <1>1, LenProperties DEF ShapeInv
  <2>2. Len(openPath) \in DOMAIN openPath
    BY <2>1 DEF Range
  <2> QED BY <2>1, <2>2 DEF Last, Range
<1>6. /\ new \in Refs /\ new.id = counted + 1 /\ new.page = page /\ new.type = type
      /\ new.table = Unset /\ new.figure = Unset
  <2>1. new = [id |-> counted + 1, type |-> type, page |-> page, box |-> box,
               table |-> Unset, figure |-> Unset, vector |-> FALSE]
    BY DEF Ref
  <2>2. counted + 1 \in Nat /\ box \in Boxes /\ Unset \in Nat
    BY <1>2, TreeConstants DEF Unset
  <2> HIDE DEF new
  <2> QED BY <2>1, <2>2 DEF Refs
<1> HIDE DEF new, l
<1>7. /\ refs' \in Seq(Refs) /\ Len(refs') = n + 1 /\ DOMAIN refs' = 1..(n + 1) /\ refs'[n + 1] = new
      /\ \A h \in DOMAIN refs : refs'[h] = refs[h] /\ h \in 1..(n + 1) /\ h # n + 1
      /\ \A h \in 1..(n + 1) : h \in DOMAIN refs \/ h = n + 1
  <2>1. refs' \in Seq(Refs) /\ Len(refs') = n + 1 /\ DOMAIN refs' = 1..(n + 1)
    BY <1>1, <1>3, <1>6, LenProperties DEF ShapeInv
  <2>2. refs'[n + 1] = new /\ \A h \in 1..n : refs'[h] = refs[h] /\ h \in 1..(n + 1) /\ h # n + 1
    BY <1>1, <1>3, <1>4, <1>6 DEF ShapeInv
  <2> QED BY <1>4, <2>1, <2>2
<1>8. /\ placed' \in Seq(Nat) /\ placed' = Numbers(refs')
  <2>1. placed \in Seq(Nat) /\ Len(placed) = n /\ \A i \in 1..n : placed[i] = i
    BY <1>1, <1>2, <1>4, ShapeIs DEF Numbers, ShapeInv
  <2>2. /\ placed' \in Seq(Nat) /\ Len(placed') = n + 1 /\ placed'[n + 1] = n + 1
        /\ \A i \in 1..n : placed'[i] = placed[i]
    BY <1>3, <1>4, <2>1
  <2>3. placed' = [i \in 1..(n + 1) |-> placed'[i]]
    BY <2>2, ByElements
  <2>4. \A i \in 1..(n + 1) : placed'[i] = i
    BY <1>4, <2>1, <2>2
  <2> QED BY <1>7, <2>2, <2>3, <2>4 DEF Numbers
\* the sections
<1>9. ASSUME NEW s \in DOMAIN sections
      PROVE  /\ reach[s] \in Secs /\ reach[s].level = sections[s].level
             /\ reach[s].parent = sections[s].parent /\ reach[s].elements = sections[s].elements
             /\ reach[s].first <= sections[s].first /\ sections[s].last <= reach[s].last
             /\ s \in open => page \in reach[s].first..reach[s].last
  <2>1. /\ sections[s] \in Secs /\ sections[s].first \in DocPages /\ sections[s].last \in DocPages
        /\ sections[s].first \in Nat /\ sections[s].last \in Nat /\ page \in Nat
    BY <1>4, SecIs, TreeConstants
  <2>2. CASE ~(s # 1 /\ s \in Range(openPath))
    <3>1. reach[s] = sections[s]
      BY <2>2
    <3> QED BY <2>1, <2>2, <3>1
  <2>3. CASE s # 1 /\ s \in Range(openPath)
    <3> DEFINE x == Smaller(sections[s].first, page)
               y == Larger(sections[s].last, page)
    <3>1. /\ x \in DocPages /\ y \in DocPages /\ x <= sections[s].first /\ sections[s].last <= y
          /\ page \in x..y
      BY <2>1, TreeConstants DEF Smaller, Larger
    <3>2. reach[s] = [sections[s] EXCEPT !.first = x, !.last = y]
      BY <2>3 DEF Stretched
    <3> HIDE DEF x, y
    <3>3. /\ reach[s] \in Secs /\ reach[s].first = x /\ reach[s].last = y
          /\ reach[s].level = sections[s].level /\ reach[s].parent = sections[s].parent
          /\ reach[s].elements = sections[s].elements
      BY <2>1, <3>1, <3>2 DEF Secs
    <3> QED BY <3>1, <3>3
  <2> QED BY <2>2, <2>3
<1>10. DOMAIN reach = DOMAIN sections
  OBVIOUS
<1> HIDE DEF reach
<1>11. DOMAIN sections' = DOMAIN sections
  BY <1>3, <1>10
<1>12. ASSUME NEW s \in DOMAIN sections
       PROVE  /\ sections'[s] \in Secs /\ sections'[s].level = sections[s].level
              /\ sections'[s].parent = sections[s].parent
              /\ sections'[s].elements = IF s = l THEN Append(sections[s].elements, n + 1)
                                                  ELSE sections[s].elements
              /\ sections'[s].first <= sections[s].first /\ sections[s].last <= sections'[s].last
              /\ s \in open => page \in sections'[s].first..sections'[s].last
  <2>1. CASE s = l
    <3> DEFINE e == Append(reach[s].elements, n + 1)
    <3>1. sections'[s] = [reach[s] EXCEPT !.elements = e]
      BY <1>3, <1>5, <1>10, <2>1
    <3>2. e \in Seq(Nat) /\ e = Append(sections[s].elements, n + 1)
      <4>1. sections[s].elements \in Seq(Nat) /\ n + 1 \in Nat
        BY <1>4, SecIs
      <4>2. reach[s].elements = sections[s].elements
        BY <1>9
      <4> QED BY <4>1, <4>2
    <3> HIDE DEF e
    <3>3. /\ sections'[s] \in Secs /\ sections'[s].elements = e
          /\ sections'[s].level = reach[s].level /\ sections'[s].parent = reach[s].parent
          /\ sections'[s].first = reach[s].first /\ sections'[s].last = reach[s].last
      BY <1>9, <3>1, <3>2 DEF Secs
    <3> QED BY <1>9, <2>1, <3>2, <3>3
  <2>2. CASE s # l
    <3>1. sections'[s] = reach[s]
      BY <1>3, <1>10, <2>2
    <3> QED BY <1>9, <2>2, <3>1
  <2> QED BY <2>1, <2>2
<1>13. sections' \in Seq(Secs) /\ Len(sections') = Len(sections) /\ sections' # <<>>
  <2>1. sections' = [s \in 1..Len(sections) |-> sections'[s]]
    <3>1. DOMAIN sections' = 1..Len(sections)
      BY <1>4, <1>11
    <3>2. sections' = [s \in DOMAIN sections |-> sections'[s]]
      BY <1>3, <1>10, <1>11
    <3> QED BY <1>4, <3>2
  <2>2. sections' \in Seq(Secs)
    BY <1>4, <1>12, <2>1
  <2>3. Len(sections') = Len(sections)
    BY <1>4, <1>11, <2>2, LenProperties
  <2>4. Len(sections) # 0
    BY <1>1, ShapeIs
  <2> QED BY <2>2, <2>3, <2>4
<1>14. ShapeInv'
  <2>1. counted' \in Nat
    BY <1>2, <1>3
  <2> QED BY <1>1, <1>2, <1>3, <1>7, <1>8, <1>11, <1>13, <2>1 DEF ShapeInv
<1>15. Upward' = Upward /\ \A s : Around(s)' = Around(s)
  BY <1>11, <1>12, <1>13, SameAround
<1>16. NestInv'
  <2>1. 1 \in DOMAIN sections
    BY <1>1, ShapeIs
  <2>2. ASSUME NEW s \in DOMAIN sections', s # 1
        PROVE  /\ sections'[s].parent \in 1..(s - 1)
               /\ sections'[sections'[s].parent].level < sections'[s].level
    <3>1. /\ sections[s].parent \in 1..(s - 1)
          /\ sections[sections[s].parent].level < sections[s].level
      BY <1>1, <1>11, <2>2 DEF NestInv
    <3>2. sections[s].parent \in DOMAIN sections
      BY <1>4, <1>11, <3>1
    <3> QED BY <1>11, <1>12, <3>1, <3>2
  <2> QED BY <1>1, <1>3, <1>12, <1>15, <2>1, <2>2 DEF NestInv
<1>17. Partitioned' = DOMAIN refs' /\ counted' - inputs'.drops = n + 1
  BY <1>2, <1>3, <1>4, <1>7 DEF Partitioned
<1>18. ReachInv'
  <2>1. ASSUME NEW s \in DOMAIN sections', NEW h \in Range(sections'[s].elements)
        PROVE  /\ h \in Partitioned'
               /\ \A a \in Around(s)' : refs'[h].page \in sections'[a].first..sections'[a].last
    <3>1. (s = l /\ h = n + 1) \/ h \in Range(sections[s].elements)
      <4>1. CASE s = l
        <5>1. sections[l].elements \in Seq(Nat) /\ n + 1 \in Nat
          BY <1>4, <1>5, SecIs
        <5>2. Range(Append(sections[l].elements, n + 1)) = Range(sections[l].elements) \union {n + 1}
          BY <5>1, RangeGrows
        <5> QED BY <1>5, <1>12, <2>1, <4>1, <5>2
      <4>2. CASE s # l
        BY <1>11, <1>12, <2>1, <4>2
      <4> QED BY <4>1, <4>2
    <3>2. CASE h \in Range(sections[s].elements)
      <4>1. h \in DOMAIN refs
        BY <1>1, <1>11, <3>2, ElementsAre
      <4>2. \A a \in Around(s) : refs[h].page \in sections[a].first..sections[a].last
        BY <1>1, <1>2, <1>11, <3>2, <4>1 DEF ReachInv
      <4>3. ASSUME NEW a \in Around(s) PROVE refs[h].page \in sections'[a].first..sections'[a].last
        <5>1. a \in DOMAIN sections
          BY <1>4, <4>3 DEF Around
        <5>2. /\ sections'[a].first <= sections[a].first /\ sections[a].last <= sections'[a].last
              /\ sections'[a].first \in Nat /\ sections[a].first \in Nat
              /\ sections'[a].last \in Nat /\ sections[a].last \in Nat
          BY <1>4, <1>12, <5>1, SecIs, TreeConstants
        <5> QED BY <4>2, <4>3, <5>2
      <4> QED BY <1>7, <1>15, <1>17, <4>1, <4>3
    <3>3. CASE s = l /\ h = n + 1
      <4>1. ASSUME NEW a \in Around(s) PROVE page \in sections'[a].first..sections'[a].last
        <5>1. Range(openPath) \in Upward
          BY <1>1 DEF NestInv
        <5>2. a \in Range(openPath) /\ a \in 2..Len(sections)
          BY <1>5, <3>3, <4>1, <5>1 DEF Around
        <5>3. a \in DOMAIN sections /\ a # 1
          BY <1>4, <5>2
        <5>4. a \in open
          BY <5>2, <5>3
        <5> QED BY <1>12, <5>3, <5>4
      <4>2. refs'[h].page = page /\ h \in DOMAIN refs'
        <5>1. n + 1 \in 1..(n + 1)
          BY <1>4
        <5> QED BY <1>6, <1>7, <3>3, <5>1
      <4> QED BY <1>15, <1>17, <4>1, <4>2
    <3> QED BY <3>1, <3>2, <3>3
  <2>2. ASSUME NEW h \in Partitioned' PROVE refs'[h].page <= numPages'
    <3>1. CASE h \in DOMAIN refs
      <4>1. refs[h].page <= numPages /\ refs[h].page \in Nat
        BY <1>1, <1>2, <1>4, <3>1, RefIs, TreeConstants DEF ReachInv
      <4>2. numPages \in Nat /\ numPages' \in Nat
        BY <1>1, <1>2, TreeConstants DEF ShapeInv
      <4> QED BY <1>2, <1>7, <3>1, <4>1, <4>2
    <3>2. CASE h = n + 1
      BY <1>2, <1>6, <1>7, <3>2
    <3> QED BY <1>7, <1>17, <2>2, <3>1, <3>2
  <2> QED BY <2>1, <2>2 DEF ReachInv
<1>19. Uncovered = DOMAIN refs /\ Uncovered' = DOMAIN refs'
  BY <1>2 DEF Uncovered
<1>20. HomeInv'
  <2> DEFINE f == ElementsIn(sections)
             g == ElementsIn(sections')
             p == n + 1
  <2>1. /\ l \in DOMAIN f /\ DOMAIN g = DOMAIN f /\ f[l] \in Seq(Nat) /\ g[l] = Append(f[l], p)
        /\ \A t \in DOMAIN f : t # l => g[t] = f[t]
    BY <1>4, <1>5, <1>11, <1>12, SecIs DEF ElementsIn
  <2>2. Placed(f, DOMAIN refs) /\ p \notin DOMAIN refs /\ p \in Nat
    BY <1>1, <1>4, <1>19 DEF HomeInv
  <2>3. DOMAIN refs' = (DOMAIN refs) \union {p}
    <3>1. p \in 1..(n + 1)
      BY <1>4
    <3> QED BY <1>7, <3>1
  <2>4. ElementsIn(sections)' = g
    BY DEF g, ElementsIn
  <2> HIDE DEF f, g, p
  <2>5. Placed(g, (DOMAIN refs) \union {p})
    BY <2>1, <2>2, PlacedOne
  <2> QED BY <1>19, <2>3, <2>4, <2>5 DEF HomeInv
<1>21. CountInv'
  <2>1. OnlyRead'
    <3>1. \A h \in DOMAIN refs' : refs'[h].table = Unset /\ refs'[h].figure = Unset
      BY <1>2, <1>6, <1>7
    <3> QED BY <1>2, <1>7, <1>8, <1>17, <3>1 DEF OnlyRead
  <2>2. ASSUME inputs'.drops = 0, NEW h \in DOMAIN refs' PROVE refs'[h].id = h
    <3>1. counted = n /\ Made("table") = {}
      BY <1>2, <1>4, <2>2 DEF Made
    <3>2. \A k \in DOMAIN refs : refs[k].id = k
      BY <1>1, <1>2, <2>2, <3>1 DEF CountInv
    <3> QED BY <1>6, <1>7, <3>1, <3>2
  <2>3. counted' - inputs'.drops \in 0..Len(refs')
    BY <1>4, <1>7, <1>17
  <2> QED BY <2>1, <2>2, <2>3 DEF CountInv
<1> QED
  BY <1>14, <1>16, <1>18, <1>20, <1>21 DEF ReadInv

\* Exactly one element holds t.
HasTable(h, t) == refs[h].table = t /\ \A g \in DOMAIN refs : refs[g].table = t => g = h
HasFigure(h, f) == refs[h].figure = f /\ \A g \in DOMAIN refs : refs[g].figure = f => g = h

\* What is left of the partition when figures are matched.
Unfigured ==
    /\ placed = [i \in Partitioned |-> i]
    /\ \A h \in DOMAIN refs : refs[h].figure = Unset
    /\ \A h \in DOMAIN refs \ Partitioned : refs[h].type = "table" /\ refs[h].id = h

TablesHeld == \A t \in DOMAIN inputs.tables : \E h \in DOMAIN refs : HasTable(h, t)

FiguresHeld ==
    /\ \A f \in DOMAIN inputs.figures : \E h \in DOMAIN refs : HasFigure(h, f)
    /\ \A p \in inputs.vector : \E h \in DOMAIN refs : refs[h].type = "image" /\ refs[h].page = p

\* An image is kept from a figure of its page by a number that repeats.
Excused(h, g) ==
    /\ refs[h].type = "image" /\ refs[h].figure = Unset
    /\ refs[g].figure # Unset /\ refs[g].page = refs[h].page
    => \E k \in DOMAIN refs \ {h} : refs[k].id = refs[h].id

FindInv ==
    /\ Range(placed) \subseteq DOMAIN refs
    /\ treePhase = "images" => Unfigured
    /\ treePhase \notin {"partition", "tables"} => TablesHeld
    /\ treePhase \in {"serialize", "done"} =>
          FiguresHeld /\ \A h \in Partitioned, g \in Made("image") : Excused(h, g)
    /\ treePhase = "done" => storedTree = Serialized(sections)

TreeInv == ReadInv /\ FindInv

-----------------------------------------------------------------------------
(* The tree: matching of tables *)

\* What the extractors find is a sequence of finds.
LEMMA FindsAre ==
    ASSUME NEW room, NEW f \in Finds(room)
    PROVE  f \in Seq(Found)
<1>1. PICK n \in 0..room : f \in [1..n -> Found]
  BY DEF Finds, Found
<1>2. n \in Nat
  BY <1>1
<1> HIDE DEF Found
<1> QED
  BY <1>1, <1>2

\* Positions that are wanted, each once.
LEMMA NumbersKept ==
    ASSUME NEW A, NEW s \in Seq(A), NEW W
    PROVE  LET k == Kept(Numbers(s), W) IN
           /\ Numbers(s) \in Seq(DOMAIN s) /\ DOMAIN s \subseteq Nat \ {0}
           /\ k \in Seq(DOMAIN s) /\ Range(k) = DOMAIN s \intersect W
           /\ Len(k) \in Nat /\ DOMAIN k = 1..Len(k)
           /\ \A i, j \in 1..Len(k) : k[i] = k[j] => i = j
<1> DEFINE u == Numbers(s)
           k == Kept(u, W)
           R == {q \in (DOMAIN s) \X (DOMAIN s) : q[1] < q[2]}
<1>1. Len(s) \in Nat /\ DOMAIN s = 1..Len(s)
  BY LenProperties
<1>2. u \in Seq(DOMAIN s) /\ Len(u) = Len(s) /\ DOMAIN u = 1..Len(s) /\ \A i \in 1..Len(s) : u[i] = i
  BY <1>1 DEF Numbers
<1>3. Range(u) = DOMAIN s
  BY <1>1, <1>2 DEF Range
<1>4. Ordered(u, R)
  BY <1>1, <1>2 DEF Ordered
<1>11. \A x, y : <<x, y>> \in R => x # y
  BY <1>1
<1> HIDE DEF u, R
<1>5. k \in Seq(DOMAIN s) /\ Range(k) = DOMAIN s \intersect W
  BY <1>2, <1>3, KeptMembers
<1>6. Ordered(k, R)
  BY <1>2, <1>4, KeptOrdered
<1>7. Len(k) \in Nat /\ DOMAIN k = 1..Len(k)
  BY <1>5, LenProperties
<1>8. \A i, j \in 1..Len(k) : i < j => k[i] # k[j]
  <2> HIDE DEF k
  <2> QED BY <1>6, <1>11 DEF Ordered
<1>9. \A i, j \in 1..Len(k) : i < j \/ j < i \/ i = j
  BY <1>7
<1>10. DOMAIN s \subseteq Nat \ {0}
  BY <1>1
<1> HIDE DEF k
<1> QED
  BY <1>2, <1>5, <1>7, <1>8, <1>9, <1>10 DEF k, u

\* The first of what is kept.
LEMMA HeadIs ==
    ASSUME NEW A, NEW k \in Seq(A), k # <<>>
    PROVE  Head(k) \in Range(k)
<1>1. Len(k) \in Nat /\ DOMAIN k = 1..Len(k) /\ Len(k) # 0
  BY LenProperties, EmptySeq
<1>2. 1 \in DOMAIN k /\ Head(k) = k[1]
  BY <1>1
<1> QED
  BY <1>2 DEF Range

\* An element gets a table that none has yet, or none.
LEMMA BestTableIs ==
    ASSUME NEW tables \in Seq(Found), NEW h, NEW used
    PROVE  BestTable(h, tables, used) \in ((DOMAIN tables) \ used) \union {Unset}
<1> DEFINE W == OnPageOf(refs[h].page, tables) \ used
           V == {i \in DOMAIN tables : tables[i].box = refs[h].box}
           free == Kept(Numbers(tables), W)
           over == Kept(free, V)
<1>1. free \in Seq(DOMAIN tables) /\ Range(free) = DOMAIN tables \intersect W
  <2> HIDE DEF W
  <2> QED BY NumbersKept
<1>2. over \in Seq(DOMAIN tables) /\ Range(over) \subseteq Range(free)
  <2> HIDE DEF free, V
  <2> QED BY <1>1, KeptMembers
<1>3. Range(free) \subseteq (DOMAIN tables) \ used
  BY <1>1
<1> HIDE DEF free, over, W
<1>4. BestTable(h, tables, used) = IF over # <<>> THEN Head(over) ELSE IF free # <<>> THEN Head(free) ELSE Unset
  BY DEF BestTable, free, over, W
<1> QED
  BY <1>1, <1>2, <1>3, <1>4, HeadIs

\* The elements of a type are elements of the partition, each once.
LEMMA OfTypeIs ==
    ASSUME NEW n \in Nat, placed = [i \in 1..n |-> i], NEW type
    PROVE  /\ OfType(type) \in Seq(1..n)
           /\ Range(OfType(type)) = {h \in 1..n : h \in DOMAIN refs /\ refs[h].type = type}
<1> DEFINE W == {h \in DOMAIN refs : refs[h].type = type}
           S == 1..n
<1>1. placed \in Seq(S) /\ DOMAIN placed = S
  OBVIOUS
<1>2. Range(placed) = S
  BY <1>1 DEF Range
<1>3. OfType(type) = Kept(placed, W)
  BY DEF OfType
<1>4. OfType(type) \in Seq(S) /\ Range(OfType(type)) = S \intersect W
  <2> HIDE DEF W, S
  <2>1. \A q \in Seq(S) : Kept(q, W) \in Seq(S) /\ Range(Kept(q, W)) = Range(q) \intersect W
    BY KeptMembers
  <2> QED BY <1>1, <1>2, <1>3, <2>1
<1> QED
  BY <1>4

\* Who has which table: no table has two.
Matches(m) ==
    {f \in [DOMAIN refs -> (1..m) \union {Unset}] :
        \A g, h \in DOMAIN refs : f[g] = f[h] /\ f[g] # Unset => g = h}

LEMMA MatchStep ==
    ASSUME NEW tables \in Seq(Found), NEW m \in Matches(Len(tables)), NEW h \in DOMAIN refs
    PROVE  [m EXCEPT ![h] = BestTable(h, tables, Range(m))] \in Matches(Len(tables))
<1> DEFINE b == BestTable(h, tables, Range(m))
           f == [m EXCEPT ![h] = b]
<1>1. DOMAIN tables = 1..Len(tables)
  BY LenProperties
<1>2. b \in ((1..Len(tables)) \ Range(m)) \union {Unset}
  BY <1>1, BestTableIs
<1> HIDE DEF b
<1>3. m \in [DOMAIN refs -> (1..Len(tables)) \union {Unset}]
      /\ \A x, y \in DOMAIN refs : m[x] = m[y] /\ m[x] # Unset => x = y
  BY DEF Matches
<1>4. f \in [DOMAIN refs -> (1..Len(tables)) \union {Unset}]
  BY <1>2, <1>3
<1>5. \A x \in DOMAIN refs : f[x] = IF x = h THEN b ELSE m[x]
  BY <1>3
<1>6. \A x \in DOMAIN refs : m[x] \in Range(m)
  BY <1>3 DEF Range
<1> HIDE DEF f
<1>7. \A x, y \in DOMAIN refs : f[x] = f[y] /\ f[x] # Unset => x = y
  BY <1>2, <1>3, <1>5, <1>6
<1> QED
  BY <1>4, <1>7 DEF Matches, f, b

\* Tables matched with one element after the other: none is given twice.
LEMMA TableOfIs ==
    ASSUME NEW tables \in Seq(Found), OfType("table") \in Seq(DOMAIN refs)
    PROVE  TableOf(tables) \in Matches(Len(tables))
<1> DEFINE s == OfType("table")
           n == Len(s)
           B == Matches(Len(tables))
           base == [h \in DOMAIN refs |-> Unset]
           Step(m, h) == [m EXCEPT ![h] = BestTable(h, tables, Range(m))]
           F == [p \in (1..n) \X B |-> Step(p[2], s[p[1]])]
           Iter(g) == g = [t \in SUBSET (1..n) |->
                             IF t = {} THEN base ELSE Step(g[t \ {Max(t)}], s[Max(t)])]
<1>0. n \in Nat /\ DOMAIN s = 1..n /\ \A i \in 1..n : s[i] \in DOMAIN refs
  <2> DEFINE D == DOMAIN refs
  <2>1. s \in Seq(D)
    OBVIOUS
  <2> HIDE DEF D, s
  <2>2. n \in Nat /\ DOMAIN s = 1..n /\ \A i \in 1..n : s[i] \in D
    BY <2>1, LenProperties
  <2> QED BY <2>2 DEF D
<1>1. TableOf(tables) = (CHOOSE g : Iter(g))[1..n]
  BY <1>0 DEF TableOf, FoldLeft, MapThenFoldSet
<1> HIDE DEF s
<1>2. \A i \in 1..n, a \in B : F[<<i, a>>] = Step(a, s[i]) /\ Step(a, s[i]) \in B
  <2>1. \A i \in 1..n, a \in B : Step(a, s[i]) \in B
    BY <1>0, MatchStep
  <2> QED BY <2>1
<1>9. base \in B
  BY DEF Matches
<1> HIDE DEF B, Step, base
<1>3. PICK g : FoldsUp(g, F, base, n)
  BY <1>0, FoldsExist
<1>4. \A t \in SUBSET (1..n) : g[t] \in B
  <2> HIDE DEF F
  <2>2. \A i \in 1..n, a \in B : F[<<i, a>>] \in B
    BY <1>2
  <2> HIDE DEF n
  <2> QED BY <1>0, <1>3, <1>9, <2>2, FoldsWithin
<1>5. Iter(g)
  <2>1. ASSUME NEW t \in SUBSET (1..n), t # {}
        PROVE  F[<<Max(t), g[t \ {Max(t)}]>>] = Step(g[t \ {Max(t)}], s[Max(t)])
    <3>1. Max(t) \in 1..n
      BY <1>0, <2>1, LastPosition
    <3>2. g[t \ {Max(t)}] \in B
      BY <1>4
    <3> HIDE DEF F, n
    <3> QED BY <1>2, <3>1, <3>2
  <2> HIDE DEF F, n
  <2> QED BY <1>3, <2>1 DEF FoldsUp
<1>6. PICK f : Iter(f) /\ TableOf(tables) = f[1..n]
  <2> HIDE DEF Iter
  <2> QED BY <1>1, <1>5
<1> DEFINE T == {i \in 0..n : f[1..i] \in B}
<1>7. 0 \in T
  <2>1. 1..0 = {} /\ f[{}] = base /\ 0 \in 0..n
    BY <1>0, <1>6
  <2> QED BY <1>9, <2>1
<1>8. ASSUME NEW i \in 1..n, i - 1 \in T PROVE i \in T
  <2>1. Max(1..i) = i /\ (1..i) \ {Max(1..i)} = 1..(i - 1) /\ 1..i # {} /\ 1..i \in SUBSET (1..n)
    BY <1>0, MaxOfPrefix
  <2>2. f[1..i] = Step(f[1..(i - 1)], s[i])
    BY <1>6, <2>1
  <2>3. i \in 0..n /\ f[1..(i - 1)] \in B
    BY <1>0, <1>8
  <2>4. \A a \in B : Step(a, s[i]) \in B
    BY <1>2
  <2>5. Step(f[1..(i - 1)], s[i]) \in B
    BY <2>3, <2>4
  <2> QED BY <2>2, <2>3, <2>5
<1> HIDE DEF T, n
<1>10. n \in T
  <2>1. \A i \in 0..n : i \in T
    BY <1>0, <1>7, <1>8, UpTo
  <2>2. n \in 0..n
    BY <1>0
  <2> QED BY <2>1, <2>2
<1> QED
  BY <1>6, <1>10 DEF T, B

\* Before tables are looked for there are the elements of the partition only.
LEMMA BeforeTables ==
    ASSUME ReadInv, treePhase \in {"partition", "tables"}
    PROVE  /\ Len(refs) \in Nat /\ Len(refs) = counted - inputs.drops
           /\ DOMAIN refs = 1..Len(refs) /\ Partitioned = 1..Len(refs)
           /\ \A h \in 1..Len(refs) : refs[h] \in Refs
           /\ placed = [i \in 1..Len(refs) |-> i]
           /\ inputs.tables = <<>> /\ inputs.figures = <<>> /\ inputs.vector = {}
           /\ \A h \in 1..Len(refs) : refs[h].table = Unset /\ refs[h].figure = Unset
           /\ inputs.drops = 0 => \A h \in 1..Len(refs) : refs[h].id = h
           /\ Uncovered = 1..Len(refs)
<1>1. ShapeInv /\ CountInv /\ OnlyRead
  BY DEF ReadInv, CountInv
<1>2. /\ Len(refs) \in Nat /\ DOMAIN refs = 1..Len(refs) /\ Len(refs) = counted - inputs.drops
      /\ \A h \in DOMAIN refs : refs[h] \in Refs
  BY <1>1, ShapeIs DEF OnlyRead
<1>3. Partitioned = 1..Len(refs) /\ Made("table") = {} /\ Uncovered = DOMAIN refs
  BY <1>1, <1>2 DEF Partitioned, Made, OnlyRead, Uncovered
<1> QED
  BY <1>1, <1>2, <1>3 DEF OnlyRead, Numbers, CountInv

\* The elements once each has its table and the other tables have elements.
TabledRefs(tables) ==
    LET m == TableOf(tables)
    IN [h \in DOMAIN refs |-> [refs[h] EXCEPT !.table = m[h]]] \o SyntheticTables(tables, Range(m))

LEMMA SyntheticAre ==
    ASSUME NEW tables \in Seq(Found), NEW n \in Nat, Len(placed) = n, NEW matched
    PROVE  LET new == SyntheticTables(tables, matched)
               left == Kept(Numbers(tables), DOMAIN tables \ matched)
           IN /\ new \in Seq(Refs) /\ Len(new) = Len(left) /\ DOMAIN new = 1..Len(left)
              /\ \A k \in 1..Len(left) : /\ new[k].type = "table" /\ new[k].id = n + k
                                         /\ new[k].figure = Unset /\ new[k].table = left[k]
<1> DEFINE new == SyntheticTables(tables, matched)
           W == DOMAIN tables \ matched
           left == Kept(Numbers(tables), W)
           R(k) == Ref(n + k, "table", tables[left[k]].page, tables[left[k]].box)
<1>1. left \in Seq(DOMAIN tables) /\ Len(left) \in Nat /\ DOMAIN left = 1..Len(left)
      /\ DOMAIN tables \subseteq Nat \ {0}
  <2> HIDE DEF W
  <2> QED BY NumbersKept
<1>2. \A t \in DOMAIN tables : tables[t] \in Found
  <2> HIDE DEF Found
  <2> QED BY LenProperties
<1> HIDE DEF left
<1>3. new = [k \in DOMAIN left |-> [R(k) EXCEPT !.table = left[k]]]
  BY DEF SyntheticTables, left
<1>4. ASSUME NEW k \in 1..Len(left)
      PROVE  /\ new[k] \in Refs /\ new[k].type = "table" /\ new[k].id = n + k
             /\ new[k].figure = Unset /\ new[k].table = left[k]
  <2>1. left[k] \in DOMAIN tables /\ left[k] \in Nat
    <3> DEFINE D == DOMAIN tables
    <3> HIDE DEF D
    <3>1. left \in Seq(D)
      BY <1>1 DEF D
    <3>2. left[k] \in D
      BY <1>1, <3>1, LenProperties
    <3> QED BY <1>1, <3>2 DEF D
  <2>2. tables[left[k]].page \in DocPages /\ tables[left[k]].box \in Boxes
    <3>1. tables[left[k]] \in Found
      BY <1>2, <2>1
    <3> QED BY <3>1, TreeConstants DEF Found
  <2>3. n + k \in Nat
    BY <1>1
  <2>4. R(k) \in Refs /\ R(k).type = "table" /\ R(k).id = n + k /\ R(k).figure = Unset
    <3>1. R(k) = [id |-> n + k, type |-> "table", page |-> tables[left[k]].page, box |-> tables[left[k]].box,
                  table |-> Unset, figure |-> Unset, vector |-> FALSE]
      BY DEF Ref
    <3>2. Unset \in Nat /\ "table" \in Types
      BY DEF Unset, Types
    <3> HIDE DEF R, Types
    <3> QED BY <2>2, <2>3, <3>1, <3>2 DEF Refs
  <2>5. new[k] = [R(k) EXCEPT !.table = left[k]]
    BY <1>1, <1>3
  <2> HIDE DEF new, R
  <2> QED BY <2>1, <2>4, <2>5 DEF Refs
<1>5. DOMAIN new = 1..Len(left)
  BY <1>1, <1>3
<1>6. new = [k \in 1..Len(left) |-> new[k]]
  BY <1>1, <1>3
<1> HIDE DEF new
<1>7. new \in Seq(Refs)
  <2> HIDE DEF Refs
  <2>1. \A k \in 1..Len(left) : new[k] \in Refs
    BY <1>4
  <2> QED BY <1>1, <1>6, <2>1
<1>8. Len(new) = Len(left)
  BY <1>1, <1>5, <1>7, LenProperties
<1> QED
  BY <1>4, <1>5, <1>7, <1>8 DEF new, left, W

LEMMA TabledRefsAre ==
    ASSUME ReadInv, treePhase = "tables", NEW tables \in Seq(Found)
    PROVE  LET n == Len(refs)
               all == TabledRefs(tables)
               new == SyntheticTables(tables, Range(TableOf(tables)))
           IN /\ Len(new) \in Nat /\ DOMAIN new = 1..Len(new)
              /\ all \in Seq(Refs) /\ Len(all) = n + Len(new) /\ DOMAIN all = 1..(n + Len(new))
              /\ \A h \in 1..n : /\ all[h].id = refs[h].id /\ all[h].type = refs[h].type
                                 /\ all[h].page = refs[h].page /\ all[h].box = refs[h].box
                                 /\ all[h].figure = Unset
              /\ \A h \in (n + 1)..(n + Len(new)) : all[h].type = "table" /\ all[h].id = h /\ all[h].figure = Unset
              /\ \A t \in DOMAIN tables : \E h \in DOMAIN all :
                    all[h].table = t /\ \A g \in DOMAIN all : all[g].table = t => g = h
<1> DEFINE n == Len(refs)
           all == TabledRefs(tables)
           m == TableOf(tables)
           new == SyntheticTables(tables, Range(m))
           W == DOMAIN tables \ Range(m)
           left == Kept(Numbers(tables), W)
           l == Len(left)
           old == [h \in DOMAIN refs |-> [refs[h] EXCEPT !.table = m[h]]]
<1>1. /\ n \in Nat /\ DOMAIN refs = 1..n /\ placed = [i \in 1..n |-> i]
      /\ \A h \in 1..n : refs[h] \in Refs /\ refs[h].figure = Unset
  BY BeforeTables
<1>2. Len(placed) = n
  BY <1>1
<1>3. m \in Matches(Len(tables)) /\ DOMAIN tables = 1..Len(tables)
  <2>1. OfType("table") \in Seq(DOMAIN refs)
    <3> HIDE DEF n
    <3> QED BY <1>1, OfTypeIs
  <2> QED BY <2>1, TableOfIs, LenProperties
<1>4. /\ m \in [1..n -> (DOMAIN tables) \union {Unset}]
      /\ \A g, h \in 1..n : m[g] = m[h] /\ m[g] # Unset => g = h
  BY <1>1, <1>3 DEF Matches
<1>5. /\ left \in Seq(DOMAIN tables) /\ DOMAIN tables \subseteq Nat \ {0}
      /\ Range(left) = DOMAIN tables \intersect W
      /\ l \in Nat /\ DOMAIN left = 1..l
      /\ \A i, j \in 1..l : left[i] = left[j] => i = j
  <2> HIDE DEF W
  <2> QED BY NumbersKept
<1>6. /\ new \in Seq(Refs) /\ Len(new) = l /\ DOMAIN new = 1..l
      /\ \A k \in 1..l : /\ new[k].type = "table" /\ new[k].id = n + k
                         /\ new[k].figure = Unset /\ new[k].table = left[k]
  <2> HIDE DEF n, m
  <2> QED BY <1>1, <1>2, SyntheticAre
<1>7. all = old \o new
  BY DEF TabledRefs
<1> HIDE DEF m, left, l, new, all, n
<1>8. ASSUME NEW h \in 1..n
      PROVE  /\ old[h] \in Refs /\ old[h].id = refs[h].id /\ old[h].type = refs[h].type
             /\ old[h].page = refs[h].page /\ old[h].box = refs[h].box /\ old[h].figure = Unset
             /\ old[h].table = m[h]
  <2>1. refs[h] \in Refs /\ refs[h].figure = Unset /\ m[h] \in Nat
    BY <1>1, <1>4, <1>5 DEF Unset
  <2>2. old[h] = [refs[h] EXCEPT !.table = m[h]]
    BY <1>1
  <2> HIDE DEF old
  <2> QED BY <2>1, <2>2 DEF Refs
<1>9. old \in Seq(Refs) /\ Len(old) = n
  <2>1. old = [h \in 1..n |-> old[h]]
    BY <1>1
  <2> HIDE DEF old, Refs
  <2>2. \A h \in 1..n : old[h] \in Refs
    BY <1>8
  <2>3. old \in [1..n -> Refs]
    BY <2>1, <2>2
  <2> QED BY <1>1, <2>3
<1> HIDE DEF old
<1>10. /\ all \in Seq(Refs) /\ Len(all) = n + l /\ DOMAIN all = 1..(n + l)
       /\ \A h \in 1..n : all[h] = old[h]
       /\ \A k \in 1..l : all[n + k] = new[k]
  <2> HIDE DEF Refs
  <2>5. /\ old \o new \in Seq(Refs) /\ Len(old \o new) = Len(old) + Len(new)
        /\ \A i \in 1..(Len(old) + Len(new)) :
              (old \o new)[i] = IF i <= Len(old) THEN old[i] ELSE new[i - Len(old)]
    BY <1>6, <1>9, ConcatProperties
  <2>1. all \in Seq(Refs) /\ Len(all) = n + l
        /\ \A i \in 1..(n + l) : all[i] = IF i <= n THEN old[i] ELSE new[i - n]
    BY <1>6, <1>7, <1>9, <2>5
  <2>2. DOMAIN all = 1..(n + l)
    BY <2>1, LenProperties
  <2>3. \A h \in 1..n : h \in 1..(n + l) /\ h <= n
    BY <1>1, <1>5
  <2>4. \A k \in 1..l : n + k \in 1..(n + l) /\ ~(n + k <= n) /\ (n + k) - n = k
    BY <1>1, <1>5
  <2> QED BY <2>1, <2>2, <2>3, <2>4
<1>11. \A h \in (n + 1)..(n + l) : h - n \in 1..l /\ h = n + (h - n)
  BY <1>1, <1>5
<1>12. ASSUME NEW h \in (n + 1)..(n + l) PROVE all[h].type = "table" /\ all[h].id = h /\ all[h].figure = Unset
  <2>1. h - n \in 1..l /\ h = n + (h - n) /\ all[h] = new[h - n]
    BY <1>10, <1>11
  <2> QED BY <1>6, <2>1
<1>13. \A h \in DOMAIN all : h \in 1..n \/ h \in (n + 1)..(n + l)
  BY <1>1, <1>5, <1>10
<1>14. \A h \in 1..n : all[h].table = m[h] /\ m[h] \in Range(m) /\ h \in DOMAIN all
  <2>1. \A h \in 1..n : m[h] \in Range(m)
    BY <1>4 DEF Range
  <2>2. \A h \in 1..n : h \in 1..(n + l)
    BY <1>1, <1>5
  <2> QED BY <1>8, <1>10, <2>1, <2>2
<1>15. \A h \in (n + 1)..(n + l) : /\ all[h].table = left[h - n] /\ h - n \in 1..l
                                   /\ left[h - n] \notin Range(m)
  <2>1. \A k \in 1..l : left[k] \in W
    BY <1>5 DEF Range
  <2> QED BY <1>6, <1>10, <1>11, <2>1
<1>16. ASSUME NEW t \in DOMAIN tables
       PROVE  \E h \in DOMAIN all : all[h].table = t /\ \A g \in DOMAIN all : all[g].table = t => g = h
  <2>0. t # Unset
    BY <1>5 DEF Unset
  <2>1. CASE t \in Range(m)
    <3>1. PICK h \in 1..n : m[h] = t
      BY <1>4, <2>1 DEF Range
    <3>2. \A g \in DOMAIN all : all[g].table = t => g = h
      BY <1>4, <1>13, <1>14, <1>15, <2>0, <2>1, <3>1
    <3> QED BY <1>14, <3>1, <3>2
  <2>2. CASE t \notin Range(m)
    <3>1. t \in Range(left)
      BY <1>5, <2>2
    <3>2. PICK k \in 1..l : left[k] = t
      BY <1>5, <3>1 DEF Range
    <3>3. n + k \in (n + 1)..(n + l) /\ (n + k) - n = k /\ n + k \in 1..(n + l)
      BY <1>1, <1>5
    <3>4. all[n + k].table = t
      BY <1>15, <3>2, <3>3
    <3>5. ASSUME NEW g \in DOMAIN all, all[g].table = t PROVE g = n + k
      <4>1. g \in (n + 1)..(n + l)
        BY <1>13, <1>14, <2>2, <3>5
      <4>2. left[g - n] = t /\ g - n \in 1..l
        BY <1>15, <3>5, <4>1
      <4>3. g - n = k
        BY <1>5, <3>2, <4>2
      <4> QED BY <1>11, <4>1, <4>3
    <3> QED BY <1>10, <3>3, <3>4, <3>5
  <2> QED BY <2>1, <2>2
<1>17. \A h \in 1..n : /\ all[h].id = refs[h].id /\ all[h].type = refs[h].type
                        /\ all[h].page = refs[h].page /\ all[h].box = refs[h].box
                        /\ all[h].figure = Unset
  BY <1>8, <1>10
<1> HIDE DEF old
<1>18. Len(new) \in Nat /\ DOMAIN new = 1..Len(new) /\ Len(all) = n + Len(new) /\ DOMAIN all = 1..(n + Len(new))
  BY <1>5, <1>6, <1>10
<1>19. \A h \in (n + 1)..(n + Len(new)) : all[h].type = "table" /\ all[h].id = h /\ all[h].figure = Unset
  BY <1>6, <1>12
<1> QED
  BY <1>10, <1>16, <1>17, <1>18, <1>19 DEF all, new, m, n

\* The sections with the new elements in the first, without the text in tables.
LEMMA TabledSections ==
    ASSUME ReadInv, treePhase = "tables", NEW tables \in Seq(Found), AttachTables(tables),
           NEW new, new = SyntheticTables(tables, Range(TableOf(tables)))
    PROVE  LET n == Len(refs)
               W == {h \in 1..(n + Len(new)) : ~Covered(refs', 1..(n + Len(new)), h)}
           IN /\ refs' = TabledRefs(tables)
              /\ sections' \in Seq(Secs) /\ Len(sections') = Len(sections) /\ DOMAIN sections' = DOMAIN sections
              /\ \A s \in DOMAIN sections :
                    /\ sections'[s].level = sections[s].level /\ sections'[s].parent = sections[s].parent
                    /\ sections'[s].first = sections[s].first /\ sections'[s].last = sections[s].last
                    /\ \A h \in Range(sections'[s].elements) :
                           h \in Range(sections[s].elements) \/ (s = 1 /\ h \in (n + 1)..(n + Len(new)))
              /\ Placed(ElementsIn(sections'), W)
<1> DEFINE n == Len(refs)
           l == Len(new)
           all == TabledRefs(tables)
           u == [k \in DOMAIN new |-> n + k]
           full == [sections EXCEPT ![1].elements = @ \o u]
           V == {h \in DOMAIN all : ~Covered(all, Held(full), h)}
           next == [s \in DOMAIN full |-> [full[s] EXCEPT !.elements = Kept(@, V)]]
           f == ElementsIn(sections)
           e == ElementsIn(full)
           g == ElementsIn(next)
<1>1. /\ n \in Nat /\ DOMAIN refs = 1..n /\ Uncovered = 1..n
  BY BeforeTables
<1>2. /\ l \in Nat /\ DOMAIN new = 1..l /\ DOMAIN all = 1..(n + l)
  <2> HIDE DEF all
  <2> QED BY TabledRefsAre DEF all
<1>3. refs' = all /\ sections' = next
  BY DEF AttachTables, TabledRefs
<1>4. /\ Len(sections) \in Nat /\ DOMAIN sections = 1..Len(sections) /\ 1 \in DOMAIN sections
      /\ \A s \in DOMAIN sections : sections[s] \in Secs
  BY ShapeIs DEF ReadInv
<1> HIDE DEF n, l, all
<1>5. u \in Seq(Nat) /\ Len(u) = l /\ \A k \in 1..l : u[k] = n + k
  <2>1. u \in [1..l -> Nat]
    BY <1>1, <1>2
  <2> QED BY <1>2, <2>1
<1>6. Range(u) = (n + 1)..(n + l) /\ \A i, j \in 1..Len(u) : u[i] = u[j] => i = j
  <2>1. Range(u) = {n + k : k \in 1..l}
    BY <1>2 DEF Range
  <2>2. \A h \in (n + 1)..(n + l) : h - n \in 1..l /\ h = n + (h - n)
    BY <1>1, <1>2
  <2>3. \A k \in 1..l : n + k \in (n + 1)..(n + l)
    BY <1>1, <1>2
  <2>4. Range(u) = (n + 1)..(n + l)
    BY <2>1, <2>2, <2>3
  <2> HIDE DEF u
  <2> QED BY <1>1, <1>2, <1>5, <2>4
<1> HIDE DEF u
<1>7. ASSUME NEW s \in DOMAIN sections
      PROVE  /\ full[s] \in Secs /\ full[s].level = sections[s].level /\ full[s].parent = sections[s].parent
             /\ full[s].first = sections[s].first /\ full[s].last = sections[s].last
             /\ full[s].elements = IF s = 1 THEN sections[s].elements \o u ELSE sections[s].elements
  <2>1. sections[s] \in Secs /\ sections[s].elements \in Seq(Nat)
    BY <1>4, SecIs
  <2>2. CASE s = 1
    <3> DEFINE x == sections[s].elements \o u
    <3>1. full[s] = [sections[s] EXCEPT !.elements = x]
      BY <1>4, <2>2
    <3>2. x \in Seq(Nat)
      BY <1>5, <2>1
    <3> HIDE DEF x, full
    <3>3. full[s] \in Secs /\ full[s].level = sections[s].level /\ full[s].parent = sections[s].parent
          /\ full[s].first = sections[s].first /\ full[s].last = sections[s].last /\ full[s].elements = x
      BY <2>1, <3>1, <3>2 DEF Secs
    <3> QED BY <2>2, <3>3 DEF x
  <2>3. CASE s # 1
    <3>1. full[s] = sections[s]
      BY <2>3
    <3> HIDE DEF full
    <3> QED BY <2>1, <2>3, <3>1
  <2> QED BY <2>2, <2>3
<1>8. DOMAIN full = DOMAIN sections
  OBVIOUS
<1> HIDE DEF full
<1>9. Placed(e, 1..(n + l))
  <2>1. DOMAIN f = DOMAIN sections /\ DOMAIN e = DOMAIN f /\ 1 \in DOMAIN f
    BY <1>4, <1>8 DEF ElementsIn
  <2>2. f[1] \in Seq(Nat) /\ e[1] = f[1] \o u /\ \A t \in DOMAIN f : t # 1 => e[t] = f[t]
    BY <1>4, <1>7, <1>8, SecIs DEF ElementsIn
  <2>3. Placed(f, 1..n)
    BY <1>1 DEF ReadInv, HomeInv
  <2>4. (1..n) \union Range(u) = 1..(n + l) /\ Range(u) \intersect (1..n) = {}
    BY <1>1, <1>2, <1>6
  <2> DEFINE S == 1..n
  <2> HIDE DEF e, f, S
  <2>5. Placed(e, S \union Range(u))
    <3>1. Placed(f, S) /\ Range(u) \intersect S = {}
      BY <2>3, <2>4 DEF S
    <3> QED BY <1>5, <1>6, <2>1, <2>2, <3>1, PlacedMany
  <2> QED BY <2>4, <2>5 DEF S
<1>10. Held(full) = 1..(n + l)
  <2>1. Held(full) = UNION {Range(e[s]) : s \in DOMAIN e}
    BY DEF Held, ElementsIn
  <2>2. \A s \in DOMAIN e : Range(e[s]) \subseteq 1..(n + l)
    BY <1>9 DEF Placed, Range
  <2>3. \A h \in 1..(n + l) : \E s \in DOMAIN e : h \in Range(e[s])
    BY <1>9 DEF Placed, Range
  <2> HIDE DEF e
  <2> QED BY <2>1, <2>2, <2>3
<1>11. V = {h \in 1..(n + l) : ~Covered(refs', 1..(n + l), h)}
  BY <1>2, <1>3, <1>10
<1> HIDE DEF V
<1>12. ASSUME NEW s \in DOMAIN sections
       PROVE  /\ next[s] \in Secs /\ next[s].level = full[s].level /\ next[s].parent = full[s].parent
              /\ next[s].first = full[s].first /\ next[s].last = full[s].last
              /\ next[s].elements = Kept(full[s].elements, V)
              /\ Range(next[s].elements) = Range(full[s].elements) \intersect V
  <2> DEFINE x == Kept(full[s].elements, V)
  <2>1. full[s] \in Secs /\ full[s].elements \in Seq(Nat)
    BY <1>7, SecIs
  <2>2. x \in Seq(Nat) /\ Range(x) = Range(full[s].elements) \intersect V
    BY <2>1, KeptMembers
  <2>3. next[s] = [full[s] EXCEPT !.elements = x]
    BY <1>8
  <2> HIDE DEF x, next
  <2>4. next[s] \in Secs /\ next[s].level = full[s].level /\ next[s].parent = full[s].parent
        /\ next[s].first = full[s].first /\ next[s].last = full[s].last /\ next[s].elements = x
    BY <2>1, <2>2, <2>3 DEF Secs
  <2> QED BY <2>2, <2>4 DEF x
<1>13. DOMAIN next = DOMAIN sections /\ next = [s \in DOMAIN sections |-> next[s]]
  BY <1>8
<1> HIDE DEF next
<1>14. next \in Seq(Secs) /\ Len(next) = Len(sections)
  <2> DEFINE k == Len(sections)
  <2> HIDE DEF Secs, k
  <2>1. k \in Nat /\ next = [s \in 1..k |-> next[s]] /\ \A s \in 1..k : next[s] \in Secs
    BY <1>4, <1>12, <1>13 DEF k
  <2>2. next \in Seq(Secs)
    BY <2>1
  <2>3. Len(next) = k
    BY <1>4, <1>13, <2>1, <2>2, LenProperties DEF k
  <2> QED BY <2>2, <2>3 DEF k
<1>15. ASSUME NEW s \in DOMAIN sections, NEW h \in Range(next[s].elements)
       PROVE  h \in Range(sections[s].elements) \/ (s = 1 /\ h \in (n + 1)..(n + l))
  <2>1. h \in Range(full[s].elements)
    BY <1>12, <1>15
  <2>2. CASE s = 1
    <3>1. sections[s].elements \in Seq(Nat) /\ full[s].elements = sections[s].elements \o u
      BY <1>4, <1>7, <2>2, SecIs
    <3>2. Range(full[s].elements) \subseteq Range(sections[s].elements) \union Range(u)
      <4> DEFINE x == sections[s].elements
      <4> HIDE DEF x
      <4>1. x \in Seq(Nat) /\ full[s].elements = x \o u
        BY <3>1 DEF x
      <4>2. /\ x \o u \in Seq(Nat) /\ Len(x \o u) = Len(x) + Len(u)
            /\ \A i \in 1..(Len(x) + Len(u)) : (x \o u)[i] = IF i <= Len(x) THEN x[i] ELSE u[i - Len(x)]
        BY <1>5, <4>1, ConcatProperties
      <4>3. /\ Len(x) \in Nat /\ DOMAIN x = 1..Len(x) /\ Len(u) \in Nat /\ DOMAIN u = 1..Len(u)
            /\ DOMAIN (x \o u) = 1..(Len(x) + Len(u))
        BY <1>5, <4>1, <4>2, LenProperties
      <4>4. \A i \in 1..(Len(x) + Len(u)) : i \in 1..Len(x) \/ (~(i <= Len(x)) /\ i - Len(x) \in 1..Len(u))
        BY <4>3
      <4>5. ASSUME NEW y \in Range(x \o u) PROVE y \in Range(x) \union Range(u)
        <5>1. PICK i \in 1..(Len(x) + Len(u)) : y = (x \o u)[i]
          BY <4>3 DEF Range
        <5>2. CASE i \in 1..Len(x)
          <6>1. y = x[i]
            BY <4>2, <4>3, <5>1, <5>2
          <6> QED BY <4>3, <5>2, <6>1 DEF Range
        <5>3. CASE ~(i <= Len(x)) /\ i - Len(x) \in 1..Len(u)
          <6>1. y = u[i - Len(x)]
            BY <4>2, <5>1, <5>3
          <6> QED BY <4>3, <5>3, <6>1 DEF Range
        <5> QED BY <4>4, <5>2, <5>3
      <4> QED BY <4>1, <4>5 DEF x
    <3> QED BY <1>6, <2>1, <2>2, <3>2
  <2>3. CASE s # 1
    BY <1>7, <2>1, <2>3
  <2> QED BY <2>2, <2>3
<1>16. Placed(g, V)
  <2>1. DOMAIN g = DOMAIN e /\ \A s \in DOMAIN e : e[s] \in Seq(Nat) /\ g[s] = Kept(e[s], V)
    BY <1>7, <1>8, <1>12, <1>13, SecIs DEF ElementsIn
  <2> DEFINE S == 1..(n + l)
  <2>2. S \intersect V = V
    BY <1>11
  <2> HIDE DEF e, g, S
  <2>3. Placed(e, S)
    BY <1>9 DEF S
  <2>4. Placed(g, S \intersect V)
    BY <2>1, <2>3, PlacedKept
  <2> QED BY <2>2, <2>4
<1> DEFINE W == {h \in 1..(n + l) : ~Covered(refs', 1..(n + l), h)}
<1>17. refs' = TabledRefs(tables)
  BY <1>3 DEF all
<1>18. sections' \in Seq(Secs) /\ Len(sections') = Len(sections) /\ DOMAIN sections' = DOMAIN sections
  BY <1>3, <1>13, <1>14
<1>19. ASSUME NEW s \in DOMAIN sections
       PROVE  /\ sections'[s].level = sections[s].level /\ sections'[s].parent = sections[s].parent
              /\ sections'[s].first = sections[s].first /\ sections'[s].last = sections[s].last
  <2>1. sections'[s] = next[s]
    BY <1>3
  <2> QED BY <1>7, <1>12, <2>1
<1>20. ASSUME NEW s \in DOMAIN sections, NEW h \in Range(sections'[s].elements)
       PROVE  h \in Range(sections[s].elements) \/ (s = 1 /\ h \in (n + 1)..(n + l))
  <2>1. h \in Range(next[s].elements)
    BY <1>3
  <2> QED BY <1>15, <2>1
<1>21. Placed(ElementsIn(sections'), W)
  <2>1. V = W /\ ElementsIn(sections') = g
    BY <1>3, <1>11
  <2> HIDE DEF W, g
  <2> QED BY <1>16, <2>1
<1> HIDE DEF W, e, f, g
<1>22. /\ refs' = TabledRefs(tables)
       /\ sections' \in Seq(Secs) /\ Len(sections') = Len(sections) /\ DOMAIN sections' = DOMAIN sections
       /\ \A s \in DOMAIN sections :
             /\ sections'[s].level = sections[s].level /\ sections'[s].parent = sections[s].parent
             /\ sections'[s].first = sections[s].first /\ sections'[s].last = sections[s].last
             /\ \A h \in Range(sections'[s].elements) :
                    h \in Range(sections[s].elements) \/ (s = 1 /\ h \in (n + 1)..(n + l))
       /\ Placed(ElementsIn(sections'), W)
  BY <1>17, <1>18, <1>19, <1>20, <1>21
<1> QED
  BY <1>22 DEF n, l, W

\* Frames of sections that stay: so does what lies in their reach.
SameFrames(secs) ==
    /\ Len(secs) = Len(sections) /\ DOMAIN secs = DOMAIN sections
    /\ \A s \in DOMAIN sections :
          /\ secs[s].level = sections[s].level /\ secs[s].parent = sections[s].parent
          /\ secs[s].first = sections[s].first /\ secs[s].last = sections[s].last

LEMMA FramesKeepNest ==
    ASSUME ShapeInv, NestInv, SameFrames(sections'), UNCHANGED openPath
    PROVE  NestInv' /\ \A s : Around(s)' = Around(s)
<1>1. /\ DOMAIN sections = 1..Len(sections) /\ 1 \in DOMAIN sections /\ Len(sections) \in Nat
  BY ShapeIs
<1>2. Upward' = Upward /\ \A s : Around(s)' = Around(s)
  BY SameAround DEF SameFrames
<1>3. ASSUME NEW s \in DOMAIN sections', s # 1
      PROVE  /\ sections'[s].parent \in 1..(s - 1)
             /\ sections'[sections'[s].parent].level < sections'[s].level
  <2>1. /\ s \in DOMAIN sections /\ sections[s].parent \in 1..(s - 1)
        /\ sections[sections[s].parent].level < sections[s].level
    BY <1>3 DEF NestInv, SameFrames
  <2>2. sections[s].parent \in DOMAIN sections
    BY <1>1, <2>1
  <2> QED BY <2>1, <2>2 DEF SameFrames
<1> QED
  BY <1>1, <1>2, <1>3 DEF NestInv, SameFrames

\* The step changes nothing the tree consists of but the phase.
LEMMA EnrichTablesIs ==
    ASSUME TreeInv, EnrichTables
    PROVE  /\ treePhase = "tables" /\ treePhase' = "images" /\ inputs' \in Inputs
           /\ inputs'.drops = inputs.drops /\ inputs'.figures = <<>> /\ inputs'.vector = {}
           /\ UNCHANGED <<openPath, placed, counted, numPages, storedTree>>
           /\ inputs'.tables \in Seq(Found)
           /\ \/ inputs'.tables = <<>> /\ UNCHANGED <<refs, sections>>
              \/ inputs'.tables # <<>> /\ AttachTables(inputs'.tables)
<1>1. PICK tables \in Finds(Room) :
        /\ inputs' = [inputs EXCEPT !.parts = @ + Len(tables), !.tables = tables]
        /\ IF tables = <<>> THEN UNCHANGED <<refs, sections>> ELSE AttachTables(tables)
  BY DEF EnrichTables
<1>2. /\ treePhase = "tables" /\ treePhase' = "images"
      /\ UNCHANGED <<openPath, placed, counted, numPages, storedTree>>
  BY DEF EnrichTables
<1>3. inputs \in Inputs /\ inputs.figures = <<>> /\ inputs.vector = {}
  BY <1>2, BeforeTables DEF TreeInv, ReadInv, ShapeInv
<1>4. tables \in Seq(Found) /\ Len(tables) \in Nat
  BY FindsAre, LenProperties
<1>5. /\ inputs' \in Inputs /\ inputs'.drops = inputs.drops /\ inputs'.figures = inputs.figures
      /\ inputs'.vector = inputs.vector /\ inputs'.tables = tables
  <2> DEFINE p == inputs.parts + Len(tables)
  <2>1. p \in Nat
    BY <1>3, <1>4 DEF Inputs
  <2>2. inputs' = [inputs EXCEPT !.parts = p, !.tables = tables]
    BY <1>1
  <2> HIDE DEF p, Found
  <2> QED BY <1>3, <1>4, <2>1, <2>2 DEF Inputs
<1> QED
  BY <1>1, <1>2, <1>3, <1>4, <1>5

\* Without tables nothing changes.
LEMMA NoTablesStep ==
    ASSUME TreeInv, EnrichTables, inputs'.tables = <<>>, UNCHANGED <<refs, sections>>
    PROVE  TreeInv'
<1>1. /\ treePhase = "tables" /\ treePhase' = "images" /\ inputs' \in Inputs
      /\ inputs'.drops = inputs.drops /\ inputs'.figures = <<>> /\ inputs'.vector = {}
      /\ UNCHANGED <<openPath, placed, counted, numPages, storedTree>>
  BY EnrichTablesIs
<1>2. ReadInv /\ ShapeInv /\ NestInv /\ ReachInv /\ HomeInv /\ CountInv
  BY DEF TreeInv, ReadInv
<1>3. /\ Len(refs) \in Nat /\ DOMAIN refs = 1..Len(refs) /\ Partitioned = 1..Len(refs)
      /\ placed = [i \in 1..Len(refs) |-> i] /\ inputs.tables = <<>>
      /\ \A h \in 1..Len(refs) : refs[h].table = Unset /\ refs[h].figure = Unset
  BY <1>1, <1>2, BeforeTables
<1>4. ShapeInv'
  BY <1>1, <1>2 DEF ShapeInv, Phases
<1>5. NestInv' /\ \A s : Around(s)' = Around(s)
  BY <1>1, <1>2, FramesKeepNest DEF SameFrames
<1>6. Partitioned' = Partitioned
  BY <1>1 DEF Partitioned
<1>7. ReachInv'
  BY <1>1, <1>2, <1>5, <1>6 DEF ReachInv
<1>8. HomeInv'
  <2>1. Uncovered' = Uncovered
    BY <1>3 DEF Uncovered
  <2> QED BY <1>2, <2>1 DEF HomeInv, ElementsIn
<1>9. CountInv'
  <2>1. \A type : Made(type)' = Made(type)
    BY <1>6 DEF Made
  <2> QED BY <1>1, <1>2, <2>1 DEF CountInv
<1>10. FindInv'
  <2>1. Unfigured'
    BY <1>1, <1>3, <1>6 DEF Unfigured
  <2>2. TablesHeld'
    BY DEF TablesHeld
  <2>3. Range(placed') \subseteq DOMAIN refs'
    BY <1>1, <1>3 DEF Range
  <2> QED BY <1>1, <2>1, <2>2, <2>3 DEF FindInv
<1> QED
  BY <1>4, <1>5, <1>7, <1>8, <1>9, <1>10 DEF TreeInv, ReadInv

LEMMA AttachTablesStep ==
    ASSUME TreeInv, EnrichTables, inputs'.tables # <<>>, AttachTables(inputs'.tables)
    PROVE  TreeInv'
<1> DEFINE tables == inputs'.tables
           n == Len(refs)
           new == SyntheticTables(tables, Range(TableOf(tables)))
           l == Len(new)
           W == {h \in 1..(n + l) : ~Covered(refs', 1..(n + l), h)}
<1>1. /\ treePhase = "tables" /\ treePhase' = "images" /\ inputs' \in Inputs
      /\ inputs'.drops = inputs.drops /\ inputs'.figures = <<>> /\ inputs'.vector = {}
      /\ UNCHANGED <<openPath, placed, counted, numPages, storedTree>>
      /\ tables \in Seq(Found)
  BY EnrichTablesIs
<1>2. ReadInv /\ ShapeInv /\ NestInv /\ ReachInv /\ HomeInv /\ CountInv
  BY DEF TreeInv, ReadInv
<1>3. /\ n \in Nat /\ DOMAIN refs = 1..n /\ Partitioned = 1..n /\ n = counted - inputs.drops
      /\ placed = [i \in 1..n |-> i] /\ inputs.tables = <<>>
      /\ inputs.drops = 0 => \A h \in 1..n : refs[h].id = h
  BY <1>1, <1>2, BeforeTables
<1>4. /\ refs' = TabledRefs(tables)
      /\ sections' \in Seq(Secs) /\ Len(sections') = Len(sections) /\ DOMAIN sections' = DOMAIN sections
      /\ \A s \in DOMAIN sections :
            /\ sections'[s].level = sections[s].level /\ sections'[s].parent = sections[s].parent
            /\ sections'[s].first = sections[s].first /\ sections'[s].last = sections[s].last
            /\ \A h \in Range(sections'[s].elements) :
                   h \in Range(sections[s].elements) \/ (s = 1 /\ h \in (n + 1)..(n + l))
      /\ Placed(ElementsIn(sections'), W)
  <2>1. AttachTables(tables)
    OBVIOUS
  <2> HIDE DEF tables
  <2> QED BY <1>1, <1>2, <2>1, TabledSections
<1>5. /\ l \in Nat /\ refs' \in Seq(Refs) /\ Len(refs') = n + l /\ DOMAIN refs' = 1..(n + l)
      /\ \A h \in 1..n : /\ refs'[h].id = refs[h].id /\ refs'[h].type = refs[h].type
                         /\ refs'[h].page = refs[h].page /\ refs'[h].box = refs[h].box
                         /\ refs'[h].figure = Unset
      /\ \A h \in (n + 1)..(n + l) : refs'[h].type = "table" /\ refs'[h].id = h /\ refs'[h].figure = Unset
      /\ \A t \in DOMAIN tables : \E h \in DOMAIN refs' :
            refs'[h].table = t /\ \A g \in DOMAIN refs' : refs'[g].table = t => g = h
  <2> DEFINE all == TabledRefs(tables)
  <2> HIDE DEF tables
  <2>1. /\ Len(new) \in Nat /\ all \in Seq(Refs) /\ Len(all) = n + Len(new) /\ DOMAIN all = 1..(n + Len(new))
        /\ \A h \in 1..n : /\ all[h].id = refs[h].id /\ all[h].type = refs[h].type
                           /\ all[h].page = refs[h].page /\ all[h].box = refs[h].box
                           /\ all[h].figure = Unset
        /\ \A h \in (n + 1)..(n + Len(new)) : all[h].type = "table" /\ all[h].id = h /\ all[h].figure = Unset
        /\ \A t \in DOMAIN tables : \E h \in DOMAIN all :
              all[h].table = t /\ \A g \in DOMAIN all : all[g].table = t => g = h
    BY <1>1, <1>2, TabledRefsAre
  <2>2. refs' = all
    BY <1>4
  <2> HIDE DEF all, new, n
  <2> QED BY <2>1, <2>2
<1>20. tables # <<>>
  OBVIOUS
<1>21. tables = inputs'.tables
  OBVIOUS
<1> HIDE DEF tables, n, new, l
<1>6. \A h \in 1..(n + l) : h \in 1..n \/ h \in (n + 1)..(n + l)
  BY <1>3, <1>5
<1>7. ShapeInv'
  <2>1. sections' # <<>>
    <3>1. Len(sections') # 0
      BY <1>2, <1>4, ShapeIs
    <3> QED BY <3>1
  <2> QED BY <1>1, <1>2, <1>4, <1>5, <2>1 DEF ShapeInv, Phases
<1>8. NestInv' /\ \A s : Around(s)' = Around(s)
  <2>1. SameFrames(sections')
    BY <1>4 DEF SameFrames
  <2> QED BY <1>1, <1>2, <2>1, FramesKeepNest
<1>9. Partitioned' = 1..n
  BY <1>1, <1>3 DEF Partitioned
<1>10. ReachInv'
  <2>1. ASSUME NEW s \in DOMAIN sections', NEW h \in Range(sections'[s].elements)
        PROVE  \/ h \in Partitioned' /\ \A a \in Around(s)' :
                     refs'[h].page \in sections'[a].first..sections'[a].last
               \/ h \notin Partitioned' /\ refs'[h].type = "table" /\ s = 1
    <3>1. CASE h \in Range(sections[s].elements)
      <4>1. h \in 1..n
        BY <1>2, <1>3, <1>4, <2>1, <3>1, ElementsAre
      <4>2. \A a \in Around(s) : refs[h].page \in sections[a].first..sections[a].last
        BY <1>2, <1>3, <1>4, <2>1, <3>1, <4>1 DEF ReachInv
      <4>3. \A a \in Around(s) : a \in DOMAIN sections
        BY <1>2, ShapeIs DEF Around
      <4> QED BY <1>4, <1>5, <1>8, <1>9, <4>1, <4>2, <4>3
    <3>2. CASE s = 1 /\ h \in (n + 1)..(n + l)
      <4>1. h \notin 1..n
        BY <1>3, <1>5, <3>2
      <4> QED BY <1>5, <1>9, <3>2, <4>1
    <3> QED BY <1>4, <2>1, <3>1, <3>2
  <2>2. \A h \in Partitioned' : refs'[h].page <= numPages'
    BY <1>1, <1>2, <1>3, <1>5, <1>9 DEF ReachInv
  <2> QED BY <2>1, <2>2 DEF ReachInv
<1>11. HomeInv'
  <2>1. Uncovered' = {h \in DOMAIN refs' : ~(tables # <<>> /\ Covered(refs', DOMAIN refs', h))}
    BY <1>21 DEF Uncovered, Covered
  <2>2. Uncovered' = W
    BY <1>5, <1>20, <2>1
  <2>3. ElementsIn(sections)' = ElementsIn(sections')
    BY DEF ElementsIn
  <2> QED BY <1>4, <2>2, <2>3 DEF HomeInv
<1>12. CountInv'
  <2>1. ASSUME inputs.drops = 0, NEW h \in 1..(n + l) PROVE refs'[h].id = h
    BY <1>3, <1>5, <1>6, <2>1
  <2>2. counted - inputs.drops \in 0..(n + l)
    BY <1>3, <1>5
  <2> QED BY <1>1, <1>5, <2>1, <2>2 DEF CountInv
<1>13. FindInv'
  <2>1. Unfigured'
    <3>1. \A h \in DOMAIN refs' : refs'[h].figure = Unset
      BY <1>5, <1>6
    <3>2. \A h \in DOMAIN refs' \ (1..n) : refs'[h].type = "table" /\ refs'[h].id = h
      BY <1>5, <1>6
    <3> QED BY <1>1, <1>3, <1>9, <3>1, <3>2 DEF Unfigured
  <2>2. TablesHeld'
    BY <1>5, <1>21 DEF TablesHeld, HasTable
  <2>3. Range(placed') \subseteq DOMAIN refs'
    <3>1. Range(placed') = 1..n
      BY <1>1, <1>3 DEF Range
    <3> QED BY <1>5, <1>3, <3>1
  <2> QED BY <1>1, <2>1, <2>2, <2>3 DEF FindInv
<1> QED
  BY <1>7, <1>8, <1>10, <1>11, <1>12, <1>13 DEF TreeInv, ReadInv

-----------------------------------------------------------------------------
(* The tree: matching of figures *)

Works ==
    {w \in [refs : Seq(Refs), sections : Seq(Secs), placed : Seq(Nat), used : SUBSET Nat, next : Nat] :
        w.sections # <<>>}

LEMMA WorkIs ==
    ASSUME NEW w \in Works
    PROVE  /\ w.refs \in Seq(Refs) /\ w.sections \in Seq(Secs) /\ w.sections # <<>>
           /\ w.placed \in Seq(Nat) /\ w.used \in SUBSET Nat /\ w.next \in Nat
           /\ Len(w.refs) \in Nat /\ DOMAIN w.refs = 1..Len(w.refs)
           /\ \A h \in DOMAIN w.refs : w.refs[h] \in Refs
           /\ Len(w.sections) \in Nat \ {0} /\ DOMAIN w.sections = 1..Len(w.sections)
           /\ \A s \in DOMAIN w.sections : w.sections[s] \in Secs
<1>1. /\ w.refs \in Seq(Refs) /\ w.sections \in Seq(Secs) /\ w.sections # <<>>
      /\ w.placed \in Seq(Nat) /\ w.used \in SUBSET Nat /\ w.next \in Nat
  <2> HIDE DEF Refs, Secs
  <2> QED BY DEF Works
<1> QED
  BY <1>1, LenProperties, EmptySeq

\* A page leads to the deepest section that reaches it, else to the root.
LEMMA SectionForPageIs ==
    ASSUME NEW secs \in Seq(Secs), secs # <<>>, NEW page
    PROVE  LET s == SectionForPage(secs, page) IN
           /\ s \in DOMAIN secs
           /\ IF s = 1 THEN \A a \in 2..Len(secs) : page \notin secs[a].first..secs[a].last
                       ELSE page \in secs[s].first..secs[s].last
<1> DEFINE n == Len(secs)
           reach == {s \in 2..n : page \in secs[s].first..secs[s].last}
           Deepest(s) == \A t \in reach : secs[t].level < secs[s].level \/ (secs[t].level = secs[s].level /\ t <= s)
<1>1. n \in Nat \ {0} /\ DOMAIN secs = 1..n /\ \A s \in 1..n : secs[s] \in Secs
  BY LenProperties, EmptySeq
<1>2. SectionForPage(secs, page) = IF reach = {} THEN 1 ELSE CHOOSE s \in reach : Deepest(s)
  BY DEF SectionForPage
<1>3. \A s \in reach : s \in 2..n /\ secs[s].level \in 0..MaxLevel
  BY <1>1, SecIs
<1> HIDE DEF n
<1>4. ASSUME reach # {} PROVE \E s \in reach : Deepest(s)
  <2> DEFINE D == {MaxLevel - secs[s].level : s \in reach}
  <2>1. D \in SUBSET Nat /\ D # {}
    <3>1. \A s \in reach : MaxLevel - secs[s].level \in Nat
      BY <1>3, TreeConstants
    <3> QED BY <1>4, <3>1
  <2>2. PICK d \in D : \A x \in D : d <= x
    <3> HIDE DEF D
    <3> QED BY <2>1, LeastOfNat
  <2>3. PICK a \in reach : d = MaxLevel - secs[a].level
    BY <2>2
  <2>4. \A t \in reach : secs[t].level <= secs[a].level
    <3>1. \A t \in reach : d <= MaxLevel - secs[t].level
      BY <2>2
    <3>2. MaxLevel \in Nat /\ a \in reach
      BY TreeConstants
    <3> HIDE DEF reach, D
    <3>3. ASSUME NEW t \in reach PROVE secs[t].level <= secs[a].level
      <4>1. secs[t].level \in 0..MaxLevel /\ secs[a].level \in 0..MaxLevel
        BY <1>3, <3>2
      <4>2. MaxLevel - secs[a].level <= MaxLevel - secs[t].level
        BY <2>3, <3>1
      <4> QED BY <3>2, <4>1, <4>2
    <3> QED BY <3>3
  <2> DEFINE E == {n - s : s \in {t \in reach : secs[t].level = secs[a].level}}
  <2> HIDE DEF D
  <2>5. E \in SUBSET Nat /\ E # {}
    <3>1. \A s \in reach : n - s \in Nat
      BY <1>1, <1>3
    <3> QED BY <2>3, <3>1
  <2>6. PICK e \in E : \A x \in E : e <= x
    <3> HIDE DEF E
    <3> QED BY <2>5, LeastOfNat
  <2>7. PICK s \in reach : secs[s].level = secs[a].level /\ e = n - s
    BY <2>6
  <2>8. \A t \in reach : secs[t].level = secs[a].level => e <= n - t
    BY <2>6
  <2> HIDE DEF E, reach
  <2>9. ASSUME NEW t \in reach PROVE secs[t].level < secs[s].level \/ (secs[t].level = secs[s].level /\ t <= s)
    BY <1>1, <1>3, <2>4, <2>7, <2>8
  <2> QED BY <2>9
<1>5. CASE reach = {}
  <2>1. 1 \in DOMAIN secs /\ SectionForPage(secs, page) = 1
    BY <1>1, <1>2, <1>5
  <2> QED BY <1>5, <2>1 DEF n
<1>6. CASE reach # {}
  <2> DEFINE s == SectionForPage(secs, page)
  <2>1. s \in reach
    <3> HIDE DEF reach, Deepest
    <3> QED BY <1>2, <1>4, <1>6
  <2>2. s \in 2..n /\ page \in secs[s].first..secs[s].last
    BY <2>1
  <2>3. s \in 1..n /\ s # 1
    BY <1>1, <2>2
  <2> QED BY <1>1, <2>2, <2>3
<1> QED
  BY <1>5, <1>6

\* One element more in the section its page leads to.
LEMMA InsertIs ==
    ASSUME NEW w \in Works, NEW ref \in Refs
    PROVE  LET v == Insert(w, ref)
               h == Len(w.refs) + 1
               home == SectionForPage(w.sections, ref.page)
           IN /\ v \in Works /\ v.refs = Append(w.refs, ref) /\ v.next = w.next + 1
              /\ v.placed = Append(w.placed, h) /\ v.used = w.used
              /\ DOMAIN v.sections = DOMAIN w.sections /\ Len(v.sections) = Len(w.sections)
              /\ home \in DOMAIN w.sections
              /\ \A s \in DOMAIN w.sections :
                    /\ v.sections[s].level = w.sections[s].level /\ v.sections[s].parent = w.sections[s].parent
                    /\ v.sections[s].first = w.sections[s].first /\ v.sections[s].last = w.sections[s].last
                    /\ v.sections[s].elements = IF s = home THEN Append(w.sections[s].elements, h)
                                                            ELSE w.sections[s].elements
<1> DEFINE v == Insert(w, ref)
           h == Len(w.refs) + 1
           home == SectionForPage(w.sections, ref.page)
           x == Append(w.sections[home].elements, h)
           secs == [w.sections EXCEPT ![home].elements = x]
           n == Len(w.sections)
<1>1. /\ w.refs \in Seq(Refs) /\ w.sections \in Seq(Secs) /\ w.sections # <<>>
      /\ w.placed \in Seq(Nat) /\ w.used \in SUBSET Nat /\ w.next \in Nat
      /\ Len(w.refs) \in Nat
      /\ n \in Nat \ {0} /\ DOMAIN w.sections = 1..n
      /\ \A s \in DOMAIN w.sections : w.sections[s] \in Secs
  BY WorkIs
<1>2. home \in DOMAIN w.sections
  BY <1>1, SectionForPageIs
<1>3. v = [w EXCEPT !.refs = Append(@, ref), !.next = @ + 1, !.placed = Append(@, h), !.sections = secs]
  BY DEF Insert
<1>4. x \in Seq(Nat) /\ h \in Nat
  BY <1>1, <1>2, SecIs
<1> HIDE DEF v, h, home, x
<1>5. ASSUME NEW s \in DOMAIN w.sections
      PROVE  /\ secs[s] \in Secs
             /\ secs[s].level = w.sections[s].level /\ secs[s].parent = w.sections[s].parent
             /\ secs[s].first = w.sections[s].first /\ secs[s].last = w.sections[s].last
             /\ secs[s].elements = IF s = home THEN x ELSE w.sections[s].elements
  <2>0. w.sections[s] \in Secs
    BY <1>1
  <2>1. CASE s = home
    <3>1. secs[s] = [w.sections[s] EXCEPT !.elements = x]
      BY <2>1
    <3> HIDE DEF secs
    <3> QED BY <1>4, <2>0, <2>1, <3>1 DEF Secs
  <2>2. CASE s # home
    <3>1. secs[s] = w.sections[s]
      BY <2>2
    <3> QED BY <2>0, <2>2, <3>1
  <2> QED BY <2>1, <2>2
<1>6. DOMAIN secs = DOMAIN w.sections /\ secs = [s \in DOMAIN w.sections |-> secs[s]]
  OBVIOUS
<1> HIDE DEF secs
<1>7. secs \in Seq(Secs) /\ Len(secs) = n /\ secs # <<>>
  <2> HIDE DEF Secs, n
  <2>1. n \in Nat /\ secs = [s \in 1..n |-> secs[s]] /\ \A s \in 1..n : secs[s] \in Secs
    BY <1>1, <1>5, <1>6
  <2>2. secs \in Seq(Secs)
    BY <2>1
  <2>3. Len(secs) = n
    BY <1>1, <1>6, <2>1, <2>2, LenProperties
  <2> QED BY <1>1, <2>2, <2>3, EmptySeq
<1>8. /\ v \in Works /\ v.refs = Append(w.refs, ref) /\ v.next = w.next + 1
      /\ v.placed = Append(w.placed, h) /\ v.used = w.used /\ v.sections = secs
  <2> DEFINE a == Append(w.refs, ref)
             b == Append(w.placed, h)
             c == w.next + 1
  <2>1. a \in Seq(Refs) /\ b \in Seq(Nat) /\ c \in Nat
    BY <1>1, <1>4
  <2>2. v = [w EXCEPT !.refs = a, !.next = c, !.placed = b, !.sections = secs]
    BY <1>3
  <2> HIDE DEF a, b, c, Refs, Secs
  <2>3. v \in Works /\ v.refs = a /\ v.next = c /\ v.placed = b /\ v.used = w.used /\ v.sections = secs
    BY <1>7, <2>1, <2>2 DEF Works
  <2> QED BY <2>3 DEF a, b, c
<1> QED
  BY <1>2, <1>5, <1>6, <1>7, <1>8 DEF v, h, home, x, n

\* The image a figure gets is one of its page whose number is not used; it gets
\* none only when all are.
LEMMA BestImageIs ==
    ASSUME NEW all \in Seq(Refs), NEW A, NEW images \in Seq(A), NEW fig, NEW used
    PROVE  LET b == BestImage(all, images, fig, used)
               Free(h) == h \in Range(images) /\ h \in DOMAIN all /\ all[h].id \notin used /\ all[h].page = fig.page
           IN (b = Unset /\ \A h : ~Free(h)) \/ Free(b)
<1> DEFINE b == BestImage(all, images, fig, used)
           W == {h \in DOMAIN all : all[h].id \notin used /\ all[h].page = fig.page}
           V == {h \in DOMAIN all : all[h].box = fig.box}
           free == Kept(images, W)
           over == Kept(free, V)
<1>1. free \in Seq(A) /\ Range(free) = Range(images) \intersect W
  <2> HIDE DEF W
  <2> QED BY KeptMembers
<1>2. over \in Seq(A) /\ Range(over) \subseteq Range(free)
  <2> HIDE DEF free, V
  <2> QED BY <1>1, KeptMembers
<1>3. b = IF over # <<>> THEN Head(over) ELSE IF free # <<>> THEN Head(free) ELSE Unset
  BY DEF BestImage
<1> HIDE DEF b, over, free
<1>4. free # <<>> => b \in Range(images) \intersect W
  BY <1>1, <1>2, <1>3, HeadIs
<1>5. free = <<>> => b = Unset /\ Range(images) \intersect W = {}
  <2>1. Range(<<>>) = {}
    BY DEF Range
  <2>2. ASSUME free = <<>> PROVE over = <<>>
    BY <1>2, <2>1, <2>2, RangeEmpty
  <2> QED BY <1>1, <1>3, <2>1, <2>2
<1> QED
  BY <1>4, <1>5 DEF b

SameRef(a, b) ==
    a.id = b.id /\ a.type = b.type /\ a.page = b.page /\ a.box = b.box /\ a.table = b.table

\* An element gets a figure.
GaveFigure(v, w, g, figure) ==
    /\ Len(v.refs) = Len(w.refs)
    /\ \A h \in DOMAIN w.refs : /\ SameRef(v.refs[h], w.refs[h])
                                /\ v.refs[h].figure = IF h = g THEN figure ELSE w.refs[h].figure
    /\ v.next = w.next /\ v.placed = w.placed /\ v.sections = w.sections
    /\ v.used = w.used \union {w.refs[g].id}

\* An image is made, for a figure or for the drawings of a page.
MadeImage(v, w, page, figure) ==
    LET h == Len(w.refs) + 1
        home == SectionForPage(w.sections, page)
    IN /\ Len(v.refs) = h /\ \A g \in DOMAIN w.refs : v.refs[g] = w.refs[g]
       /\ v.refs[h].type = "image" /\ v.refs[h].page = page /\ v.refs[h].id = w.next
       /\ v.refs[h].table = Unset /\ v.refs[h].figure = figure
       /\ v.next = w.next + 1 /\ v.placed = Append(w.placed, h)
       /\ DOMAIN v.sections = DOMAIN w.sections /\ Len(v.sections) = Len(w.sections)
       /\ home \in DOMAIN w.sections
       /\ \A s \in DOMAIN w.sections :
             /\ v.sections[s].level = w.sections[s].level /\ v.sections[s].parent = w.sections[s].parent
             /\ v.sections[s].first = w.sections[s].first /\ v.sections[s].last = w.sections[s].last
             /\ v.sections[s].elements = IF s = home THEN Append(w.sections[s].elements, h)
                                                     ELSE w.sections[s].elements

\* Work with the figure of one element changed.
Refigured(v, w, g, i, used) == v = [w EXCEPT !.refs[g].figure = i, !.used = used]

Refiguring(v, w, g, i, used) ==
    /\ v \in Works /\ Len(v.refs) = Len(w.refs)
    /\ v.next = w.next /\ v.placed = w.placed /\ v.sections = w.sections /\ v.used = used
    /\ \A h \in DOMAIN w.refs :
          v.refs[h] = IF h = g THEN [w.refs[g] EXCEPT !.figure = i] ELSE w.refs[h]
    /\ SameRef(v.refs[g], w.refs[g]) /\ v.refs[g].figure = i

LEMMA RefigureIs ==
    ASSUME NEW w \in Works, NEW g \in DOMAIN w.refs, NEW i \in Nat, NEW U \in SUBSET Nat,
           NEW v, Refigured(v, w, g, i, U)
    PROVE  Refiguring(v, w, g, i, U)
<1> DEFINE x == [w.refs[g] EXCEPT !.figure = i]
           a == [w.refs EXCEPT ![g] = x]
           n == Len(w.refs)
<1>1. /\ w.refs \in Seq(Refs) /\ n \in Nat /\ DOMAIN w.refs = 1..n /\ w.refs[g] \in Refs
  BY WorkIs
<1>2. x \in Refs /\ SameRef(x, w.refs[g]) /\ x.figure = i
  BY <1>1 DEF Refs, SameRef
<1>3. v = [w EXCEPT !.refs = a, !.used = U]
  BY DEF Refigured
<1> HIDE DEF x
<1>4. a \in Seq(Refs) /\ Len(a) = n /\ \A h \in DOMAIN w.refs : a[h] = IF h = g THEN x ELSE w.refs[h]
  BY <1>1, <1>2, ExceptSeq
<1> HIDE DEF a
<1>5. /\ v \in Works /\ v.refs = a /\ v.next = w.next /\ v.placed = w.placed
      /\ v.sections = w.sections /\ v.used = U
  <2> HIDE DEF Refs, Secs
  <2> QED BY <1>3, <1>4 DEF Works
<1> QED
  BY <1>2, <1>4, <1>5 DEF x, n, Refiguring

\* An image of the page that is free gets the figure, else one is made.
FigureAttached(v, w, images, page, i) ==
    \/ \E g \in DOMAIN w.refs :
          /\ g \in Range(images) /\ w.refs[g].id \notin w.used /\ w.refs[g].page = page
          /\ GaveFigure(v, w, g, i)
    \/ /\ \A g \in Range(images) \intersect DOMAIN w.refs :
             w.refs[g].page = page => w.refs[g].id \in w.used
       /\ v.used = w.used \union {w.next} /\ MadeImage(v, w, page, i)

LEMMA AttachFigureIs ==
    ASSUME NEW w \in Works, NEW figures \in Seq(Found), NEW i \in DOMAIN figures,
           NEW A, NEW images \in Seq(A)
    PROVE  /\ AttachFigure(figures, images, w, i) \in Works
           /\ FigureAttached(AttachFigure(figures, images, w, i), w, images, figures[i].page, i)
<1> DEFINE v == AttachFigure(figures, images, w, i)
           fig == figures[i]
           match == BestImage(w.refs, images, fig, w.used)
           ref == Ref(w.next, "image", fig.page, fig.box)
           made == Insert(w, ref)
           h == Len(w.refs) + 1
<1>1. /\ w.refs \in Seq(Refs) /\ w.used \in SUBSET Nat /\ w.next \in Nat
      /\ Len(w.refs) \in Nat /\ DOMAIN w.refs = 1..Len(w.refs)
      /\ \A g \in DOMAIN w.refs : w.refs[g] \in Refs
  BY WorkIs
<1>2. fig \in Found /\ fig.page \in DocPages /\ fig.box \in Boxes /\ i \in Nat
  <2>1. fig \in Found /\ i \in Nat
    <3> HIDE DEF Found
    <3> QED BY LenProperties
  <2> QED BY <2>1, TreeConstants DEF Found
<1> HIDE DEF fig
<1>3. \/ /\ match = Unset
         /\ \A g \in Range(images) \intersect DOMAIN w.refs : w.refs[g].page = fig.page => w.refs[g].id \in w.used
      \/ /\ match \in Range(images) /\ match \in DOMAIN w.refs
         /\ w.refs[match].id \notin w.used /\ w.refs[match].page = fig.page
  BY <1>1, BestImageIs
<1>4. Unset \notin DOMAIN w.refs
  BY <1>1 DEF Unset
<1>5. CASE match # Unset
  <2> DEFINE U == w.used \union {w.refs[match].id}
  <2>1. match \in DOMAIN w.refs /\ w.refs[match].id \in Nat /\ U \in SUBSET Nat
    BY <1>1, <1>3, <1>5, RefIs
  <2>2. Refigured(v, w, match, i, U)
    BY <1>5 DEF AttachFigure, fig, Refigured
  <2> HIDE DEF v, match, U
  <2>3. /\ v \in Works /\ Len(v.refs) = Len(w.refs)
        /\ v.next = w.next /\ v.placed = w.placed /\ v.sections = w.sections /\ v.used = U
        /\ \A g \in DOMAIN w.refs :
              v.refs[g] = IF g = match THEN [w.refs[match] EXCEPT !.figure = i] ELSE w.refs[g]
        /\ SameRef(v.refs[match], w.refs[match]) /\ v.refs[match].figure = i
    <3>1. Refiguring(v, w, match, i, U)
      BY <1>2, <2>1, <2>2, RefigureIs
    <3> QED BY <3>1 DEF Refiguring
  <2>4. \A g \in DOMAIN w.refs : /\ SameRef(v.refs[g], w.refs[g])
                                 /\ v.refs[g].figure = IF g = match THEN i ELSE w.refs[g].figure
    BY <2>3 DEF SameRef
  <2>5. GaveFigure(v, w, match, i)
    BY <2>3, <2>4 DEF GaveFigure, U
  <2> QED BY <1>3, <1>5, <2>1, <2>3, <2>5 DEF v, fig, FigureAttached
<1>6. CASE match = Unset
  <2>1. ref \in Refs /\ ref.id = w.next /\ ref.type = "image" /\ ref.page = fig.page /\ ref.table = Unset
    <3>1. ref = [id |-> w.next, type |-> "image", page |-> fig.page, box |-> fig.box,
                 table |-> Unset, figure |-> Unset, vector |-> FALSE]
      BY DEF Ref
    <3> HIDE DEF ref
    <3> QED BY <1>1, <1>2, <3>1 DEF Refs, Types, Unset
  <2> HIDE DEF ref
  <2>2. /\ made \in Works /\ made.refs = Append(w.refs, ref) /\ made.next = w.next + 1
        /\ made.placed = Append(w.placed, h) /\ made.used = w.used
        /\ DOMAIN made.sections = DOMAIN w.sections /\ Len(made.sections) = Len(w.sections)
        /\ SectionForPage(w.sections, ref.page) \in DOMAIN w.sections
        /\ \A s \in DOMAIN w.sections :
              /\ made.sections[s].level = w.sections[s].level /\ made.sections[s].parent = w.sections[s].parent
              /\ made.sections[s].first = w.sections[s].first /\ made.sections[s].last = w.sections[s].last
              /\ made.sections[s].elements = IF s = SectionForPage(w.sections, ref.page)
                                             THEN Append(w.sections[s].elements, h) ELSE w.sections[s].elements
    BY <2>1, InsertIs
  <2>3. /\ Len(made.refs) = h /\ made.refs[h] = ref /\ h \in DOMAIN made.refs
        /\ DOMAIN made.refs = 1..h
        /\ \A g \in DOMAIN w.refs : made.refs[g] = w.refs[g] /\ g \in DOMAIN made.refs /\ g # h
    <3>1. made.refs \in Seq(Refs) /\ Len(made.refs) = h /\ made.refs[h] = ref
      BY <1>1, <2>1, <2>2
    <3>2. DOMAIN made.refs = 1..h /\ h \in 1..h
      BY <1>1, <3>1, LenProperties
    <3>3. \A g \in DOMAIN w.refs : made.refs[g] = w.refs[g] /\ g \in 1..h /\ g # h
      BY <1>1, <2>1, <2>2
    <3> QED BY <3>1, <3>2, <3>3
  <2> DEFINE U == w.used \union {w.next}
  <2>4. Refigured(v, made, h, i, U)
    <3>1. AttachFigure(figures, images, w, i) =
            [made EXCEPT !.refs[Len(made.refs)].figure = i,
                         !.used = @ \union {made.refs[Len(made.refs)].id}]
      BY <1>6 DEF AttachFigure, fig, ref
    <3> HIDE DEF made, h
    <3> QED BY <2>1, <2>2, <2>3, <3>1 DEF Refigured
  <2> HIDE DEF v, made, h, U
  <2>5. U \in SUBSET Nat
    BY <1>1 DEF U
  <2>6. /\ v \in Works /\ Len(v.refs) = Len(made.refs)
        /\ v.next = made.next /\ v.placed = made.placed /\ v.sections = made.sections /\ v.used = U
        /\ \A g \in DOMAIN made.refs :
              v.refs[g] = IF g = h THEN [made.refs[h] EXCEPT !.figure = i] ELSE made.refs[g]
        /\ SameRef(v.refs[h], made.refs[h]) /\ v.refs[h].figure = i
    <3>1. Refiguring(v, made, h, i, U)
      BY <1>2, <2>2, <2>3, <2>4, <2>5, RefigureIs
    <3> QED BY <3>1 DEF Refiguring
  <2>7. \A g \in DOMAIN w.refs : v.refs[g] = w.refs[g]
    BY <2>3, <2>6
  <2>8. MadeImage(v, w, fig.page, i)
    BY <2>1, <2>2, <2>3, <2>6, <2>7 DEF MadeImage, SameRef, h
  <2>9. \A g \in Range(images) \intersect DOMAIN w.refs : w.refs[g].page = fig.page => w.refs[g].id \in w.used
    BY <1>3, <1>4, <1>6
  <2> QED BY <2>6, <2>8, <2>9 DEF v, fig, U, FigureAttached
<1> QED
  BY <1>5, <1>6

LEMMA AttachVectorIs ==
    ASSUME NEW w \in Works, NEW page \in DocPages
    PROVE  LET v == AttachVectorPage(w, page)
           IN v \in Works /\ v.used = w.used /\ MadeImage(v, w, page, Unset)
<1> DEFINE v == AttachVectorPage(w, page)
           ref == [Ref(w.next, "image", page, NoBox) EXCEPT !.vector = TRUE]
           h == Len(w.refs) + 1
<1>1. w.refs \in Seq(Refs) /\ w.next \in Nat /\ Len(w.refs) \in Nat /\ DOMAIN w.refs = 1..Len(w.refs)
  BY WorkIs
<1>2. /\ ref \in Refs /\ ref.id = w.next /\ ref.type = "image" /\ ref.page = page /\ ref.table = Unset
      /\ ref.figure = Unset
  <2> DEFINE r == Ref(w.next, "image", page, NoBox)
  <2>1. r = [id |-> w.next, type |-> "image", page |-> page, box |-> NoBox,
             table |-> Unset, figure |-> Unset, vector |-> FALSE]
    BY DEF Ref
  <2>2. ref = [r EXCEPT !.vector = TRUE]
    OBVIOUS
  <2> HIDE DEF r, ref
  <2>3. /\ r \in Refs /\ r.id = w.next /\ r.type = "image" /\ r.page = page /\ r.table = Unset
        /\ r.figure = Unset
    BY <1>1, <2>1, TreeConstants DEF Refs, Types, Unset
  <2> QED BY <2>2, <2>3 DEF Refs
<1>3. v = Insert(w, ref)
  BY DEF AttachVectorPage
<1> HIDE DEF ref, v
<1>4. /\ v \in Works /\ v.refs = Append(w.refs, ref) /\ v.next = w.next + 1
      /\ v.placed = Append(w.placed, h) /\ v.used = w.used
      /\ DOMAIN v.sections = DOMAIN w.sections /\ Len(v.sections) = Len(w.sections)
      /\ SectionForPage(w.sections, ref.page) \in DOMAIN w.sections
      /\ \A s \in DOMAIN w.sections :
            /\ v.sections[s].level = w.sections[s].level /\ v.sections[s].parent = w.sections[s].parent
            /\ v.sections[s].first = w.sections[s].first /\ v.sections[s].last = w.sections[s].last
            /\ v.sections[s].elements = IF s = SectionForPage(w.sections, ref.page)
                                        THEN Append(w.sections[s].elements, h) ELSE w.sections[s].elements
  BY <1>2, <1>3, InsertIs
<1>5. /\ Len(v.refs) = h /\ v.refs[h] = ref
      /\ \A g \in DOMAIN w.refs : v.refs[g] = w.refs[g]
  BY <1>1, <1>2, <1>4
<1>6. MadeImage(v, w, page, Unset)
  <2> HIDE DEF h
  <2> QED BY <1>2, <1>4, <1>5 DEF MadeImage, h
<1> QED
  BY <1>4, <1>6 DEF v

\* h gives the work after each figure, in turn.
FiguresInTurn(h, figures, images, start) ==
    /\ h[0] = start
    /\ h[Len(figures)] = FoldLeft(LAMBDA w, i : AttachFigure(figures, images, w, i), start, Numbers(figures))
    /\ \A i \in 1..Len(figures) : h[i] = AttachFigure(figures, images, h[i - 1], i)
    /\ \A i \in 0..Len(figures) : h[i] \in Works

LEMMA FiguresAttached ==
    ASSUME NEW figures \in Seq(Found), NEW A, NEW images \in Seq(A), NEW start \in Works
    PROVE  \E h : FiguresInTurn(h, figures, images, start)
<1> DEFINE s == Numbers(figures)
           n == Len(figures)
           B == Works
           Step(w, i) == AttachFigure(figures, images, w, i)
           Whole == FoldLeft(LAMBDA w, i : AttachFigure(figures, images, w, i), start, s)
           F == [p \in (1..n) \X B |-> Step(p[2], p[1])]
           Iter(g) == g = [t \in SUBSET (1..n) |->
                             IF t = {} THEN start ELSE Step(g[t \ {Max(t)}], Max(t))]
<1>0. n \in Nat /\ DOMAIN figures = 1..n /\ DOMAIN s = 1..n /\ \A i \in 1..n : s[i] = i
  <2>1. n \in Nat /\ DOMAIN figures = 1..n
    <3> HIDE DEF Found
    <3> QED BY LenProperties
  <2> HIDE DEF n
  <2> QED BY <2>1 DEF Numbers
<1>11. s = [i \in 1..n |-> i]
  BY <1>0 DEF Numbers
<1>1. Whole = (CHOOSE g : Iter(g))[1..n]
  <2> DEFINE It(g) == g = [t \in SUBSET (1..n) |->
                             IF t = {} THEN start ELSE Step(g[t \ {Max(t)}], s[Max(t)])]
  <2>1. Whole = (CHOOSE g : It(g))[1..n]
    BY <1>0 DEF FoldLeft, MapThenFoldSet
  <2>2. \A g : It(g) <=> Iter(g)
    <3>1. \A t \in SUBSET (1..n) : t # {} => s[Max(t)] = Max(t)
      <4>1. \A t \in SUBSET (1..n) : t # {} => Max(t) \in 1..n
        <5>1. ASSUME NEW t \in SUBSET (1..n), t # {} PROVE Max(t) \in t
          <6> HIDE DEF n
          <6> QED BY <1>0, <5>1, LastPosition
        <5> QED BY <5>1
      <4> QED BY <1>0, <4>1
    <3> DEFINE X(g, t) == IF t = {} THEN start ELSE Step(g[t \ {Max(t)}], s[Max(t)])
               Y(g, t) == IF t = {} THEN start ELSE Step(g[t \ {Max(t)}], Max(t))
    <3>2. \A g : \A t \in SUBSET (1..n) : X(g, t) = Y(g, t)
      <4> HIDE DEF s, n, Step
      <4> QED BY <3>1
    <3>3. \A g : [t \in SUBSET (1..n) |-> X(g, t)] = [t \in SUBSET (1..n) |-> Y(g, t)]
      <4> HIDE DEF X, Y, s, n
      <4> QED BY <3>2
    <3> QED BY <3>3
  <2>3. (CHOOSE g : It(g)) = (CHOOSE g : Iter(g))
    <3> HIDE DEF It, Iter
    <3> QED BY <2>2
  <2> QED BY <2>1, <2>3
<1> HIDE DEF s, Whole
<1>2. \A i \in 1..n, a \in B : F[<<i, a>>] = Step(a, i) /\ Step(a, i) \in B
  <2>1. \A i \in 1..n, a \in B : Step(a, i) \in B
    BY <1>0, AttachFigureIs
  <2> HIDE DEF Step, B
  <2> QED BY <2>1
<1> HIDE DEF B, Step
<1>3. PICK g : FoldsUp(g, F, start, n)
  BY <1>0, FoldsExist
<1>4. \A t \in SUBSET (1..n) : g[t] \in B
  <2>1. start \in B
    BY DEF B
  <2> HIDE DEF F
  <2>2. \A i \in 1..n, a \in B : F[<<i, a>>] \in B
    BY <1>2
  <2> HIDE DEF n
  <2> QED BY <1>0, <1>3, <2>1, <2>2, FoldsWithin
<1>5. Iter(g)
  <2>1. ASSUME NEW t \in SUBSET (1..n), t # {}
        PROVE  F[<<Max(t), g[t \ {Max(t)}]>>] = Step(g[t \ {Max(t)}], Max(t))
    <3>1. Max(t) \in 1..n
      BY <1>0, <2>1, LastPosition
    <3>2. g[t \ {Max(t)}] \in B
      BY <1>4
    <3> HIDE DEF F, n
    <3> QED BY <1>2, <3>1, <3>2
  <2> HIDE DEF F, n
  <2> QED BY <1>3, <2>1 DEF FoldsUp
<1>6. PICK f : Iter(f) /\ Whole = f[1..n]
  <2> HIDE DEF Iter
  <2> QED BY <1>1, <1>5
<1> DEFINE h == [i \in 0..n |-> f[1..i]]
<1> HIDE DEF n, F
<1>7. h[0] = start /\ h[n] = Whole
  <2>1. 1..0 = {} /\ f[{}] = start
    BY <1>6
  <2>2. f[1..0] = start
    BY <2>1
  <2>3. 0 \in 0..n /\ n \in 0..n
    BY <1>0
  <2> QED BY <1>6, <2>2, <2>3
<1>8. ASSUME NEW i \in 1..n PROVE h[i] = Step(h[i - 1], i)
  <2>0. i \in Nat \ {0} /\ 1..i # {} /\ 1..i \in SUBSET (1..n)
    <3>1. n \in Nat
      BY <1>0
    <3>2. i \in 1..i
      BY <3>1
    <3>3. i \in Nat \ {0}
      BY <3>1
    <3>4. \A k \in 1..i : k \in 1..n
      BY <3>1
    <3> QED BY <3>2, <3>3, <3>4
  <2>1. Max(1..i) = i /\ (1..i) \ {Max(1..i)} = 1..(i - 1) /\ 1..i # {} /\ 1..i \in SUBSET (1..n)
    BY <2>0, MaxOfPrefix
  <2>2. f[1..i] = Step(f[1..(i - 1)], i)
    BY <1>6, <2>1
  <2> QED BY <1>0, <2>2
<1>9. \A i \in 0..n : h[i] \in B
  <2> DEFINE T == {i \in 0..n : h[i] \in B}
  <2>0. start \in B /\ 0 \in 0..n
    BY <1>0 DEF B
  <2> HIDE DEF h
  <2>1. 0 \in T
    BY <1>7, <2>0
  <2>2. ASSUME NEW i \in 1..n, i - 1 \in T PROVE i \in T
    <3>1. i \in 0..n /\ h[i - 1] \in B
      BY <1>0, <2>2
    <3>2. h[i] \in B
      BY <1>2, <1>8, <3>1
    <3> QED BY <3>1, <3>2
  <2> HIDE DEF T
  <2>3. \A i \in 0..n : i \in T
    BY <1>0, <2>1, <2>2, UpTo
  <2> QED BY <2>3 DEF T
<1> HIDE DEF h
<1>10. FiguresInTurn(h, figures, images, start)
  BY <1>7, <1>8, <1>9 DEF n, s, Whole, Step, B, FiguresInTurn
<1> QED
  BY <1>10

\* h gives the work after each page of drawings, in turn.
PagesInTurn(h, pages, start) ==
    /\ h[0] = start /\ h[Len(pages)] = FoldLeft(AttachVectorPage, start, pages)
    /\ \A i \in 1..Len(pages) : h[i] = AttachVectorPage(h[i - 1], pages[i])
    /\ \A i \in 0..Len(pages) : h[i] \in Works

LEMMA PagesAttached ==
    ASSUME NEW pages \in Seq(DocPages), NEW start \in Works
    PROVE  \E h : PagesInTurn(h, pages, start)
<1> DEFINE s == pages
           n == Len(s)
           B == Works
           Step(w, p) == AttachVectorPage(w, p)
           Whole == FoldLeft(AttachVectorPage, start, s)
           F == [p \in (1..n) \X B |-> Step(p[2], s[p[1]])]
           Iter(g) == g = [t \in SUBSET (1..n) |->
                             IF t = {} THEN start ELSE Step(g[t \ {Max(t)}], s[Max(t)])]
<1>0. n \in Nat /\ DOMAIN s = 1..n /\ \A i \in 1..n : s[i] \in DocPages
  BY LenProperties
<1>1. Whole = (CHOOSE g : Iter(g))[1..n]
  BY <1>0 DEF FoldLeft, MapThenFoldSet
<1> HIDE DEF s, Whole
<1>2. \A i \in 1..n, a \in B : F[<<i, a>>] = Step(a, s[i]) /\ Step(a, s[i]) \in B
  <2>1. \A i \in 1..n, a \in B : Step(a, s[i]) \in B
    BY <1>0, AttachVectorIs
  <2> HIDE DEF Step, B
  <2> QED BY <2>1
<1> HIDE DEF B, Step
<1>3. PICK g : FoldsUp(g, F, start, n)
  BY <1>0, FoldsExist
<1>4. \A t \in SUBSET (1..n) : g[t] \in B
  <2>1. start \in B
    BY DEF B
  <2> HIDE DEF F
  <2>2. \A i \in 1..n, a \in B : F[<<i, a>>] \in B
    BY <1>2
  <2> HIDE DEF n
  <2> QED BY <1>0, <1>3, <2>1, <2>2, FoldsWithin
<1>5. Iter(g)
  <2>1. ASSUME NEW t \in SUBSET (1..n), t # {}
        PROVE  F[<<Max(t), g[t \ {Max(t)}]>>] = Step(g[t \ {Max(t)}], s[Max(t)])
    <3>1. Max(t) \in 1..n
      BY <1>0, <2>1, LastPosition
    <3>2. g[t \ {Max(t)}] \in B
      BY <1>4
    <3> HIDE DEF F, n
    <3> QED BY <1>2, <3>1, <3>2
  <2> HIDE DEF F, n
  <2> QED BY <1>3, <2>1 DEF FoldsUp
<1>6. PICK f : Iter(f) /\ Whole = f[1..n]
  <2> HIDE DEF Iter
  <2> QED BY <1>1, <1>5
<1> DEFINE h == [i \in 0..n |-> f[1..i]]
<1> HIDE DEF n, F
<1>7. h[0] = start /\ h[n] = Whole
  <2>1. 1..0 = {} /\ f[{}] = start
    BY <1>6
  <2>2. f[1..0] = start
    BY <2>1
  <2>3. 0 \in 0..n /\ n \in 0..n
    BY <1>0
  <2> QED BY <1>6, <2>2, <2>3
<1>8. ASSUME NEW i \in 1..n PROVE h[i] = Step(h[i - 1], s[i])
  <2>1. Max(1..i) = i /\ (1..i) \ {Max(1..i)} = 1..(i - 1) /\ 1..i # {} /\ 1..i \in SUBSET (1..n)
    BY <1>0, MaxOfPrefix
  <2>2. f[1..i] = Step(f[1..(i - 1)], s[i])
    BY <1>6, <2>1
  <2> QED BY <1>0, <2>2
<1>9. \A i \in 0..n : h[i] \in B
  <2> DEFINE T == {i \in 0..n : h[i] \in B}
  <2>0. start \in B /\ 0 \in 0..n
    BY <1>0 DEF B
  <2> HIDE DEF h
  <2>1. 0 \in T
    BY <1>7, <2>0
  <2>2. ASSUME NEW i \in 1..n, i - 1 \in T PROVE i \in T
    <3>1. i \in 0..n /\ h[i - 1] \in B
      BY <1>0, <2>2
    <3>2. h[i] \in B
      BY <1>2, <1>8, <3>1
    <3> QED BY <3>1, <3>2
  <2> HIDE DEF T
  <2>3. \A i \in 0..n : i \in T
    BY <1>0, <2>1, <2>2, UpTo
  <2> QED BY <2>3 DEF T
<1> HIDE DEF h
<1>10. PagesInTurn(h, pages, start)
  BY <1>7, <1>8, <1>9 DEF n, s, Whole, Step, B, PagesInTurn
<1> QED
  BY <1>10

-----------------------------------------------------------------------------
(* The tree: what the work on figures keeps *)

\* Where find_section_for_page puts an element of the page.
Leads(s, page) ==
    IF s = 1 THEN \A a \in 2..Len(sections) : page \notin sections[a].first..sections[a].last
             ELSE page \in sections[s].first..sections[s].last

\* The elements made for figures and drawings.
Fresh(w) == (Len(refs) + 1)..Len(w.refs)

WorkInv(w) ==
    /\ w \in Works
    /\ Len(refs) <= Len(w.refs) /\ w.next = Len(placed) + 1 + (Len(w.refs) - Len(refs))
    /\ \A h \in DOMAIN refs : SameRef(w.refs[h], refs[h])
    /\ \A h \in Fresh(w) : /\ w.refs[h].type = "image" /\ w.refs[h].table = Unset
                           /\ w.refs[h].id = Len(placed) + (h - Len(refs))
    /\ SameFrames(w.sections)
    /\ Placed(ElementsIn(w.sections), Uncovered \union Fresh(w))
    /\ \A s \in DOMAIN sections : \A h \in Range(w.sections[s].elements) :
          h \in Range(sections[s].elements) \/ (h \in Fresh(w) /\ Leads(s, w.refs[h].page))
    /\ Range(w.placed) \subseteq DOMAIN w.refs

LEMMA GaveKeeps ==
    ASSUME ShapeInv, NEW w, WorkInv(w), NEW v \in Works, NEW g, NEW i, GaveFigure(v, w, g, i)
    PROVE  WorkInv(v)
<1>1. /\ Len(refs) \in Nat /\ DOMAIN refs = 1..Len(refs)
  BY ShapeIs
<1>2. /\ w \in Works /\ Len(w.refs) \in Nat /\ DOMAIN w.refs = 1..Len(w.refs)
  BY WorkIs DEF WorkInv
<1>3. DOMAIN v.refs = 1..Len(v.refs)
  BY WorkIs
<1>4. /\ Len(v.refs) = Len(w.refs) /\ v.next = w.next /\ v.placed = w.placed /\ v.sections = w.sections
      /\ \A h \in DOMAIN w.refs : SameRef(v.refs[h], w.refs[h])
  BY DEF GaveFigure
<1>5. Fresh(v) = Fresh(w)
  BY <1>4 DEF Fresh
<1>6. Len(refs) <= Len(w.refs)
  BY DEF WorkInv
<1>7. \A h \in Fresh(w) : h \in DOMAIN w.refs
  BY <1>1, <1>2 DEF Fresh
<1>8. \A h \in DOMAIN refs : h \in DOMAIN w.refs
  BY <1>1, <1>2, <1>6
<1>9. \A h \in DOMAIN refs : SameRef(v.refs[h], refs[h])
  BY <1>4, <1>8 DEF WorkInv, SameRef
<1>10. \A h \in Fresh(w) : /\ v.refs[h].type = "image" /\ v.refs[h].table = Unset
                           /\ v.refs[h].id = Len(placed) + (h - Len(refs))
                           /\ v.refs[h].page = w.refs[h].page
  BY <1>4, <1>7 DEF WorkInv, SameRef
<1>11. \A s \in DOMAIN sections : \A h \in Range(v.sections[s].elements) :
          h \in Range(sections[s].elements) \/ (h \in Fresh(w) /\ Leads(s, v.refs[h].page))
  BY <1>4, <1>10 DEF WorkInv
<1>12. Range(v.placed) \subseteq DOMAIN v.refs
  BY <1>2, <1>3, <1>4 DEF WorkInv
<1> QED
  BY <1>4, <1>5, <1>9, <1>10, <1>11, <1>12 DEF WorkInv

\* find_section_for_page looks at the reach of the sections only.
LEMMA HomeLeads ==
    ASSUME NEW w \in Works, SameFrames(w.sections), NEW page
    PROVE  /\ SectionForPage(w.sections, page) \in DOMAIN w.sections
           /\ Leads(SectionForPage(w.sections, page), page)
<1> DEFINE secs == w.sections
           s == SectionForPage(secs, page)
<1>1. /\ s \in DOMAIN secs
      /\ IF s = 1 THEN \A a \in 2..Len(secs) : page \notin secs[a].first..secs[a].last
                  ELSE page \in secs[s].first..secs[s].last
  <2>1. secs \in Seq(Secs) /\ secs # <<>>
    BY WorkIs
  <2> HIDE DEF secs
  <2> QED BY <2>1, SectionForPageIs
<1>2. DOMAIN secs = 1..Len(secs) /\ Len(secs) \in Nat
  BY WorkIs
<1>3. /\ Len(secs) = Len(sections) /\ DOMAIN secs = DOMAIN sections
      /\ \A a \in DOMAIN sections : secs[a].first = sections[a].first /\ secs[a].last = sections[a].last
  BY DEF SameFrames
<1> HIDE DEF s, secs
<1>4. \A a \in 2..Len(sections) : a \in DOMAIN sections
  BY <1>2, <1>3
<1>5. Leads(s, page)
  BY <1>1, <1>3, <1>4 DEF Leads
<1> QED
  BY <1>1, <1>5 DEF s, secs

LEMMA MadeKeeps ==
    ASSUME ShapeInv, NEW w, WorkInv(w), NEW v \in Works, NEW page, NEW i, MadeImage(v, w, page, i)
    PROVE  WorkInv(v)
<1> DEFINE n == Len(refs)
           l == Len(w.refs)
           h == l + 1
           home == SectionForPage(w.sections, page)
<1>1. n \in Nat /\ DOMAIN refs = 1..n
  BY ShapeIs
<1>2. /\ w \in Works /\ l \in Nat /\ DOMAIN w.refs = 1..l /\ w.placed \in Seq(Nat)
      /\ w.sections \in Seq(Secs) /\ \A s \in DOMAIN w.sections : w.sections[s] \in Secs
  BY WorkIs DEF WorkInv
<1>3. /\ Len(v.refs) = h /\ \A g \in DOMAIN w.refs : v.refs[g] = w.refs[g]
      /\ v.refs[h].type = "image" /\ v.refs[h].page = page /\ v.refs[h].id = w.next
      /\ v.refs[h].table = Unset
      /\ v.next = w.next + 1 /\ v.placed = Append(w.placed, h)
      /\ DOMAIN v.sections = DOMAIN w.sections /\ Len(v.sections) = Len(w.sections)
      /\ home \in DOMAIN w.sections
      /\ \A s \in DOMAIN w.sections :
            /\ v.sections[s].level = w.sections[s].level /\ v.sections[s].parent = w.sections[s].parent
            /\ v.sections[s].first = w.sections[s].first /\ v.sections[s].last = w.sections[s].last
            /\ v.sections[s].elements = IF s = home THEN Append(w.sections[s].elements, h)
                                                    ELSE w.sections[s].elements
  BY DEF MadeImage
<1>4. /\ n <= l /\ w.next = Len(placed) + 1 + (l - n)
      /\ \A g \in DOMAIN refs : SameRef(w.refs[g], refs[g])
      /\ \A g \in Fresh(w) : /\ w.refs[g].type = "image" /\ w.refs[g].table = Unset
                             /\ w.refs[g].id = Len(placed) + (g - n)
      /\ SameFrames(w.sections)
      /\ Placed(ElementsIn(w.sections), Uncovered \union Fresh(w))
      /\ \A s \in DOMAIN sections : \A g \in Range(w.sections[s].elements) :
            g \in Range(sections[s].elements) \/ (g \in Fresh(w) /\ Leads(s, w.refs[g].page))
      /\ Range(w.placed) \subseteq DOMAIN w.refs
  BY DEF WorkInv
<1>5. Len(placed) \in Nat
  BY ShapeIs
<1>6. DOMAIN v.refs = 1..h
  BY <1>3, WorkIs
<1>7. Leads(home, page)
  BY <1>2, <1>4, HomeLeads
<1>8. Fresh(w) = (n + 1)..l /\ Fresh(v) = (n + 1)..h
  BY <1>3 DEF Fresh
<1> HIDE DEF h, n, l, home
<1>9. h \in Nat /\ h = l + 1
  BY <1>2 DEF h
<1>10. /\ Fresh(v) = Fresh(w) \union {h} /\ h \notin DOMAIN w.refs /\ h \in DOMAIN v.refs
       /\ \A g \in Fresh(w) : g \in DOMAIN w.refs
       /\ \A g \in DOMAIN refs : g \in DOMAIN w.refs
       /\ \A g \in DOMAIN w.refs : g \in DOMAIN v.refs
  BY <1>1, <1>2, <1>4, <1>6, <1>8, <1>9
<1>11. n <= h /\ v.next = Len(placed) + 1 + (h - n) /\ w.next = Len(placed) + (h - n)
  BY <1>1, <1>2, <1>3, <1>4, <1>5, <1>9
<1>12. \A g \in DOMAIN refs : SameRef(v.refs[g], refs[g])
  BY <1>3, <1>4, <1>10
<1>13. \A g \in Fresh(v) : /\ v.refs[g].type = "image" /\ v.refs[g].table = Unset
                           /\ v.refs[g].id = Len(placed) + (g - n)
  BY <1>3, <1>4, <1>10, <1>11
<1>14. SameFrames(v.sections)
  BY <1>3, <1>4 DEF SameFrames
<1>15. Placed(ElementsIn(v.sections), Uncovered \union Fresh(v))
  <2> DEFINE S == Uncovered \union Fresh(w)
             f == ElementsIn(w.sections)
             g == ElementsIn(v.sections)
  <2>1. h \notin S
    BY <1>10 DEF Uncovered
  <2>2. /\ DOMAIN f = DOMAIN w.sections /\ DOMAIN g = DOMAIN f /\ home \in DOMAIN f
        /\ f[home] \in Seq(Nat) /\ g[home] = Append(f[home], h)
        /\ \A t \in DOMAIN f : t # home => g[t] = f[t]
    <3>1. w.sections[home].elements \in Seq(Nat)
      BY <1>2, <1>3, SecIs
    <3> QED BY <1>3, <3>1 DEF ElementsIn
  <2>3. Placed(f, S)
    BY <1>4
  <2> HIDE DEF f, g, S
  <2>4. Placed(g, S \union {h})
    BY <1>9, <2>1, <2>2, <2>3, PlacedOne
  <2>5. S \union {h} = Uncovered \union Fresh(v)
    BY <1>10 DEF S
  <2> QED BY <2>4, <2>5 DEF g
<1>16. ASSUME NEW s \in DOMAIN sections, NEW g \in Range(v.sections[s].elements)
       PROVE  g \in Range(sections[s].elements) \/ (g \in Fresh(v) /\ Leads(s, v.refs[g].page))
  <2>0. s \in DOMAIN w.sections /\ w.sections[s].elements \in Seq(Nat)
    BY <1>2, <1>4, SecIs DEF SameFrames
  <2>1. g \in Range(w.sections[s].elements) \/ (s = home /\ g = h)
    <3>1. Range(Append(w.sections[s].elements, h)) = Range(w.sections[s].elements) \union {h}
      BY <1>9, <2>0, RangeGrows
    <3> QED BY <1>3, <1>16, <2>0, <3>1
  <2>2. CASE g \in Range(w.sections[s].elements)
    <3>1. g \in Range(sections[s].elements) \/ (g \in Fresh(w) /\ Leads(s, w.refs[g].page))
      BY <1>4, <2>2
    <3> QED BY <1>3, <1>10, <3>1
  <2>3. CASE s = home /\ g = h
    BY <1>3, <1>7, <1>10, <2>3
  <2> QED BY <2>1, <2>2, <2>3
<1>17. Range(v.placed) \subseteq DOMAIN v.refs
  <2>1. Range(v.placed) = Range(w.placed) \union {h}
    BY <1>2, <1>3, <1>9, RangeGrows, SMTT(30)
  <2> QED BY <1>4, <1>10, <2>1
<1> QED
  BY <1>3, <1>11, <1>12, <1>13, <1>14, <1>15, <1>16, <1>17 DEF WorkInv, n

HoldsFigure(w, h, f) ==
    w.refs[h].figure = f /\ \A g \in DOMAIN w.refs : w.refs[g].figure = f => g = h

\* The first i figures have an element each; the numbers of the elements that
\* have one are the used ones, and whoever was passed over for a figure that
\* got an element of its own has a used number.
FigInv(w, i) ==
    /\ \A h \in DOMAIN w.refs : w.refs[h].figure \in 0..i
    /\ \A f \in 1..i : \E h \in DOMAIN w.refs : HoldsFigure(w, h, f)
    /\ \A h \in DOMAIN w.refs : w.refs[h].figure # Unset => w.refs[h].id \in w.used
    /\ \A u \in w.used : \E k \in DOMAIN w.refs : w.refs[k].id = u /\ w.refs[k].figure # Unset
    /\ \A h \in Partitioned, g \in Fresh(w) :
          w.refs[h].type = "image" /\ w.refs[g].figure # Unset /\ w.refs[g].page = w.refs[h].page
             => w.refs[h].id \in w.used

LEMMA GaveFigs ==
    ASSUME ShapeInv, Partitioned \subseteq DOMAIN refs, NEW i \in Nat \ {0},
           NEW w, WorkInv(w), FigInv(w, i - 1), NEW v, NEW g \in DOMAIN refs,
           w.refs[g].id \notin w.used, v \in Works, GaveFigure(v, w, g, i)
    PROVE  FigInv(v, i)
<1>1. /\ Len(refs) \in Nat /\ DOMAIN refs = 1..Len(refs)
  BY ShapeIs
<1>2. /\ w \in Works /\ Len(w.refs) \in Nat /\ DOMAIN w.refs = 1..Len(w.refs) /\ Len(refs) <= Len(w.refs)
  BY WorkIs DEF WorkInv
<1>3. /\ Len(v.refs) = Len(w.refs) /\ v.used = w.used \union {w.refs[g].id}
      /\ \A h \in DOMAIN w.refs : /\ SameRef(v.refs[h], w.refs[h])
                                  /\ v.refs[h].figure = IF h = g THEN i ELSE w.refs[h].figure
  BY DEF GaveFigure
<1>4. DOMAIN v.refs = DOMAIN w.refs /\ Fresh(v) = Fresh(w)
  BY <1>2, <1>3, WorkIs DEF Fresh
<1>5. /\ g \in DOMAIN w.refs /\ \A h \in DOMAIN refs : h \in DOMAIN w.refs
      /\ \A h \in Fresh(w) : h \in DOMAIN w.refs /\ h # g
  BY <1>1, <1>2 DEF Fresh
<1>6. /\ \A h \in DOMAIN w.refs : w.refs[h].figure \in 0..(i - 1)
      /\ \A f \in 1..(i - 1) : \E h \in DOMAIN w.refs : HoldsFigure(w, h, f)
      /\ \A h \in DOMAIN w.refs : w.refs[h].figure # Unset => w.refs[h].id \in w.used
      /\ \A u \in w.used : \E k \in DOMAIN w.refs : w.refs[k].id = u /\ w.refs[k].figure # Unset
      /\ \A h \in Partitioned, k \in Fresh(w) :
            w.refs[h].type = "image" /\ w.refs[k].figure # Unset /\ w.refs[k].page = w.refs[h].page
               => w.refs[h].id \in w.used
  BY DEF FigInv
<1>7. \A h \in DOMAIN w.refs : v.refs[h].id = w.refs[h].id /\ v.refs[h].type = w.refs[h].type
                               /\ v.refs[h].page = w.refs[h].page
  BY <1>3 DEF SameRef
<1>8. /\ i \in 0..i /\ i \notin 0..(i - 1) /\ \A f \in 0..(i - 1) : f \in 0..i /\ f # i
      /\ i # Unset /\ \A f \in 1..i : f = i \/ f \in 1..(i - 1)
      /\ \A f \in 1..(i - 1) : f # i /\ f # Unset
  BY DEF Unset
<1>9. w.refs[g].figure = Unset
  BY <1>5, <1>6
<1>10. \A h \in DOMAIN v.refs : v.refs[h].figure \in 0..i
  BY <1>3, <1>4, <1>6, <1>8
<1>11. ASSUME NEW f \in 1..i PROVE \E h \in DOMAIN v.refs : HoldsFigure(v, h, f)
  <2>1. CASE f = i
    <3>1. HoldsFigure(v, g, f)
      BY <1>3, <1>4, <1>5, <1>6, <1>8, <2>1 DEF HoldsFigure
    <3> QED BY <1>4, <1>5, <3>1
  <2>2. CASE f \in 1..(i - 1)
    <3>1. PICK h \in DOMAIN w.refs : HoldsFigure(w, h, f)
      BY <1>6, <2>2
    <3>2. f # i /\ f # Unset
      BY <1>8, <2>2
    <3>3. h # g
      BY <1>9, <3>1, <3>2 DEF HoldsFigure
    <3>4. HoldsFigure(v, h, f)
      BY <1>3, <1>4, <3>1, <3>2, <3>3 DEF HoldsFigure
    <3> QED BY <1>4, <3>4
  <2> QED BY <1>8, <2>1, <2>2
<1>12. \A h \in DOMAIN v.refs : v.refs[h].figure # Unset => v.refs[h].id \in v.used
  BY <1>3, <1>4, <1>6, <1>7
<1>13. ASSUME NEW u \in v.used PROVE \E k \in DOMAIN v.refs : v.refs[k].id = u /\ v.refs[k].figure # Unset
  <2>1. CASE u = w.refs[g].id
    BY <1>3, <1>4, <1>5, <1>7, <1>8, <2>1
  <2>2. CASE u \in w.used
    <3>1. PICK k \in DOMAIN w.refs : w.refs[k].id = u /\ w.refs[k].figure # Unset
      BY <1>6, <2>2
    <3>2. k # g
      BY <1>9, <3>1
    <3> QED BY <1>3, <1>4, <1>7, <3>1, <3>2
  <2> QED BY <1>3, <2>1, <2>2
<1>14. ASSUME NEW h \in Partitioned, NEW k \in Fresh(v), v.refs[h].type = "image",
              v.refs[k].figure # Unset, v.refs[k].page = v.refs[h].page
       PROVE  v.refs[h].id \in v.used
  <2>1. h \in DOMAIN w.refs /\ k \in DOMAIN w.refs /\ k # g /\ k \in Fresh(w)
    BY <1>4, <1>5
  <2>2. w.refs[h].type = "image" /\ w.refs[k].figure # Unset /\ w.refs[k].page = w.refs[h].page
    BY <1>3, <1>7, <1>14, <2>1
  <2> QED BY <1>3, <1>6, <1>7, <2>1, <2>2
<1> QED
  BY <1>10, <1>11, <1>12, <1>13, <1>14 DEF FigInv

\* An element is made for figure i, or for drawings.
LEMMA MadeFigs ==
    ASSUME ShapeInv, Partitioned \subseteq DOMAIN refs, NEW i \in Nat, NEW f \in {i, Unset},
           NEW w, WorkInv(w), (f = i /\ i # Unset) \/ f = Unset,
           NEW o, o = (IF f = Unset THEN i ELSE i - 1), FigInv(w, o),
           NEW v, v \in Works, NEW page, MadeImage(v, w, page, f),
           v.used = IF f = Unset THEN w.used ELSE w.used \union {w.next},
           f # Unset => \A h \in Partitioned :
              w.refs[h].type = "image" /\ w.refs[h].page = page => w.refs[h].id \in w.used
    PROVE  FigInv(v, i)
<1> DEFINE l == Len(w.refs)
           h == l + 1
<1>1. /\ Len(refs) \in Nat /\ DOMAIN refs = 1..Len(refs)
  BY ShapeIs
<1>2. /\ w \in Works /\ l \in Nat /\ DOMAIN w.refs = 1..l /\ Len(refs) <= l
  BY WorkIs DEF WorkInv
<1>3. /\ Len(v.refs) = h /\ \A g \in DOMAIN w.refs : v.refs[g] = w.refs[g]
      /\ v.refs[h].page = page /\ v.refs[h].id = w.next /\ v.refs[h].figure = f
  BY DEF MadeImage
<1>4. DOMAIN v.refs = 1..h
  BY <1>3, WorkIs
<1>5. Fresh(w) = (Len(refs) + 1)..l /\ Fresh(v) = (Len(refs) + 1)..h
  BY <1>3 DEF Fresh
<1> HIDE DEF h, l
<1>6. h \in Nat /\ h = l + 1
  BY <1>2 DEF h
<1>7. /\ DOMAIN v.refs = DOMAIN w.refs \union {h} /\ Fresh(v) = Fresh(w) \union {h} /\ h \notin DOMAIN w.refs
      /\ \A g \in Fresh(w) : g \in DOMAIN w.refs
      /\ \A g \in DOMAIN refs : g \in DOMAIN w.refs
  BY <1>1, <1>2, <1>4, <1>5, <1>6
<1>8. /\ \A g \in DOMAIN w.refs : w.refs[g].figure \in 0..o
      /\ \A e \in 1..o : \E g \in DOMAIN w.refs : HoldsFigure(w, g, e)
      /\ \A g \in DOMAIN w.refs : w.refs[g].figure # Unset => w.refs[g].id \in w.used
      /\ \A u \in w.used : \E k \in DOMAIN w.refs : w.refs[k].id = u /\ w.refs[k].figure # Unset
      /\ \A g \in Partitioned, k \in Fresh(w) :
            w.refs[g].type = "image" /\ w.refs[k].figure # Unset /\ w.refs[k].page = w.refs[g].page
               => w.refs[g].id \in w.used
  BY DEF FigInv
<1>9. /\ f \in 0..i /\ \A e \in 0..o : e \in 0..i
      /\ f # Unset => \A e \in 0..o : e # f
      /\ \A e \in 1..i : (e = f /\ f # Unset) \/ (e \in 1..o /\ e # f)
  BY DEF Unset
<1>10. \A g \in DOMAIN v.refs : v.refs[g].figure \in 0..i
  BY <1>3, <1>7, <1>8, <1>9
<1>11. ASSUME NEW e \in 1..i PROVE \E g \in DOMAIN v.refs : HoldsFigure(v, g, e)
  <2>1. CASE e = f /\ f # Unset
    <3>1. HoldsFigure(v, h, e)
      BY <1>3, <1>7, <1>8, <1>9, <2>1 DEF HoldsFigure
    <3> QED BY <1>7, <3>1
  <2>2. CASE e \in 1..o /\ e # f
    <3>1. PICK g \in DOMAIN w.refs : HoldsFigure(w, g, e)
      BY <1>8, <2>2
    <3>2. HoldsFigure(v, g, e)
      BY <1>3, <1>7, <2>2, <3>1 DEF HoldsFigure
    <3> QED BY <1>7, <3>2
  <2> QED BY <1>9, <2>1, <2>2
<1>12. \A g \in DOMAIN v.refs : v.refs[g].figure # Unset => v.refs[g].id \in v.used
  BY <1>3, <1>7, <1>8
<1>13. ASSUME NEW u \in v.used PROVE \E k \in DOMAIN v.refs : v.refs[k].id = u /\ v.refs[k].figure # Unset
  <2>1. CASE u \in w.used
    BY <1>3, <1>7, <1>8, <2>1
  <2>2. CASE u \notin w.used
    BY <1>3, <1>7, <2>2
  <2> QED BY <2>1, <2>2
<1>14. ASSUME NEW g \in Partitioned, NEW k \in Fresh(v), v.refs[g].type = "image",
              v.refs[k].figure # Unset, v.refs[k].page = v.refs[g].page
       PROVE  v.refs[g].id \in v.used
  <2>1. g \in DOMAIN w.refs /\ v.refs[g] = w.refs[g]
    BY <1>3, <1>7
  <2>2. CASE k \in Fresh(w)
    BY <1>3, <1>7, <1>8, <1>14, <2>1, <2>2
  <2>3. CASE k = h
    BY <1>3, <1>14, <2>1, <2>3
  <2> QED BY <1>7, <2>2, <2>3
<1> QED
  BY <1>10, <1>11, <1>12, <1>13, <1>14 DEF FigInv

\* What there is before figures are matched.
LEMMA BeforeFigures ==
    ASSUME TreeInv, treePhase = "images"
    PROVE  /\ ShapeInv /\ Len(placed) \in Nat /\ Len(placed) <= Len(refs)
           /\ Partitioned = 1..Len(placed) /\ placed = [i \in 1..Len(placed) |-> i]
           /\ Partitioned \subseteq DOMAIN refs
           /\ \A h \in DOMAIN refs : refs[h].figure = Unset
           /\ \A h \in DOMAIN refs \ Partitioned : refs[h].type = "table" /\ refs[h].id = h
           /\ TablesHeld
<1>1. ShapeInv /\ Unfigured /\ CountInv /\ TablesHeld
  BY DEF TreeInv, ReadInv, FindInv
<1> DEFINE k == counted - inputs.drops
<1>2. k \in 0..Len(refs) /\ Partitioned = 1..k /\ Len(refs) \in Nat /\ DOMAIN refs = 1..Len(refs)
  BY <1>1, ShapeIs DEF CountInv, Partitioned
<1> HIDE DEF k
<1>3. placed = [i \in 1..k |-> i] /\ k \in Nat /\ k <= Len(refs)
  BY <1>1, <1>2 DEF Unfigured
<1>4. Len(placed) = k
  BY <1>3
<1>5. Partitioned \subseteq DOMAIN refs
  BY <1>2, <1>3
<1> QED
  BY <1>1, <1>2, <1>3, <1>4, <1>5 DEF Unfigured

Started == [refs |-> refs, sections |-> sections, placed |-> placed, used |-> {}, next |-> Len(placed) + 1]

LEMMA StartIs ==
    ASSUME TreeInv, treePhase = "images"
    PROVE  Started \in Works /\ WorkInv(Started) /\ FigInv(Started, 0)
<1> DEFINE w == Started
           n == Len(refs)
<1>1. /\ w.refs = refs /\ w.sections = sections /\ w.placed = placed /\ w.used = {}
      /\ w.next = Len(placed) + 1
  BY DEF Started
<1>2. /\ ShapeInv /\ Len(placed) \in Nat /\ Len(placed) <= n
      /\ Partitioned = 1..Len(placed) /\ placed = [i \in 1..Len(placed) |-> i]
      /\ \A h \in DOMAIN refs : refs[h].figure = Unset
  BY BeforeFigures
<1>3. n \in Nat /\ DOMAIN refs = 1..n
  BY <1>2, ShapeIs
<1>4. w \in Works
  <2>1. /\ refs \in Seq(Refs) /\ sections \in Seq(Secs) /\ sections # <<>> /\ placed \in Seq(Nat)
        /\ {} \in SUBSET Nat
    BY <1>2 DEF ShapeInv
  <2> DEFINE k == Len(placed) + 1
  <2>2. k \in Nat
    BY <1>2
  <2>3. w = [refs |-> refs, sections |-> sections, placed |-> placed, used |-> {}, next |-> k]
    BY DEF Started
  <2> HIDE DEF Refs, Secs, k, w
  <2> QED BY <2>1, <2>2, <2>3 DEF Works
<1> HIDE DEF w, n
<1>5. Fresh(w) = {}
  BY <1>1, <1>3 DEF Fresh, n
<1>6. WorkInv(w)
  <2>1. Len(w.refs) = n /\ w.next = Len(placed) + 1 + (n - n) /\ n <= n
    BY <1>1, <1>2, <1>3 DEF n
  <2>2. SameFrames(w.sections)
    BY <1>1 DEF SameFrames
  <2>3. Placed(ElementsIn(w.sections), Uncovered \union Fresh(w))
    BY <1>1, <1>5 DEF TreeInv, ReadInv, HomeInv
  <2>4. Range(w.placed) \subseteq DOMAIN w.refs
    BY <1>1 DEF TreeInv, FindInv
  <2>5. \A h \in DOMAIN refs : SameRef(w.refs[h], refs[h])
    BY <1>1 DEF SameRef
  <2> QED BY <1>1, <1>4, <1>5, <2>1, <2>2, <2>3, <2>4, <2>5 DEF WorkInv, n
<1>7. FigInv(w, 0)
  <2>1. \A h \in DOMAIN w.refs : w.refs[h].figure = Unset /\ Unset \in 0..0
    BY <1>1, <1>2 DEF Unset
  <2>2. 1..0 = {}
    OBVIOUS
  <2> QED BY <1>1, <1>5, <2>1, <2>2 DEF FigInv
<1> QED
  BY <1>4, <1>6, <1>7 DEF w

\* One figure more.
LEMMA OneFigure ==
    ASSUME TreeInv, treePhase = "images", NEW figures \in Seq(Found), NEW i \in DOMAIN figures,
           NEW w, WorkInv(w), FigInv(w, i - 1)
    PROVE  LET v == AttachFigure(figures, OfType("image"), w, i) IN WorkInv(v) /\ FigInv(v, i)
<1> DEFINE v == AttachFigure(figures, OfType("image"), w, i)
           images == OfType("image")
           page == figures[i].page
           N == Len(placed)
<1>1. /\ ShapeInv /\ N \in Nat /\ N <= Len(refs)
      /\ Partitioned = 1..N /\ placed = [k \in 1..N |-> k] /\ Partitioned \subseteq DOMAIN refs
  BY BeforeFigures
<1>2. images \in Seq(1..N) /\ Range(images) = {h \in 1..N : h \in DOMAIN refs /\ refs[h].type = "image"}
  <2> HIDE DEF N
  <2> QED BY <1>1, OfTypeIs
<1>3. w \in Works /\ Len(refs) <= Len(w.refs) /\ \A h \in DOMAIN refs : SameRef(w.refs[h], refs[h])
  BY DEF WorkInv
<1>4. i \in Nat \ {0}
  <2> HIDE DEF Found
  <2>1. DOMAIN figures = 1..Len(figures) /\ Len(figures) \in Nat
    BY LenProperties
  <2> QED BY <2>1
<1>5. \A h \in DOMAIN refs : h \in DOMAIN w.refs
  BY <1>1, <1>3, ShapeIs, WorkIs
<1>6. /\ v \in Works
      /\ \/ \E g \in DOMAIN w.refs :
               /\ g \in Range(images) /\ w.refs[g].id \notin w.used /\ w.refs[g].page = page
               /\ GaveFigure(v, w, g, i)
         \/ /\ \A g \in Range(images) \intersect DOMAIN w.refs :
                  w.refs[g].page = page => w.refs[g].id \in w.used
            /\ v.used = w.used \union {w.next} /\ MadeImage(v, w, page, i)
  <2> DEFINE S == 1..N
  <2>1. images \in Seq(S)
    BY <1>2
  <2>3. v = AttachFigure(figures, images, w, i)
    OBVIOUS
  <2> HIDE DEF images, S, page, v
  <2>2. v \in Works /\ FigureAttached(v, w, images, figures[i].page, i)
    BY <1>3, <2>1, <2>3, AttachFigureIs
  <2> QED BY <2>2 DEF FigureAttached, page
<1> HIDE DEF v, images, page, N
<1>7. CASE \E g \in DOMAIN w.refs :
               /\ g \in Range(images) /\ w.refs[g].id \notin w.used /\ w.refs[g].page = page
               /\ GaveFigure(v, w, g, i)
  <2>1. PICK g : g \in Range(images) /\ w.refs[g].id \notin w.used /\ GaveFigure(v, w, g, i)
    BY <1>7
  <2>2. g \in DOMAIN refs
    BY <1>2, <2>1
  <2>3. WorkInv(v)
    BY <1>1, <1>6, <2>1, GaveKeeps
  <2>4. FigInv(v, i)
    BY <1>1, <1>4, <1>6, <2>1, <2>2, GaveFigs
  <2> QED BY <2>3, <2>4 DEF v
<1>8. CASE /\ \A g \in Range(images) \intersect DOMAIN w.refs :
                 w.refs[g].page = page => w.refs[g].id \in w.used
           /\ v.used = w.used \union {w.next} /\ MadeImage(v, w, page, i)
  <2>1. WorkInv(v)
    BY <1>1, <1>6, <1>8, MadeKeeps
  <2>2. \A h \in Partitioned : w.refs[h].type = "image" /\ w.refs[h].page = page => w.refs[h].id \in w.used
    <3>1. ASSUME NEW h \in Partitioned, w.refs[h].type = "image" PROVE h \in Range(images) \intersect DOMAIN w.refs
      <4>1. h \in DOMAIN refs /\ refs[h].type = "image"
        BY <1>1, <1>3, <3>1 DEF SameRef
      <4> QED BY <1>1, <1>2, <1>5, <4>1
    <3> QED BY <1>8, <3>1
  <2>3. i \in Nat /\ i # Unset /\ i \in {i, Unset}
    BY <1>4 DEF Unset
  <2> DEFINE o == i - 1
  <2>4. o = IF i = Unset THEN i ELSE i - 1
    BY <2>3
  <2>5. v.used = IF i = Unset THEN w.used ELSE w.used \union {w.next}
    BY <1>8, <2>3
  <2>6. FigInv(w, o)
    OBVIOUS
  <2> HIDE DEF o
  <2>7. FigInv(v, i)
    BY <1>1, <1>6, <1>8, <2>2, <2>3, <2>4, <2>5, <2>6, MadeFigs
  <2> QED BY <2>1, <2>7 DEF v
<1> QED
  BY <1>6, <1>7, <1>8

\* An image shows a page.
Pictured(w, p) == \E h \in DOMAIN w.refs : w.refs[h].type = "image" /\ w.refs[h].page = p

\* One page of drawings more.
LEMMA OnePage ==
    ASSUME TreeInv, treePhase = "images", NEW page \in DocPages, NEW i \in Nat,
           NEW w, WorkInv(w), FigInv(w, i)
    PROVE  LET v == AttachVectorPage(w, page) IN
           /\ WorkInv(v) /\ FigInv(v, i) /\ Pictured(v, page)
           /\ \A p : Pictured(w, p) => Pictured(v, p)
<1> DEFINE v == AttachVectorPage(w, page)
<1>1. ShapeInv /\ Partitioned \subseteq DOMAIN refs
  BY BeforeFigures
<1>2. w \in Works /\ DOMAIN w.refs = 1..Len(w.refs) /\ Len(w.refs) \in Nat
  BY WorkIs DEF WorkInv
<1>3. v \in Works /\ v.used = w.used /\ MadeImage(v, w, page, Unset)
  BY <1>2, AttachVectorIs
<1> HIDE DEF v
<1>4. WorkInv(v)
  BY <1>1, <1>3, MadeKeeps
<1>5. FigInv(v, i)
  <2> DEFINE f == Unset
             o == i
  <2>1. /\ f \in {i, Unset} /\ f = Unset /\ o = (IF f = Unset THEN i ELSE i - 1) /\ FigInv(w, o)
        /\ v.used = (IF f = Unset THEN w.used ELSE w.used \union {w.next}) /\ MadeImage(v, w, page, f)
    BY <1>3
  <2> HIDE DEF f, o
  <2>2. f # Unset => \A h \in Partitioned :
              w.refs[h].type = "image" /\ w.refs[h].page = page => w.refs[h].id \in w.used
    BY <2>1
  <2> QED BY <1>1, <1>3, <2>1, <2>2, MadeFigs
<1>6. /\ Len(v.refs) = Len(w.refs) + 1 /\ \A g \in DOMAIN w.refs : v.refs[g] = w.refs[g]
      /\ v.refs[Len(w.refs) + 1].type = "image" /\ v.refs[Len(w.refs) + 1].page = page
  BY <1>3 DEF MadeImage
<1>7. /\ DOMAIN v.refs = 1..(Len(w.refs) + 1) /\ Len(w.refs) + 1 \in DOMAIN v.refs
      /\ \A g \in DOMAIN w.refs : g \in DOMAIN v.refs
  <2>1. DOMAIN v.refs = 1..(Len(w.refs) + 1)
    BY <1>3, <1>6, WorkIs
  <2> QED BY <1>2, <2>1
<1>8. Pictured(v, page) /\ \A p : Pictured(w, p) => Pictured(v, p)
  BY <1>6, <1>7 DEF Pictured
<1> QED
  BY <1>4, <1>5, <1>8 DEF v

\* All figures and pages of drawings.
LEMMA WithImagesAre ==
    ASSUME TreeInv, treePhase = "images", NEW figures \in Seq(Found), NEW vector \in SUBSET DocPages
    PROVE  LET w == WithImages(figures, vector) IN
           WorkInv(w) /\ FigInv(w, Len(figures)) /\ \A p \in vector : Pictured(w, p)
<1> DEFINE images == OfType("image")
           m == Len(figures)
           figs == FoldLeft(LAMBDA w, i : AttachFigure(figures, images, w, i), Started, Numbers(figures))
           shown == {figs.refs[h].page : h \in {g \in Range(figs.placed) : figs.refs[g].type = "image"}}
           pages == [p \in DocPages |-> p]
           bare == Kept(pages, vector \ shown)
           k == Len(bare)
           last == FoldLeft(AttachVectorPage, figs, bare)
<1>1. WithImages(figures, vector) = last
  BY DEF WithImages, Started
<1>2. m \in Nat /\ DOMAIN figures = 1..m
  <2> HIDE DEF Found
  <2> QED BY LenProperties
<1>3. Started \in Works /\ WorkInv(Started) /\ FigInv(Started, 0)
  BY StartIs
<1>4. PICK A : images \in Seq(A)
  <2>1. Len(placed) \in Nat /\ placed = [i \in 1..Len(placed) |-> i]
    BY BeforeFigures
  <2> DEFINE N == Len(placed)
  <2> HIDE DEF N
  <2>2. images \in Seq(1..N)
    BY <2>1, OfTypeIs DEF N
  <2> QED BY <2>2
<1> HIDE DEF images, figs, last
<1>5. PICK h : FiguresInTurn(h, figures, images, Started)
  BY <1>3, <1>4, FiguresAttached
<1>6. /\ h[0] = Started /\ h[m] = figs
      /\ \A i \in 1..m : h[i] = AttachFigure(figures, images, h[i - 1], i)
      /\ \A i \in 0..m : h[i] \in Works
  BY <1>5 DEF FiguresInTurn, figs
<1> DEFINE T == {i \in 0..m : WorkInv(h[i]) /\ FigInv(h[i], i)}
<1> HIDE DEF m
<1>7. 0 \in T
  <2>1. 0 \in 0..m
    BY <1>2
  <2> QED BY <1>3, <1>6, <2>1
<1>8. ASSUME NEW i \in 1..m, i - 1 \in T PROVE i \in T
  <2>1. i \in 0..m /\ WorkInv(h[i - 1]) /\ FigInv(h[i - 1], i - 1) /\ i \in DOMAIN figures
    BY <1>2, <1>8
  <2>2. h[i] = AttachFigure(figures, OfType("image"), h[i - 1], i)
    BY <1>6 DEF images
  <2> DEFINE w == h[i - 1]
  <2> HIDE DEF w
  <2>3. WorkInv(w) /\ FigInv(w, i - 1) /\ h[i] = AttachFigure(figures, OfType("image"), w, i)
    BY <2>1, <2>2 DEF w
  <2>4. WorkInv(h[i]) /\ FigInv(h[i], i)
    BY <2>1, <2>3, OneFigure
  <2> QED BY <2>1, <2>4
<1>9. WorkInv(figs) /\ FigInv(figs, m) /\ figs \in Works
  <2> HIDE DEF T
  <2>1. \A i \in 0..m : i \in T
    BY <1>2, <1>7, <1>8, UpTo
  <2>2. m \in 0..m
    BY <1>2
  <2>3. m \in T
    BY <2>1, <2>2
  <2> QED BY <1>6, <2>2, <2>3 DEF T
<1>10. bare \in Seq(DocPages) /\ Range(bare) = DocPages \intersect (vector \ shown)
  <2>1. pages \in Seq(DocPages)
    <3>1. LastPage \in Nat /\ DocPages = 1..LastPage
      BY TreeConstants
    <3> QED BY <3>1
  <2>2. Range(pages) = DocPages
    BY DEF Range
  <2> HIDE DEF pages, shown
  <2> QED BY <2>1, <2>2, KeptMembers
<1>11. \A p \in shown : Pictured(figs, p)
  BY <1>9 DEF Pictured, WorkInv
<1> HIDE DEF shown, bare
<1>12. k \in Nat /\ DOMAIN bare = 1..k
  BY <1>10, LenProperties
<1>13. PICK g : PagesInTurn(g, bare, figs)
  BY <1>9, <1>10, PagesAttached
<1>14. /\ g[0] = figs /\ g[k] = last
       /\ \A i \in 1..k : g[i] = AttachVectorPage(g[i - 1], bare[i])
  BY <1>13 DEF PagesInTurn, last
<1> DEFINE Good(w, i) == /\ WorkInv(w) /\ FigInv(w, m)
                         /\ \A p \in shown : Pictured(w, p)
                         /\ \A j \in 1..i : Pictured(w, bare[j])
           U == {i \in 0..k : Good(g[i], i)}
<1> HIDE DEF k
<1>15. 0 \in U
  <2>1. 0 \in 0..k /\ 1..0 = {}
    BY <1>12
  <2> QED BY <1>9, <1>11, <1>14, <2>1
<1>16. ASSUME NEW i \in 1..k, i - 1 \in U PROVE i \in U
  <2> DEFINE w == g[i - 1]
             v == g[i]
             page == bare[i]
  <2>1. Good(w, i - 1)
    BY <1>16
  <2>2. page \in DocPages /\ i \in 0..k
    BY <1>10, <1>12
  <2>3. v = AttachVectorPage(w, page)
    BY <1>14
  <2> HIDE DEF w, v, page
  <2>4. /\ WorkInv(v) /\ FigInv(v, m) /\ Pictured(v, page)
        /\ \A p : Pictured(w, p) => Pictured(v, p)
    BY <1>2, <2>1, <2>2, <2>3, OnePage
  <2>5. \A j \in 1..i : j = i \/ j \in 1..(i - 1)
    BY <1>12
  <2>6. Good(v, i)
    BY <2>1, <2>4, <2>5 DEF page
  <2> QED BY <2>2, <2>6 DEF v
<1>17. Good(last, k)
  <2> HIDE DEF U
  <2>1. \A i \in 0..k : i \in U
    BY <1>12, <1>15, <1>16, UpTo
  <2>2. k \in 0..k
    BY <1>12
  <2>3. k \in U
    BY <2>1, <2>2
  <2> QED BY <1>14, <2>3 DEF U
<1>18. ASSUME NEW p \in vector PROVE Pictured(last, p)
  <2>1. CASE p \in shown
    BY <1>17, <2>1
  <2>2. CASE p \notin shown
    <3>1. p \in Range(bare)
      BY <1>10, <2>2
    <3>2. PICK j \in 1..k : bare[j] = p
      BY <1>12, <3>1 DEF Range
    <3> QED BY <1>17, <3>2
  <2> QED BY <2>1, <2>2
<1> QED
  BY <1>1, <1>17, <1>18 DEF m

\* The step, with the work it does.
LEMMA EnrichImagesIs ==
    ASSUME TreeInv, EnrichImages
    PROVE  /\ treePhase = "images" /\ treePhase' = "serialize" /\ inputs' \in Inputs
           /\ inputs'.drops = inputs.drops /\ inputs'.tables = inputs.tables
           /\ UNCHANGED <<openPath, counted, numPages, storedTree>>
           /\ inputs'.figures \in Seq(Found)
           /\ \E w : /\ WorkInv(w) /\ FigInv(w, Len(inputs'.figures))
                     /\ \A p \in inputs'.vector : Pictured(w, p)
                     /\ refs' = w.refs /\ sections' = w.sections /\ placed' = w.placed
<1>1. PICK figures \in Finds(Room), vector \in SUBSET DocPages :
        /\ inputs' = [inputs EXCEPT !.parts = @ + Len(figures) + Cardinality(vector),
                                    !.figures = figures, !.vector = vector]
        /\ refs' = WithImages(figures, vector).refs /\ sections' = WithImages(figures, vector).sections
        /\ placed' = WithImages(figures, vector).placed
  BY DEF EnrichImages
<1>2. /\ treePhase = "images" /\ treePhase' = "serialize"
      /\ UNCHANGED <<openPath, counted, numPages, storedTree>>
  BY DEF EnrichImages
<1>3. figures \in Seq(Found) /\ Len(figures) \in Nat
  BY FindsAre, LenProperties
<1>4. Cardinality(vector) \in Nat
  <2>1. DocPages = 1..LastPage /\ LastPage \in Nat
    BY TreeConstants
  <2>2. IsFiniteSet(DocPages)
    BY <2>1, FS_Interval
  <2> QED BY <2>2, FS_Subset, FS_CardinalityType
<1>5. /\ inputs' \in Inputs /\ inputs'.drops = inputs.drops /\ inputs'.tables = inputs.tables
      /\ inputs'.figures = figures /\ inputs'.vector = vector
  <2> DEFINE p == inputs.parts + Len(figures) + Cardinality(vector)
  <2>0. inputs \in Inputs
    BY DEF TreeInv, ReadInv, ShapeInv
  <2>1. p \in Nat
    BY <1>3, <1>4, <2>0 DEF Inputs
  <2>2. inputs' = [inputs EXCEPT !.parts = p, !.figures = figures, !.vector = vector]
    BY <1>1
  <2> HIDE DEF p, Found
  <2> QED BY <1>3, <2>0, <2>1, <2>2 DEF Inputs
<1> DEFINE w == WithImages(figures, vector)
<1>6. WorkInv(w) /\ FigInv(w, Len(figures)) /\ \A p \in vector : Pictured(w, p)
  BY <1>2, <1>3, WithImagesAre
<1>7. refs' = w.refs /\ sections' = w.sections /\ placed' = w.placed
  BY <1>1
<1> HIDE DEF w
<1> QED
  BY <1>2, <1>3, <1>5, <1>6, <1>7

LEMMA EnrichImagesStep ==
    ASSUME TreeInv, EnrichImages
    PROVE  TreeInv'
<1> DEFINE n == Len(refs)
           N == Len(placed)
           m == Len(inputs'.figures)
<1>1. /\ treePhase = "images" /\ treePhase' = "serialize" /\ inputs' \in Inputs
      /\ inputs'.drops = inputs.drops /\ inputs'.tables = inputs.tables
      /\ UNCHANGED <<openPath, counted, numPages, storedTree>>
      /\ inputs'.figures \in Seq(Found)
  BY EnrichImagesIs
<1>2. PICK w : /\ WorkInv(w) /\ FigInv(w, m)
               /\ \A p \in inputs'.vector : Pictured(w, p)
               /\ refs' = w.refs /\ sections' = w.sections /\ placed' = w.placed
  BY EnrichImagesIs
<1>3. ReadInv /\ ShapeInv /\ NestInv /\ ReachInv /\ HomeInv /\ CountInv
  BY DEF TreeInv, ReadInv
<1>4. /\ N \in Nat /\ N <= n /\ Partitioned = 1..N /\ Partitioned \subseteq DOMAIN refs
      /\ \A h \in DOMAIN refs \ Partitioned : refs[h].type = "table" /\ refs[h].id = h
      /\ TablesHeld
  BY <1>1, BeforeFigures
<1>5. n \in Nat /\ DOMAIN refs = 1..n
  BY <1>3, ShapeIs
<1>6. /\ w \in Works /\ n <= Len(w.refs)
      /\ \A h \in DOMAIN refs : SameRef(refs'[h], refs[h])
      /\ \A h \in Fresh(w) : /\ refs'[h].type = "image" /\ refs'[h].table = Unset /\ refs'[h].id = N + (h - n)
      /\ SameFrames(sections')
      /\ Placed(ElementsIn(w.sections), Uncovered \union Fresh(w))
      /\ \A s \in DOMAIN sections : \A h \in Range(sections'[s].elements) :
            h \in Range(sections[s].elements) \/ (h \in Fresh(w) /\ Leads(s, refs'[h].page))
      /\ Range(placed') \subseteq DOMAIN refs'
  BY <1>2 DEF WorkInv
<1>7. /\ refs' \in Seq(Refs) /\ sections' \in Seq(Secs) /\ sections' # <<>> /\ placed' \in Seq(Nat)
      /\ Len(refs') \in Nat /\ DOMAIN refs' = 1..Len(refs')
  BY <1>2, <1>6, WorkIs
<1>8. Fresh(w) = (n + 1)..Len(refs')
  BY <1>2 DEF Fresh
<1> HIDE DEF n, N, m
<1>9. /\ DOMAIN refs' = DOMAIN refs \union Fresh(w)
      /\ \A h \in Fresh(w) : h \notin DOMAIN refs /\ h \in Nat
  BY <1>2, <1>5, <1>6, <1>7, <1>8
<1>10. Partitioned' = Partitioned
  BY <1>1 DEF Partitioned
<1>11. ShapeInv'
  BY <1>1, <1>3, <1>6, <1>7 DEF ShapeInv, Phases, SameFrames
<1>12. NestInv' /\ \A s : Around(s)' = Around(s)
  BY <1>1, <1>3, <1>6, FramesKeepNest
<1>13. ReachInv'
  <2>0. /\ Len(sections') = Len(sections) /\ DOMAIN sections' = DOMAIN sections
        /\ \A s \in DOMAIN sections : sections'[s].first = sections[s].first /\ sections'[s].last = sections[s].last
        /\ \A a \in 2..Len(sections) : a \in DOMAIN sections
        /\ \A s : \A a \in Around(s) : a \in DOMAIN sections
    <3>1. DOMAIN sections = 1..Len(sections) /\ Len(sections) \in Nat
      BY <1>3, ShapeIs
    <3>2. \A a \in 2..Len(sections) : a \in DOMAIN sections
      BY <3>1
    <3> QED BY <1>6, <3>2 DEF SameFrames, Around
  <2>1. ASSUME NEW s \in DOMAIN sections', NEW h \in Range(sections'[s].elements)
        PROVE  \/ h \in Partitioned' /\ \A a \in Around(s)' :
                     refs'[h].page \in sections'[a].first..sections'[a].last
               \/ h \notin Partitioned' /\ refs'[h].type = "table" /\ s = 1
               \/ h \notin Partitioned' /\ refs'[h].type = "image" /\ IF s = 1
                     THEN \A a \in 2..Len(sections') : refs'[h].page \notin sections'[a].first..sections'[a].last
                     ELSE refs'[h].page \in sections'[s].first..sections'[s].last
    <3>1. CASE h \in Range(sections[s].elements)
      <4>1. h \in DOMAIN refs
        BY <1>3, <2>0, <2>1, <3>1, ElementsAre
      <4>2. refs'[h].type = refs[h].type /\ refs'[h].page = refs[h].page
        BY <1>6, <4>1 DEF SameRef
      <4>3. \/ h \in Partitioned /\ \A a \in Around(s) :
                     refs[h].page \in sections[a].first..sections[a].last
            \/ h \notin Partitioned /\ refs[h].type = "table" /\ s = 1
            \/ h \notin Partitioned /\ refs[h].type = "image" /\ IF s = 1
                  THEN \A a \in 2..Len(sections) : refs[h].page \notin sections[a].first..sections[a].last
                  ELSE refs[h].page \in sections[s].first..sections[s].last
        BY <1>3, <2>0, <2>1, <3>1 DEF ReachInv
      <4> QED BY <1>10, <1>12, <2>0, <2>1, <4>2, <4>3
    <3>2. CASE h \in Fresh(w) /\ Leads(s, refs'[h].page)
      <4>1. h \notin Partitioned
        BY <1>4, <1>9, <3>2
      <4> QED BY <1>6, <1>10, <2>0, <2>1, <3>2, <4>1 DEF Leads
    <3> QED BY <1>6, <2>0, <2>1, <3>1, <3>2
  <2>2. \A h \in Partitioned' : refs'[h].page <= numPages'
    BY <1>1, <1>3, <1>4, <1>6, <1>10 DEF ReachInv, SameRef
  <2> QED BY <2>1, <2>2 DEF ReachInv
<1>14. HomeInv'
  <2>1. \A h \in DOMAIN refs : /\ refs'[h].type = refs[h].type /\ refs'[h].page = refs[h].page
                               /\ refs'[h].box = refs[h].box
    BY <1>6 DEF SameRef
  <2>2. \A h \in DOMAIN refs : Covered(refs', DOMAIN refs', h) <=> Covered(refs, DOMAIN refs, h)
    <3>1. \A g \in DOMAIN refs' : refs'[g].type = "table" => g \in DOMAIN refs
      BY <1>6, <1>9
    <3> QED BY <1>9, <2>1, <3>1 DEF Covered
  <2>3. \A h \in Fresh(w) : ~Covered(refs', DOMAIN refs', h)
    BY <1>6 DEF Covered
  <2>4. Uncovered' = {h \in DOMAIN refs' : ~(inputs.tables # <<>> /\ Covered(refs', DOMAIN refs', h))}
    BY <1>1 DEF Uncovered, Covered
  <2>5. Uncovered' = Uncovered \union Fresh(w)
    <3> DEFINE C(h) == Covered(refs, DOMAIN refs, h)
               D(h) == Covered(refs', DOMAIN refs', h)
               tabled == inputs.tables # <<>>
    <3>1. Uncovered = {h \in DOMAIN refs : ~(tabled /\ C(h))} /\ Uncovered' = {h \in DOMAIN refs' : ~(tabled /\ D(h))}
      BY <2>4 DEF Uncovered
    <3>2. (\A h \in DOMAIN refs : D(h) <=> C(h)) /\ \A h \in Fresh(w) : ~D(h)
      BY <2>2, <2>3
    <3> HIDE DEF C, D, tabled
    <3> QED BY <1>9, <3>1, <3>2
  <2>6. ElementsIn(sections)' = ElementsIn(w.sections)
    BY <1>2 DEF ElementsIn
  <2> QED BY <1>6, <2>5, <2>6 DEF HomeInv
<1>15. CountInv'
  <2>1. counted' - inputs'.drops \in 0..Len(refs')
    <3>1. counted - inputs.drops \in 0..n
      BY <1>3 DEF CountInv, n
    <3> QED BY <1>1, <1>2, <1>5, <1>6, <1>7, <3>1
  <2>2. ASSUME inputs'.drops = 0, Made("table")' = {} \/ Made("image")' = {}, NEW h \in DOMAIN refs'
        PROVE  refs'[h].id = h
    <3>1. Made("image") = {}
      BY <1>4 DEF Made
    <3>2. CASE h \in DOMAIN refs
      <4>1. refs[h].id = h
        BY <1>1, <1>3, <2>2, <3>1, <3>2 DEF CountInv
      <4> QED BY <1>6, <3>2, <4>1 DEF SameRef
    <3>3. CASE h \in Fresh(w)
      <4>1. h \in Made("image")'
        BY <1>4, <1>6, <1>9, <1>10, <3>3 DEF Made
      <4>2. DOMAIN refs \ Partitioned = {}
        <5>1. ASSUME NEW g \in DOMAIN refs \ Partitioned PROVE FALSE
          <6>1. refs'[g].type = "table" /\ g \in DOMAIN refs'
            BY <1>4, <1>6, <1>9, <5>1 DEF SameRef
          <6>2. g \in Made("table")'
            BY <1>10, <5>1, <6>1 DEF Made
          <6> QED BY <2>2, <4>1, <6>2
        <5> QED BY <5>1
      <4>3. n = N
        <5>1. 1..n = 1..N
          BY <1>4, <1>5, <4>2
        <5> QED BY <1>4, <1>5, <5>1
      <4> QED BY <1>5, <1>6, <1>9, <3>3, <4>3
    <3> QED BY <1>9, <2>2, <3>2, <3>3
  <2> QED BY <1>1, <2>1, <2>2 DEF CountInv
<1>16. FindInv'
  <2>1. TablesHeld'
    <3>1. ASSUME NEW t \in DOMAIN inputs.tables PROVE \E h \in DOMAIN refs' : HasTable(h, t)'
      <4>1. PICK h \in DOMAIN refs : HasTable(h, t)
        BY <1>4 DEF TablesHeld
      <4>2. t # Unset
        <5>1. inputs.tables \in Seq(Found)
          <6> HIDE DEF Found
          <6> QED BY <1>3 DEF ShapeInv, Inputs
        <5>2. DOMAIN inputs.tables = 1..Len(inputs.tables)
          <6> HIDE DEF Found
          <6> QED BY <5>1, LenProperties
        <5> QED BY <5>2 DEF Unset
      <4>3. refs'[h].table = t
        BY <1>6, <4>1 DEF HasTable, SameRef
      <4>4. ASSUME NEW g \in DOMAIN refs', refs'[g].table = t PROVE g = h
        <5>1. g \in DOMAIN refs
          BY <1>6, <1>9, <4>2, <4>4
        <5> QED BY <1>6, <4>1, <4>4, <5>1 DEF HasTable, SameRef
      <4> QED BY <1>9, <4>3, <4>4 DEF HasTable
    <3> QED BY <1>1, <3>1 DEF TablesHeld
  <2>2. FiguresHeld'
    <3>1. DOMAIN inputs'.figures = 1..m
      <4> HIDE DEF Found
      <4> QED BY <1>1, LenProperties DEF m
    <3>2. \A f \in 1..m : \E h \in DOMAIN refs' : HoldsFigure(w, h, f)
      BY <1>2 DEF FigInv
    <3>3. \A h, f : HoldsFigure(w, h, f) => HasFigure(h, f)'
      BY <1>2 DEF HoldsFigure, HasFigure
    <3> QED BY <1>2, <3>1, <3>2, <3>3 DEF FiguresHeld, Pictured
  <2>3. ASSUME NEW h \in Partitioned', NEW g \in Made("image")' PROVE Excused(h, g)'
    <3>1. ASSUME refs'[h].type = "image", refs'[h].figure = Unset,
                 refs'[g].figure # Unset, refs'[g].page = refs'[h].page
          PROVE  \E k \in DOMAIN refs' \ {h} : refs'[k].id = refs'[h].id
      <4>1. g \in Fresh(w)
        <5>1. g \in DOMAIN refs' /\ g \notin Partitioned /\ refs'[g].type = "image"
          BY <1>10, <2>3 DEF Made
        <5>2. g \notin DOMAIN refs
          BY <1>4, <1>6, <5>1 DEF SameRef
        <5> QED BY <1>9, <5>1, <5>2
      <4>2. h \in Partitioned
        BY <1>10, <2>3
      <4>3. refs'[h].id \in w.used
        BY <1>2, <3>1, <4>1, <4>2 DEF FigInv
      <4>4. PICK k \in DOMAIN refs' : refs'[k].id = refs'[h].id /\ refs'[k].figure # Unset
        BY <1>2, <4>3 DEF FigInv
      <4> QED BY <3>1, <4>4
    <3> QED BY <3>1 DEF Excused
  <2> QED BY <1>1, <1>6, <2>1, <2>2, <2>3 DEF FindInv
<1> QED
  BY <1>11, <1>12, <1>13, <1>14, <1>15, <1>16 DEF TreeInv, ReadInv

\* The phases in which elements are read ask nothing else.
LEMMA ReadingFinds ==
    ASSUME ReadInv', treePhase' = "partition"
    PROVE  FindInv'
<1>1. ShapeInv' /\ OnlyRead'
  BY DEF ReadInv, CountInv
<1>2. Range(placed') \subseteq DOMAIN refs'
  BY <1>1 DEF OnlyRead, Numbers, Range
<1> QED
  BY <1>2 DEF FindInv

LEMMA EnrichTablesStep ==
    ASSUME TreeInv, EnrichTables
    PROVE  TreeInv'
BY EnrichTablesIs, NoTablesStep, AttachTablesStep

\* Only the phase, and at the end what is stored, changes.
LEMMA PhaseStep ==
    ASSUME TreeInv,
           UNCHANGED <<sections, openPath, refs, placed, counted, numPages, inputs>>,
           \/ treePhase = "partition" /\ treePhase' = "tables" /\ storedTree' = storedTree
           \/ treePhase = "serialize" /\ treePhase' = "done" /\ storedTree' = Serialized(sections)
    PROVE  TreeInv'
<1>1. ShapeInv /\ NestInv /\ ReachInv /\ HomeInv /\ CountInv /\ FindInv
  BY DEF TreeInv, ReadInv
<1>2. ShapeInv'
  BY <1>1 DEF ShapeInv, Phases
<1>3. NestInv'
  BY <1>1 DEF NestInv, Upward
<1>4. Partitioned' = Partitioned /\ (\A s : Around(s)' = Around(s)) /\ \A type : Made(type)' = Made(type)
  BY DEF Partitioned, Around, Upward, Made
<1>5. ReachInv'
  BY <1>1, <1>4 DEF ReachInv
<1>6. HomeInv'
  BY <1>1 DEF HomeInv, ElementsIn, Uncovered, Covered
<1>7. CountInv'
  BY <1>1, <1>4 DEF CountInv, OnlyRead, Numbers
<1>8. FindInv'
  <2>1. TablesHeld => TablesHeld'
    BY DEF TablesHeld, HasTable
  <2>2. FiguresHeld => FiguresHeld'
    BY DEF FiguresHeld, HasFigure
  <2>3. \A h, g : Excused(h, g) => Excused(h, g)'
    BY DEF Excused
  <2>4. Serialized(sections)' = Serialized(sections)
    BY DEF Serialized, Walk
  <2> QED BY <1>1, <1>4, <2>1, <2>2, <2>3, <2>4 DEF FindInv
<1> QED
  BY <1>2, <1>3, <1>5, <1>6, <1>7, <1>8 DEF TreeInv, ReadInv

LEMMA TreeStep ==
    ASSUME TreeInv, [TreeNext]_tree
    PROVE  TreeInv'
<1>1. ReadInv
  BY DEF TreeInv
<1>2. ASSUME NEW page \in DocPages, NEW level \in 1..MaxLevel, ReadHeading(page, level) PROVE TreeInv'
  <2>1. ReadInv'
    BY <1>1, <1>2, ReadHeadingStep
  <2>2. treePhase' = "partition"
    BY <1>2 DEF ReadHeading, Reading
  <2> QED BY <2>1, <2>2, ReadingFinds DEF TreeInv
<1>3. ASSUME NEW page \in DocPages, NEW drops \in {0, 1}, Reading(page, drops),
             UNCHANGED <<sections, openPath, refs, placed>>, counted' = counted + drops
      PROVE  TreeInv'
  <2>1. ReadInv'
    BY <1>1, <1>3, ReadNothingStep
  <2>2. treePhase' = "partition"
    BY <1>3 DEF Reading
  <2> QED BY <2>1, <2>2, ReadingFinds DEF TreeInv
<1>4. ASSUME NEW page \in DocPages, ReadEmptyHeading(page) PROVE TreeInv'
  <2>1. counted \in Nat
    BY <1>1 DEF ReadInv, ShapeInv
  <2>2. counted' = counted + 0
    BY <1>4, <2>1 DEF ReadEmptyHeading
  <2>3. Reading(page, 0) /\ UNCHANGED <<sections, openPath, refs, placed>> /\ 0 \in {0, 1}
    BY <1>4 DEF ReadEmptyHeading
  <2> QED BY <1>3, <2>2, <2>3
<1>5. ASSUME NEW page \in DocPages, NEW type \in {"text", "table", "image"}, NEW box \in ElementBoxes,
             ReadElement(type, page, box)
      PROVE  TreeInv'
  <2>1. ReadInv'
    BY <1>1, <1>5, ReadElementStep DEF Types
  <2>2. treePhase' = "partition"
    BY <1>5 DEF ReadElement, Reading
  <2> QED BY <2>1, <2>2, ReadingFinds DEF TreeInv
<1>6. ASSUME NEW page \in DocPages, ReadDropped(page) PROVE TreeInv'
  <2>1. Reading(page, 1) /\ UNCHANGED <<sections, openPath, refs, placed>> /\ counted' = counted + 1
        /\ 1 \in {0, 1}
    BY <1>6 DEF ReadDropped
  <2> QED BY <1>3, <2>1
<1>7. CASE EndOfElements
  BY <1>7, PhaseStep DEF EndOfElements
<1>8. CASE Serialize
  BY <1>8, PhaseStep DEF Serialize
<1>9. CASE UNCHANGED tree
  <2>0. /\ UNCHANGED <<sections, openPath, refs, placed, counted, numPages, inputs>>
        /\ treePhase' = treePhase /\ storedTree' = storedTree
    BY <1>9 DEF tree
  <2>1. ShapeInv /\ NestInv /\ ReachInv /\ HomeInv /\ CountInv /\ FindInv
    BY DEF TreeInv, ReadInv
  <2>2. ShapeInv'
    BY <2>0, <2>1 DEF ShapeInv
  <2>3. NestInv'
    BY <2>0, <2>1 DEF NestInv, Upward
  <2>4. Partitioned' = Partitioned /\ (\A s : Around(s)' = Around(s)) /\ \A type : Made(type)' = Made(type)
    BY <2>0 DEF Partitioned, Around, Upward, Made
  <2>5. ReachInv'
    BY <2>0, <2>1, <2>4 DEF ReachInv
  <2>6. HomeInv'
    BY <2>0, <2>1 DEF HomeInv, ElementsIn, Uncovered, Covered
  <2>7. CountInv'
    BY <2>0, <2>1, <2>4 DEF CountInv, OnlyRead, Numbers
  <2>8. FindInv'
    <3>1. TablesHeld => TablesHeld'
      BY <2>0 DEF TablesHeld, HasTable
    <3>2. FiguresHeld => FiguresHeld'
      BY <2>0 DEF FiguresHeld, HasFigure
    <3>3. \A h, g : Excused(h, g) => Excused(h, g)'
      BY <2>0 DEF Excused
    <3>4. Serialized(sections)' = Serialized(sections)
      BY <2>0 DEF Serialized, Walk
    <3>5. Unfigured => Unfigured'
      BY <2>0, <2>4 DEF Unfigured
    <3> QED BY <2>0, <2>1, <2>4, <3>1, <3>2, <3>3, <3>4, <3>5 DEF FindInv
  <2> QED BY <2>2, <2>3, <2>5, <2>6, <2>7, <2>8 DEF TreeInv, ReadInv
<1> QED
  BY <1>2, <1>4, <1>5, <1>6, <1>7, <1>8, <1>9, EnrichTablesStep, EnrichImagesStep DEF TreeNext

\* The inductive invariant, from which the properties follow.
THEOREM TreeInvariant == TreeSpec => []TreeInv
<1>1. TreeInit => TreeInv
  <2> SUFFICES ASSUME TreeInit PROVE TreeInv
    OBVIOUS
  <2>1. ReadInv
    BY TreeInitially
  <2>2. Range(placed) \subseteq DOMAIN refs
    BY DEF TreeInit, Range
  <2> QED BY <2>1, <2>2 DEF TreeInv, FindInv, TreeInit
<1>2. TreeInv /\ [TreeNext]_tree => TreeInv'
  BY TreeStep
<1> QED
  BY <1>1, <1>2, PTL DEF TreeSpec

\* The tree has its types: each section hangs below one made before it, and
\* sections and the list of elements hold none but elements that were made.
THEOREM TreeTypeCorrect == TreeSpec => []TreeTypeOK
<1>1. TreeInv => TreeTypeOK
  <2> SUFFICES ASSUME TreeInv PROVE TreeTypeOK
    OBVIOUS
  <2>1. ShapeInv /\ NestInv /\ HomeInv /\ FindInv
    BY DEF TreeInv, ReadInv
  <2>2. ASSUME NEW s \in DOMAIN sections
        PROVE  /\ sections[s].level \in 0..MaxLevel /\ sections[s].parent \in 0..(s - 1)
               /\ sections[s].first \in DocPages /\ sections[s].last \in DocPages
               /\ Range(sections[s].elements) \subseteq DOMAIN refs
    <3>1. sections[s] \in Secs /\ s \in Nat \ {0}
      BY <2>1, ShapeIs
    <3>2. sections[s].parent \in 0..(s - 1)
      BY <2>1, <3>1 DEF NestInv
    <3> QED BY <2>1, <3>1, <3>2, SecIs, ElementsAre
  <2>3. \A h \in DOMAIN refs : /\ refs[h].type \in {"text", "table", "image"}
                               /\ refs[h].page \in DocPages /\ refs[h].box \in Boxes
    BY <2>1, ShapeIs, RefIs DEF Types
  <2> QED BY <2>1, <2>2, <2>3 DEF TreeTypeOK, ShapeInv, FindInv
<1> QED
  BY <1>1, TreeInvariant, PTL

\* Every element, and so every table and figure found in the file, is in one
\* place of one section, every page of drawings has an image, and the stored
\* tree holds the sections, but for what stands before the first heading
\* (enrich_tables, enrich_images, serialize).
THEOREM TreeKeeps == TreeSpec => []TreeKeepsWhatIsFound
<1>1. TreeInv => TreeKeepsWhatIsFound
  <2> SUFFICES ASSUME TreeInv PROVE TreeKeepsWhatIsFound
    OBVIOUS
  <2>1. ShapeInv /\ HomeInv /\ FindInv
    BY DEF TreeInv, ReadInv
  <2>2. \A h : Homes(h) = PlacesOf(ElementsIn(sections), h)
    BY DEF Homes, PlacesOf, ElementsIn
  <2>3. ASSUME NEW h \in DOMAIN refs
        PROVE  IF inputs.tables # <<>> /\ Covered(refs, DOMAIN refs, h)
               THEN Homes(h) = {} ELSE Cardinality(Homes(h)) = 1
    <3> DEFINE f == ElementsIn(sections)
    <3>1. Placed(f, Uncovered)
      BY <2>1 DEF HomeInv
    <3> HIDE DEF f
    <3>2. CASE inputs.tables # <<>> /\ Covered(refs, DOMAIN refs, h)
      <4>1. h \notin Uncovered
        BY <3>2 DEF Uncovered
      <4>2. PlacesOf(f, h) = {}
        BY <3>1, <4>1 DEF Placed, PlacesOf
      <4> QED BY <2>2, <3>2, <4>2 DEF f
    <3>3. CASE ~(inputs.tables # <<>> /\ Covered(refs, DOMAIN refs, h))
      <4>1. h \in Uncovered
        BY <3>3 DEF Uncovered
      <4>2. Cardinality(PlacesOf(f, h)) = 1
        BY <3>1, <4>1, PlacesCounted
      <4> QED BY <2>2, <3>3, <4>2 DEF f
    <3> QED BY <3>2, <3>3
  <2>4. ASSUME treePhase \notin {"partition", "tables"}, NEW t \in DOMAIN inputs.tables
        PROVE  Cardinality({h \in DOMAIN refs : refs[h].table = t}) = 1
    <3>1. PICK h \in DOMAIN refs : HasTable(h, t)
      BY <2>1, <2>4 DEF FindInv, TablesHeld
    <3>2. {g \in DOMAIN refs : refs[g].table = t} = {h}
      BY <3>1 DEF HasTable
    <3> QED BY <3>2, FS_Singleton
  <2>5. ASSUME treePhase \in {"serialize", "done"}, NEW f \in DOMAIN inputs.figures
        PROVE  Cardinality({h \in DOMAIN refs : refs[h].figure = f}) = 1
    <3>1. PICK h \in DOMAIN refs : HasFigure(h, f)
      BY <2>1, <2>5 DEF FindInv, FiguresHeld
    <3>2. {g \in DOMAIN refs : refs[g].figure = f} = {h}
      BY <3>1 DEF HasFigure
    <3> QED BY <3>2, FS_Singleton
  <2>6. ASSUME treePhase \in {"serialize", "done"}, NEW p \in inputs.vector
        PROVE  \E h \in DOMAIN refs : refs[h].type = "image" /\ refs[h].page = p
    BY <2>1, <2>6 DEF FindInv, FiguresHeld
  <2>7. ASSUME treePhase = "done"
        PROVE  /\ \A s \in 2..Len(sections) : storedTree[s - 1] = sections[s]
               /\ \A h \in Held(sections) \ Held(storedTree) :
                     h \in Range(sections[1].elements) /\ Len(sections) > 1
    <3> DEFINE n == Len(sections)
    <3>1. storedTree = IF n > 1 THEN Tail(sections) ELSE sections
      BY <2>1, <2>7 DEF FindInv, Serialized, Walk
    <3>2. /\ n \in Nat \ {0} /\ DOMAIN sections = 1..n /\ sections \in Seq(Secs) /\ sections # <<>>
      BY <2>1, ShapeIs DEF ShapeInv
    <3>3. CASE n = 1
      <4>1. storedTree = sections /\ 2..n = {}
        BY <3>1, <3>3
      <4> QED BY <4>1
    <3>4. CASE n > 1
      <4> HIDE DEF Secs
      <4>1. storedTree = Tail(sections)
        BY <3>1, <3>4
      <4>2. storedTree \in Seq(Secs) /\ Len(storedTree) = n - 1 /\ \A i \in 1..(n - 1) : storedTree[i] = sections[i + 1]
        BY <3>2, <3>4, <4>1
      <4>3. DOMAIN storedTree = 1..(n - 1)
        BY <4>2, LenProperties
      <4>4. \A s \in 2..n : s - 1 \in 1..(n - 1) /\ (s - 1) + 1 = s
        BY <3>2
      <4>5. \A s \in 2..n : storedTree[s - 1] = sections[s] /\ s - 1 \in DOMAIN storedTree
        BY <4>2, <4>3, <4>4
      <4>6. ASSUME NEW h \in Held(sections) \ Held(storedTree) PROVE h \in Range(sections[1].elements)
        <5>1. PICK s \in DOMAIN sections : h \in Range(sections[s].elements)
          BY <4>6 DEF Held
        <5>2. s = 1 \/ s \in 2..n
          BY <3>2
        <5>3. s \notin 2..n
          BY <4>5, <4>6, <5>1 DEF Held
        <5> QED BY <5>1, <5>2, <5>3
      <4> QED BY <3>4, <4>5, <4>6
    <3>5. n = 1 \/ n > 1
      BY <3>2
    <3> QED BY <3>3, <3>4, <3>5
  <2>8. EveryFindHasOneElement
    BY <2>3, <2>4, <2>5, <2>6 DEF EveryFindHasOneElement
  <2>9. StoredTreeKeepsTheSections
    BY <2>7 DEF StoredTreeKeepsTheSections
  <2> QED BY <2>8, <2>9 DEF TreeKeepsWhatIsFound
<1> QED
  BY <1>1, TreeInvariant, PTL

\* Headings lie under shallower ones, sections and those around them reach the
\* pages of their elements, and numbers repeat only after drops or when tables
\* and figures both got elements of their own (build_tree,
\* find_section_for_page, match_image).
THEOREM TreeWellNested == TreeSpec => []TreeIsWellNested
<1>1. TreeInv => TreeIsWellNested
  <2> SUFFICES ASSUME TreeInv PROVE TreeIsWellNested
    OBVIOUS
  <2>1. ShapeInv /\ NestInv /\ ReachInv /\ CountInv /\ FindInv
    BY DEF TreeInv, ReadInv
  <2>2. DOMAIN sections = 1..Len(sections) /\ Len(sections) \in Nat
    BY <2>1, ShapeIs
  <2>3. \A s \in 2..Len(sections) : s \in DOMAIN sections /\ s # 1
    BY <2>2
  <2>4. SectionsReachTheirElements
    BY <2>1, <2>3 DEF SectionsReachTheirElements, NestInv, ReachInv
  <2>5. ASSUME NEW g \in DOMAIN refs, NEW h \in DOMAIN refs, g # h, refs[g].id = refs[h].id
        PROVE  \/ inputs.drops > 0
               \/ Made("table") # {} /\ Made("image") # {}
    <3>1. inputs.drops \in Nat
      BY <2>1 DEF ShapeInv, Inputs
    <3>2. inputs.drops = 0 => inputs.drops > 0 \/ (Made("table") # {} /\ Made("image") # {})
      BY <2>1, <2>5 DEF CountInv
    <3> QED BY <3>1, <3>2
  <2>6. treePhase \in {"serialize", "done"} =>
           \A h \in Partitioned, g \in Made("image") : Excused(h, g)
    BY <2>1 DEF FindInv
  <2>7. NumbersRepeatOnlyAfterDrops
    BY <2>5, <2>6 DEF NumbersRepeatOnlyAfterDrops, Excused
  <2> QED BY <2>4, <2>7 DEF TreeIsWellNested
<1> QED
  BY <1>1, TreeInvariant, PTL

=============================================================================

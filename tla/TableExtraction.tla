--------------------------- MODULE TableExtraction ---------------------------
(***************************************************************************)
(* The tables of one file (processing/tables.py): pages that look like     *)
(* tables are read by Camelot's lattice parser, and by its stream parser   *)
(* where that found nothing better than one column; what both leave is     *)
(* merged over page breaks and each result described by a language model.  *)
(*                                                                         *)
(* Of a table the model keeps its page, where it stands, its columns, the  *)
(* words of its first row (as one value) and whether each further row is   *)
(* "rich": has the three numeric cells by which _collapse_headers tells    *)
(* data from a header. The markdown of a result is the rows it holds.      *)
(***************************************************************************)
EXTENDS Integers, Sequences, FiniteSets, SequencesExt, Filters

CONSTANTS
    TablePages,   \* pages of the file
    HeadWords,    \* words a first row can have; different ones are dissimilar
    NoWords,      \* a first row without words
    Shapes,       \* numbers of columns, with the rows below the first
    MaxTables     \* bound: tables both parsers report

ASSUME ExtractionAssumption ==
    /\ TablePages \subseteq Nat /\ MaxTables \in Nat /\ NoWords \notin HeadWords
    /\ \A s \in Shapes : /\ s.cols \in Nat \ {0} /\ s.body \in Seq({"rich", "plain"})
                         /\ s.cols < 3 => "rich" \notin Range(s.body)

MergeMaxPageGap == 2
MergeColTolerance == 2

VARIABLES
    exPhase,
    detected,    \* pages that look like tables
    lattice,     \* history: what the lattice parser reported
    streamed,    \* history: what the stream parser reported
    results,
    exErrors     \* TableDiagnostics.errors

extraction == <<exPhase, detected, lattice, streamed, results, exErrors>>

RawTables(pages) ==
    {[page |-> p, cols |-> s.cols, head |-> h, body |-> s.body] :
        p \in pages, s \in Shapes, h \in HeadWords \union {NoWords}}

ExtractionTypeOK ==
    /\ exPhase \in {"detect", "lattice", "stream", "merge", "describe", "done"}
    /\ detected \subseteq TablePages
    /\ \A i \in DOMAIN results :
        /\ results[i].page \in TablePages /\ results[i].last \in TablePages
        /\ results[i].flavor \in {"lattice", "stream"} /\ results[i].cols \in Nat \ {0}
    /\ exErrors \subseteq {"lattice", "stream", "no tables", "descriptions"}

ExtractionInit ==
    /\ exPhase = "detect" /\ detected = {} /\ lattice = <<>> /\ streamed = <<>>
    /\ results = <<>> /\ exErrors = {}

\* What a parser may report of the pages it is given, in their order.
Reports(pages, room) ==
    {r \in UNION {[1..n -> RawTables(pages)] : n \in 0..room} :
        \A i, j \in DOMAIN r : i < j => r[i].page <= r[j].page}

\* df_to_markdown: _collapse_headers takes the rows before the first rich one
\* into the header, all of them when none is rich.
DataRows(body) == {k \in DOMAIN body : \E j \in 1..k : body[j] = "rich"}

\* A result knows the rows it holds, as <<flavor, table, row>>, and the tables
\* they come from.
Result(flavor, i, raw) ==
    [page |-> raw.page, last |-> raw.page, flavor |-> flavor, cols |-> raw.cols,
     head |-> raw.head, parts |-> <<<<flavor, i>>>>,
     rows |-> Kept([k \in DOMAIN raw.body |-> <<flavor, i, k>>],
                   {<<flavor, i, k>> : k \in DataRows(raw.body)})]

\* detect_table_pages looks at page after page; when it fails it returns what
\* it has, and its error is not passed on.
DetectPages ==
    /\ exPhase = "detect"
    /\ detected' \in SUBSET TablePages
    /\ IF detected' = {} THEN exPhase' = "done" /\ exErrors' = {"no tables"}
                         ELSE exPhase' = "lattice" /\ UNCHANGED exErrors
    /\ UNCHANGED <<lattice, streamed, results>>

ReadLattice ==
    /\ exPhase = "lattice" /\ exPhase' = "stream"
    /\ \/ /\ lattice' \in Reports(detected, MaxTables)
          /\ results' = [i \in DOMAIN lattice' |-> Result("lattice", i, lattice'[i])]
          /\ UNCHANGED exErrors
       \/ exErrors' = exErrors \union {"lattice"} /\ UNCHANGED <<lattice, results>>
    /\ UNCHANGED <<detected, streamed>>

\* pages where the lattice parser found nothing, or nothing but single columns
NeedStream ==
    {p \in detected : \A i \in DOMAIN lattice : lattice[i].page = p => lattice[i].cols <= 1}

GoodStream(report) == {report[i].page : i \in {j \in DOMAIN report : report[j].cols > 1}}

\* Mutant of WithStream: the lattice results of a page stay beside the stream ones
WithStreamBesides(report) ==
    results \o [i \in DOMAIN report |-> Result("stream", i, report[i])]

\* A page with a better stream result drops its lattice ones.
WithStream(report) ==
    Kept(results, {r \in Range(results) : r.page \notin GoodStream(report)})
        \o [i \in DOMAIN report |-> Result("stream", i, report[i])]

ReadStream ==
    /\ exPhase = "stream" /\ exPhase' = "merge"
    /\ \/ NeedStream = {} /\ UNCHANGED <<streamed, results, exErrors>>
       \/ /\ NeedStream # {}
          /\ streamed' \in Reports(NeedStream, MaxTables - Len(lattice))
          /\ results' = WithStream(streamed')
          /\ UNCHANGED exErrors
       \/ /\ NeedStream # {}
          /\ exErrors' = exErrors \union {"stream"}
          /\ UNCHANGED <<streamed, results>>
    /\ UNCHANGED <<detected, lattice>>

Distance(a, b) == IF a > b THEN a - b ELSE b - a

\* _same_table_structure: b may go on where a ends
SameStructure(a, b) ==
    /\ Distance(a.cols, b.cols) <= MergeColTolerance
    /\ Distance(b.page, a.last) <= MergeMaxPageGap
    /\ a.head = b.head \/ NoWords \in {a.head, b.head}

Continued(a, b) ==
    [a EXCEPT !.last = b.page, !.rows = @ \o b.rows, !.parts = @ \o b.parts,
              !.flavor = IF b.flavor = "stream" THEN "stream" ELSE @]

MergeConsecutive(ordered) ==
    FoldLeft(LAMBDA merged, t :
                 IF merged # <<>> /\ SameStructure(Last(merged), t)
                 THEN [merged EXCEPT ![Len(merged)] = Continued(@, t)]
                 ELSE Append(merged, t),
             <<>>, ordered)

\* Sorted by page; on a page by the left edge, which may order them in any way.
Orders ==
    {[i \in DOMAIN results |-> results[p[i]]] :
        p \in {q \in [DOMAIN results -> DOMAIN results] :
                  /\ \A i, j \in DOMAIN q : i # j => q[i] # q[j]
                  /\ \A i, j \in DOMAIN q : i < j => results[q[i]].page <= results[q[j]].page}}

Merge ==
    /\ exPhase = "merge"
    /\ \E ordered \in Orders : results' = MergeConsecutive(ordered)
    /\ IF results' = <<>> THEN exPhase' = "done" /\ exErrors' = exErrors \union {"no tables"}
                          ELSE exPhase' = "describe" /\ UNCHANGED exErrors
    /\ UNCHANGED <<detected, lattice, streamed>>

\* describe_one tries a few times and then answers with an empty description;
\* one such answer is reported.
Describe ==
    /\ exPhase = "describe" /\ exPhase' = "done"
    /\ exErrors' \in {exErrors, exErrors \union {"descriptions"}}
    /\ UNCHANGED <<detected, lattice, streamed, results>>

ExtractionNext == DetectPages \/ ReadLattice \/ ReadStream \/ Merge \/ Describe
ExtractionSpec == ExtractionInit /\ [][ExtractionNext]_extraction

(* ------------------------------ Properties ------------------------------ *)
Raw(part) == IF part[1] = "lattice" THEN lattice[part[2]] ELSE streamed[part[2]]
Reported == ({"lattice"} \X DOMAIN lattice) \union ({"stream"} \X DOMAIN streamed)
Superseded(part) == part[1] = "lattice" /\ Raw(part).page \in GoodStream(streamed)
Holders(part) ==
    UNION {{<<r, k>> : k \in {j \in DOMAIN results[r].parts : results[r].parts[j] = part}} :
              r \in DOMAIN results}

\* Every table a parser reported is part of one result, unless a better stream
\* result took its page.
EachTableOnce ==
    \A part \in Reported : Cardinality(Holders(part)) = IF Superseded(part) THEN 0 ELSE 1

\* The rows of r are those of its parts, its pages those of its parts without a
\* hole of two pages, and no part is dissimilar to the first.
RowsOfItsParts(r) ==
    LET parts == r.parts IN
    /\ r.rows = FlattenSeq([k \in DOMAIN parts |->
                                Result(parts[k][1], parts[k][2], Raw(parts[k])).rows])
    /\ r.page = Raw(Head(parts)).page /\ r.last = Raw(Last(parts)).page
    /\ \A k \in 2..Len(parts) :
        /\ Raw(parts[k]).page - Raw(parts[k - 1]).page \in 0..MergeMaxPageGap
        /\ Distance(Raw(parts[k]).cols, Raw(parts[1]).cols) <= MergeColTolerance

\* Every table a parser reported is part of exactly one result, unless a better
\* stream result took its page; a result holds the data rows of its parts once
\* each and in their order (extract_tables and _merge_consecutive: rows are
\* neither lost nor doubled by merging).
RowsReachOneResult ==
    exPhase \in {"describe", "done"} =>
        EachTableOnce /\ \A r \in DOMAIN results : RowsOfItsParts(results[r])

=============================================================================

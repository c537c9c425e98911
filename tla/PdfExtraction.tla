---------------------------- MODULE PdfExtraction ----------------------------
(***************************************************************************)
(* How the elements of a PDF are obtained: preflight chooses a route or    *)
(* rejects the file (processing/preflight.py), the partition runs on that  *)
(* route, and a poor result of the fast route is retried with OCR, on the  *)
(* pages that lack output or on all (processing/structure.py, partition).  *)
(*                                                                         *)
(* An output is the sequence of its elements, one a page, each by what the *)
(* quality gate tells apart: "text", "garbled" text, text too "thin" to    *)
(* count, or an "image".                                                   *)
(***************************************************************************)
EXTENDS Integers, Sequences, FiniteSets, SequencesExt, Filters

CONSTANTS
    PageCount,
    MinRetryPercent,   \* MIN_HIRES_RETRY_FRACTION, in hundredths
    FullRetryPercent,  \* FULL_DOC_HIRES_FRACTION
    NoOutput

ASSUME PdfAssumption ==
    /\ PageCount \in Nat \ {0}
    /\ MinRetryPercent \in 1..100 /\ FullRetryPercent \in MinRetryPercent..100

VARIABLES
    pdfStep,       \* "preflight", "primary", "gate", "built" or a status of failure
    route,
    forced,        \* UNSTRUCTURED_STRATEGY is set
    expected,      \* expected_pages: what pdf-inspector counted, 0 when it did not
    firstOutput,    \* history: what the first pass gave
    output,
    pdfWarnings,
    ocrReports,    \* pages reported to be read by OCR, before each run of it
    retried        \* history: "no", "pages" or "document" replaced by OCR

pdf == <<pdfStep, route, forced, expected, firstOutput, output, pdfWarnings, ocrReports, retried>>

AllPages == 1..PageCount
Kinds == {"text", "garbled", "thin", "image"}
Refused == {"invalid", "encrypted", "resource_limit", "failed"}
Complaints == {"empty", "missing", "garbled", "only images", "no text by OCR"}
Remarks == Complaints \union
    {"primary failed", "OCR used", "OCR incomplete", "OCR recovered nothing", "OCR failed"}

Elements == [page : AllPages, kind : Kinds]
ElementsOf(f) == Kept([p \in AllPages |-> [page |-> p, kind |-> f[p]]], Elements)
\* what partition_pdf may give of some pages, in their order
Outputs(pages) ==
    {ElementsOf(f) : f \in {g \in [AllPages -> Kinds \union {"none"}] :
                              \A p \in AllPages \ pages : g[p] = "none"}}

PdfTypeOK ==
    /\ pdfStep \in {"preflight", "primary", "gate", "built"} \union Refused
    /\ route \in {"fast", "hi_res"} /\ forced \in BOOLEAN /\ expected \in {0, PageCount}
    /\ pdfWarnings \subseteq Remarks /\ retried \in {"no", "pages", "document"}
    /\ ocrReports \in Seq({0} \union AllPages)
    /\ pdfStep = "built" => Range(output) \subseteq Elements

PdfInit ==
    /\ pdfStep = "preflight" /\ route = "fast" /\ forced \in BOOLEAN /\ expected = 0
    /\ firstOutput = NoOutput /\ output = NoOutput /\ pdfWarnings = {}
    /\ ocrReports = <<>> /\ retried = "no"

\* classify_pdf: encryption and damage first, then the class, then the limits.
RejectPdf ==
    /\ pdfStep = "preflight"
    /\ pdfStep' \in {"invalid", "encrypted", "resource_limit"}
    /\ UNCHANGED <<route, forced, expected, firstOutput, output, pdfWarnings, ocrReports, retried>>

Classify(class, strategy) ==
    /\ pdfStep = "preflight" /\ pdfStep' = "primary"
    /\ route' = IF forced THEN IF strategy = "hi_res" THEN "hi_res" ELSE "fast"
                ELSE IF class = "text" THEN "fast" ELSE "hi_res"
    /\ expected' \in {0, PageCount}
    /\ UNCHANGED <<forced, firstOutput, output, pdfWarnings, ocrReports, retried>>

\* The first pass. OCR that fails falls back on the text, text that fails is
\* the end; only an unforced fast route passes the gate.
Extracted(result, next) ==
    /\ output' = result /\ firstOutput' = result /\ pdfStep' = next

RunPrimary ==
    /\ pdfStep = "primary"
    /\ ocrReports' = IF route = "hi_res" THEN Append(ocrReports, expected) ELSE ocrReports
    /\ \/ /\ \E result \in Outputs(AllPages) :
                Extracted(result, IF route = "fast" /\ ~forced THEN "gate" ELSE "built")
          /\ UNCHANGED pdfWarnings
       \/ /\ route = "hi_res" /\ pdfWarnings' = pdfWarnings \union {"primary failed"}
          /\ \E result \in Outputs(AllPages) : Extracted(result, "built")
       \/ pdfStep' = "failed" /\ UNCHANGED <<output, firstOutput, pdfWarnings>>
    /\ UNCHANGED <<route, forced, expected, retried>>

(* ---------------------------- quality_gate ------------------------------ *)
PagesOf(out, kinds) == {e.page : e \in {x \in Range(out) : x.kind \in kinds}}
TextPages(out) == PagesOf(out, {"text", "garbled"})
UsablePages(out) == TextPages(out) \union PagesOf(out, {"image"})
MissingPages(out) == (1..expected) \ UsablePages(out)
GarbledElements(out) == Cardinality({i \in DOMAIN out : out[i].kind = "garbled"})

\* quality_gate: an output of nothing usable is one complaint, else each kind
\* of shortcoming is one.
Gate(out, by) ==
    IF expected > 0 /\ UsablePages(out) = {} THEN {"empty"}
    ELSE {c \in Complaints :
            \/ c = "missing" /\ expected > Cardinality(UsablePages(out))
            \/ c = "garbled" /\ out # <<>> /\ 4 * GarbledElements(out) > Len(out)
            \/ c = "only images" /\ out # <<>> /\ PagesOf(out, Kinds) = PagesOf(out, {"image"})
            \/ c = "no text by OCR" /\ by = "hi_res" /\ TextPages(out) = {} /\ UsablePages(out) # {}}

\* complaints whose wording has "no usable text" in it
Unusable == {"empty", "missing"}

\* _merge_page_elements: what OCR read comes after what is kept
Merged(targeted, missing) ==
    Kept(output, {e \in Elements : e.page \notin missing}) \o targeted

\* A retry is taken over when it leaves fewer complaints than the fast pass.
TakeOver(result, extent, remarks) ==
    /\ output' = result /\ retried' = extent /\ pdfWarnings' = remarks

Keep(remarks) == pdfWarnings' = remarks /\ UNCHANGED <<output, retried>>

\* Mutant of RetryDocument: a retry that is no better is taken over as well
RetryDocumentAnyway(complaints) ==
    \E result \in Outputs(AllPages) :
        LET after == Gate(result, "hi_res") IN
        IF Cardinality(after) <= Cardinality(complaints)
        THEN TakeOver(result, "document", (after \ Unusable) \union {"OCR used"})
        ELSE Keep(complaints)

RetryDocument(complaints) ==
    \E result \in Outputs(AllPages) :
        LET after == Gate(result, "hi_res") IN
        IF Cardinality(after) < Cardinality(complaints)
        THEN TakeOver(result, "document", (after \ Unusable) \union {"OCR used"})
        ELSE Keep(complaints \union IF after # {} /\ after \intersect Unusable = {}
                                    THEN {"OCR incomplete"} ELSE {})

RetryPages(complaints, missing) ==
    \E targeted \in Outputs(missing) :
        LET result == Merged(targeted, missing)
            after == Gate(result, "hi_res") IN
        IF Cardinality(after) < Cardinality(complaints)
        THEN TakeOver(result, "pages", (after \ Unusable) \union {"OCR used"})
        ELSE Keep(complaints \union IF after # {} /\ after \intersect Unusable = {}
                                    THEN {"OCR incomplete"} ELSE {"OCR recovered nothing"})

PassGate ==
    /\ pdfStep = "gate" /\ pdfStep' = "built"
    /\ LET complaints == Gate(output, "fast")
           missing == MissingPages(output)
           worthRetrying == /\ complaints # {} /\ expected > 0 /\ missing # {}
                            /\ 100 * Cardinality(missing) >= MinRetryPercent * expected
           all == 100 * Cardinality(missing) >= FullRetryPercent * expected
       IN IF ~worthRetrying THEN Keep(complaints) /\ UNCHANGED ocrReports
          ELSE /\ ocrReports' = Append(ocrReports, Cardinality(missing))
               /\ \/ all /\ RetryDocument(complaints)
                  \/ ~all /\ RetryPages(complaints, missing)
                  \/ Keep(complaints \union {"OCR failed"})
    /\ UNCHANGED <<route, forced, expected, firstOutput>>

PdfNext ==
    \/ RejectPdf
    \/ \E class \in {"text", "scanned", "mixed"}, strategy \in {"fast", "hi_res"} :
           Classify(class, strategy)
    \/ RunPrimary
    \/ PassGate

PdfSpec == PdfInit /\ [][PdfNext]_pdf

(* ------------------------------ Properties ------------------------------ *)
OnPage(out, p) == Kept(out, {e \in Elements : e.page = p})
InPageOrder(out) == \A i, j \in DOMAIN out : i < j => out[i].page <= out[j].page

\* What a retry may cost (partition, _merge_page_elements). A retry of single
\* pages keeps everything the fast pass had on the pages it had usable output
\* of, and puts what it read behind them; text too thin to be usable on the
\* pages read again goes. A retry of the document replaces the fast pass, and
\* may lack a page that pass had only when the pass had a second shortcoming.
\* Neither leaves the document with more complaints. A fast pass that is kept
\* goes out with the complaint that pages lack usable text; a retry taken over
\* drops its own, so its gaps may go unsaid.
RetryCostIsBounded ==
    pdfStep = "built" /\ firstOutput # NoOutput =>
        /\ retried = "pages" =>
            /\ \A p \in UsablePages(firstOutput) : OnPage(output, p) = OnPage(firstOutput, p)
            /\ \E n \in 0..Len(output) : /\ InPageOrder(SubSeq(output, 1, n))
                                         /\ InPageOrder(SubSeq(output, n + 1, Len(output)))
        /\ retried # "pages" => InPageOrder(output)
        /\ retried = "document" /\ ~(UsablePages(firstOutput) \subseteq UsablePages(output)) =>
              Cardinality(Gate(firstOutput, "fast")) > 1
        /\ Cardinality(Gate(output, IF retried = "no" THEN "fast" ELSE "hi_res"))
              <= Cardinality(Gate(firstOutput, "fast"))
        /\ route = "fast" /\ ~forced /\ retried = "no" /\ MissingPages(output) # {} =>
              pdfWarnings \intersect Unusable # {}

=============================================================================

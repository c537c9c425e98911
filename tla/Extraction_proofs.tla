-------------------------- MODULE Extraction_proofs --------------------------
(***************************************************************************)
(* What the extraction of a PDF guarantees, for any number of pages and    *)
(* any thresholds of the retry: OCR costs no page that was read and leaves *)
(* no page unread without a warning.                                       *)
(***************************************************************************)
EXTENDS PdfExtraction, TableExtraction, FoldTheorems

-----------------------------------------------------------------------------
(* Outputs of a partition *)

\* The order of pages, as a set of pairs.
Slots == [page : AllPages, kind : Kinds \union {"none"}]
ByPage == {q \in Slots \X Slots : q[1].page <= q[2].page}

\* An output has its elements in the order of the pages it was made of.
LEMMA OutputIs ==
    ASSUME NEW pages, NEW o \in Outputs(pages)
    PROVE  o \in Seq(Elements) /\ InPageOrder(o) /\ \A e \in Range(o) : e.page \in pages
<1>0. PageCount \in Nat
  BY PdfAssumption DEF PdfAssumption
<1>1. PICK f \in [AllPages -> Kinds \union {"none"}] :
        o = ElementsOf(f) /\ \A p \in AllPages \ pages : f[p] = "none"
  BY DEF Outputs
<1> DEFINE s == [p \in AllPages |-> [page |-> p, kind |-> f[p]]]
<1>2. \A p \in AllPages : s[p] \in Slots /\ s[p].page = p /\ s[p].kind = f[p]
  BY DEF Slots
<1>3. s \in Seq(Slots) /\ Len(s) = PageCount /\ DOMAIN s = 1..PageCount
  <2> HIDE DEF Slots
  <2>1. s \in [1..PageCount -> Slots]
    BY <1>2 DEF AllPages
  <2> QED BY <1>0, <2>1
<1> HIDE DEF s
<1>4. o = Kept(s, Elements)
  BY <1>1 DEF ElementsOf, s
<1>5. o \in Seq(Slots) /\ Range(o) = Range(s) \intersect Elements
  BY <1>3, <1>4, KeptMembers
<1>6. o \in Seq(Elements) /\ Len(o) \in Nat /\ DOMAIN o = 1..Len(o)
  <2>1. Len(o) \in Nat /\ DOMAIN o = 1..Len(o)
    BY <1>5, LenProperties
  <2>2. \A i \in 1..Len(o) : o[i] \in Elements
    BY <1>5, <2>1 DEF Range
  <2>3. o = [i \in 1..Len(o) |-> o[i]]
    BY <1>5, ByElements
  <2> QED BY <2>1, <2>2, <2>3
<1>7. InPageOrder(o)
  <2>1. Ordered(s, ByPage)
    <3>1. ASSUME NEW i \in 1..PageCount, NEW j \in 1..PageCount, i < j PROVE <<s[i], s[j]>> \in ByPage
      <4>1. s[i] \in Slots /\ s[j] \in Slots /\ s[i].page = i /\ s[j].page = j
        BY <1>2 DEF AllPages
      <4> QED BY <1>0, <3>1, <4>1 DEF ByPage
    <3> QED BY <1>3, <3>1 DEF Ordered
  <2>2. Ordered(o, ByPage)
    BY <1>3, <1>4, <2>1, KeptOrdered
  <2> QED BY <1>6, <2>2 DEF Ordered, ByPage, InPageOrder
<1>8. ASSUME NEW e \in Range(o) PROVE e.page \in pages
  <2>1. PICK p \in AllPages : e = s[p]
    BY <1>3, <1>5 DEF Range, AllPages
  <2>2. e.page = p /\ e.kind = f[p]
    BY <1>2, <2>1
  <2>3. f[p] # "none"
    BY <1>5, <2>2 DEF Elements, Kinds
  <2> QED BY <1>1, <2>2, <2>3
<1> QED
  BY <1>6, <1>7, <1>8

\* The complaints of the gate can be counted.
LEMMA GateIs ==
    ASSUME NEW o, NEW by
    PROVE  /\ Gate(o, by) \subseteq Complaints
           /\ IsFiniteSet(Gate(o, by)) /\ Cardinality(Gate(o, by)) \in Nat
<1>1. IsFiniteSet(Complaints)
  <2>1. Complaints = (((({} \union {"empty"}) \union {"missing"}) \union {"garbled"})
                        \union {"only images"}) \union {"no text by OCR"}
    BY DEF Complaints
  <2>2. \A S, x : IsFiniteSet(S) => IsFiniteSet(S \union {x})
    BY FS_AddElement
  <2>3. IsFiniteSet({})
    BY FS_EmptySet
  <2>4. IsFiniteSet((({} \union {"empty"}) \union {"missing"}) \union {"garbled"})
    BY <2>2, <2>3
  <2> QED BY <2>1, <2>2, <2>4
<1>2. Gate(o, by) \subseteq Complaints
  BY DEF Gate, Complaints
<1> QED
  BY <1>1, <1>2, FS_Subset, FS_CardinalityType

\* The usable pages of an output are pages, and can be counted.
LEMMA UsableAre ==
    ASSUME NEW o \in Seq(Elements)
    PROVE  /\ UsablePages(o) \subseteq AllPages
           /\ IsFiniteSet(UsablePages(o)) /\ Cardinality(UsablePages(o)) \in Nat
<1>0. PageCount \in Nat
  BY PdfAssumption DEF PdfAssumption
<1>1. \A e \in Range(o) : e.page \in AllPages
  <2>1. DOMAIN o = 1..Len(o) /\ \A i \in 1..Len(o) : o[i] \in Elements
    BY LenProperties
  <2> QED BY <2>1 DEF Range, Elements
<1>2. UsablePages(o) \subseteq AllPages
  BY <1>1 DEF UsablePages, TextPages, PagesOf
<1>3. IsFiniteSet(AllPages)
  BY <1>0, FS_Interval DEF AllPages
<1> QED
  BY <1>2, <1>3, FS_Subset, FS_CardinalityType

\* When pages lack output the gate complains.
LEMMA GateNotices ==
    ASSUME NEW o \in Seq(Elements), NEW by, expected \in {0, PageCount}
    PROVE  /\ MissingPages(o) # {} => Gate(o, by) \intersect Unusable # {}
           /\ expected > 0 /\ Gate(o, by) = {} => UsablePages(o) = AllPages
<1>0. PageCount \in Nat /\ expected \in Nat
  BY PdfAssumption DEF PdfAssumption
<1> DEFINE U == UsablePages(o)
<1>1. U \subseteq AllPages /\ IsFiniteSet(U) /\ Cardinality(U) \in Nat
  BY UsableAre
<1>2. IsFiniteSet(AllPages) /\ Cardinality(AllPages) = PageCount
  BY <1>0, FS_Interval DEF AllPages
<1>3. Cardinality(U) <= PageCount /\ (Cardinality(U) = PageCount => U = AllPages)
  BY <1>1, <1>2, FS_Subset
<1>4. ASSUME expected > 0, Gate(o, by) = {} PROVE U = AllPages
  <2>1. U # {}
    BY <1>4 DEF Gate
  <2>2. ~(expected > Cardinality(U))
    BY <1>4, <2>1 DEF Gate, Complaints
  <2>3. expected = PageCount
    BY <1>0, <1>4
  <2> HIDE DEF U
  <2> QED BY <1>0, <1>1, <1>3, <2>2, <2>3
<1>5. ASSUME MissingPages(o) # {} PROVE Gate(o, by) \intersect Unusable # {}
  <2>1. (1..expected) \ U # {}
    BY <1>5 DEF MissingPages
  <2>2. expected > 0 /\ expected = PageCount
    BY <1>0, <2>1
  <2>3. U # AllPages
    BY <2>1, <2>2 DEF AllPages
  <2>4. expected > Cardinality(U)
    <3> HIDE DEF U
    <3> QED BY <1>0, <1>1, <1>3, <2>2, <2>3
  <2>5. CASE U = {}
    BY <2>2, <2>5 DEF Gate, Unusable
  <2>6. CASE U # {}
    <3>1. "missing" \in Gate(o, by)
      BY <2>4, <2>6 DEF Gate, Complaints
    <3> QED BY <3>1 DEF Unusable
  <2> QED BY <2>5, <2>6
<1> QED
  BY <1>4, <1>5

\* The order of pages by ByPage.
LEMMA OrderIs ==
    ASSUME NEW o \in Seq(Elements)
    PROVE  InPageOrder(o) <=> Ordered(o, ByPage)
<1>1. Len(o) \in Nat /\ DOMAIN o = 1..Len(o) /\ \A i \in 1..Len(o) : o[i] \in Elements
  BY LenProperties
<1>2. \A a, b \in Elements : <<a, b>> \in ByPage <=> a.page <= b.page
  BY DEF ByPage, Slots, Elements
<1> QED
  BY <1>1, <1>2 DEF InPageOrder, Ordered

\* Pages read anew come after those that are kept, which stay as they were.
LEMMA MergedIs ==
    ASSUME output \in Seq(Elements), InPageOrder(output),
           NEW missing, NEW targeted \in Outputs(missing)
    PROVE  LET m == Merged(targeted, missing) IN
           /\ m \in Seq(Elements)
           /\ \A p : p \notin missing => OnPage(m, p) = OnPage(output, p)
           /\ \E n \in 0..Len(m) : /\ InPageOrder(SubSeq(m, 1, n))
                                   /\ InPageOrder(SubSeq(m, n + 1, Len(m)))
<1> DEFINE W == {e \in Elements : e.page \notin missing}
           k == Kept(output, W)
           m == Merged(targeted, missing)
<1>1. k \in Seq(Elements) /\ InPageOrder(k)
  <2>1. k \in Seq(Elements) /\ Ordered(k, ByPage)
    <3> HIDE DEF W
    <3> QED BY OrderIs, KeptMembers, KeptOrdered
  <2> HIDE DEF k
  <2> QED BY <2>1, OrderIs
<1>2. targeted \in Seq(Elements) /\ InPageOrder(targeted) /\ \A e \in Range(targeted) : e.page \in missing
  BY OutputIs
<1>3. m = k \o targeted
  BY DEF Merged
<1>4. ASSUME NEW p, p \notin missing PROVE OnPage(m, p) = OnPage(output, p)
  <2> DEFINE P == {e \in Elements : e.page = p}
  <2>1. W \intersect P = P
    BY <1>4
  <2>2. Kept(targeted, P) = <<>>
    <3>1. Range(targeted) \intersect P = {}
      BY <1>2, <1>4
    <3> HIDE DEF P
    <3>2. Kept(targeted, P) \in Seq(Elements) /\ Range(Kept(targeted, P)) = {}
      BY <1>2, <3>1, KeptMembers
    <3> QED BY <3>2, RangeEmpty
  <2> HIDE DEF P, W, m
  <2>3. Kept(k, P) = Kept(output, P)
    BY <2>1, KeptTwice
  <2>4. Kept(output, P) \in Seq(Elements)
    BY KeptMembers
  <2> HIDE DEF k
  <2>5. Kept(m, P) = Kept(k, P) \o Kept(targeted, P)
    BY <1>1, <1>2, <1>3, KeptConcat
  <2>6. Kept(m, P) = Kept(output, P)
    BY <2>2, <2>3, <2>4, <2>5, ConcatEmptySeq
  <2> QED BY <2>6 DEF OnPage, P
<1> HIDE DEF k, m
<1>5. m \in Seq(Elements)
  BY <1>1, <1>2, <1>3
<1>6. \E n \in 0..Len(m) : InPageOrder(SubSeq(m, 1, n)) /\ InPageOrder(SubSeq(m, n + 1, Len(m)))
  <2> DEFINE n == Len(k)
  <2>1. n \in 0..Len(m) /\ SubSeq(m, 1, n) = k /\ SubSeq(m, n + 1, Len(m)) = targeted
    BY <1>1, <1>2, <1>3, ConcatParts
  <2> QED BY <1>1, <1>2, <2>1
<1> QED
  BY <1>4, <1>5, <1>6 DEF m

-----------------------------------------------------------------------------
(* The extraction: inductive invariant *)

\* Nothing is retried before the gate, which sees what the first pass gave.
PassInv ==
    /\ pdfStep \in {"preflight", "primary", "gate"} => retried = "no"
    /\ pdfStep = "gate" => /\ output \in Outputs(AllPages) /\ output = firstOutput
                           /\ route = "fast" /\ ~forced

PdfInv == PdfTypeOK /\ PassInv /\ RetryCostIsBounded

\* The gate counts the complaints of an output by what is expected of it.
LEMMA SameGate ==
    ASSUME UNCHANGED expected, NEW o, NEW by, output' = o
    PROVE  Gate(output, by)' = Gate(o, by) /\ MissingPages(output)' = MissingPages(o)
BY DEF Gate, MissingPages, UsablePages, TextPages, PagesOf, GarbledElements

\* A fast pass that is kept goes out with its complaints.
LEMMA KeepStep ==
    ASSUME PdfInv, pdfStep = "gate", pdfStep' = "built", NEW remarks, Keep(remarks),
           Gate(output, "fast") \subseteq remarks,
           UNCHANGED <<route, forced, expected, firstOutput>>
    PROVE  RetryCostIsBounded'
<1>1. output \in Seq(Elements) /\ InPageOrder(output) /\ output = firstOutput /\ retried = "no"
  BY OutputIs DEF PdfInv, PassInv
<1>2. output' = output /\ retried' = "no" /\ pdfWarnings' = remarks /\ firstOutput' = output
  BY <1>1 DEF Keep
<1>3. InPageOrder(output)'
  BY <1>1, <1>2 DEF InPageOrder
<1>4. Gate(output, "fast")' = Gate(output, "fast") /\ MissingPages(output)' = MissingPages(output)
  BY <1>2, SameGate
<1>5. Gate(firstOutput, "fast")' = Gate(output, "fast")'
  BY <1>1, <1>2 DEF Gate, UsablePages, TextPages, PagesOf, GarbledElements
<1>6. Cardinality(Gate(output, "fast")) \in Nat
  BY GateIs
<1>7. MissingPages(output) # {} => remarks \intersect Unusable # {}
  <2>1. expected \in {0, PageCount}
    BY DEF PdfInv, PdfTypeOK
  <2> QED BY <1>1, <2>1, GateNotices
<1> QED
  BY <1>2, <1>3, <1>4, <1>5, <1>6, <1>7 DEF RetryCostIsBounded

\* A better result of OCR on all pages.
LEMMA DocumentStep ==
    ASSUME PdfInv, pdfStep = "gate", pdfStep' = "built",
           NEW result \in Outputs(AllPages), NEW remarks, remarks # {},
           TakeOver(result, "document", remarks), expected > 0,
           Cardinality(Gate(result, "hi_res")) < Cardinality(Gate(output, "fast")),
           UNCHANGED <<route, forced, expected, firstOutput>>
    PROVE  RetryCostIsBounded'
<1>1. output \in Seq(Elements) /\ output = firstOutput /\ result \in Seq(Elements) /\ InPageOrder(result)
  BY OutputIs DEF PdfInv, PassInv
<1>2. output' = result /\ retried' = "document" /\ pdfWarnings' = remarks /\ firstOutput' = output
  BY <1>1 DEF TakeOver
<1>3. InPageOrder(output)'
  BY <1>1, <1>2 DEF InPageOrder
<1>4. Gate(output, "hi_res")' = Gate(result, "hi_res")
  BY <1>2, SameGate
<1>5. Gate(firstOutput, "fast")' = Gate(output, "fast")
  BY <1>2 DEF Gate, UsablePages, TextPages, PagesOf, GarbledElements
<1>6. /\ IsFiniteSet(Gate(result, "hi_res")) /\ Cardinality(Gate(result, "hi_res")) \in Nat
      /\ Cardinality(Gate(output, "fast")) \in Nat
  BY GateIs
<1>7. UsablePages(output)' = UsablePages(result) /\ UsablePages(firstOutput)' = UsablePages(output)
  BY <1>2 DEF UsablePages, TextPages, PagesOf
<1>8. ~(UsablePages(output) \subseteq UsablePages(result)) => Cardinality(Gate(output, "fast")) > 1
  <2> SUFFICES ASSUME ~(UsablePages(output) \subseteq UsablePages(result)),
                      ~(Cardinality(Gate(output, "fast")) > 1)
               PROVE  FALSE
    OBVIOUS
  <2>1. Cardinality(Gate(result, "hi_res")) = 0
    BY <1>6
  <2>2. Gate(result, "hi_res") = {}
    BY <1>6, <2>1, FS_EmptySet
  <2>3. expected \in {0, PageCount}
    BY DEF PdfInv, PdfTypeOK
  <2>4. UsablePages(result) = AllPages
    BY <1>1, <2>2, <2>3, GateNotices
  <2>5. UsablePages(output) \subseteq AllPages
    BY <1>1, UsableAre
  <2> QED BY <2>4, <2>5
<1> QED
  BY <1>2, <1>3, <1>4, <1>5, <1>6, <1>7, <1>8 DEF RetryCostIsBounded

\* A better result of OCR on the pages that lack output.
LEMMA PagesStep ==
    ASSUME PdfInv, pdfStep = "gate", pdfStep' = "built",
           NEW targeted \in Outputs(MissingPages(output)), NEW remarks, remarks # {},
           TakeOver(Merged(targeted, MissingPages(output)), "pages", remarks),
           Cardinality(Gate(Merged(targeted, MissingPages(output)), "hi_res"))
             < Cardinality(Gate(output, "fast")),
           UNCHANGED <<route, forced, expected, firstOutput>>
    PROVE  RetryCostIsBounded'
<1> DEFINE missing == MissingPages(output)
           m == Merged(targeted, missing)
<1>1. output \in Seq(Elements) /\ InPageOrder(output) /\ output = firstOutput
  BY OutputIs DEF PdfInv, PassInv
<1>2. output' = m /\ retried' = "pages" /\ pdfWarnings' = remarks /\ firstOutput' = output
  BY <1>1 DEF TakeOver
<1>3. /\ \A p : p \notin missing => OnPage(m, p) = OnPage(output, p)
      /\ \E n \in 0..Len(m) : InPageOrder(SubSeq(m, 1, n)) /\ InPageOrder(SubSeq(m, n + 1, Len(m)))
  <2>1. targeted \in Outputs(missing)
    OBVIOUS
  <2> HIDE DEF missing
  <2> QED BY <1>1, <2>1, MergedIs
<1> HIDE DEF m
<1>4. \A p \in UsablePages(output) : OnPage(m, p) = OnPage(output, p)
  <2>1. \A p \in UsablePages(output) : p \notin missing
    BY DEF MissingPages
  <2> HIDE DEF missing
  <2> QED BY <1>3, <2>1
<1>5. Gate(output, "hi_res")' = Gate(m, "hi_res")
  BY <1>2, SameGate
<1>6. Gate(firstOutput, "fast")' = Gate(output, "fast")
  BY <1>2 DEF Gate, UsablePages, TextPages, PagesOf, GarbledElements
<1>7. Cardinality(Gate(m, "hi_res")) \in Nat /\ Cardinality(Gate(output, "fast")) \in Nat
  BY GateIs
<1>8. UsablePages(firstOutput)' = UsablePages(output)
  BY <1>2 DEF UsablePages, TextPages, PagesOf
<1>9. \A p : OnPage(output, p)' = OnPage(m, p) /\ OnPage(firstOutput, p)' = OnPage(output, p)
  BY <1>2 DEF OnPage
<1>10. (\E n \in 0..Len(output) : /\ InPageOrder(SubSeq(output, 1, n))
                                  /\ InPageOrder(SubSeq(output, n + 1, Len(output))))'
  BY <1>2, <1>3 DEF InPageOrder
<1>11. Cardinality(Gate(m, "hi_res")) <= Cardinality(Gate(output, "fast"))
  BY <1>7 DEF m
<1> QED
  BY <1>2, <1>4, <1>5, <1>6, <1>8, <1>9, <1>10, <1>11 DEF RetryCostIsBounded

\* What the gate decides on a retry.
LEMMA PassGateIs ==
    ASSUME PassGate
    PROVE  LET c == Gate(output, "fast")
               missing == MissingPages(output)
           IN /\ pdfStep = "gate" /\ pdfStep' = "built"
              /\ UNCHANGED <<route, forced, expected, firstOutput>>
              /\ \/ UNCHANGED ocrReports
                 \/ missing # {} /\ ocrReports' = Append(ocrReports, Cardinality(missing))
              /\ \/ \E r \in SUBSET Remarks : c \subseteq r /\ Keep(r)
                 \/ \E r \in SUBSET Remarks, result \in Outputs(AllPages) :
                       /\ r # {} /\ expected > 0 /\ TakeOver(result, "document", r)
                       /\ Cardinality(Gate(result, "hi_res")) < Cardinality(c)
                 \/ \E r \in SUBSET Remarks, targeted \in Outputs(missing) :
                       /\ r # {} /\ TakeOver(Merged(targeted, missing), "pages", r)
                       /\ Cardinality(Gate(Merged(targeted, missing), "hi_res")) < Cardinality(c)
<1> DEFINE c == Gate(output, "fast")
           missing == MissingPages(output)
           all == 100 * Cardinality(missing) >= FullRetryPercent * expected
           worth == /\ c # {} /\ expected > 0 /\ missing # {}
                    /\ 100 * Cardinality(missing) >= MinRetryPercent * expected
           remark(after, other) == c \union IF after # {} /\ after \intersect Unusable = {}
                                            THEN {"OCR incomplete"} ELSE other
<1>0. Complaints \subseteq Remarks /\ {"OCR used"} \subseteq Remarks /\ {"OCR incomplete"} \subseteq Remarks
      /\ {"OCR recovered nothing"} \subseteq Remarks /\ {"OCR failed"} \subseteq Remarks
  BY DEF Remarks
<1>1. c \subseteq Remarks /\ \A o, by : Gate(o, by) \subseteq Remarks
  BY <1>0, GateIs
<1>2. /\ pdfStep = "gate" /\ pdfStep' = "built" /\ UNCHANGED <<route, forced, expected, firstOutput>>
      /\ \/ ~worth /\ Keep(c) /\ UNCHANGED ocrReports
         \/ /\ worth /\ ocrReports' = Append(ocrReports, Cardinality(missing))
            /\ \/ all /\ RetryDocument(c)
               \/ ~all /\ RetryPages(c, missing)
               \/ Keep(c \union {"OCR failed"})
  BY DEF PassGate
<1>3. ASSUME RetryDocument(c)
      PROVE  \/ \E r \in SUBSET Remarks : c \subseteq r /\ Keep(r)
             \/ \E r \in SUBSET Remarks, result \in Outputs(AllPages) :
                   /\ r # {} /\ TakeOver(result, "document", r)
                   /\ Cardinality(Gate(result, "hi_res")) < Cardinality(c)
  <2> HIDE DEF c
  <2>1. PICK result \in Outputs(AllPages) :
          LET after == Gate(result, "hi_res") IN
          IF Cardinality(after) < Cardinality(c)
          THEN TakeOver(result, "document", (after \ Unusable) \union {"OCR used"})
          ELSE Keep(remark(after, {}))
    BY <1>3 DEF RetryDocument
  <2> DEFINE after == Gate(result, "hi_res")
  <2>2. after \subseteq Remarks
    BY <1>1
  <2> HIDE DEF after
  <2>3. CASE Cardinality(after) < Cardinality(c)
    <3>1. (after \ Unusable) \union {"OCR used"} \in SUBSET Remarks
      BY <1>0, <2>2
    <3>2. TakeOver(result, "document", (after \ Unusable) \union {"OCR used"})
      BY <2>1, <2>3 DEF after
    <3> QED BY <2>3, <3>1, <3>2 DEF after
  <2>4. CASE ~(Cardinality(after) < Cardinality(c))
    <3>1. remark(after, {}) \in SUBSET Remarks /\ c \subseteq remark(after, {})
      BY <1>0, <1>1
    <3>2. Keep(remark(after, {}))
      BY <2>1, <2>4 DEF after
    <3> HIDE DEF remark
    <3> QED BY <3>1, <3>2
  <2> QED BY <2>3, <2>4
<1>4. ASSUME RetryPages(c, missing)
      PROVE  \/ \E r \in SUBSET Remarks : c \subseteq r /\ Keep(r)
             \/ \E r \in SUBSET Remarks, targeted \in Outputs(missing) :
                   /\ r # {} /\ TakeOver(Merged(targeted, missing), "pages", r)
                   /\ Cardinality(Gate(Merged(targeted, missing), "hi_res")) < Cardinality(c)
  <2> HIDE DEF c, missing
  <2>1. PICK targeted \in Outputs(missing) :
          LET result == Merged(targeted, missing)
              after == Gate(result, "hi_res") IN
          IF Cardinality(after) < Cardinality(c)
          THEN TakeOver(result, "pages", (after \ Unusable) \union {"OCR used"})
          ELSE Keep(remark(after, {"OCR recovered nothing"}))
    BY <1>4 DEF RetryPages
  <2> DEFINE result == Merged(targeted, missing)
             after == Gate(result, "hi_res")
  <2> HIDE DEF result
  <2>2. after \subseteq Remarks
    BY <1>1
  <2> HIDE DEF after
  <2>3. CASE Cardinality(after) < Cardinality(c)
    <3>1. (after \ Unusable) \union {"OCR used"} \in SUBSET Remarks
      BY <1>0, <2>2
    <3>2. TakeOver(result, "pages", (after \ Unusable) \union {"OCR used"})
      BY <2>1, <2>3 DEF after, result
    <3> QED BY <2>3, <3>1, <3>2 DEF after, result
  <2>4. CASE ~(Cardinality(after) < Cardinality(c))
    <3>1. /\ remark(after, {"OCR recovered nothing"}) \in SUBSET Remarks
          /\ c \subseteq remark(after, {"OCR recovered nothing"})
      BY <1>0, <1>1
    <3>2. Keep(remark(after, {"OCR recovered nothing"}))
      BY <2>1, <2>4 DEF after, result
    <3> HIDE DEF remark
    <3> QED BY <3>1, <3>2
  <2> QED BY <2>3, <2>4
<1>5. c \union {"OCR failed"} \in SUBSET Remarks
  BY <1>0, <1>1
<1>6. worth => missing # {} /\ expected > 0
  OBVIOUS
<1> HIDE DEF c, missing, all, worth, remark
<1>7. \/ UNCHANGED ocrReports
      \/ missing # {} /\ ocrReports' = Append(ocrReports, Cardinality(missing))
  BY <1>2, <1>6
<1>8. CASE ~worth
  <2>1. Keep(c)
    BY <1>2, <1>8
  <2> QED BY <1>1, <1>2, <1>7, <2>1 DEF c, missing
<1>9. CASE worth
  <2>1. CASE RetryDocument(c)
    BY <1>2, <1>3, <1>6, <1>7, <1>9, <2>1 DEF c, missing
  <2>2. CASE RetryPages(c, missing)
    BY <1>2, <1>4, <1>7, <2>2 DEF c, missing
  <2>3. CASE Keep(c \union {"OCR failed"})
    BY <1>2, <1>5, <1>7, <2>3 DEF c, missing
  <2> QED BY <1>2, <1>9, <2>1, <2>2, <2>3
<1> QED
  BY <1>8, <1>9

\* What the gate does keeps the invariant.
LEMMA PassGateStep ==
    ASSUME PdfInv, PassGate
    PROVE  PdfInv'
<1> DEFINE c == Gate(output, "fast")
           missing == MissingPages(output)
<1>1. /\ pdfStep = "gate" /\ pdfStep' = "built"
      /\ UNCHANGED <<route, forced, expected, firstOutput>>
      /\ \/ UNCHANGED ocrReports
         \/ missing # {} /\ ocrReports' = Append(ocrReports, Cardinality(missing))
      /\ \/ \E r \in SUBSET Remarks : c \subseteq r /\ Keep(r)
         \/ \E r \in SUBSET Remarks, result \in Outputs(AllPages) :
               /\ r # {} /\ expected > 0 /\ TakeOver(result, "document", r)
               /\ Cardinality(Gate(result, "hi_res")) < Cardinality(c)
         \/ \E r \in SUBSET Remarks, targeted \in Outputs(missing) :
               /\ r # {} /\ TakeOver(Merged(targeted, missing), "pages", r)
               /\ Cardinality(Gate(Merged(targeted, missing), "hi_res")) < Cardinality(c)
  BY PassGateIs
<1>2. output \in Seq(Elements) /\ InPageOrder(output) /\ retried = "no"
  BY <1>1, OutputIs DEF PdfInv, PassInv
<1>3. ocrReports' \in Seq({0} \union AllPages)
  <2>1. ocrReports \in Seq({0} \union AllPages) /\ expected \in {0, PageCount} /\ PageCount \in Nat
    BY PdfAssumption DEF PdfInv, PdfTypeOK, PdfAssumption
  <2>2. IsFiniteSet(1..PageCount) /\ Cardinality(1..PageCount) = PageCount
    BY <2>1, FS_Interval
  <2>3. missing \in SUBSET (1..PageCount)
    BY <2>1 DEF MissingPages
  <2> HIDE DEF missing
  <2>4. IsFiniteSet(missing) /\ Cardinality(missing) \in Nat /\ Cardinality(missing) <= PageCount
    BY <2>2, <2>3, FS_Subset, FS_CardinalityType
  <2>5. missing # {} => Cardinality(missing) \in AllPages
    <3>1. missing # {} => Cardinality(missing) # 0
      BY <2>4, FS_EmptySet
    <3> QED BY <2>1, <2>4, <3>1 DEF AllPages
  <2> QED BY <1>1, <2>1, <2>5
<1>4. ASSUME NEW r \in SUBSET Remarks, pdfWarnings' = r, retried' \in {"no", "pages", "document"},
             output' \in Seq(Elements)
      PROVE  PdfTypeOK' /\ PassInv'
  <2>1. Range(output)' \subseteq Elements
    <3>1. DOMAIN output' = 1..Len(output') /\ \A i \in 1..Len(output') : output'[i] \in Elements
      BY <1>4, LenProperties
    <3> QED BY <3>1 DEF Range
  <2>2. PassInv'
    BY <1>1 DEF PassInv
  <2>3. route \in {"fast", "hi_res"} /\ forced \in BOOLEAN /\ expected \in {0, PageCount}
    BY DEF PdfInv, PdfTypeOK
  <2>4. (Elements)' = Elements /\ Remarks' = Remarks
    BY DEF Elements, Remarks
  <2> QED BY <1>1, <1>3, <1>4, <2>1, <2>2, <2>3, <2>4 DEF PdfTypeOK
<1> HIDE DEF c, missing
<1>5. CASE \E r \in SUBSET Remarks : c \subseteq r /\ Keep(r)
  <2>1. PICK r \in SUBSET Remarks : c \subseteq r /\ Keep(r)
    BY <1>5
  <2>2. RetryCostIsBounded'
    BY <1>1, <2>1, KeepStep DEF c
  <2>3. pdfWarnings' = r /\ output' = output /\ retried' = "no"
    BY <1>2, <2>1 DEF Keep
  <2>4. PdfTypeOK' /\ PassInv'
    BY <1>2, <1>4, <2>3
  <2> QED BY <2>2, <2>4 DEF PdfInv
<1>6. CASE \E r \in SUBSET Remarks, result \in Outputs(AllPages) :
             /\ r # {} /\ expected > 0 /\ TakeOver(result, "document", r)
             /\ Cardinality(Gate(result, "hi_res")) < Cardinality(c)
  <2>1. PICK r \in SUBSET Remarks, result \in Outputs(AllPages) :
             /\ r # {} /\ expected > 0 /\ TakeOver(result, "document", r)
             /\ Cardinality(Gate(result, "hi_res")) < Cardinality(c)
    BY <1>6
  <2>2. RetryCostIsBounded'
    BY <1>1, <2>1, DocumentStep DEF c
  <2>3. pdfWarnings' = r /\ output' = result /\ retried' = "document"
    BY <2>1 DEF TakeOver
  <2>4. result \in Seq(Elements)
    BY OutputIs
  <2>5. PdfTypeOK' /\ PassInv'
    BY <1>4, <2>3, <2>4
  <2> QED BY <2>2, <2>5 DEF PdfInv
<1>7. CASE \E r \in SUBSET Remarks, targeted \in Outputs(missing) :
             /\ r # {} /\ TakeOver(Merged(targeted, missing), "pages", r)
             /\ Cardinality(Gate(Merged(targeted, missing), "hi_res")) < Cardinality(c)
  <2>1. PICK r \in SUBSET Remarks, targeted \in Outputs(missing) :
             /\ r # {} /\ TakeOver(Merged(targeted, missing), "pages", r)
             /\ Cardinality(Gate(Merged(targeted, missing), "hi_res")) < Cardinality(c)
    BY <1>7
  <2>2. RetryCostIsBounded'
    BY <1>1, <2>1, PagesStep DEF c, missing
  <2>3. pdfWarnings' = r /\ output' = Merged(targeted, missing) /\ retried' = "pages"
    BY <2>1 DEF TakeOver
  <2>4. Merged(targeted, missing) \in Seq(Elements)
    BY <1>2, MergedIs
  <2>5. PdfTypeOK' /\ PassInv'
    BY <1>4, <2>3, <2>4
  <2> QED BY <2>2, <2>5 DEF PdfInv
<1> QED
  BY <1>1, <1>5, <1>6, <1>7

\* The first pass keeps the invariant.
LEMMA RunPrimaryStep ==
    ASSUME PdfInv, RunPrimary
    PROVE  PdfInv'
<1>1. /\ pdfStep = "primary" /\ retried = "no" /\ UNCHANGED <<route, forced, expected, retried>>
      /\ ocrReports' = IF route = "hi_res" THEN Append(ocrReports, expected) ELSE ocrReports
      /\ pdfWarnings' \in {pdfWarnings, pdfWarnings \union {"primary failed"}}
  BY DEF RunPrimary, PdfInv, PassInv
<1>2. \/ pdfStep' = "failed"
      \/ \E result \in Outputs(AllPages) :
           /\ output' = result /\ firstOutput' = result
           /\ pdfStep' \in {"gate", "built"} /\ (pdfStep' = "gate" <=> route = "fast" /\ ~forced)
  <2>1. CASE \E result \in Outputs(AllPages) :
               Extracted(result, IF route = "fast" /\ ~forced THEN "gate" ELSE "built")
    BY <2>1 DEF Extracted
  <2>2. CASE route = "hi_res" /\ \E result \in Outputs(AllPages) : Extracted(result, "built")
    BY <2>2 DEF Extracted
  <2> QED BY <2>1, <2>2 DEF RunPrimary
<1>3. ocrReports' \in Seq({0} \union AllPages)
  <2>1. ocrReports \in Seq({0} \union AllPages) /\ expected \in {0, PageCount} /\ PageCount \in Nat \ {0}
    BY PdfAssumption DEF PdfInv, PdfTypeOK, PdfAssumption
  <2>2. expected \in {0} \union AllPages
    BY <2>1 DEF AllPages
  <2>3. Append(ocrReports, expected) \in Seq({0} \union AllPages)
    BY <2>1, <2>2
  <2> QED BY <1>1, <2>1, <2>3
<1>4. pdfWarnings' \subseteq Remarks
  BY <1>1 DEF PdfInv, PdfTypeOK, Remarks
<1>5. /\ route' \in {"fast", "hi_res"} /\ forced' \in BOOLEAN /\ expected' \in {0, PageCount}
      /\ retried' = "no"
  BY <1>1 DEF PdfInv, PdfTypeOK
<1>6. CASE pdfStep' = "failed"
  BY <1>3, <1>4, <1>5, <1>6 DEF PdfInv, PdfTypeOK, PassInv, RetryCostIsBounded, Refused
<1>7. CASE \E result \in Outputs(AllPages) :
             /\ output' = result /\ firstOutput' = result
             /\ pdfStep' \in {"gate", "built"} /\ (pdfStep' = "gate" <=> route = "fast" /\ ~forced)
  <2>1. PICK result \in Outputs(AllPages) :
             /\ output' = result /\ firstOutput' = result
             /\ pdfStep' \in {"gate", "built"} /\ (pdfStep' = "gate" <=> route = "fast" /\ ~forced)
    BY <1>7
  <2>2. result \in Seq(Elements) /\ InPageOrder(result)
    BY OutputIs
  <2>3. Range(output)' \subseteq Elements
    <3>1. DOMAIN result = 1..Len(result) /\ \A i \in 1..Len(result) : result[i] \in Elements
      BY <2>2, LenProperties
    <3> QED BY <2>1, <3>1 DEF Range
  <2>4. PdfTypeOK'
    BY <1>3, <1>4, <1>5, <2>1, <2>3 DEF PdfTypeOK
  <2>5. PassInv'
    BY <1>1, <1>5, <2>1 DEF PassInv
  <2>6. RetryCostIsBounded'
    <3>1. InPageOrder(output)'
      BY <2>1, <2>2 DEF InPageOrder
    <3>2. Gate(output, "fast")' = Gate(result, "fast") /\ Gate(firstOutput, "fast")' = Gate(result, "fast")
      BY <1>1, <2>1 DEF Gate, UsablePages, TextPages, PagesOf, GarbledElements
    <3>3. Cardinality(Gate(result, "fast")) \in Nat
      BY GateIs
    <3>4. pdfStep' = "built" => ~(route' = "fast" /\ ~forced')
      BY <1>1, <2>1
    <3> QED BY <1>5, <3>1, <3>2, <3>3, <3>4 DEF RetryCostIsBounded
  <2> QED BY <2>4, <2>5, <2>6 DEF PdfInv
<1> QED
  BY <1>2, <1>6, <1>7

\* A step that does not come to a built document keeps what is said of one.
LEMMA PdfInvariant == PdfSpec => []PdfInv
<1>1. PdfInit => PdfInv
  BY EmptySeq DEF PdfInit, PdfInv, PdfTypeOK, PassInv, RetryCostIsBounded
<1>2. ASSUME PdfInv, [PdfNext]_pdf PROVE PdfInv'
  <2>1. CASE RejectPdf
    <3>1. PdfTypeOK'
      <4>1. /\ pdfStep' \in Refused /\ pdfStep' # "built"
            /\ UNCHANGED <<route, forced, expected, output, pdfWarnings, ocrReports, retried>>
        BY <2>1 DEF RejectPdf, Refused
      <4> QED BY <1>2, <4>1 DEF PdfInv, PdfTypeOK
    <3>2. PassInv' /\ RetryCostIsBounded'
      BY <2>1 DEF RejectPdf, PassInv, RetryCostIsBounded
    <3> QED BY <3>1, <3>2 DEF PdfInv
  <2>2. ASSUME NEW class \in {"text", "scanned", "mixed"}, NEW strategy \in {"fast", "hi_res"},
               Classify(class, strategy)
        PROVE  PdfInv'
    <3>1. PdfTypeOK'
      <4>1. /\ pdfStep' = "primary" /\ route' \in {"fast", "hi_res"} /\ expected' \in {0, PageCount}
            /\ UNCHANGED <<forced, output, pdfWarnings, ocrReports, retried>>
        BY <2>2 DEF Classify
      <4> QED BY <1>2, <4>1 DEF PdfInv, PdfTypeOK
    <3>2. PassInv' /\ RetryCostIsBounded'
      <4>1. pdfStep = "preflight" /\ pdfStep' = "primary" /\ UNCHANGED retried
        BY <2>2 DEF Classify
      <4> QED BY <1>2, <4>1 DEF PdfInv, PassInv, RetryCostIsBounded
    <3> QED BY <3>1, <3>2 DEF PdfInv
  <2>3. CASE UNCHANGED pdf
    <3>0. PdfTypeOK' <=> PdfTypeOK
      BY <2>3 DEF pdf, PdfTypeOK
    <3>1. PassInv' <=> PassInv
      BY <2>3 DEF pdf, PassInv
    <3>2. RetryCostIsBounded' <=> RetryCostIsBounded
      BY <2>3 DEF pdf, RetryCostIsBounded, InPageOrder, OnPage, Gate,
                  MissingPages, UsablePages, TextPages, PagesOf, GarbledElements
    <3> QED BY <1>2, <3>0, <3>1, <3>2 DEF PdfInv
  <2> QED BY <1>2, <2>1, <2>2, <2>3, PassGateStep, RunPrimaryStep DEF PdfNext
<1> QED
  BY <1>1, <1>2, PTL DEF PdfSpec

\* The extraction has its types: route, outputs, warnings and what is reported
\* as read by OCR.
THEOREM PdfTypeCorrect == PdfSpec => []PdfTypeOK
<1>1. PdfInv => PdfTypeOK
  BY DEF PdfInv
<1> QED
  BY <1>1, PdfInvariant, PTL

\* What a retry by OCR may cost (partition, _merge_page_elements): nothing on
\* the pages that had usable output when single pages are read again, a page of
\* them only of a pass with two shortcomings when the document is, and never
\* more complaints; a fast pass that is kept says that pages lack usable text.
THEOREM RetryCosts == PdfSpec => []RetryCostIsBounded
<1>1. PdfInv => RetryCostIsBounded
  BY DEF PdfInv
<1> QED
  BY <1>1, PdfInvariant, PTL

-----------------------------------------------------------------------------
(* Tables: results and how they are merged *)

Flavors == {"lattice", "stream"}
Parts == Flavors \X Nat
RowIds == Flavors \X Nat \X Nat
Raws == RawTables(TablePages)
TableResults ==
    [page : TablePages, last : TablePages, flavor : Flavors, cols : Nat \ {0},
     head : HeadWords \union {NoWords}, parts : Seq(Parts), rows : Seq(RowIds)]

\* What a parser reported, as a result of its own.
Alone(part) == Result(part[1], part[2], Raw(part))

\* A table that was reported has its type.
LEMMA RawIs ==
    ASSUME NEW raw \in Raws
    PROVE  /\ raw.page \in TablePages /\ raw.page \in Nat /\ raw.cols \in Nat \ {0}
           /\ raw.head \in HeadWords \union {NoWords} /\ raw.body \in Seq({"rich", "plain"})
BY ExtractionAssumption DEF ExtractionAssumption, Raws, RawTables

\* A result of its own has its type.
LEMMA ResultIs ==
    ASSUME NEW raw \in Raws, NEW flavor \in Flavors, NEW i \in Nat
    PROVE  /\ Result(flavor, i, raw) \in TableResults
           /\ Result(flavor, i, raw).rows \in Seq(RowIds)
           /\ Result(flavor, i, raw).parts = <<<<flavor, i>>>>
           /\ Result(flavor, i, raw).page = raw.page /\ Result(flavor, i, raw).last = raw.page
           /\ Result(flavor, i, raw).cols = raw.cols /\ Result(flavor, i, raw).flavor = flavor
<1> DEFINE all == [k \in DOMAIN raw.body |-> <<flavor, i, k>>]
           rows == Kept(all, {<<flavor, i, k>> : k \in DataRows(raw.body)})
<1>1. Len(raw.body) \in Nat /\ DOMAIN raw.body = 1..Len(raw.body)
  BY RawIs, LenProperties
<1>2. \A k \in 1..Len(raw.body) : <<flavor, i, k>> \in RowIds
  BY <1>1 DEF RowIds
<1>3. all \in Seq(RowIds)
  <2>1. all \in [1..Len(raw.body) -> RowIds]
    BY <1>1, <1>2
  <2> HIDE DEF all
  <2> QED BY <1>1, <2>1
<1> HIDE DEF all
<1>4. rows \in Seq(RowIds)
  BY <1>3, KeptMembers
<1>5. <<<<flavor, i>>>> \in Seq(Parts)
  BY DEF Parts
<1> DEFINE r == Result(flavor, i, raw)
<1>6. r = [page |-> raw.page, last |-> raw.page, flavor |-> flavor, cols |-> raw.cols,
           head |-> raw.head, parts |-> <<<<flavor, i>>>>, rows |-> rows]
  BY DEF Result, all
<1> HIDE DEF rows, r
<1> QED
  BY <1>4, <1>5, <1>6, RawIs DEF TableResults, r

\* A result that goes on has its type.
LEMMA ContinuedIs ==
    ASSUME NEW a \in TableResults, NEW b \in TableResults
    PROVE  /\ Continued(a, b) \in TableResults
           /\ Continued(a, b).parts = a.parts \o b.parts /\ Continued(a, b).rows = a.rows \o b.rows
           /\ Continued(a, b).page = a.page /\ Continued(a, b).last = b.page
           /\ Continued(a, b).cols = a.cols
<1>1. a.parts \o b.parts \in Seq(Parts) /\ a.rows \o b.rows \in Seq(RowIds)
  <2>1. a.parts \in Seq(Parts) /\ b.parts \in Seq(Parts) /\ a.rows \in Seq(RowIds) /\ b.rows \in Seq(RowIds)
    BY DEF TableResults
  <2> QED BY <2>1, ConcatProperties
<1>2. b.page \in TablePages /\ b.flavor \in Flavors /\ a.flavor \in Flavors
  BY DEF TableResults
<1>3. "stream" \in Flavors
  BY DEF Flavors
<1> DEFINE p == a.parts \o b.parts
           q == a.rows \o b.rows
           v == IF b.flavor = "stream" THEN "stream" ELSE a.flavor
<1>4. Continued(a, b) = [a EXCEPT !.last = b.page, !.rows = q, !.parts = p, !.flavor = v]
  BY DEF Continued
<1>5. p \in Seq(Parts) /\ q \in Seq(RowIds) /\ v \in Flavors
  BY <1>1, <1>2, <1>3
<1> HIDE DEF p, q, v
<1>6. /\ Continued(a, b).parts = p /\ Continued(a, b).rows = q /\ Continued(a, b).last = b.page
      /\ Continued(a, b).page = a.page /\ Continued(a, b).cols = a.cols
  BY <1>4 DEF TableResults
<1>7. Continued(a, b) \in TableResults
  BY <1>2, <1>4, <1>5 DEF TableResults
<1> QED
  BY <1>6, <1>7 DEF p, q

\* One table more is merged with the last result or is a result.
MergeOne(merged, t) ==
    IF merged # <<>> /\ SameStructure(Last(merged), t)
    THEN [merged EXCEPT ![Len(merged)] = Continued(@, t)]
    ELSE Append(merged, t)

LEMMA MergeOneIs ==
    ASSUME NEW m \in Seq(TableResults), NEW t \in TableResults
    PROVE  MergeOne(m, t) \in Seq(TableResults)
<1>1. CASE m # <<>> /\ SameStructure(Last(m), t)
  <2>1. Len(m) \in 1..Len(m) /\ m[Len(m)] \in TableResults
    <3>1. Len(m) \in Nat \ {0}
      BY <1>1, EmptySeq
    <3> QED BY <3>1, ElementOfSeq
  <2>2. Continued(m[Len(m)], t) \in TableResults
    BY <2>1, ContinuedIs
  <2>3. [m EXCEPT ![Len(m)] = Continued(m[Len(m)], t)] \in Seq(TableResults)
    BY <2>1, <2>2, ExceptSeq
  <2> QED BY <1>1, <2>3 DEF MergeOne
<1>2. CASE ~(m # <<>> /\ SameStructure(Last(m), t))
  BY <1>2 DEF MergeOne
<1> QED
  BY <1>1, <1>2

\* h gives what the first tables of s are merged into, up to each.
MergesOneByOne(h, s) ==
    /\ h[0] = <<>> /\ h[Len(s)] = MergeConsecutive(s)
    /\ \A i \in 1..Len(s) : h[i] = MergeOne(h[i - 1], s[i])
    /\ \A i \in 0..Len(s) : h[i] \in Seq(TableResults)

\* The fold of MergeConsecutive, one table after the other.
LEMMA MergeByTable ==
    ASSUME NEW s \in Seq(TableResults)
    PROVE  \E h : MergesOneByOne(h, s)
<1> DEFINE n == Len(s)
           B == Seq(TableResults)
           F == [p \in (1..n) \X B |-> MergeOne(p[2], s[p[1]])]
           Iter(g) == g = [t \in SUBSET (1..n) |->
                             IF t = {} THEN <<>> ELSE MergeOne(g[t \ {Max(t)}], s[Max(t)])]
<1>0. n \in Nat /\ DOMAIN s = 1..n /\ \A i \in 1..n : s[i] \in TableResults
  BY LenProperties
<1>1. MergeConsecutive(s) = (CHOOSE g : Iter(g))[1..n]
  BY <1>0 DEF MergeConsecutive, FoldLeft, MapThenFoldSet, MergeOne
<1>2. \A i \in 1..n, a \in B : F[<<i, a>>] = MergeOne(a, s[i]) /\ MergeOne(a, s[i]) \in B
  <2>1. \A i \in 1..n, a \in B : MergeOne(a, s[i]) \in B
    BY <1>0, MergeOneIs
  <2> QED BY <2>1
<1>3. PICK g : FoldsUp(g, F, <<>>, n)
  BY <1>0, FoldsExist
<1>4. \A t \in SUBSET (1..n) : g[t] \in B
  <2>1. <<>> \in B
    OBVIOUS
  <2> HIDE DEF F, B
  <2>2. \A i \in 1..n, a \in B : F[<<i, a>>] \in B
    BY <1>2
  <2> HIDE DEF n
  <2> QED BY <1>0, <1>3, <2>1, <2>2, FoldsWithin
<1>5. Iter(g)
  <2>1. ASSUME NEW t \in SUBSET (1..n), t # {}
        PROVE  F[<<Max(t), g[t \ {Max(t)}]>>] = MergeOne(g[t \ {Max(t)}], s[Max(t)])
    <3>1. Max(t) \in 1..n
      BY <1>0, <2>1, LastPosition
    <3>2. g[t \ {Max(t)}] \in B
      BY <1>4
    <3> HIDE DEF F, B, n
    <3> QED BY <1>2, <3>1, <3>2
  <2> HIDE DEF F, B, n
  <2> QED BY <1>3, <2>1 DEF FoldsUp
<1>6. PICK f : Iter(f) /\ MergeConsecutive(s) = f[1..n]
  <2> HIDE DEF Iter
  <2> QED BY <1>1, <1>5
<1> DEFINE h == [i \in 0..n |-> f[1..i]]
<1> HIDE DEF n, F
<1>7. h[0] = <<>> /\ h[n] = MergeConsecutive(s)
  <2>1. 1..0 = {} /\ f[{}] = <<>>
    BY <1>6
  <2>2. f[1..0] = <<>>
    BY <2>1
  <2>3. 0 \in 0..n /\ n \in 0..n
    BY <1>0
  <2> QED BY <1>6, <2>2, <2>3
<1>8. ASSUME NEW i \in 1..n PROVE h[i] = MergeOne(h[i - 1], s[i])
  <2>0. i \in Nat \ {0}
    BY <1>0
  <2>3. Max(1..i) = i /\ (1..i) \ {Max(1..i)} = 1..(i - 1)
    BY <2>0, MaxOfPrefix
  <2>4. i \in 1..i
    BY <2>0
  <2>5. 1..i \in SUBSET (1..n)
    BY <1>0
  <2>1. Max(1..i) = i /\ (1..i) \ {Max(1..i)} = 1..(i - 1) /\ 1..i # {} /\ 1..i \in SUBSET (1..n)
    BY <2>3, <2>4, <2>5
  <2>2. f[1..i] = MergeOne(f[1..(i - 1)], s[i])
    BY <1>6, <2>1
  <2> QED BY <1>0, <2>2
<1>9. \A i \in 0..n : h[i] \in B
  <2> DEFINE T == {i \in 0..n : h[i] \in B}
  <2>0. <<>> \in B /\ 0 \in 0..n
    BY <1>0
  <2> HIDE DEF h, B
  <2>1. 0 \in T
    BY <1>7, <2>0
  <2>2. ASSUME NEW i \in 1..n, i - 1 \in T PROVE i \in T
    <3>1. i \in 0..n /\ h[i - 1] \in B
      BY <1>0, <2>2
    <3>2. h[i] \in B
      BY <1>2, <1>8, <3>1
    <3> QED BY <3>1, <3>2
  <2> HIDE DEF T
  <2>3. \A i \in 0..n : i \in T
    BY <1>0, <2>1, <2>2, UpTo
  <2> QED BY <2>3 DEF T
<1> HIDE DEF h
<1> QED
  BY <1>7, <1>8, <1>9 DEF n, MergesOneByOne

\* The parts of each of some results.
PartsOf(m) == [r \in DOMAIN m |-> m[r].parts]

\* One result more, of one part.
LEMMA PlacedAppend ==
    ASSUME NEW m \in Seq(TableResults), NEW e \in TableResults, NEW p \in Parts, e.parts = <<p>>,
           NEW S, p \notin S, Placed(PartsOf(m), S)
    PROVE  Placed(PartsOf(Append(m, e)), S \union {p})
<1> DEFINE f == PartsOf(m)
           l == Len(m) + 1
           g == PartsOf(Append(m, e))
           h == [r \in (DOMAIN f) \union {l} |-> IF r = l THEN <<>> ELSE f[r]]
<1>1. /\ DOMAIN f = 1..Len(m) /\ DOMAIN g = (DOMAIN f) \union {l} /\ l \notin DOMAIN f
      /\ g[l] = <<p>> /\ \A r \in DOMAIN f : g[r] = f[r]
  <2>1. /\ Len(m) \in Nat /\ DOMAIN m = 1..Len(m) /\ DOMAIN Append(m, e) = 1..l
        /\ Append(m, e)[l] = e /\ \A r \in 1..Len(m) : Append(m, e)[r] = m[r]
    BY LenProperties
  <2>2. 1..l = (1..Len(m)) \union {l} /\ l \notin 1..Len(m)
    BY <2>1
  <2> HIDE DEF l
  <2> QED BY <2>1, <2>2 DEF PartsOf
<1>2. DOMAIN h = (DOMAIN f) \union {l} /\ h[l] = <<>> /\ \A r \in DOMAIN f : h[r] = f[r]
  BY <1>1
<1> HIDE DEF f, g, h, l
<1>3. Placed(h, S)
  BY <1>1, <1>2, PlacedEmpty DEF f
<1>4. h[l] \in Seq(Parts) /\ g[l] = Append(h[l], p)
  BY <1>1, <1>2
<1>5. l \in DOMAIN h /\ DOMAIN g = DOMAIN h /\ \A r \in DOMAIN h : r # l => g[r] = h[r]
  BY <1>1, <1>2
<1>6. Placed(g, S \union {p})
  BY <1>3, <1>4, <1>5, PlacedOne
<1> QED
  BY <1>6 DEF g

\* One part more in the last result.
LEMMA PlacedInLast ==
    ASSUME NEW m \in Seq(TableResults), m # <<>>, NEW e \in TableResults, NEW p \in Parts,
           e.parts = Append(m[Len(m)].parts, p), NEW S, p \notin S, Placed(PartsOf(m), S)
    PROVE  Placed(PartsOf([m EXCEPT ![Len(m)] = e]), S \union {p})
<1> DEFINE f == PartsOf(m)
           l == Len(m)
           g == PartsOf([m EXCEPT ![l] = e])
<1>1. l \in 1..l /\ DOMAIN m = 1..l /\ m[l] \in TableResults
  <2>1. l \in Nat \ {0} /\ DOMAIN m = 1..l
    BY EmptySeq, LenProperties
  <2> QED BY <2>1, ElementOfSeq
<1>2. /\ l \in DOMAIN f /\ DOMAIN g = DOMAIN f /\ g[l] = Append(f[l], p)
      /\ f[l] \in Seq(Parts) /\ \A r \in DOMAIN f : r # l => g[r] = f[r]
  <2> HIDE DEF l
  <2> QED BY <1>1 DEF PartsOf, TableResults, l
<1> HIDE DEF f, g, l
<1>3. Placed(f, S)
  BY DEF f
<1>4. Placed(g, S \union {p})
  BY <1>2, <1>3, PlacedOne
<1> QED
  BY <1>4 DEF g, l

\* What the parsers reported has its type.
Read == lattice \in Seq(Raws) /\ streamed \in Seq(Raws)

\* A reported table as a result of its own.
LEMMA AloneIs ==
    ASSUME Read, NEW part \in Reported
    PROVE  /\ part \in Parts /\ Raw(part) \in Raws
           /\ Alone(part) \in TableResults /\ Alone(part).rows \in Seq(RowIds)
           /\ Alone(part).parts = <<part>> /\ Alone(part).cols = Raw(part).cols
           /\ Alone(part).page = Raw(part).page /\ Alone(part).last = Raw(part).page
<1>1. /\ Len(lattice) \in Nat /\ DOMAIN lattice = 1..Len(lattice)
      /\ Len(streamed) \in Nat /\ DOMAIN streamed = 1..Len(streamed)
      /\ \A i \in DOMAIN lattice : lattice[i] \in Raws
      /\ \A i \in DOMAIN streamed : streamed[i] \in Raws
  BY LenProperties DEF Read
<1>2. part[1] \in Flavors /\ part[2] \in Nat /\ part = <<part[1], part[2]>> /\ Raw(part) \in Raws
  BY <1>1 DEF Reported, Flavors, Raw
<1>3. part \in Parts
  BY <1>2 DEF Parts
<1> QED
  BY <1>2, <1>3, ResultIs DEF Alone

\* The rows of each of some parts.
RowsOf(parts) == [k \in DOMAIN parts |-> Alone(parts[k]).rows]

LEMMA RowsGrow ==
    ASSUME Read, NEW parts \in Seq(Reported), NEW part \in Reported
    PROVE  /\ RowsOf(<<>>) = <<>> /\ RowsOf(parts) \in Seq(Seq(RowIds))
           /\ RowsOf(Append(parts, part)) = Append(RowsOf(parts), Alone(part).rows)
<1> DEFINE n == Len(parts)
           more == Append(parts, part)
           x == Alone(part).rows
<1>1. /\ n \in Nat /\ DOMAIN parts = 1..n /\ DOMAIN more = 1..(n + 1)
      /\ \A k \in 1..n : parts[k] \in Reported /\ more[k] = parts[k]
      /\ more[n + 1] = part
  BY LenProperties
<1>2. x \in Seq(RowIds) /\ \A k \in 1..n : Alone(parts[k]).rows \in Seq(RowIds)
  BY <1>1, AloneIs
<1> HIDE DEF n, more, x
<1>3. RowsOf(<<>>) = <<>>
  BY DEF RowsOf
<1>4. RowsOf(parts) \in [1..n -> Seq(RowIds)]
  BY <1>1, <1>2 DEF RowsOf
<1>5. RowsOf(parts) \in Seq(Seq(RowIds)) /\ Len(RowsOf(parts)) = n
  BY <1>1, <1>4, LenProperties
<1>6. RowsOf(more) = [k \in 1..(n + 1) |-> IF k <= n THEN RowsOf(parts)[k] ELSE x]
  <2>1. \A k \in 1..(n + 1) : Alone(more[k]).rows = IF k <= n THEN RowsOf(parts)[k] ELSE x
    <3>1. \A k \in 1..n : Alone(more[k]).rows = RowsOf(parts)[k]
      BY <1>1 DEF RowsOf
    <3>2. Alone(more[n + 1]).rows = x
      BY <1>1 DEF x
    <3>3. \A k \in 1..(n + 1) : k <= n => k \in 1..n
      BY <1>1
    <3>4. \A k \in 1..(n + 1) : ~(k <= n) => k = n + 1
      BY <1>1
    <3> QED BY <3>1, <3>2, <3>3, <3>4
  <2> QED BY <1>1, <2>1 DEF RowsOf
<1>7. Append(RowsOf(parts), x) = [k \in 1..(n + 1) |-> IF k <= n THEN RowsOf(parts)[k] ELSE x]
  <2> DEFINE s == RowsOf(parts)
             B == Seq(RowIds)
  <2>1. s \in Seq(B) /\ x \in B /\ Len(s) = n
    BY <1>2, <1>5
  <2> HIDE DEF s, B
  <2>2. Append(s, x) = [k \in 1..(n + 1) |-> IF k <= n THEN s[k] ELSE x]
    <3>1. Append(s, x) \in Seq(B) /\ Len(Append(s, x)) = n + 1
      BY <2>1
    <3>2. Append(s, x) = [k \in 1..(n + 1) |-> Append(s, x)[k]]
      BY <3>1, ByElements
    <3>3. \A k \in 1..(n + 1) : Append(s, x)[k] = IF k <= n THEN s[k] ELSE x
      BY <1>1, <2>1
    <3> QED BY <3>2, <3>3
  <2> QED BY <2>2 DEF s
<1> QED
  BY <1>3, <1>5, <1>6, <1>7 DEF more, x

\* A result is what its parts make it.
WellMade(r) ==
    /\ r.parts \in Seq(Reported) /\ r.parts # <<>> /\ r.rows = FlattenSeq(RowsOf(r.parts))
    /\ r.page = Raw(r.parts[1]).page /\ r.last = Raw(r.parts[Len(r.parts)]).page
    /\ r.cols = Raw(r.parts[1]).cols
    /\ \A k \in 2..Len(r.parts) :
        /\ Raw(r.parts[k]).page - Raw(r.parts[k - 1]).page \in 0..MergeMaxPageGap
        /\ Distance(Raw(r.parts[k]).cols, Raw(r.parts[1]).cols) <= MergeColTolerance

LEMMA AloneWell ==
    ASSUME Read, NEW part \in Reported
    PROVE  WellMade(Alone(part))
<1> DEFINE a == Alone(part)
<1>1. /\ a.rows \in Seq(RowIds) /\ a.parts = <<part>> /\ a.cols = Raw(part).cols
      /\ a.page = Raw(part).page /\ a.last = Raw(part).page
  BY AloneIs
<1>2. a.rows = FlattenSeq(RowsOf(<<part>>))
  <2>1. <<>> \in Seq(Reported) /\ <<part>> = Append(<<>>, part)
    OBVIOUS
  <2>2. RowsOf(<<part>>) = Append(<<>>, a.rows)
    BY <2>1, RowsGrow
  <2>3. <<>> \in Seq(Seq(RowIds))
    OBVIOUS
  <2>4. FlattenSeq(<<>>) = <<>> /\ FlattenSeq(Append(<<>>, a.rows)) = FlattenSeq(<<>>) \o a.rows
    BY <1>1, <2>3, FlattenAppend
  <2>5. <<>> \o a.rows = a.rows
    BY <1>1, ConcatEmptySeq
  <2> QED BY <2>2, <2>4, <2>5
<1> HIDE DEF a
<1>3. a.parts \in Seq(Reported) /\ a.parts # <<>> /\ Len(a.parts) = 1 /\ a.parts[1] = part
  BY <1>1
<1>4. \A k \in 2..Len(a.parts) : FALSE
  BY <1>3
<1> QED
  BY <1>1, <1>2, <1>3, <1>4 DEF WellMade, a

LEMMA ContinuedWell ==
    ASSUME Read, NEW a \in TableResults, WellMade(a), NEW part \in Reported,
           SameStructure(a, Alone(part)), a.last <= Raw(part).page
    PROVE  /\ WellMade(Continued(a, Alone(part)))
           /\ Continued(a, Alone(part)).parts = Append(a.parts, part)
<1> DEFINE b == Alone(part)
           c == Continued(a, b)
           n == Len(a.parts)
<1>1. /\ b \in TableResults /\ b.rows \in Seq(RowIds) /\ b.parts = <<part>>
      /\ b.cols = Raw(part).cols /\ b.page = Raw(part).page
  BY AloneIs
<1>2. /\ c.parts = a.parts \o b.parts /\ c.rows = a.rows \o b.rows
      /\ c.page = a.page /\ c.last = b.page /\ c.cols = a.cols
  BY <1>1, ContinuedIs
<1>3. /\ a.parts \in Seq(Reported) /\ a.parts # <<>> /\ a.rows = FlattenSeq(RowsOf(a.parts))
      /\ a.page = Raw(a.parts[1]).page /\ a.last = Raw(a.parts[n]).page
      /\ a.cols = Raw(a.parts[1]).cols
      /\ \A k \in 2..n :
          /\ Raw(a.parts[k]).page - Raw(a.parts[k - 1]).page \in 0..MergeMaxPageGap
          /\ Distance(Raw(a.parts[k]).cols, Raw(a.parts[1]).cols) <= MergeColTolerance
  BY DEF WellMade
<1>4. Distance(a.cols, b.cols) <= MergeColTolerance /\ Distance(b.page, a.last) <= MergeMaxPageGap
  BY DEF SameStructure
<1>5. a.cols \in Nat /\ b.cols \in Nat /\ a.last \in Nat /\ b.page \in Nat
  BY <1>1, ExtractionAssumption DEF TableResults, ExtractionAssumption
<1>6. a.last <= b.page
  BY <1>1
<1> HIDE DEF b, c, n
<1>7. b.page - a.last \in 0..MergeMaxPageGap /\ Distance(b.cols, a.cols) <= MergeColTolerance
  BY <1>4, <1>5, <1>6 DEF Distance, MergeMaxPageGap, MergeColTolerance
<1>8. c.parts = Append(a.parts, part)
  BY <1>1, <1>2, <1>3
<1>9. /\ n \in Nat \ {0} /\ c.parts \in Seq(Reported) /\ c.parts # <<>> /\ Len(c.parts) = n + 1
      /\ c.parts[n + 1] = part /\ \A k \in 1..n : c.parts[k] = a.parts[k]
  <2>1. n \in Nat \ {0}
    BY <1>3, EmptySeq, LenProperties DEF n
  <2> QED BY <1>3, <1>8, <2>1, LenProperties DEF n
<1>10. c.rows = FlattenSeq(RowsOf(c.parts))
  <2>1. RowsOf(a.parts) \in Seq(Seq(RowIds)) /\ RowsOf(c.parts) = Append(RowsOf(a.parts), b.rows)
    BY <1>3, <1>8, RowsGrow DEF b
  <2>2. FlattenSeq(Append(RowsOf(a.parts), b.rows)) = FlattenSeq(RowsOf(a.parts)) \o b.rows
    BY <1>1, <2>1, FlattenAppend
  <2> QED BY <1>2, <1>3, <2>1, <2>2
<1>11. c.parts[1] = a.parts[1] /\ c.page = Raw(c.parts[1]).page /\ c.cols = Raw(c.parts[1]).cols
  <2>1. 1 \in 1..n
    BY <1>9
  <2>2. c.parts[1] = a.parts[1]
    BY <1>9, <2>1
  <2> QED BY <1>2, <1>3, <2>2
<1>12. c.last = Raw(c.parts[Len(c.parts)]).page
  BY <1>1, <1>2, <1>9
<1>13. ASSUME NEW k \in 2..Len(c.parts)
       PROVE  /\ Raw(c.parts[k]).page - Raw(c.parts[k - 1]).page \in 0..MergeMaxPageGap
              /\ Distance(Raw(c.parts[k]).cols, Raw(c.parts[1]).cols) <= MergeColTolerance
  <2>1. CASE k = n + 1
    <3>1. k - 1 = n /\ c.parts[k - 1] = a.parts[n] /\ c.parts[k] = part
      BY <1>9, <2>1
    <3> QED BY <1>1, <1>3, <1>7, <1>11, <3>1
  <2>2. CASE k \in 2..n
    <3>1. c.parts[k] = a.parts[k] /\ c.parts[k - 1] = a.parts[k - 1]
      BY <1>9, <2>2
    <3> QED BY <1>3, <1>11, <2>2, <3>1
  <2> QED BY <1>9, <2>1, <2>2
<1>14. WellMade(c)
  BY <1>9, <1>10, <1>11, <1>12, <1>13 DEF WellMade
<1> QED
  BY <1>8, <1>14 DEF b, c

\* Tables that were not merged yet: each that was reported and not superseded,
\* once.
Part(r) == r.parts[1]
Unmerged(t) ==
    /\ t \in Seq(TableResults)
    /\ \A j \in 1..Len(t) : \E part \in Reported :
        Part(t[j]) = part /\ ~Superseded(part) /\ t[j] = Alone(part)
    /\ \A part \in Reported : ~Superseded(part) => \E j \in 1..Len(t) : Part(t[j]) = part
    /\ \A i, j \in 1..Len(t) : Part(t[i]) = Part(t[j]) => i = j
Ascending(t) == \A i, j \in 1..Len(t) : i < j => t[i].page <= t[j].page

\* The first i tables of t, merged, are m.
MergesTo(m, t, i) ==
    /\ m \in Seq(TableResults) /\ Placed(PartsOf(m), {Part(t[j]) : j \in 1..i})
    /\ \A r \in 1..Len(m) : WellMade(m[r])
    /\ m # <<>> => \E j \in 1..i : m[Len(m)].last = t[j].page

\* One table more is a part of one result.
LEMMA MergeStep ==
    ASSUME Read, NEW t, Unmerged(t), Ascending(t), NEW i \in 1..Len(t),
           NEW m, MergesTo(m, t, i - 1)
    PROVE  MergesTo(MergeOne(m, t[i]), t, i)
<1> DEFINE e == t[i]
           part == Part(e)
           S == {Part(t[j]) : j \in 1..(i - 1)}
           T == {Part(t[j]) : j \in 1..i}
           l == Len(m)
<1>1. Len(t) \in Nat /\ \A j \in 1..Len(t) : t[j] \in TableResults
  BY LenProperties DEF Unmerged
<1>2. i \in Nat /\ i \in 1..i /\ \A j \in 1..(i - 1) : j \in 1..Len(t) /\ j \in 1..i /\ j < i /\ j # i
  BY <1>1
<1>3. part \in Reported /\ e = Alone(part)
  BY DEF Unmerged
<1>4. part \notin S
  BY <1>2 DEF Unmerged
<1>5. S \union {part} = T
  <2>1. \A j \in 1..i : j \in 1..(i - 1) \/ j = i
    BY <1>2
  <2> QED BY <1>2, <2>1
<1>6. /\ m \in Seq(TableResults) /\ Placed(PartsOf(m), S) /\ \A r \in 1..l : WellMade(m[r])
      /\ m # <<>> => \E j \in 1..(i - 1) : m[l].last = t[j].page
  BY DEF MergesTo
<1>7. e \in TableResults /\ part \in Parts /\ e.parts = <<part>> /\ e.page = Raw(part).page /\ e.last = e.page
  BY <1>3, AloneIs
<1>8. l \in Nat /\ DOMAIN m = 1..l
  BY <1>6, LenProperties
<1> HIDE DEF e, part, S, T, l
<1>9. CASE m # <<>> /\ SameStructure(Last(m), e)
  <2> DEFINE c == Continued(m[l], e)
             n == [m EXCEPT ![l] = c]
  <2>1. l \in 1..l /\ m[l] \in TableResults /\ WellMade(m[l])
    <3>1. l \in Nat \ {0}
      BY <1>6, <1>9, EmptySeq DEF l
    <3> QED BY <1>6, <3>1, ElementOfSeq DEF l
  <2>2. m[l].last <= Raw(part).page
    <3>1. PICK j \in 1..(i - 1) : m[l].last = t[j].page
      BY <1>6, <1>9
    <3>2. t[j].page <= e.page
      BY <1>2, <3>1 DEF Ascending, e
    <3> QED BY <1>7, <3>1, <3>2
  <2>3. SameStructure(m[l], e)
    BY <1>9 DEF Last, l
  <2>4. WellMade(c) /\ c.parts = Append(m[l].parts, part)
    BY <1>3, <2>1, <2>2, <2>3, ContinuedWell
  <2>5. c \in TableResults /\ c.last = e.page
    BY <1>7, <2>1, ContinuedIs
  <2>6. MergeOne(m, e) = n
    BY <1>9 DEF MergeOne, l
  <2> HIDE DEF c
  <2>7. n \in Seq(TableResults) /\ Len(n) = l /\ \A r \in 1..l : n[r] = IF r = l THEN c ELSE m[r]
    <3>1. n \in Seq(TableResults)
      BY <1>6, <2>1, <2>5, ExceptSeq DEF l
    <3>2. DOMAIN n = 1..l /\ \A r \in 1..l : n[r] = IF r = l THEN c ELSE m[r]
      BY <1>8
    <3>3. Len(n) = l
      <4> HIDE DEF n
      <4>1. Len(n) \in Nat /\ DOMAIN n = 1..Len(n)
        BY <3>1, LenProperties
      <4> QED BY <1>8, <3>2, <4>1
    <3> QED BY <3>1, <3>2, <3>3
  <2>8. Placed(PartsOf(n), S \union {part})
    BY <1>4, <1>6, <1>7, <1>9, <2>4, <2>5, PlacedInLast DEF l
  <2> HIDE DEF n
  <2>9. \A r \in 1..Len(n) : WellMade(n[r])
    BY <1>6, <2>4, <2>7
  <2>10. n[Len(n)].last = t[i].page
    BY <2>1, <2>5, <2>7 DEF e
  <2>11. MergesTo(n, t, i)
    BY <1>2, <1>5, <2>7, <2>8, <2>9, <2>10 DEF MergesTo, T
  <2> QED BY <2>6, <2>11 DEF e
<1>10. CASE ~(m # <<>> /\ SameStructure(Last(m), e))
  <2> DEFINE n == Append(m, e)
  <2>1. MergeOne(m, e) = n
    BY <1>10 DEF MergeOne
  <2>2. /\ n \in Seq(TableResults) /\ Len(n) = l + 1 /\ n[l + 1] = e
        /\ \A r \in 1..l : n[r] = m[r]
    BY <1>6, <1>7, LenProperties DEF l
  <2>3. Placed(PartsOf(n), S \union {part})
    BY <1>4, <1>6, <1>7, PlacedAppend
  <2> HIDE DEF n
  <2>4. \A r \in 1..Len(n) : WellMade(n[r])
    <3>1. WellMade(e)
      BY <1>3, AloneWell
    <3>2. \A r \in 1..(l + 1) : r \in 1..l \/ r = l + 1
      BY <1>8
    <3> QED BY <1>6, <2>2, <3>1, <3>2
  <2>5. n[Len(n)].last = t[i].page
    BY <1>7, <2>2 DEF e
  <2>6. MergesTo(n, t, i)
    BY <1>2, <1>5, <2>2, <2>3, <2>4, <2>5 DEF MergesTo, T
  <2> QED BY <2>1, <2>6 DEF e
<1> QED
  BY <1>9, <1>10 DEF e

\* All tables, merged.
LEMMA MergedWell ==
    ASSUME Read, NEW t, Unmerged(t), Ascending(t)
    PROVE  MergesTo(MergeConsecutive(t), t, Len(t))
<1>1. t \in Seq(TableResults) /\ Len(t) \in Nat
  BY LenProperties DEF Unmerged
<1>2. PICK h : MergesOneByOne(h, t)
  BY <1>1, MergeByTable
<1> DEFINE S == {i \in 0..Len(t) : MergesTo(h[i], t, i)}
<1>3. 0 \in S
  <2>1. MergesTo(<<>>, t, 0)
    <3>1. <<>> \in Seq(TableResults) /\ 1..0 = {} /\ Len(<<>>) = 0 /\ DOMAIN <<>> = {}
      OBVIOUS
    <3>2. DOMAIN PartsOf(<<>>) = {} /\ {Part(t[j]) : j \in 1..0} = {}
      BY <3>1 DEF PartsOf
    <3>3. Placed(PartsOf(<<>>), {Part(t[j]) : j \in 1..0})
      BY <3>2 DEF Placed
    <3> QED BY <3>1, <3>3 DEF MergesTo
  <2>2. 0 \in 0..Len(t)
    BY <1>1
  <2> QED BY <1>2, <2>1, <2>2 DEF MergesOneByOne
<1>4. ASSUME NEW i \in 1..Len(t), i - 1 \in S PROVE i \in S
  <2>1. MergesTo(MergeOne(h[i - 1], t[i]), t, i)
    BY <1>4, MergeStep
  <2>2. i \in 0..Len(t)
    BY <1>1
  <2> QED BY <1>2, <2>1, <2>2 DEF MergesOneByOne
<1>5. Len(t) \in 0..Len(t)
  BY <1>1
<1>6. Len(t) \in S
  <2> HIDE DEF S
  <2>1. \A i \in 0..Len(t) : i \in S
    BY <1>1, <1>3, <1>4, UpTo
  <2> QED BY <1>5, <2>1
<1> QED
  BY <1>2, <1>6 DEF MergesOneByOne

\* Sorting the tables keeps each of them.
LEMMA SortedWell ==
    ASSUME Unmerged(results), NEW t \in Orders
    PROVE  Unmerged(t) /\ Ascending(t)
<1> DEFINE n == Len(results)
<1>1. n \in Nat /\ DOMAIN results = 1..n /\ \A j \in 1..n : results[j] \in TableResults
  BY LenProperties DEF Unmerged
<1>2. PICK p \in [DOMAIN results -> DOMAIN results] :
        /\ \A i, j \in DOMAIN p : i # j => p[i] # p[j]
        /\ \A i, j \in DOMAIN p : i < j => results[p[i]].page <= results[p[j]].page
        /\ t = [i \in DOMAIN results |-> results[p[i]]]
  BY DEF Orders
<1> HIDE DEF n
<1>3. /\ p \in [1..n -> 1..n] /\ \A i, j \in 1..n : p[i] = p[j] => i = j
      /\ \A i, j \in 1..n : i < j => results[p[i]].page <= results[p[j]].page
      /\ t = [i \in 1..n |-> results[p[i]]]
  BY <1>1, <1>2
<1>4. t \in Seq(TableResults) /\ Len(t) = n /\ \A j \in 1..n : t[j] = results[p[j]] /\ p[j] \in 1..n
  <2>1. t \in [1..n -> TableResults]
    BY <1>1, <1>3
  <2>2. t \in Seq(TableResults)
    BY <1>1, <2>1
  <2>3. Len(t) \in Nat /\ DOMAIN t = 1..Len(t)
    BY <2>2, LenProperties
  <2>4. Len(t) = n
    BY <1>1, <2>1, <2>3
  <2> QED BY <1>3, <2>2, <2>4
<1>5. \A j \in 1..n : \E i \in 1..n : p[i] = j
  <2>1. IsFiniteSet(1..n)
    BY <1>1, FS_Interval
  <2>2. p \in Injection(1..n, 1..n)
    BY <1>3 DEF Injection, IsInjective
  <2>3. p \in Surjection(1..n, 1..n)
    BY <2>1, <2>2, FS_Injection
  <2> QED BY <2>3 DEF Surjection
<1>6. Unmerged(t)
  <2>1. ASSUME NEW part \in Reported, ~Superseded(part)
        PROVE  \E j \in 1..n : Part(t[j]) = part
    <3>1. PICK j \in 1..n : Part(results[j]) = part
      BY <2>1 DEF Unmerged, n
    <3>2. PICK i \in 1..n : p[i] = j
      BY <1>5
    <3> QED BY <1>4, <3>1, <3>2
  <2>2. \A i, j \in 1..n : Part(t[i]) = Part(t[j]) => i = j
    BY <1>3, <1>4 DEF Unmerged, n
  <2>3. \A j \in 1..n : \E part \in Reported :
            Part(t[j]) = part /\ ~Superseded(part) /\ t[j] = Alone(part)
    BY <1>4 DEF Unmerged, n
  <2> QED BY <1>4, <2>1, <2>2, <2>3 DEF Unmerged
<1>7. Ascending(t)
  BY <1>3, <1>4 DEF Ascending
<1> QED
  BY <1>6, <1>7

\* The results of the lattice parser, as they are reported.
FromLattice == [i \in DOMAIN lattice |-> Result("lattice", i, lattice[i])]

\* Without a stream report the results of the lattice parser are all there is.
LEMMA LatticeAlone ==
    ASSUME Read, streamed = <<>>, results = FromLattice
    PROVE  Unmerged(results)
<1> DEFINE n == Len(lattice)
<1>1. n \in Nat /\ DOMAIN lattice = 1..n /\ \A i \in 1..n : lattice[i] \in Raws
  BY LenProperties DEF Read
<1>2. "lattice" \in Flavors /\ DOMAIN streamed = {} /\ GoodStream(streamed) = {}
  <2>1. DOMAIN streamed = {}
    OBVIOUS
  <2> QED BY <2>1 DEF Flavors, GoodStream
<1> HIDE DEF n
<1>3. ASSUME NEW i \in 1..n
      PROVE  /\ results[i] \in TableResults /\ Part(results[i]) = <<"lattice", i>>
             /\ results[i] = Alone(<<"lattice", i>>)
  <2>1. results[i] = Result("lattice", i, lattice[i]) /\ i \in Nat
    BY <1>1 DEF FromLattice
  <2>2. results[i] \in TableResults /\ results[i].parts = <<<<"lattice", i>>>>
    BY <1>1, <1>2, <2>1, ResultIs
  <2>3. results[i] = Alone(<<"lattice", i>>)
    BY <2>1 DEF Alone, Raw
  <2> QED BY <2>2, <2>3 DEF Part
<1>4. results \in Seq(TableResults) /\ Len(results) = n
  <2>1. results \in [1..n -> TableResults]
    BY <1>1, <1>3 DEF FromLattice
  <2>2. results \in Seq(TableResults)
    BY <1>1, <2>1
  <2> QED BY <1>1, <2>1, <2>2, LenProperties
<1>5. Reported = {"lattice"} \X (1..n) /\ \A part \in Reported : ~Superseded(part)
  BY <1>1, <1>2 DEF Reported, Superseded
<1>6. \A part \in Reported : part[2] \in 1..n /\ part = <<"lattice", part[2]>>
  BY <1>5
<1>7. \A i \in 1..n : <<"lattice", i>> \in Reported
  BY <1>5
<1>8. \A part \in Reported : \E j \in 1..n : Part(results[j]) = part
  BY <1>3, <1>6
<1>9. ASSUME NEW i \in 1..n, NEW j \in 1..n, Part(results[i]) = Part(results[j]) PROVE i = j
  <2>1. <<"lattice", i>> = <<"lattice", j>>
    BY <1>3, <1>9
  <2> QED BY <2>1
<1>10. \A j \in 1..n : \E part \in Reported :
          Part(results[j]) = part /\ ~Superseded(part) /\ results[j] = Alone(part)
  BY <1>3, <1>5, <1>7
<1> QED
  BY <1>4, <1>8, <1>9, <1>10 DEF Unmerged

\* A better stream result supersedes the lattice results of its page, and no
\* other.
LEMMA StreamBeside ==
    ASSUME Read, results = FromLattice, lattice' = lattice, streamed' \in Seq(Raws),
           results' = WithStream(streamed')
    PROVE  Unmerged(results)'
<1> DEFINE good == GoodStream(streamed')
           W == {r \in Range(results) : r.page \notin good}
           K == Kept(results, W)
           M == [i \in DOMAIN streamed' |-> Result("stream", i, streamed'[i])]
           s == streamed'
           n == Len(lattice)
           k == Len(K)
           l == Len(s)
           L(i) == Result("lattice", i, lattice[i])
           T(i) == Result("stream", i, s[i])
           new == K \o M
<1>1. /\ n \in Nat /\ DOMAIN lattice = 1..n /\ \A i \in 1..n : lattice[i] \in Raws
      /\ l \in Nat /\ DOMAIN s = 1..l /\ \A i \in 1..l : s[i] \in Raws
  BY LenProperties DEF Read
<1>2. "lattice" \in Flavors /\ "stream" \in Flavors
  BY DEF Flavors
<1>3. /\ \A i \in 1..n : /\ L(i) \in TableResults /\ Part(L(i)) = <<"lattice", i>>
                         /\ L(i).page = lattice[i].page
      /\ \A i \in 1..l : T(i) \in TableResults /\ Part(T(i)) = <<"stream", i>>
  <2>1. ASSUME NEW raw \in Raws, NEW flavor \in Flavors, NEW i \in Nat
        PROVE  /\ Result(flavor, i, raw) \in TableResults
               /\ Part(Result(flavor, i, raw)) = <<flavor, i>>
               /\ Result(flavor, i, raw).page = raw.page
    <3>1. /\ Result(flavor, i, raw) \in TableResults
          /\ Result(flavor, i, raw).parts = <<<<flavor, i>>>>
          /\ Result(flavor, i, raw).page = raw.page
      BY ResultIs
    <3> QED BY <3>1 DEF Part
  <2>2. \A i \in 1..n : i \in Nat
    BY <1>1
  <2>3. \A i \in 1..l : i \in Nat
    BY <1>1
  <2> QED BY <1>1, <1>2, <2>1, <2>2, <2>3
<1>4. results = [i \in 1..n |-> L(i)]
  BY <1>1 DEF FromLattice
<1>5. M = [i \in 1..l |-> T(i)]
  BY <1>1
<1>6. results' = new
  BY DEF WithStream
<1> HIDE DEF L, T, n, l, good, K, M, k, new
<1>7. results \in Seq(TableResults) /\ M \in Seq(TableResults) /\ Len(M) = l /\ Len(results) = n
  <2>1. results \in [1..n -> TableResults] /\ M \in [1..l -> TableResults]
    BY <1>3, <1>4, <1>5
  <2>2. results \in Seq(TableResults) /\ M \in Seq(TableResults)
    BY <1>1, <2>1
  <2> QED BY <1>1, <2>1, <2>2, LenProperties
<1>8. K \in Seq(TableResults) /\ Range(K) = W
  <2>1. K \in Seq(TableResults) /\ Range(K) = Range(results) \intersect W
    BY <1>7, KeptMembers DEF K
  <2> QED BY <2>1
<1>9. W = {L(i) : i \in {j \in 1..n : lattice[j].page \notin good}}
  <2>1. Range(results) = {L(i) : i \in 1..n}
    BY <1>1, <1>4, <1>7 DEF Range
  <2> QED BY <1>3, <2>1
<1>10. \A i, j \in 1..Len(K) : Part(K[i]) = Part(K[j]) => i = j
  <2> DEFINE R == {q \in TableResults \X TableResults : Part(q[1]) # Part(q[2])}
  <2>1. Ordered(results, R)
    <3>1. \A i, j \in 1..n : i < j => <<results[i], results[j]>> \in R
      BY <1>1, <1>3, <1>4
    <3>2. Len(results) = n
      BY <1>7
    <3> HIDE DEF R
    <3> QED BY <3>1, <3>2 DEF Ordered
  <2> HIDE DEF R
  <2>2. Ordered(K, R)
    BY <1>7, <2>1, KeptOrdered DEF K
  <2>3. Len(K) \in Nat /\ DOMAIN K = 1..Len(K)
    BY <1>8, LenProperties
  <2>4. \A i, j \in 1..Len(K) : i < j => <<K[i], K[j]>> \in R
    BY <2>2, <2>3 DEF Ordered
  <2>5. \A i, j \in 1..Len(K) : i < j => Part(K[i]) # Part(K[j])
    BY <2>4 DEF R
  <2>6. \A i, j \in 1..Len(K) : i < j \/ j < i \/ i = j
    BY <2>3
  <2> QED BY <2>5, <2>6
<1> HIDE DEF W
<1>11. /\ k \in Nat /\ DOMAIN K = 1..k /\ new \in Seq(TableResults) /\ Len(new) = k + l
       /\ \A j \in 1..k : new[j] = K[j] /\ j \in 1..(k + l)
       /\ \A i \in 1..l : new[k + i] = M[i] /\ k + i \in 1..(k + l)
       /\ \A j \in 1..(k + l) : j \in 1..k \/ (j - k \in 1..l /\ j = k + (j - k))
  <2>1. k \in Nat /\ DOMAIN K = 1..k
    BY <1>8, LenProperties DEF k
  <2>2. new \in Seq(TableResults) /\ Len(new) = k + l
    BY <1>7, <1>8, ConcatProperties DEF new, k
  <2>3. \A j \in 1..(k + l) : new[j] = IF j <= k THEN K[j] ELSE M[j - k]
    BY <1>7, <1>8, ConcatProperties DEF new, k
  <2>4. ASSUME NEW i \in 1..l PROVE new[k + i] = M[i] /\ k + i \in 1..(k + l)
    <3>1. k + i \in 1..(k + l) /\ ~(k + i <= k) /\ (k + i) - k = i
      BY <1>1, <2>1
    <3> QED BY <2>3, <3>1
  <2>5. ASSUME NEW j \in 1..k PROVE new[j] = K[j] /\ j \in 1..(k + l)
    <3>1. j \in 1..(k + l) /\ j <= k
      BY <1>1, <2>1
    <3> QED BY <2>3, <3>1
  <2>6. \A j \in 1..(k + l) : j \in 1..k \/ (j - k \in 1..l /\ j = k + (j - k))
    BY <1>1, <2>1
  <2> QED BY <2>1, <2>2, <2>4, <2>5, <2>6
<1>12. \A j \in 1..k : \E i \in 1..n : lattice[i].page \notin good /\ K[j] = L(i)
  <2>1. \A j \in 1..k : K[j] \in W
    BY <1>8, <1>11 DEF Range
  <2> QED BY <1>9, <2>1
<1>13. /\ \A i \in 1..n : <<"lattice", i>> \in Reported' /\ Alone(<<"lattice", i>>)' = L(i)
       /\ \A i \in 1..n : Superseded(<<"lattice", i>>)' <=> lattice[i].page \in good
       /\ \A i \in 1..l : /\ <<"stream", i>> \in Reported' /\ Alone(<<"stream", i>>)' = T(i)
                          /\ ~Superseded(<<"stream", i>>)'
  BY <1>1 DEF Reported, Alone, Raw, Superseded, L, T, good
<1>14. ASSUME NEW part \in Reported'
       PROVE  \/ (part[2] \in 1..n /\ part = <<"lattice", part[2]>>)
              \/ (part[2] \in 1..l /\ part = <<"stream", part[2]>>)
  <2>1. part \in ({"lattice"} \X (1..n)) \union ({"stream"} \X (1..l))
    BY <1>1, <1>14 DEF Reported
  <2> HIDE DEF n, l
  <2> QED BY <2>1
<1> HIDE DEF s
<1>15. ASSUME NEW j \in 1..(k + l)
       PROVE  \E part \in Reported' :
                Part(new[j]) = part /\ ~Superseded(part)' /\ new[j] = Alone(part)'
  <2>1. CASE j \in 1..k
    <3>1. PICK i \in 1..n : lattice[i].page \notin good /\ K[j] = L(i)
      BY <1>12, <2>1
    <3>2. new[j] = L(i) /\ Part(new[j]) = <<"lattice", i>>
      BY <1>3, <1>11, <2>1, <3>1
    <3> QED BY <1>13, <3>1, <3>2
  <2>2. CASE j - k \in 1..l /\ j = k + (j - k)
    <3>1. new[j] = M[j - k]
      BY <1>11, <2>2
    <3>2. new[j] = T(j - k) /\ Part(new[j]) = <<"stream", j - k>>
      BY <1>3, <1>5, <2>2, <3>1
    <3> QED BY <1>13, <2>2, <3>2
  <2> QED BY <1>11, <2>1, <2>2
<1>16. ASSUME NEW part \in Reported', ~Superseded(part)'
       PROVE  \E j \in 1..(k + l) : Part(new[j]) = part
  <2>1. CASE part[2] \in 1..n /\ part = <<"lattice", part[2]>>
    <3>1. lattice[part[2]].page \notin good
      BY <1>13, <1>16, <2>1
    <3>2. L(part[2]) \in Range(K)
      BY <1>8, <1>9, <2>1, <3>1
    <3>3. PICK j \in 1..k : K[j] = L(part[2])
      BY <1>11, <3>2 DEF Range
    <3> QED BY <1>3, <1>11, <2>1, <3>3
  <2>2. CASE part[2] \in 1..l /\ part = <<"stream", part[2]>>
    <3>1. new[k + part[2]] = T(part[2]) /\ k + part[2] \in 1..(k + l)
      BY <1>5, <1>11, <2>2
    <3> QED BY <1>3, <2>2, <3>1
  <2> QED BY <1>14, <2>1, <2>2
<1>17. ASSUME NEW i \in 1..(k + l), NEW j \in 1..(k + l), Part(new[i]) = Part(new[j])
       PROVE  i = j
  <2>1. ASSUME NEW a \in 1..k PROVE \E b \in 1..n : Part(new[a]) = <<"lattice", b>>
    BY <1>3, <1>11, <1>12
  <2>2. ASSUME NEW a \in 1..l PROVE Part(new[k + a]) = <<"stream", a>>
    BY <1>3, <1>5, <1>11
  <2>3. CASE i \in 1..k /\ j \in 1..k
    BY <1>10, <1>11, <1>17, <2>3 DEF k
  <2>4. CASE i - k \in 1..l /\ i = k + (i - k) /\ j - k \in 1..l /\ j = k + (j - k)
    <3>1. Part(new[i]) = <<"stream", i - k>> /\ Part(new[j]) = <<"stream", j - k>>
      BY <2>2, <2>4
    <3>2. <<"stream", i - k>> = <<"stream", j - k>>
      BY <1>17, <3>1
    <3>3. i - k = j - k
      BY <3>2
    <3> QED BY <1>1, <1>11, <2>4, <3>3
  <2>5. CASE i \in 1..k /\ j - k \in 1..l /\ j = k + (j - k)
    BY <1>17, <2>1, <2>2, <2>5
  <2>6. CASE j \in 1..k /\ i - k \in 1..l /\ i = k + (i - k)
    BY <1>17, <2>1, <2>2, <2>6
  <2> QED BY <1>11, <2>3, <2>4, <2>5, <2>6
<1> QED
  BY <1>6, <1>11, <1>15, <1>16, <1>17 DEF Unmerged

-----------------------------------------------------------------------------
(* Tables: the extraction *)

\* Until the merge the results are what was reported and not superseded, each
\* table once.
StageInv ==
    /\ exPhase \in {"detect", "lattice"} => lattice = <<>> /\ results = <<>>
    /\ exPhase \in {"detect", "lattice", "stream"} => streamed = <<>>
    /\ exPhase = "stream" => results = FromLattice
    /\ exPhase = "merge" => Unmerged(results)

TablesInv ==
    /\ exPhase \in {"detect", "lattice", "stream", "merge", "describe", "done"}
    /\ detected \subseteq TablePages /\ exErrors \subseteq {"lattice", "stream", "no tables", "descriptions"}
    /\ Read /\ results \in Seq(TableResults)
    /\ StageInv /\ RowsReachOneResult

\* What a parser reports are tables of the file.
LEMMA ReportIs ==
    ASSUME NEW pages \in SUBSET TablePages, NEW room, NEW r \in Reports(pages, room)
    PROVE  r \in Seq(Raws)
<1>1. PICK n \in 0..room : r \in [1..n -> RawTables(pages)]
  BY DEF Reports
<1>2. RawTables(pages) \subseteq Raws
  BY DEF RawTables, Raws
<1>3. n \in Nat /\ r \in [1..n -> Raws]
  BY <1>1, <1>2
<1> QED
  BY <1>3

\* Results of lattice tables have their type.
LEMMA LatticeIs ==
    ASSUME NEW s \in Seq(Raws)
    PROVE  [i \in DOMAIN s |-> Result("lattice", i, s[i])] \in Seq(TableResults)
<1>1. Len(s) \in Nat /\ DOMAIN s = 1..Len(s) /\ \A i \in 1..Len(s) : s[i] \in Raws
  BY LenProperties
<1>2. "lattice" \in Flavors /\ \A i \in 1..Len(s) : i \in Nat
  BY <1>1 DEF Flavors
<1>3. \A i \in 1..Len(s) : Result("lattice", i, s[i]) \in TableResults
  BY <1>1, <1>2, ResultIs
<1> DEFINE f == [i \in DOMAIN s |-> Result("lattice", i, s[i])]
<1>4. f \in [1..Len(s) -> TableResults]
  BY <1>1, <1>3
<1> HIDE DEF f
<1>5. f \in Seq(TableResults)
  BY <1>1, <1>4
<1> QED
  BY <1>5 DEF f

LEMMA ReadLatticeStep ==
    ASSUME TablesInv, ReadLattice
    PROVE  TablesInv'
<1>1. /\ exPhase = "lattice" /\ exPhase' = "stream" /\ UNCHANGED <<detected, streamed>>
      /\ lattice = <<>> /\ results = <<>> /\ streamed = <<>> /\ Read
      /\ detected \in SUBSET TablePages
  BY DEF TablesInv, StageInv, ReadLattice
<1>2. lattice' \in Seq(Raws) /\ results' = [i \in DOMAIN lattice' |-> Result("lattice", i, lattice'[i])]
  <2>1. CASE lattice' \in Reports(detected, MaxTables)
             /\ results' = [i \in DOMAIN lattice' |-> Result("lattice", i, lattice'[i])]
    BY <1>1, <2>1, ReportIs
  <2>2. CASE UNCHANGED <<lattice, results>>
    <3>1. lattice' = <<>> /\ results' = <<>> /\ DOMAIN lattice' = {}
      BY <1>1, <2>2
    <3>2. lattice' \in Seq(Raws)
      BY <3>1
    <3> QED BY <3>1, <3>2
  <2> QED BY <2>1, <2>2 DEF ReadLattice
<1>3. results' \in Seq(TableResults) /\ results' = FromLattice'
  BY <1>2, LatticeIs DEF FromLattice
<1>4. Read' /\ StageInv'
  BY <1>1, <1>2, <1>3 DEF Read, StageInv
<1>5. RowsReachOneResult'
  BY <1>1 DEF RowsReachOneResult
<1>6. exErrors' \subseteq {"lattice", "stream", "no tables", "descriptions"}
  BY DEF TablesInv, ReadLattice
<1> QED
  BY <1>1, <1>3, <1>4, <1>5, <1>6 DEF TablesInv

LEMMA ReadStreamStep ==
    ASSUME TablesInv, ReadStream
    PROVE  TablesInv'
<1>1. /\ exPhase = "stream" /\ exPhase' = "merge" /\ UNCHANGED <<detected, lattice>>
      /\ streamed = <<>> /\ Read /\ results \in Seq(TableResults) /\ results = FromLattice
      /\ detected \in SUBSET TablePages
  BY DEF TablesInv, StageInv, ReadStream
<1>2. streamed' \in Seq(Raws) /\ Unmerged(results)'
  <2>1. CASE UNCHANGED <<streamed, results>>
    <3>1. Unmerged(results)
      BY <1>1, LatticeAlone
    <3>2. Unmerged(results)' <=> Unmerged(results)
      BY <1>1, <2>1 DEF Unmerged, Reported, Superseded, Alone, Raw, GoodStream
    <3>3. streamed' \in Seq(Raws)
      BY <1>1, <2>1 DEF Read
    <3> QED BY <3>1, <3>2, <3>3
  <2>2. CASE /\ streamed' \in Reports(NeedStream, MaxTables - Len(lattice))
             /\ results' = WithStream(streamed')
    <3>1. NeedStream \in SUBSET TablePages
      BY <1>1 DEF NeedStream
    <3>2. streamed' \in Seq(Raws)
      BY <2>2, <3>1, ReportIs
    <3> QED BY <1>1, <2>2, <3>2, StreamBeside
  <2> QED BY <2>1, <2>2 DEF ReadStream
<1>3. results' \in Seq(TableResults)
  BY <1>2 DEF Unmerged
<1>4. Read' /\ StageInv'
  BY <1>1, <1>2 DEF Read, StageInv
<1>5. RowsReachOneResult'
  BY <1>1 DEF RowsReachOneResult
<1>6. exErrors' \subseteq {"lattice", "stream", "no tables", "descriptions"}
  BY DEF TablesInv, ReadStream
<1> QED
  BY <1>1, <1>3, <1>4, <1>5, <1>6 DEF TablesInv

\* A well made result shows its parts.
LEMMA WellMadeShows ==
    ASSUME NEW x, WellMade(x)
    PROVE  RowsOfItsParts(x)
<1>1. Head(x.parts) = x.parts[1] /\ Last(x.parts) = x.parts[Len(x.parts)]
  BY DEF Last, WellMade
<1>2. RowsOf(x.parts) = [k \in DOMAIN x.parts |->
          Result(x.parts[k][1], x.parts[k][2], Raw(x.parts[k])).rows]
  BY DEF RowsOf, Alone
<1> QED
  BY <1>1, <1>2 DEF RowsOfItsParts, WellMade

LEMMA TablesMergeStep ==
    ASSUME TablesInv, Merge
    PROVE  TablesInv'
<1>1. /\ exPhase = "merge" /\ UNCHANGED <<detected, lattice, streamed>>
      /\ Read /\ Unmerged(results) /\ exPhase' \in {"done", "describe"}
  BY DEF TablesInv, StageInv, Merge
<1>2. PICK t \in Orders : results' = MergeConsecutive(t)
  BY DEF Merge
<1>3. Unmerged(t) /\ Ascending(t)
  BY <1>1, SortedWell
<1>4. MergesTo(results', t, Len(t))
  BY <1>1, <1>2, <1>3, MergedWell
<1> DEFINE S == {Part(t[j]) : j \in 1..Len(t)}
<1>5. /\ results' \in Seq(TableResults) /\ Placed(PartsOf(results'), S)
      /\ \A r \in 1..Len(results') : WellMade(results'[r])
  BY <1>4 DEF MergesTo
<1>6. \A part \in Reported : part \in S <=> ~Superseded(part)
  BY <1>3 DEF Unmerged
<1> HIDE DEF S
<1>7. \A part \in Reported' : Cardinality(Holders(part)') = IF Superseded(part)' THEN 0 ELSE 1
  <2>1. ASSUME NEW part
        PROVE  /\ part \in Reported' <=> part \in Reported
               /\ Superseded(part)' <=> Superseded(part)
               /\ Holders(part)' = PlacesOf(PartsOf(results'), part)
    BY <1>1 DEF Reported, Superseded, Raw, GoodStream, Holders, PlacesOf, PartsOf
  <2>2. ASSUME NEW part
        PROVE  Cardinality(PlacesOf(PartsOf(results'), part)) = IF part \in S THEN 1 ELSE 0
    BY <1>5, PlacesCounted
  <2> QED BY <1>6, <2>1, <2>2
<1>8. \A r \in DOMAIN results' : RowsOfItsParts(results'[r])
  <2>1. DOMAIN results' = 1..Len(results')
    BY <1>5, LenProperties
  <2> QED BY <1>5, <2>1, WellMadeShows
<1>9. RowsReachOneResult'
  <2>1. EachTableOnce'
    BY <1>7 DEF EachTableOnce
  <2>2. (\A r \in DOMAIN results : RowsOfItsParts(results[r]))'
    <3>1. \A part : Raw(part)' = Raw(part)
      BY <1>1 DEF Raw
    <3> QED BY <1>8, <3>1 DEF RowsOfItsParts
  <2> QED BY <2>1, <2>2 DEF RowsReachOneResult
<1>10. Read' /\ StageInv'
  BY <1>1 DEF Read, StageInv
<1>11. detected' \subseteq TablePages /\ exErrors' \subseteq {"lattice", "stream", "no tables", "descriptions"}
  BY <1>1 DEF TablesInv, Merge
<1> QED
  BY <1>1, <1>5, <1>9, <1>10, <1>11 DEF TablesInv

LEMMA TablesInvariant == ExtractionSpec => []TablesInv
<1>1. ExtractionInit => TablesInv
  <2> SUFFICES ASSUME ExtractionInit PROVE TablesInv
    OBVIOUS
  <2>1. /\ exPhase = "detect" /\ detected = {} /\ lattice = <<>> /\ streamed = <<>>
        /\ results = <<>> /\ exErrors = {}
    BY DEF ExtractionInit
  <2>2. Read /\ StageInv /\ RowsReachOneResult /\ results \in Seq(TableResults)
    BY <2>1 DEF Read, StageInv, RowsReachOneResult
  <2> QED BY <2>1, <2>2 DEF TablesInv
<1>2. ASSUME TablesInv, [ExtractionNext]_extraction PROVE TablesInv'
  <2>1. CASE DetectPages
    <3>1. /\ exPhase = "detect" /\ exPhase' \in {"done", "lattice"} /\ UNCHANGED <<lattice, streamed, results>>
          /\ lattice = <<>> /\ streamed = <<>> /\ results = <<>> /\ Read
          /\ detected' \subseteq TablePages
          /\ exErrors' \subseteq {"lattice", "stream", "no tables", "descriptions"}
      BY <1>2, <2>1 DEF TablesInv, StageInv, DetectPages
    <3>4. lattice' = <<>> /\ streamed' = <<>> /\ results' = <<>>
      BY <3>1
    <3>2. Read' /\ StageInv' /\ results' \in Seq(TableResults)
      <4>1. <<>> \in Seq(Raws) /\ <<>> \in Seq(TableResults)
        OBVIOUS
      <4>2. Read' /\ results' \in Seq(TableResults)
        BY <3>4, <4>1 DEF Read
      <4>3. StageInv'
        BY <3>1, <3>4 DEF StageInv
      <4> QED BY <4>2, <4>3
    <3>3. RowsReachOneResult'
      <4>1. DOMAIN lattice' = {} /\ DOMAIN streamed' = {} /\ DOMAIN results' = {}
        BY <3>4
      <4>2. Reported' = {}
        BY <4>1 DEF Reported
      <4> QED BY <4>1, <4>2 DEF RowsReachOneResult, EachTableOnce
    <3> QED BY <3>1, <3>2, <3>3 DEF TablesInv
  <2>2. CASE Describe
    <3>1. /\ exPhase = "describe" /\ exPhase' = "done"
          /\ UNCHANGED <<detected, lattice, streamed, results>>
          /\ exErrors' \subseteq {"lattice", "stream", "no tables", "descriptions"}
      BY <1>2, <2>2 DEF TablesInv, Describe
    <3>2. RowsReachOneResult'
      <4>1. exPhase \in {"describe", "done"} /\ exPhase' \in {"describe", "done"}
        BY <3>1
      <4>2. RowsReachOneResult
        BY <1>2 DEF TablesInv
      <4>3. RowsReachOneResult' <=> RowsReachOneResult
        <5>0. lattice' = lattice /\ streamed' = streamed /\ results' = results
          BY <3>1
        <5>1. EachTableOnce' <=> EachTableOnce
          BY <5>0 DEF EachTableOnce, Reported, Superseded, Raw, GoodStream, Holders
        <5>2. (\A r \in DOMAIN results : RowsOfItsParts(results[r]))' <=>
                  \A r \in DOMAIN results : RowsOfItsParts(results[r])
          BY <5>0 DEF RowsOfItsParts, Raw
        <5> QED BY <4>1, <5>1, <5>2 DEF RowsReachOneResult
      <4> QED BY <4>2, <4>3
    <3> QED BY <1>2, <3>1, <3>2 DEF TablesInv, Read, StageInv
  <2>3. CASE UNCHANGED extraction
    <3>1. Unmerged(results)' <=> Unmerged(results)
      BY <2>3 DEF extraction, Unmerged, Reported, Superseded, Alone, Raw, GoodStream
    <3>2. RowsReachOneResult' <=> RowsReachOneResult
      BY <2>3 DEF extraction, RowsReachOneResult, EachTableOnce, RowsOfItsParts, Reported, Superseded, Raw, GoodStream, Holders
    <3>3. StageInv' <=> StageInv
      BY <2>3, <3>1 DEF extraction, StageInv, FromLattice
    <3> QED BY <1>2, <2>3, <3>2, <3>3 DEF extraction, TablesInv, Read
  <2> QED BY <1>2, <2>1, <2>2, <2>3, ReadLatticeStep, ReadStreamStep, TablesMergeStep
       DEF ExtractionNext
<1> QED
  BY <1>1, <1>2, PTL DEF ExtractionSpec

\* The extraction of tables has its types: pages looked at, results and what is
\* reported as gone wrong.
THEOREM TablesTypeCorrect == ExtractionSpec => []ExtractionTypeOK
<1>1. TablesInv => ExtractionTypeOK
  <2> SUFFICES ASSUME TablesInv PROVE ExtractionTypeOK
    OBVIOUS
  <2>1. \A i \in DOMAIN results : results[i] \in TableResults
    BY LenProperties DEF TablesInv
  <2> QED BY <2>1 DEF TablesInv, ExtractionTypeOK, TableResults, Flavors
<1> QED
  BY <1>1, TablesInvariant, PTL

\* Every table a parser reported is part of one result, or of none when a
\* better stream result took its page; results hold the rows of their parts
\* once each, in order, over pages without a hole (extract_tables,
\* _merge_consecutive).
THEOREM RowsReachTheirResult == ExtractionSpec => []RowsReachOneResult
<1>1. TablesInv => RowsReachOneResult
  BY DEF TablesInv
<1> QED
  BY <1>1, TablesInvariant, PTL

==============================================================================

----------------------------- MODULE PdfViewer -----------------------------
(***************************************************************************)
(* The browser's PDF viewer: loads of documents that are given to it one    *)
(* after another, the loader's work queue, the passes that lay a document   *)
(* out and paint its visible pages, and the place the reader is at.         *)
(* The loader and the renderer are shared by all instances of the viewer.   *)
(* An action is what runs between two awaits; a pass over a document that   *)
(* is destroyed ends with it.                                               *)
(***************************************************************************)
EXTENDS Integers, Sequences

CONSTANTS
    NoDoc,
    Pdfs,       \* documents that are given to the viewer
    Damaged,    \* those with pages that pdf.js cannot read, once it opened them
    MaxLoads    \* bound: calls of loadPdf

ASSUME ViewerAssumption == NoDoc \notin Pdfs /\ Damaged \subseteq Pdfs /\ MaxLoads \in Nat

VARIABLES
    given,      \* documentId and pdfData of the mounted viewer, or NoDoc
    loads,      \* the calls of loadPdf: document, step, is its viewer mounted?
    queueBroken, \* pdfWorkQueue is a rejected promise
    pdf,        \* the loader's open document
    cancelled,  \* renderCancelled
    host,       \* the document whose pages are in the viewer
    loadingPdf, ready, error, \* the viewer's flags
    repaint,    \* a repaint is scheduled for the next frame
    pass,       \* the document a repaint is laying out
    debounced,  \* a repaint ran lately: the next one may be dropped
    place,      \* the document whose page currentPage is
    saved,      \* the session's pdfViewPage: the document it is a page of
    superseded, \* history: a document was given during a load of the viewer
    readEarly   \* history: the reader moved during a load

flags == <<loadingPdf, ready, error>>
painting == <<cancelled, repaint, pass, debounced>>
reading == <<place, saved, superseded, readEarly>>
viewer == <<given, loads, queueBroken, pdf, host, flags, painting, reading>>

Maybe(S) == S \union {NoDoc}

ViewerTypeOK ==
    /\ given \in Maybe(Pdfs) /\ pdf \in Maybe(Pdfs) /\ host \in Maybe(Pdfs)
    /\ pass \in Maybe(Pdfs) /\ place \in Maybe(Pdfs)
    /\ loads \in Seq([doc : Pdfs, mounted : BOOLEAN,
                      pc : {"cancel", "queued", "opening", "layout", "paint", "ended"}])
    /\ \A flag \in {queueBroken, cancelled, loadingPdf, ready, error, repaint, debounced,
                    superseded, readEarly} : flag \in BOOLEAN
    /\ saved \in [Pdfs -> Maybe(Pdfs)]

ViewerInit ==
    /\ given = NoDoc /\ loads = <<>> /\ queueBroken = FALSE /\ pdf = NoDoc /\ host = NoDoc
    /\ loadingPdf = FALSE /\ ready = FALSE /\ error = FALSE
    /\ cancelled = FALSE /\ repaint = FALSE /\ pass = NoDoc /\ debounced = FALSE
    /\ place = NoDoc /\ saved = [d \in Pdfs |-> NoDoc]
    /\ superseded = FALSE /\ readEarly = FALSE

-----------------------------------------------------------------------------
\* Loads whose call of loadDocument has not been answered.
InQueue(i) == loads[i].pc \in {"queued", "opening"}

\* activeRenderBatch: a pass that the next load cancels and waits for.
Rendering == pass # NoDoc \/ \E i \in DOMAIN loads : loads[i].pc \in {"layout", "paint"}

LoadsInProgress == \E i \in DOMAIN loads : loads[i].mounted /\ loads[i].pc # "ended"

\* No later call of loadDocument: myGen = loadGeneration.
Newest(i) == \A j \in DOMAIN loads : j > i => loads[j].pc = "cancel"

Step(l, i, pc) == [l EXCEPT ![i].pc = pc]

\* A pass has ended: the loads that cancelled it go on to the queue.
Released(l) == [i \in DOMAIN l |-> IF l[i].pc = "cancel" THEN [l[i] EXCEPT !.pc = "queued"] ELSE l[i]]

\* The end of loadPdf, with an error to show or without one; the flags are
\* those of the viewer that called it.
EndLoad(l, i, fails) ==
    /\ loads' = Step(l, i, "ended")
    /\ loadingPdf' = (loadingPdf /\ ~loads[i].mounted)
    /\ error' = (error \/ (fails /\ loads[i].mounted))
    /\ UNCHANGED ready

-----------------------------------------------------------------------------
\* Mutant of Give: the place is saved for the document that comes.
GiveSavingForNew(d) ==
    /\ Len(loads) < MaxLoads /\ d # given
    /\ given' = d
    /\ saved' = IF given = NoDoc THEN saved ELSE [saved EXCEPT ![d] = place]
    /\ superseded' = (superseded \/ LoadsInProgress)
    /\ loads' = Append(loads, [doc |-> d, mounted |-> TRUE,
                               pc |-> IF Rendering THEN "cancel" ELSE "queued"])
    /\ loadingPdf' = TRUE /\ ready' = FALSE /\ error' = FALSE /\ cancelled' = TRUE
    /\ UNCHANGED <<queueBroken, pdf, host, repaint, pass, debounced, place, readEarly>>

\* ngOnChanges and the start of loadPdf: the place in the outgoing document is
\* saved, rendering is cancelled, and the load waits for it or is queued.
Give(d) ==
    /\ Len(loads) < MaxLoads /\ d # given
    /\ given' = d
    /\ saved' = IF given = NoDoc THEN saved ELSE [saved EXCEPT ![given] = place]
    /\ superseded' = (superseded \/ LoadsInProgress)
    /\ loads' = Append(loads, [doc |-> d, mounted |-> TRUE,
                               pc |-> IF Rendering THEN "cancel" ELSE "queued"])
    /\ loadingPdf' = TRUE /\ ready' = FALSE /\ error' = FALSE /\ cancelled' = TRUE
    /\ UNCHANGED <<queueBroken, pdf, host, repaint, pass, debounced, place, readEarly>>

\* The open document is destroyed: passes over it end, a load's with an error.
PassesEnd(l) ==
    Released([i \in DOMAIN l |->
                IF l[i].pc \in {"layout", "paint"} THEN [l[i] EXCEPT !.pc = "ended"] ELSE l[i]])

\* runLoadForGeneration: after the loads before it, the open document is
\* destroyed, and a load that is not the newest ends without one.
RunLoad(i) ==
    LET stopped == {j \in DOMAIN loads : loads[j].pc \in {"layout", "paint"}}
        ends == stopped \union {j \in {i} : ~Newest(i)} IN
    /\ loads[i].pc = "queued" /\ \A j \in 1..(i - 1) : ~InQueue(j)
    /\ ~queueBroken
    /\ pdf' = NoDoc /\ pass' = NoDoc
    /\ loads' = Step(PassesEnd(loads), i, IF Newest(i) THEN "opening" ELSE "ended")
    /\ loadingPdf' = (loadingPdf /\ \A j \in ends : ~loads[j].mounted)
    /\ error' = (error \/ \E j \in ends : loads[j].mounted)
    /\ UNCHANGED <<given, queueBroken, host, ready, cancelled, repaint, debounced, reading>>

\* On a rejected queue nothing runs: the load is answered by the old error.
RunNothing(i) ==
    /\ loads[i].pc = "queued" /\ queueBroken
    /\ EndLoad(loads, i, TRUE)
    /\ UNCHANGED <<given, queueBroken, pdf, host, painting, reading>>

\* pdf.js has opened the document. If a later load is queued it is closed
\* again; else the saved page is taken up and the layout begins.
PdfOpened(i) ==
    /\ loads[i].pc = "opening"
    /\ IF ~Newest(i)
         THEN EndLoad(loads, i, TRUE) /\ UNCHANGED <<pdf, cancelled, place>>
         ELSE /\ pdf' = loads[i].doc
              /\ loads' = Step(loads, i, "layout") /\ cancelled' = FALSE
              /\ ready' = (ready \/ loads[i].mounted)
              /\ place' = IF ~loads[i].mounted THEN place
                          ELSE IF saved[given] # NoDoc THEN saved[given] ELSE given
              /\ UNCHANGED <<loadingPdf, error>>
    /\ UNCHANGED <<given, queueBroken, host, repaint, pass, debounced, saved, superseded, readEarly>>

\* pdf.js cannot open the document: the queue's promise is rejected, and
\* every later load is chained to it.
PdfFails(i) ==
    /\ loads[i].pc = "opening"
    /\ queueBroken' = TRUE
    /\ EndLoad(loads, i, TRUE)
    /\ UNCHANGED <<given, pdf, host, painting, reading>>

\* renderDocument ends. A cancelled pass leaves the pages as they are and
\* schedules a repaint, a page that cannot be read leaves them so with an
\* error; else they are those of the document.
LaidOut(i) ==
    /\ loads[i].pc = "layout"
    /\ \/ /\ loads[i].doc \in Damaged
          /\ EndLoad(Released(loads), i, TRUE)
          /\ UNCHANGED <<host, repaint>>
       \/ /\ cancelled
          /\ EndLoad(Released(loads), i, FALSE)
          /\ repaint' = (repaint \/ loads[i].mounted)
          /\ UNCHANGED host
       \/ /\ ~cancelled
          /\ loads' = Released(Step(loads, i, "paint"))
          /\ host' = IF loads[i].mounted THEN loads[i].doc ELSE host
          /\ UNCHANGED <<flags, repaint>>
    /\ UNCHANGED <<given, queueBroken, pdf, cancelled, pass, debounced, reading>>

\* The visible pages are painted, or one of them cannot be read or drawn, or
\* the tasks are cancelled: one that was already drawing ends the load with an
\* error, one that was not just ends.
Painted(i) ==
    /\ loads[i].pc = "paint"
    /\ \E fails \in {cancelled, loads[i].doc \in Damaged, FALSE} : EndLoad(Released(loads), i, fails)
    /\ UNCHANGED <<given, queueBroken, pdf, host, painting, reading>>

\* The scheduled repaint: dropped soon after another one and without an open
\* document, put off while a layout is in progress, else a layout of its own.
Repaint ==
    /\ repaint
    /\ \/ /\ debounced \/ pdf = NoDoc
          /\ repaint' = FALSE /\ UNCHANGED <<pass, cancelled>>
       \/ /\ pdf # NoDoc
          /\ IF pass # NoDoc \/ \E i \in DOMAIN loads : loads[i].pc = "layout"
               THEN repaint' = TRUE /\ UNCHANGED <<pass, cancelled>>
               ELSE repaint' = FALSE /\ pass' = pdf /\ cancelled' = FALSE
    /\ debounced' = TRUE
    /\ UNCHANGED <<given, loads, queueBroken, pdf, host, flags, reading>>

\* The repaint's layout ends, or fails, which nobody catches; painting its
\* pages changes nothing here.
Repainted ==
    /\ pass # NoDoc
    /\ pass' = NoDoc
    /\ loads' = Released(loads)
    /\ \/ pass \in Damaged /\ UNCHANGED <<host, repaint>>
       \/ cancelled /\ repaint' = TRUE /\ UNCHANGED host
       \/ ~cancelled /\ host' = pass /\ UNCHANGED repaint
    /\ UNCHANGED <<given, queueBroken, pdf, flags, cancelled, debounced, reading>>

\* The debounce time passes.
Quiet ==
    /\ debounced /\ debounced' = FALSE
    /\ UNCHANGED <<given, loads, queueBroken, pdf, host, flags, cancelled, repaint, pass, reading>>

\* The reader scrolls the pages that are shown; the page is saved for the
\* document that was given.
ReadOn ==
    /\ given # NoDoc /\ host # NoDoc
    /\ place' = host /\ saved' = [saved EXCEPT ![given] = host]
    /\ readEarly' = (readEarly \/ LoadsInProgress)
    /\ UNCHANGED <<given, loads, queueBroken, pdf, host, flags, painting, superseded>>

\* ngOnDestroy: the viewer goes, its document is destroyed and a load that is
\* being opened is torn down, which rejects the queue; its loads run on.
Unmount ==
    /\ given # NoDoc
    /\ given' = NoDoc /\ host' = NoDoc /\ place' = NoDoc /\ pdf' = NoDoc
    /\ loadingPdf' = FALSE /\ ready' = FALSE /\ error' = FALSE
    /\ repaint' = FALSE /\ pass' = NoDoc
    /\ queueBroken' = (queueBroken \/ \E i \in DOMAIN loads : loads[i].pc = "opening")
    /\ loads' = [i \in DOMAIN loads |->
                   [loads[i] EXCEPT !.mounted = FALSE,
                      !.pc = CASE @ = "cancel" -> "queued"
                               [] @ \in {"opening", "layout", "paint"} -> "ended"
                               [] OTHER -> @]]
    /\ UNCHANGED <<cancelled, debounced, saved, superseded, readEarly>>

LoadSteps(i) == RunLoad(i) \/ RunNothing(i) \/ PdfOpened(i) \/ PdfFails(i) \/ LaidOut(i) \/ Painted(i)

ViewerNext ==
    \/ \E d \in Pdfs : Give(d)
    \/ \E i \in DOMAIN loads : LoadSteps(i)
    \/ Repaint
    \/ Repainted
    \/ Quiet
    \/ ReadOn
    \/ Unmount

ViewerSpec == ViewerInit /\ [][ViewerNext]_viewer

-----------------------------------------------------------------------------
(* Properties *)

AtRest == given # NoDoc /\ ~LoadsInProgress /\ ~Rendering /\ ~repaint

\* Whatever documents were given to it, however fast, and whatever was still
\* being opened or painted then, the viewer that has come to rest shows the
\* document given last - unless an earlier load failed or was torn down, after
\* which the loader opens nothing, or the document is damaged, when the pages of
\* another one may stay, under an error.  It shows an error only for a damaged
\* document, after a failure or when a load was overtaken by the next, and a
\* place is saved for the document it is a place of unless that is damaged or a
\* load was in progress when the reader moved (PdfViewerComponent.loadPdf,
\* PdfDocumentLoader, PdfRenderService).
ViewerShowsTheLast ==
    /\ AtRest /\ ~queueBroken =>
         /\ pdf = given /\ ready /\ ~loadingPdf
         /\ host = given \/ (given \in Damaged /\ error)
    /\ error => superseded \/ queueBroken \/ given \in Damaged
    /\ \A d \in Pdfs \ Damaged :
         saved[d] \in {NoDoc, d} \/ superseded \/ readEarly \/ queueBroken

=============================================================================

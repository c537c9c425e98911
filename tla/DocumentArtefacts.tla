-------------------------- MODULE DocumentArtefacts --------------------------
(***************************************************************************)
(* What is kept of one document: its row with the structure tree and the   *)
(* index of sections, its chunks, its files and its line in the library.   *)
(* A run of the pipeline fills them in, background enrichment and readers  *)
(* write the index, chats cache their analyses, and a DELETE request takes *)
(* everything away in four steps while the others go on.                   *)
(***************************************************************************)
EXTENDS Integers

CONSTANTS
    NoRow,
    Readers,      \* requests that read the index of sections, or chats
    Deleters,     \* DELETE requests
    MaxRuns,      \* bound: runs of the pipeline
    MaxFailures,  \* bound: failures of the storage or the database in a DELETE
    Backends      \* storage backends looked at: "local", "s3"

\* "inflight" stands for extracting, tables, images and embedding, "ready" for
\* ready and partial, "failed" for every other end.
RowStatuses == {"queued", "inflight", "ready", "failed"}
StateRow == [status : RowStatuses, tree : BOOLEAN, sections : {"none", "heuristic", "enriched"}]

ASSUME ArtefactsAssumption ==
    /\ NoRow \notin StateRow
    /\ MaxRuns \in Nat /\ MaxFailures \in Nat
    /\ Backends \subseteq {"local", "s3"}

VARIABLES
    row,        \* document_state
    indexed,    \* document_chunks holds the chunks (committed)
    files,      \* in the storage, and the vision cache beside it
    listed,     \* user_documents
    run,        \* process_document: where it is, its open transaction
    runs,       \* runs so far
    enriching,  \* enrich_in_background of each run
    reader,     \* what each reader is about to write
    overtaken,  \* history: readers that read before an enriched index came
    deleter,    \* the next step of each DELETE
    failures,   \* of DELETEs so far
    lost,       \* history: the storage failed to delete
    backend

store == <<row, indexed, files, listed>>
pipeline == <<run, runs, enriching>>
reading == <<reader, overtaken>>
deletion == <<deleter, failures, lost, backend>>
artefacts == <<store, pipeline, reading, deletion>>

FileKinds == {"source", "figures", "debug", "cache"}
RunSteps == {"idle", "load", "extract", "figures", "tree", "clear", "insert", "commit"}
DeleteSteps == {"idle", "chunks", "storage", "row", "listing", "returned", "failed"}
Present == row # NoRow

ArtefactsTypeOK ==
    /\ row \in {NoRow} \union StateRow
    /\ indexed \in BOOLEAN /\ listed \in BOOLEAN /\ files \subseteq FileKinds
    /\ run \in [pc : RunSteps, tx : {"clean", "cleared", "written"}]
    /\ run.tx # "clean" => run.pc \in {"insert", "commit"}
    /\ runs \in 0..MaxRuns
    /\ enriching \in [1..MaxRuns -> {"none", "building", "saved"}]
    /\ reader \in [Readers -> {"idle", "sections", "page"}] /\ overtaken \subseteq Readers
    /\ deleter \in [Deleters -> DeleteSteps]
    /\ failures \in 0..MaxFailures /\ lost \in BOOLEAN /\ backend \in Backends

NewDocument(status) == [status |-> status, tree |-> FALSE, sections |-> "none"]

\* As save_upload_and_record and _record_user_upload leave it.
ArtefactsInit ==
    /\ row = NewDocument("queued") /\ indexed = FALSE /\ files = {"source"} /\ listed = TRUE
    /\ run = [pc |-> "idle", tx |-> "clean"] /\ runs = 0
    /\ enriching = [n \in 1..MaxRuns |-> "none"]
    /\ reader = [r \in Readers |-> "idle"] /\ overtaken = {}
    /\ deleter = [d \in Deleters |-> "idle"] /\ failures = 0 /\ lost = FALSE
    /\ backend \in Backends

\* Debug files are kept by the local backend only.
Debug == IF backend = "local" THEN {"debug"} ELSE {}

-----------------------------------------------------------------------------
(* process_document: one run at a time (DocumentQueue) *)

At(pc) == run.pc = pc
GoTo(pc) == run' = [run EXCEPT !.pc = pc]
Idle == run' = [pc |-> "idle", tx |-> "clean"]
SetStatus(status) == row' = [row EXCEPT !.status = status]

StartRun ==
    /\ At("idle") /\ Present /\ row.status = "queued" /\ runs < MaxRuns
    /\ GoTo("load") /\ runs' = runs + 1
    /\ UNCHANGED <<store, enriching, reading, deletion>>

Load ==
    /\ At("load") /\ "source" \in files
    /\ GoTo("extract")
    /\ UNCHANGED <<store, runs, enriching, reading, deletion>>

\* set_status inserts the row when a DELETE has taken it away meanwhile.
LoadFails ==
    /\ At("load")
    /\ IF Present THEN SetStatus("failed") ELSE row' = NewDocument("failed")
    /\ Idle
    /\ UNCHANGED <<indexed, files, listed, runs, enriching, reading, deletion>>

Extract ==
    /\ At("extract") /\ Present
    /\ SetStatus("inflight") /\ GoTo("figures")
    /\ files' = files \union Debug
    /\ UNCHANGED <<indexed, listed, runs, enriching, reading, deletion>>

\* enrich_images stores the figures without another look at the row.
Figures ==
    /\ At("figures")
    /\ files' = files \union {"figures"} \union Debug
    /\ GoTo("tree")
    /\ UNCHANGED <<row, indexed, listed, runs, enriching, reading, deletion>>

SaveTree ==
    /\ At("tree") /\ Present
    /\ row' = [row EXCEPT !.tree = TRUE, !.status = "inflight"]
    /\ files' = files \union Debug
    /\ GoTo("clear")
    /\ UNCHANGED <<indexed, listed, runs, enriching, reading, deletion>>

\* build_chunks, then the old chunks are deleted in a transaction that stays
\* open while the new ones are embedded.
ClearChunks ==
    /\ At("clear") /\ Present
    /\ SetStatus("inflight")
    /\ files' = files \union {"figures"} \union Debug
    /\ run' = [pc |-> "insert", tx |-> "cleared"]
    /\ UNCHANGED <<indexed, listed, runs, enriching, reading, deletion>>

\* Chunks reference their row: it must be there, and stays until the commit.
InsertChunks ==
    /\ At("insert") /\ Present
    /\ run' = [pc |-> "commit", tx |-> "written"]
    /\ UNCHANGED <<store, runs, enriching, reading, deletion>>

\* The chunks as the commit of the open transaction leaves them.
Committed == CASE run.tx = "clean" -> indexed [] run.tx = "cleared" -> FALSE [] OTHER -> TRUE

\* Mutant of Commit: ready is committed before the chunks.
CommitEarly ==
    /\ At("insert") /\ Present
    /\ SetStatus("ready") /\ indexed' = Committed
    /\ enriching' = [enriching EXCEPT ![runs] = "building"]
    /\ Idle
    /\ UNCHANGED <<files, listed, runs, reading, deletion>>

Commit ==
    /\ At("commit") /\ Present
    /\ SetStatus("ready") /\ indexed' = Committed
    /\ enriching' = [enriching EXCEPT ![runs] = "building"]
    /\ Idle
    /\ UNCHANGED <<files, listed, runs, reading, deletion>>

\* Mutant of RunFails: the transaction is left open.
RunFailsOpen ==
    /\ run.pc \in RunSteps \ {"idle", "load"}
    /\ IF Present THEN SetStatus("failed") ELSE UNCHANGED row
    /\ GoTo("idle")
    /\ UNCHANGED <<indexed, files, listed, runs, enriching, reading, deletion>>

\* A stage fails, times out or finds no row.  The handler commits the failure
\* together with what the transaction holds; without a row it is rolled back.
RunFails ==
    /\ run.pc \in RunSteps \ {"idle", "load"}
    /\ IF Present THEN SetStatus("failed") /\ indexed' = Committed ELSE UNCHANGED <<row, indexed>>
    /\ Idle
    /\ UNCHANGED <<files, listed, runs, enriching, reading, deletion>>

\* The worker process dies, its background tasks with it.
Crash ==
    /\ ~At("idle") \/ \E n \in DOMAIN enriching : enriching[n] # "none"
    /\ Idle /\ enriching' = [n \in DOMAIN enriching |-> "none"]
    /\ UNCHANGED <<store, runs, reading, deletion>>

\* recover_stale, and the worker's retry.
Requeue ==
    /\ At("idle") /\ Present /\ row.status \in {"inflight", "failed"} /\ runs < MaxRuns
    /\ SetStatus("queued")
    /\ UNCHANGED <<indexed, files, listed, pipeline, reading, deletion>>

\* A thread of an earlier run that timed out reports its progress.
LateReport ==
    /\ runs > 1 /\ Present
    /\ SetStatus("inflight")
    /\ UNCHANGED <<indexed, files, listed, pipeline, reading, deletion>>

-----------------------------------------------------------------------------
(* Enrichment and readers *)

\* save_sections_index fails without a row; document_meta is saved alike.
SaveSections(n) ==
    /\ enriching[n] = "building"
    /\ IF Present
         THEN /\ row' = [row EXCEPT !.sections = "enriched"]
              /\ enriching' = [enriching EXCEPT ![n] = "saved"]
              /\ overtaken' = overtaken \union {r \in Readers : reader[r] = "sections"}
         ELSE enriching' = [enriching EXCEPT ![n] = "none"] /\ UNCHANGED <<row, overtaken>>
    /\ UNCHANGED <<indexed, files, listed, run, runs, reader, deletion>>

SaveDebug(n) ==
    /\ enriching[n] = "saved"
    /\ files' = files \union Debug
    /\ enriching' = [enriching EXCEPT ![n] = "none"]
    /\ UNCHANGED <<row, indexed, listed, run, runs, reading, deletion>>

EnrichmentFails(n) ==
    /\ enriching[n] = "building"
    /\ enriching' = [enriching EXCEPT ![n] = "none"]
    /\ UNCHANGED <<store, run, runs, reading, deletion>>

\* Mutant of ReadSections: the index is rebuilt whatever is there.
ReadSectionsAlways(r) ==
    /\ reader[r] = "idle" /\ Present /\ row.status = "ready" /\ row.tree
    /\ reader' = [reader EXCEPT ![r] = "sections"] /\ overtaken' = overtaken \ {r}
    /\ UNCHANGED <<store, pipeline, deletion>>

\* get_sections_index finds none and rebuilds it from the tree.
ReadSections(r) ==
    /\ reader[r] = "idle" /\ Present /\ row.sections = "none" /\ row.status = "ready" /\ row.tree
    /\ reader' = [reader EXCEPT ![r] = "sections"] /\ overtaken' = overtaken \ {r}
    /\ UNCHANGED <<store, pipeline, deletion>>

SaveHeuristic(r) ==
    /\ reader[r] = "sections"
    /\ IF Present THEN row' = [row EXCEPT !.sections = "heuristic"] ELSE UNCHANGED row
    /\ reader' = [reader EXCEPT ![r] = "idle"]
    /\ UNCHANGED <<indexed, files, listed, pipeline, overtaken, deletion>>

\* A chat has a page analysed, and caches what it learns.
LookAtPage(r) ==
    /\ reader[r] = "idle" /\ Present /\ row.status = "ready" /\ "source" \in files
    /\ reader' = [reader EXCEPT ![r] = "page"] /\ UNCHANGED overtaken
    /\ UNCHANGED <<store, pipeline, deletion>>

CachePage(r) ==
    /\ reader[r] = "page"
    /\ files' = files \union {"cache"}
    /\ reader' = [reader EXCEPT ![r] = "idle"]
    /\ UNCHANGED <<row, indexed, listed, pipeline, overtaken, deletion>>

-----------------------------------------------------------------------------
(* delete_document *)

Step(d, pc, next) == deleter[d] = pc /\ deleter' = [deleter EXCEPT ![d] = next]
Failure == failures < MaxFailures /\ failures' = failures + 1

RequestDelete(d) ==
    /\ Step(d, "idle", "chunks")
    /\ UNCHANGED <<store, pipeline, reading, failures, lost, backend>>

\* Waits for a run that holds the chunks; of the ones rewritten meanwhile it
\* sees none.  A failure is swallowed.
DeleteChunks(d) ==
    /\ Step(d, "chunks", "storage")
    /\ indexed => run.tx = "clean"
    /\ indexed' \in {FALSE, indexed}
    /\ UNCHANGED <<row, files, listed, pipeline, reading, failures, lost, backend>>

\* Mutant of DeleteFiles: the source is kept.
DeleteImages(d) ==
    /\ Step(d, "storage", "row")
    /\ files' = files \intersect {"source"}
    /\ UNCHANGED <<row, indexed, listed, pipeline, reading, failures, lost, backend>>

\* The vision cache is a local directory, whatever the backend.
DeleteFiles(d) ==
    /\ Step(d, "storage", "row")
    /\ files' = IF backend = "local" THEN {} ELSE files \intersect {"cache"}
    /\ UNCHANGED <<row, indexed, listed, pipeline, reading, failures, lost, backend>>

\* Swallowed too: the DELETE goes on and will be answered as done.
DeleteFilesFails(d) ==
    /\ Step(d, "storage", "row") /\ Failure
    /\ lost' = TRUE
    /\ UNCHANGED <<store, pipeline, reading, backend>>

\* Mutant of DeleteRow: chunks are not deleted with their row.
DeleteRowOnly(d) ==
    /\ Step(d, "row", "listing")
    /\ run.tx # "written"
    /\ row' = NoRow
    /\ UNCHANGED <<indexed, files, listed, pipeline, reading, failures, lost, backend>>

\* Waits for a run that has inserted chunks; the chunks go with the row.
DeleteRow(d) ==
    /\ Step(d, "row", "listing")
    /\ run.tx # "written"
    /\ row' = NoRow /\ indexed' = FALSE
    /\ UNCHANGED <<files, listed, pipeline, reading, failures, lost, backend>>

DeleteListing(d) ==
    /\ Step(d, "listing", "returned")
    /\ listed' = FALSE
    /\ UNCHANGED <<row, indexed, files, pipeline, reading, failures, lost, backend>>

\* The database fails, or the server stops: what was deleted stays deleted.
DeleteFails(d) ==
    /\ \E pc \in {"chunks", "storage", "row", "listing"} : Step(d, pc, "failed")
    /\ Failure
    /\ UNCHANGED <<store, pipeline, reading, lost, backend>>

-----------------------------------------------------------------------------
Pipeline ==
    \/ StartRun \/ Load \/ LoadFails \/ Extract \/ Figures \/ SaveTree
    \/ ClearChunks \/ InsertChunks \/ Commit \/ RunFails
    \/ Crash \/ Requeue \/ LateReport

EnrichStep(n) == SaveSections(n) \/ SaveDebug(n) \/ EnrichmentFails(n)
ReadStep(r) == ReadSections(r) \/ SaveHeuristic(r) \/ LookAtPage(r) \/ CachePage(r)
DeleteStep(d) ==
    \/ RequestDelete(d) \/ DeleteChunks(d) \/ DeleteFiles(d) \/ DeleteFilesFails(d)
    \/ DeleteRow(d) \/ DeleteListing(d) \/ DeleteFails(d)

ArtefactsNext ==
    \/ Pipeline
    \/ \E n \in 1..MaxRuns : EnrichStep(n)
    \/ \E r \in Readers : ReadStep(r)
    \/ \E d \in Deleters : DeleteStep(d)

ArtefactsSpec == ArtefactsInit /\ [][ArtefactsNext]_artefacts

-----------------------------------------------------------------------------
(* Properties *)

Deleting == \E d \in Deleters : deleter[d] # "idle"
Deleted == \E d \in Deleters : deleter[d] = "returned"

\* A document that is called ready can be searched, shown and opened: its
\* chunks, tree and files are all there, whatever earlier runs did, unless
\* its deletion has been asked for.
ReadyIsComplete ==
    Present /\ row.status = "ready" /\ ~Deleting =>
      indexed /\ row.tree /\ {"source", "figures"} \subseteq files

\* No chunk outlives its row, although a run may be writing chunks while the
\* row is deleted.
ChunksHaveTheirRow == indexed => Present

\* A run in progress, a retry or a row that comes back never make a deleted
\* document ready again, as long as the storage did delete its file.
DeletedIsNeverReady == Deleted /\ ~lost => (Present => row.status # "ready")

\* The index made by the language model is replaced by the one rebuilt from
\* the tree only by a reader that had looked before it came.
EnrichedIndexIsKept ==
    [][Present /\ row.sections = "enriched" /\ row' # NoRow /\ row'.sections # "enriched"
         => \E r \in overtaken : reader[r] = "sections"]_artefacts

\* After a DELETE that has answered without any failure, and once everything
\* that was in progress has ended, no file and no chunk is left.
DeletedLeavesNoFiles ==
    /\ Deleted /\ failures = 0
    /\ \A d \in Deleters : deleter[d] \in {"idle", "returned"}
    /\ run.pc = "idle"
    /\ \A n \in DOMAIN enriching : enriching[n] = "none"
    /\ \A r \in Readers : reader[r] = "idle"
    => files = {} /\ ~indexed

=============================================================================

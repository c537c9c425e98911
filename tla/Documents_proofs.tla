-------------------------- MODULE Documents_proofs --------------------------
(***************************************************************************)
(* What is kept of a document, for any number of runs, readers, DELETE     *)
(* requests and failures: a ready document is complete, no chunk outlives  *)
(* its row, a deleted document is never ready again, and the index made by *)
(* the language model is not overwritten by a reader that came after it.   *)
(* chunking.py loses no token, table or image of a document and doubles    *)
(* none but the overlapping tokens, for any document and any size of the   *)
(* windows. And metadata.py gives each section the words of the last group *)
(* that names it, in whatever order the calls to the language model are    *)
(* answered.                                                               *)
(***************************************************************************)
EXTENDS MC_Documents, Extraction_proofs, DocumentTree_proofs

\* A transaction holds the new chunks exactly between their insertion and the
\* commit.
TransactionInv == run.tx = "written" <=> run.pc = "commit"

\* Nobody deletes: the row is there and the source with it, and what each
\* stage of the run made before is still there.
KeptInv ==
    ~Deleting =>
      /\ Present /\ "source" \in files
      /\ run.pc \in {"tree", "clear", "insert", "commit"} => "figures" \in files
      /\ run.pc \in {"clear", "insert", "commit"} => row.tree

\* The storage did delete: the source is gone for ever.  Once the row is gone
\* too, a run that had its file finds no row, and one that has not will fail.
GoneInv ==
    \A d \in Deleters : ~lost =>
      /\ deleter[d] \in {"row", "listing", "returned"} => "source" \notin files
      /\ deleter[d] \in {"listing", "returned"} /\ Present =>
           run.pc \in {"idle", "load"} /\ row.status # "ready"

\* Whoever is about to write the rebuilt index beside an enriched one read
\* before that came.
OvertakenInv ==
    Present /\ row.sections = "enriched" =>
      \A r \in Readers : reader[r] = "sections" => r \in overtaken

ArtefactsInv ==
    /\ ArtefactsTypeOK /\ TransactionInv /\ KeptInv /\ GoneInv /\ OvertakenInv
    /\ ReadyIsComplete /\ ChunksHaveTheirRow

USE ArtefactsAssumption DEF ArtefactsAssumption, artefacts, store, pipeline, reading, deletion

-----------------------------------------------------------------------------
(* Types *)

\* The status of a row that is there can be set, and nothing else changes.
LEMMA SetStatusType ==
    ASSUME ArtefactsTypeOK, Present, NEW status \in RowStatuses, SetStatus(status)
    PROVE  row' \in StateRow /\ row'.status = status /\ row'.tree = row.tree /\ row'.sections = row.sections
  BY DEF ArtefactsTypeOK, Present, SetStatus, StateRow

LEMMA NewDocumentType ==
    ASSUME NEW status \in RowStatuses
    PROVE  NewDocument(status) \in StateRow
  BY DEF NewDocument, StateRow

LEMMA StepType ==
    ASSUME ArtefactsTypeOK, NEW d \in Deleters, NEW pc,
           NEW next \in DeleteSteps, Step(d, pc, next)
    PROVE  /\ deleter' \in [Deleters -> DeleteSteps]
           /\ deleter[d] = pc /\ deleter'[d] = next
           /\ \A e \in Deleters : e # d => deleter'[e] = deleter[e]
  BY DEF ArtefactsTypeOK, Step

LEMMA FailureType == ArtefactsTypeOK /\ Failure => failures' \in 0..MaxFailures
  BY DEF ArtefactsTypeOK, Failure

\* A step of the pipeline, a crash and recovery keep the types.
LEMMA PipelineType == ArtefactsTypeOK /\ Pipeline => ArtefactsTypeOK'
<1> SUFFICES ASSUME ArtefactsTypeOK, Pipeline PROVE ArtefactsTypeOK'
  OBVIOUS
<1> USE DEF ArtefactsTypeOK, At, GoTo, Idle, RunSteps, FileKinds, RowStatuses, Debug
<1>1. CASE StartRun
  BY <1>1 DEF StartRun
<1>2. CASE Load
  BY <1>2 DEF Load
<1>3. CASE LoadFails
  BY <1>3, SetStatusType, NewDocumentType DEF LoadFails
<1>4. CASE Extract
  BY <1>4, SetStatusType DEF Extract
<1>5. CASE Figures
  BY <1>5 DEF Figures
<1>6. CASE SaveTree
  BY <1>6 DEF SaveTree, StateRow, Present
<1>7. CASE ClearChunks
  BY <1>7, SetStatusType DEF ClearChunks
<1>8. CASE InsertChunks
  BY <1>8 DEF InsertChunks
<1>9. CASE Commit
  BY <1>9, SetStatusType DEF Commit, Committed
<1>10. CASE RunFails
  BY <1>10, SetStatusType DEF RunFails, Committed
<1>11. CASE Crash
  BY <1>11 DEF Crash
<1>12. CASE Requeue
  BY <1>12, SetStatusType DEF Requeue
<1>13. CASE LateReport
  BY <1>13, SetStatusType DEF LateReport
<1> QED
  BY <1>1, <1>2, <1>3, <1>4, <1>5, <1>6, <1>7, <1>8, <1>9, <1>10, <1>11, <1>12, <1>13 DEF Pipeline

LEMMA TypeInit == ASSUME ArtefactsInit PROVE ArtefactsTypeOK
<1> USE DEF ArtefactsInit
<1>1. row \in StateRow
  BY NewDocumentType DEF RowStatuses
<1>2. files \subseteq FileKinds /\ indexed \in BOOLEAN /\ listed \in BOOLEAN /\ lost \in BOOLEAN
  BY DEF FileKinds
<1>3. run \in [pc : RunSteps, tx : {"clean", "cleared", "written"}] /\ run.tx = "clean"
  BY DEF RunSteps
<1>4. deleter \in [Deleters -> DeleteSteps]
  BY DEF DeleteSteps
<1>5. runs \in 0..MaxRuns /\ failures \in 0..MaxFailures
  OBVIOUS
<1> QED
  BY <1>1, <1>2, <1>3, <1>4, <1>5 DEF ArtefactsTypeOK

LEMMA TypeStep == ArtefactsTypeOK /\ [ArtefactsNext]_artefacts => ArtefactsTypeOK'
<1> SUFFICES ASSUME ArtefactsTypeOK, [ArtefactsNext]_artefacts PROVE ArtefactsTypeOK'
  OBVIOUS
<1> USE DEF ArtefactsTypeOK, FileKinds
<1>1. CASE Pipeline
  BY <1>1, PipelineType
<1>2. ASSUME NEW n \in 1..MaxRuns, EnrichStep(n) PROVE ArtefactsTypeOK'
  BY <1>2, SMTT(30) DEF EnrichStep, SaveSections, SaveDebug, EnrichmentFails, StateRow, Present, Debug
<1>3. ASSUME NEW r \in Readers, ReadStep(r) PROVE ArtefactsTypeOK'
  BY <1>3 DEF ReadStep, ReadSections, SaveHeuristic, LookAtPage, CachePage, StateRow, Present
<1>4. ASSUME NEW d \in Deleters, DeleteStep(d) PROVE ArtefactsTypeOK'
  <2> DeleteSteps = {"idle"} \union {"chunks", "storage", "row", "listing", "returned", "failed"}
    BY DEF DeleteSteps
  <2>1. CASE RequestDelete(d)
    BY <2>1, StepType DEF RequestDelete
  <2>2. CASE DeleteChunks(d)
    BY <2>2, StepType DEF DeleteChunks
  <2>3. CASE DeleteFiles(d)
    BY <2>3, StepType DEF DeleteFiles
  <2>4. CASE DeleteFilesFails(d)
    BY <2>4, StepType, FailureType DEF DeleteFilesFails
  <2>5. CASE DeleteRow(d)
    BY <2>5, StepType DEF DeleteRow
  <2>6. CASE DeleteListing(d)
    BY <2>6, StepType DEF DeleteListing
  <2>7. CASE DeleteFails(d)
    BY <2>7, StepType, FailureType DEF DeleteFails
  <2> QED
    BY <1>4, <2>1, <2>2, <2>3, <2>4, <2>5, <2>6, <2>7 DEF DeleteStep
<1>5. CASE UNCHANGED artefacts
  BY <1>5
<1> QED
  BY <1>1, <1>2, <1>3, <1>4, <1>5 DEF ArtefactsNext

\* Type correctness (document_state, document_chunks, the storage and
\* whoever writes them).
THEOREM ArtefactsTypeCorrect == ArtefactsSpec => []ArtefactsTypeOK
  BY TypeInit, TypeStep, PTL DEF ArtefactsSpec

-----------------------------------------------------------------------------
(* The inductive invariant *)

\* A DELETE never goes back to where nothing was asked for.
LEMMA DeletingStays ==
    ASSUME ArtefactsTypeOK, ArtefactsNext, ~Deleting'
    PROVE  /\ ~Deleting /\ UNCHANGED deleter
           /\ \A d \in Deleters : ~DeleteStep(d)
<1>1. ASSUME NEW d \in Deleters, DeleteStep(d) PROVE FALSE
  <2>1. deleter'[d] # "idle"
    BY <1>1, StepType
    DEF DeleteStep, RequestDelete, DeleteChunks, DeleteFiles, DeleteFilesFails, DeleteRow,
        DeleteListing, DeleteFails, DeleteSteps
  <2> QED
    BY <2>1 DEF Deleting
<1>2. UNCHANGED deleter
  BY <1>1 DEF ArtefactsNext, Pipeline, StartRun, Load, LoadFails, Extract, Figures, SaveTree,
              ClearChunks, InsertChunks, Commit, RunFails, Crash, Requeue, LateReport,
              EnrichStep, SaveSections, SaveDebug, EnrichmentFails,
              ReadStep, ReadSections, SaveHeuristic, LookAtPage, CachePage
<1> QED
  BY <1>1, <1>2 DEF Deleting

\* Only the run in progress moves the transaction.
LEMMA TransactionStep == ArtefactsTypeOK /\ TransactionInv /\ ArtefactsNext => TransactionInv'
<1> SUFFICES ASSUME ArtefactsTypeOK, TransactionInv, ArtefactsNext PROVE TransactionInv'
  OBVIOUS
<1> USE DEF TransactionInv, ArtefactsTypeOK
<1>1. CASE Pipeline
  BY <1>1 DEF Pipeline, StartRun, Load, LoadFails, Extract, Figures, SaveTree,
              ClearChunks, InsertChunks, Commit, RunFails, Crash, Requeue, LateReport, At, GoTo, Idle
<1>2. ASSUME NEW n \in 1..MaxRuns, EnrichStep(n) PROVE TransactionInv'
  BY <1>2 DEF EnrichStep, SaveSections, SaveDebug, EnrichmentFails
<1>3. ASSUME NEW r \in Readers, ReadStep(r) PROVE TransactionInv'
  BY <1>3 DEF ReadStep, ReadSections, SaveHeuristic, LookAtPage, CachePage
<1>4. ASSUME NEW d \in Deleters, DeleteStep(d) PROVE TransactionInv'
  BY <1>4 DEF DeleteStep, RequestDelete, DeleteChunks, DeleteFiles, DeleteFilesFails, DeleteRow,
              DeleteListing, DeleteFails
<1> QED
  BY <1>1, <1>2, <1>3, <1>4 DEF ArtefactsNext

\* Without a DELETE nothing the run made is lost, and what it calls ready is
\* complete.
LEMMA KeptStep ==
    ASSUME ArtefactsInv, ArtefactsNext
    PROVE  KeptInv' /\ ReadyIsComplete'
<1> SUFFICES ASSUME ~Deleting'
             PROVE  KeptInv' /\ ReadyIsComplete'
  BY DEF KeptInv, ReadyIsComplete
<1>0. /\ Present /\ row \in StateRow /\ "source" \in files
      /\ ~Deleting /\ UNCHANGED deleter /\ \A d \in Deleters : ~DeleteStep(d)
  BY DeletingStays DEF ArtefactsInv, KeptInv, ArtefactsTypeOK, Present
<1> USE <1>0 DEF ArtefactsInv, ArtefactsTypeOK, KeptInv, ReadyIsComplete, StateRow, RowStatuses, Present
<1>1. CASE Pipeline
  <2> USE DEF At, GoTo, Idle, SetStatus
  <2>1. CASE StartRun \/ Load \/ LoadFails
    BY <2>1 DEF StartRun, Load, LoadFails
  <2>2. CASE Extract
    BY <2>2 DEF Extract
  <2>3. CASE Figures
    BY <2>3 DEF Figures
  <2>4. CASE SaveTree
    BY <2>4 DEF SaveTree
  <2>5. CASE ClearChunks
    BY <2>5 DEF ClearChunks
  <2>6. CASE InsertChunks
    BY <2>6 DEF InsertChunks
  <2>7. CASE Commit
    BY <2>7 DEF Commit, Committed, TransactionInv
  <2>8. CASE RunFails
    BY <2>8 DEF RunFails
  <2>9. CASE Crash \/ Requeue \/ LateReport
    BY <2>9 DEF Crash, Requeue, LateReport
  <2> QED
    BY <1>1, <2>1, <2>2, <2>3, <2>4, <2>5, <2>6, <2>7, <2>8, <2>9 DEF Pipeline
<1>2. ASSUME NEW n \in 1..MaxRuns, EnrichStep(n) PROVE KeptInv' /\ ReadyIsComplete'
  BY <1>2 DEF EnrichStep, SaveSections, SaveDebug, EnrichmentFails
<1>3. ASSUME NEW r \in Readers, ReadStep(r) PROVE KeptInv' /\ ReadyIsComplete'
  BY <1>3, SMTT(30) DEF ReadStep, ReadSections, SaveHeuristic, LookAtPage, CachePage
<1> QED
  BY <1>1, <1>2, <1>3 DEF ArtefactsNext

\* Only the DELETE of the row takes it away.
LEMMA RowStays ==
    ASSUME ArtefactsTypeOK, ArtefactsNext, Present, \A d \in Deleters : ~DeleteRow(d)
    PROVE  Present'
<1>1. row \in StateRow /\ row # NoRow
  BY DEF ArtefactsTypeOK, Present
<1>2. ASSUME UNCHANGED row PROVE Present'
  BY <1>1, <1>2 DEF Present
<1>3. \A status \in RowStatuses : SetStatus(status) => Present'
  BY SetStatusType DEF Present
<1> USE <1>1
<1>4. CASE Pipeline
  <2>1. CASE StartRun \/ Load \/ Figures \/ InsertChunks \/ Crash
    BY <1>2, <2>1 DEF StartRun, Load, Figures, InsertChunks, Crash
  <2>2. CASE LoadFails \/ Extract \/ ClearChunks \/ Commit \/ RunFails \/ Requeue \/ LateReport
    BY <1>3, <2>2 DEF RowStatuses, LoadFails, Extract, ClearChunks, Commit, RunFails, Requeue, LateReport
  <2>3. CASE SaveTree
    BY <2>3 DEF SaveTree, StateRow, RowStatuses, Present
  <2> QED
    BY <1>4, <2>1, <2>2, <2>3 DEF Pipeline
<1>5. ASSUME NEW n \in 1..MaxRuns, EnrichStep(n) PROVE Present'
  <2>1. CASE SaveSections(n)
    BY <2>1 DEF SaveSections, StateRow, Present
  <2> QED
    BY <1>2, <1>5, <2>1 DEF EnrichStep, SaveDebug, EnrichmentFails
<1>6. ASSUME NEW r \in Readers, ReadStep(r) PROVE Present'
  <2>1. CASE SaveHeuristic(r)
    BY <2>1 DEF SaveHeuristic, StateRow, Present
  <2> QED
    BY <1>2, <1>6, <2>1 DEF ReadStep, ReadSections, LookAtPage, CachePage
<1>7. ASSUME NEW d \in Deleters, DeleteStep(d) PROVE Present'
  BY <1>2, <1>7 DEF DeleteStep, RequestDelete, DeleteChunks, DeleteFiles, DeleteFilesFails,
                    DeleteListing, DeleteFails
<1> QED
  BY <1>4, <1>5, <1>6, <1>7 DEF ArtefactsNext

\* Chunks go with their row, and are committed only beside it.
LEMMA ChunksStep == ArtefactsTypeOK /\ ChunksHaveTheirRow /\ ArtefactsNext => ChunksHaveTheirRow'
<1> SUFFICES ASSUME ArtefactsTypeOK, ChunksHaveTheirRow, ArtefactsNext PROVE ChunksHaveTheirRow'
  OBVIOUS
<1>1. CASE \E d \in Deleters : DeleteRow(d)
  BY <1>1 DEF DeleteRow, ChunksHaveTheirRow
<1>2. CASE Present /\ \A d \in Deleters : ~DeleteRow(d)
  BY <1>2, RowStays DEF ChunksHaveTheirRow
<1>3. CASE ~Present
  <2>1. indexed = FALSE
    BY <1>3 DEF ChunksHaveTheirRow, ArtefactsTypeOK
  <2>2. indexed' = indexed \/ indexed' = FALSE
    BY <1>3
    DEF ArtefactsNext, Pipeline, StartRun, Load, LoadFails, Extract, Figures, SaveTree,
        ClearChunks, InsertChunks, Commit, RunFails, Crash, Requeue, LateReport,
        EnrichStep, SaveSections, SaveDebug, EnrichmentFails,
        ReadStep, ReadSections, SaveHeuristic, LookAtPage, CachePage,
        DeleteStep, RequestDelete, DeleteChunks, DeleteFiles, DeleteFilesFails, DeleteRow,
        DeleteListing, DeleteFails
  <2> QED
    BY <2>1, <2>2 DEF ChunksHaveTheirRow
<1> QED
  BY <1>1, <1>2, <1>3

\* A source that the storage deleted stays away, and no run gets past its
\* load without it.
LEMMA GoneStep == ArtefactsInv /\ ArtefactsNext => GoneInv'
<1> SUFFICES ASSUME ArtefactsInv, ArtefactsNext, NEW d \in Deleters, ~lost'
             PROVE  /\ deleter'[d] \in {"row", "listing", "returned"} => "source" \notin files'
                    /\ deleter'[d] \in {"listing", "returned"} /\ Present' =>
                         run'.pc \in {"idle", "load"} /\ row'.status # "ready"
  BY DEF GoneInv
<1>1. CASE Pipeline
  <2>0. /\ UNCHANGED deleter /\ ~lost
        /\ deleter[d] \in {"row", "listing", "returned"} => "source" \notin files
        /\ deleter[d] \in {"listing", "returned"} /\ Present =>
             run.pc \in {"idle", "load"} /\ row.status # "ready"
    BY <1>1 DEF ArtefactsInv, GoneInv, Pipeline, StartRun, Load, LoadFails, Extract, Figures, SaveTree,
                ClearChunks, InsertChunks, Commit, RunFails, Crash, Requeue, LateReport
  <2> USE <2>0 DEF At, GoTo, Idle, SetStatus, NewDocument, ArtefactsInv, ArtefactsTypeOK,
                   StateRow, RowStatuses, Present, Debug
  <2>1. CASE StartRun
    BY <2>1 DEF StartRun
  <2>2. CASE Load
    BY <2>2 DEF Load
  <2>3. CASE LoadFails
    BY <2>3 DEF LoadFails
  <2>4. CASE Extract \/ SaveTree \/ ClearChunks
    BY <2>4 DEF Extract, SaveTree, ClearChunks
  <2>5. CASE Figures
    BY <2>5 DEF Figures
  <2>6. CASE InsertChunks \/ Commit
    BY <2>6 DEF InsertChunks, Commit
  <2>7. CASE RunFails
    BY <2>7 DEF RunFails
  <2>8. CASE Crash
    BY <2>8 DEF Crash
  <2>9. CASE Requeue \/ LateReport
    BY <2>9 DEF Requeue, LateReport
  <2> QED
    BY <1>1, <2>1, <2>2, <2>3, <2>4, <2>5, <2>6, <2>7, <2>8, <2>9 DEF Pipeline
<1> USE DEF ArtefactsInv, ArtefactsTypeOK, GoneInv, StateRow, Present
<1>2. CASE \E n \in 1..MaxRuns : EnrichStep(n)
  BY <1>2 DEF EnrichStep, SaveSections, SaveDebug, EnrichmentFails, Debug
<1>3. CASE \E r \in Readers : ReadStep(r)
  BY <1>3 DEF ReadStep, ReadSections, SaveHeuristic, LookAtPage, CachePage
<1>4. ASSUME NEW e \in Deleters, DeleteStep(e)
      PROVE  /\ deleter'[d] \in {"row", "listing", "returned"} => "source" \notin files'
             /\ deleter'[d] \in {"listing", "returned"} /\ Present' =>
                  run'.pc \in {"idle", "load"} /\ row'.status # "ready"
  <2>1. CASE RequestDelete(e) \/ DeleteChunks(e) \/ DeleteListing(e) \/ DeleteFails(e)
    BY <2>1, StepType, ZenonT(30) DEF RequestDelete, DeleteChunks, DeleteListing, DeleteFails, DeleteSteps
  <2>2. CASE DeleteFiles(e)
    BY <2>2, StepType DEF DeleteFiles, DeleteSteps
  <2>3. CASE DeleteFilesFails(e)
    BY <2>3 DEF DeleteFilesFails
  <2>4. CASE DeleteRow(e)
    BY <2>4, StepType DEF DeleteRow, DeleteSteps
  <2> QED
    BY <1>4, <2>1, <2>2, <2>3, <2>4 DEF DeleteStep
<1> QED
  BY <1>1, <1>2, <1>3, <1>4 DEF ArtefactsNext

\* No reader reads in the presence of an enriched index; those that had when
\* it came are remembered.
LEMMA OvertakenStep == ArtefactsInv /\ ArtefactsNext => OvertakenInv'
<1> SUFFICES ASSUME ArtefactsInv, ArtefactsNext PROVE OvertakenInv'
  OBVIOUS
<1> USE DEF ArtefactsInv, ArtefactsTypeOK, OvertakenInv, StateRow, RowStatuses, Present
<1>1. CASE Pipeline
  <2> USE DEF SetStatus, NewDocument
  <2>1. CASE StartRun \/ Load \/ Figures \/ InsertChunks \/ Crash
    BY <2>1 DEF StartRun, Load, Figures, InsertChunks, Crash
  <2>2. CASE LoadFails
    BY <2>2 DEF LoadFails
  <2>3. CASE Extract \/ SaveTree \/ ClearChunks
    BY <2>3 DEF Extract, SaveTree, ClearChunks
  <2>4. CASE Commit \/ RunFails
    BY <2>4 DEF Commit, RunFails
  <2>5. CASE Requeue \/ LateReport
    BY <2>5 DEF Requeue, LateReport
  <2> QED
    BY <1>1, <2>1, <2>2, <2>3, <2>4, <2>5 DEF Pipeline
<1>2. ASSUME NEW n \in 1..MaxRuns, EnrichStep(n) PROVE OvertakenInv'
  BY <1>2 DEF EnrichStep, SaveSections, SaveDebug, EnrichmentFails
<1>3. ASSUME NEW r \in Readers, ReadStep(r) PROVE OvertakenInv'
  BY <1>3 DEF ReadStep, ReadSections, SaveHeuristic, LookAtPage, CachePage
<1>4. ASSUME NEW d \in Deleters, DeleteStep(d) PROVE OvertakenInv'
  BY <1>4 DEF DeleteStep, RequestDelete, DeleteChunks, DeleteFiles, DeleteFilesFails, DeleteRow,
              DeleteListing, DeleteFails
<1> QED
  BY <1>1, <1>2, <1>3, <1>4 DEF ArtefactsNext

LEMMA InvStep == ArtefactsInv /\ [ArtefactsNext]_artefacts => ArtefactsInv'
<1>1. ASSUME ArtefactsInv, ArtefactsNext PROVE ArtefactsInv'
  BY <1>1, TypeStep, TransactionStep, KeptStep, ChunksStep, GoneStep, OvertakenStep DEF ArtefactsInv
<1>2. ASSUME ArtefactsInv, UNCHANGED artefacts PROVE ArtefactsInv'
  BY <1>2
  DEF ArtefactsInv, ArtefactsTypeOK, TransactionInv, KeptInv, GoneInv, OvertakenInv,
      ReadyIsComplete, ChunksHaveTheirRow, Deleting, Present
<1> QED
  BY <1>1, <1>2

LEMMA Invariant == ArtefactsSpec => []ArtefactsInv
<1>1. ASSUME ArtefactsInit PROVE ArtefactsInv
  <2>1. ArtefactsTypeOK
    BY <1>1, TypeInit
  <2>2. row \in StateRow /\ row.status = "queued" /\ row.sections = "none" /\ Present
    BY <1>1, NewDocumentType DEF ArtefactsInit, NewDocument, RowStatuses, Present
  <2> QED
    BY <1>1, <2>1, <2>2
    DEF ArtefactsInit, ArtefactsInv, TransactionInv, KeptInv, GoneInv, OvertakenInv,
        ReadyIsComplete, ChunksHaveTheirRow
<1> QED
  BY <1>1, InvStep, PTL DEF ArtefactsSpec

-----------------------------------------------------------------------------
(* What is guaranteed *)

\* A document that is called ready and that nobody deletes has its chunks,
\* its tree, its source and its figures (process_document).
THEOREM ReadyComplete == ArtefactsSpec => []ReadyIsComplete
  BY Invariant, PTL DEF ArtefactsInv

\* No chunk outlives its row (document_chunks, upsert_chunks).
THEOREM ChunksWithRow == ArtefactsSpec => []ChunksHaveTheirRow
  BY Invariant, PTL DEF ArtefactsInv

\* A document whose DELETE was answered and whose source the storage did
\* delete is never ready again (delete_document, process_document).
THEOREM DeletedStaysUnready == ArtefactsSpec => []DeletedIsNeverReady
<1>1. ArtefactsInv => DeletedIsNeverReady
  BY DEF ArtefactsInv, GoneInv, DeletedIsNeverReady, Deleted
<1> QED
  BY <1>1, Invariant, PTL

\* Only a reader that had read before the enriched index came replaces it
\* (get_sections_index, enrich_in_background).
THEOREM EnrichedKept == ArtefactsSpec => EnrichedIndexIsKept
<1> DEFINE IndexKept == Present /\ row.sections = "enriched" /\ row' # NoRow /\ row'.sections # "enriched"
                     => \E r \in overtaken : reader[r] = "sections"
<1>1. ASSUME ArtefactsInv, ArtefactsNext PROVE IndexKept
  <2> SUFFICES ASSUME Present, row.sections = "enriched", row' # NoRow, row'.sections # "enriched"
               PROVE  \E r \in overtaken : reader[r] = "sections"
    OBVIOUS
  <2> row \in StateRow
    BY <1>1 DEF ArtefactsInv, ArtefactsTypeOK, Present
  <2> USE DEF StateRow, SetStatus
  <2>1. ~Pipeline
    BY DEF Pipeline, StartRun, Load, LoadFails, Extract, Figures, SaveTree, ClearChunks,
           InsertChunks, Commit, RunFails, Crash, Requeue, LateReport
  <2>2. ASSUME NEW n \in 1..MaxRuns PROVE ~EnrichStep(n)
    BY DEF EnrichStep, SaveSections, SaveDebug, EnrichmentFails
  <2>3. ASSUME NEW d \in Deleters PROVE ~DeleteStep(d)
    BY DEF DeleteStep, RequestDelete, DeleteChunks, DeleteFiles, DeleteFilesFails, DeleteRow,
           DeleteListing, DeleteFails
  <2>4. PICK r \in Readers : ReadStep(r)
    BY <1>1, <2>1, <2>2, <2>3 DEF ArtefactsNext
  <2>5. reader[r] = "sections"
    BY <2>4 DEF ReadStep, ReadSections, SaveHeuristic, LookAtPage, CachePage
  <2> QED
    BY <1>1, <2>5 DEF ArtefactsInv, OvertakenInv
<1>2. ASSUME ArtefactsInv, [ArtefactsNext]_artefacts PROVE [IndexKept]_artefacts
  BY <1>1, <1>2
<1> QED
  BY <1>2, Invariant, PTL DEF ArtefactsSpec, EnrichedIndexIsKept

-----------------------------------------------------------------------------
(* Enrichment: the groups *)

\* gs cuts 1..n into pieces, each from after one bound to the next.
CutBy(gs, n, b) ==
    /\ b \in [0..Len(gs) -> 0..n] /\ b[0] = 0 /\ b[Len(gs)] = n
    /\ \A g \in 1..Len(gs) : b[g - 1] < b[g] /\ gs[g] = [k \in 1..(b[g] - b[g - 1]) |-> b[g - 1] + k]
Pieces(gs, n) == gs \in Seq(Seq(1..n)) /\ \E b : CutBy(gs, n, b)

\* The bounds of pieces grow.
LEMMA BoundsGrow ==
    ASSUME NEW n \in Nat, NEW gs, Len(gs) \in Nat, NEW b, CutBy(gs, n, b),
           NEW g \in 0..Len(gs), NEW h \in 0..Len(gs), g <= h
    PROVE  b[g] <= b[h]
<1> DEFINE S == {i \in 0..(h - g) : b[g] <= b[g + i]}
<1>0. \A k \in 0..Len(gs) : b[k] \in Nat
  BY DEF CutBy
<1>1. 0 \in S
  <2>1. 0 \in 0..(h - g) /\ g + 0 = g
    OBVIOUS
  <2> QED BY <1>0, <2>1
<1>2. ASSUME NEW i \in 1..(h - g), i - 1 \in S PROVE i \in S
  <2>1. g + i \in 1..Len(gs) /\ (g + i) - 1 = g + (i - 1) /\ i \in 0..(h - g)
    OBVIOUS
  <2>2. b[g + (i - 1)] < b[g + i]
    BY <2>1 DEF CutBy
  <2>3. b[g] <= b[g + (i - 1)]
    BY <1>2
  <2>4. b[g] \in Nat /\ b[g + i] \in Nat /\ b[g + (i - 1)] \in Nat
    <3>1. g \in 0..Len(gs) /\ g + i \in 0..Len(gs) /\ g + (i - 1) \in 0..Len(gs)
      BY <2>1
    <3> QED BY <1>0, <3>1
  <2> QED BY <2>1, <2>2, <2>3, <2>4
<1>3. h - g \in Nat /\ h - g \in 0..(h - g) /\ g + (h - g) = h
  OBVIOUS
<1> HIDE DEF S
<1>4. h - g \in S
  BY <1>1, <1>2, <1>3, UpTo
<1> QED
  BY <1>3, <1>4 DEF S

\* Each number is in one piece.
LEMMA OnePiece ==
    ASSUME NEW n \in Nat, NEW gs, Pieces(gs, n), NEW s \in 1..n
    PROVE  \E g \in 1..Len(gs) : \A h \in 1..Len(gs) : s \in Range(gs[h]) <=> h = g
<1>1. Len(gs) \in Nat
  BY DEF Pieces
<1>2. PICK b : CutBy(gs, n, b)
  BY DEF Pieces
<1>3. \A g \in 0..Len(gs) : b[g] \in Nat
  BY <1>2 DEF CutBy
<1>4. \A h \in 1..Len(gs) : s \in Range(gs[h]) <=> b[h - 1] < s /\ s <= b[h]
  <2> SUFFICES ASSUME NEW h \in 1..Len(gs) PROVE s \in Range(gs[h]) <=> b[h - 1] < s /\ s <= b[h]
    OBVIOUS
  <2>1. b[h] \in Nat /\ b[h - 1] \in Nat /\ gs[h] = [k \in 1..(b[h] - b[h - 1]) |-> b[h - 1] + k]
    BY <1>1, <1>2, <1>3 DEF CutBy
  <2>2. ASSUME s \in Range(gs[h]) PROVE b[h - 1] < s /\ s <= b[h]
    BY <2>1, <2>2 DEF Range
  <2>3. ASSUME b[h - 1] < s, s <= b[h] PROVE s \in Range(gs[h])
    <3>1. s - b[h - 1] \in 1..(b[h] - b[h - 1]) /\ b[h - 1] + (s - b[h - 1]) = s
      BY <2>1, <2>3
    <3> QED BY <2>1, <3>1 DEF Range
  <2> QED BY <2>2, <2>3
<1>5. PICK g \in {k \in 0..Len(gs) : s <= b[k]} : \A k \in {k \in 0..Len(gs) : s <= b[k]} : g <= k
  <2> DEFINE T == {k \in 0..Len(gs) : s <= b[k]}
  <2>1. Len(gs) \in T
    BY <1>1, <1>2 DEF CutBy
  <2>2. T \in SUBSET Nat
    BY <1>1
  <2> QED BY <2>1, <2>2, LeastOfNat
<1>6. g \in 1..Len(gs) /\ b[g - 1] < s /\ s <= b[g]
  <2>1. g # 0 /\ g \in 0..Len(gs)
    BY <1>2, <1>5 DEF CutBy
  <2>2. g - 1 \in 0..Len(gs) /\ ~(g <= g - 1)
    BY <1>1, <2>1
  <2>3. ~(s <= b[g - 1])
    BY <1>5, <2>2
  <2> QED BY <1>1, <1>3, <1>5, <2>1, <2>2, <2>3
<1>7. ASSUME NEW h \in 1..Len(gs), b[h - 1] < s, s <= b[h] PROVE h = g
  <2>1. h <= g - 1 => b[h] <= b[g - 1]
    BY <1>1, <1>2, <1>6, BoundsGrow
  <2>2. g <= h - 1 => b[g] <= b[h - 1]
    BY <1>1, <1>2, <1>6, BoundsGrow
  <2>3. b[h] \in Nat /\ b[h - 1] \in Nat /\ b[g] \in Nat /\ b[g - 1] \in Nat
    BY <1>1, <1>3, <1>6
  <2> QED BY <1>1, <1>6, <1>7, <2>1, <2>2, <2>3, SMTT(30)
<1> QED
  BY <1>4, <1>6, <1>7

\* Pieces put together are what was cut.
LEMMA PiecesFlatten ==
    ASSUME NEW n \in Nat, NEW gs, Pieces(gs, n)
    PROVE  FlattenSeq(gs) = [k \in 1..n |-> k]
<1> DEFINE m == Len(gs)
           Rec(f) == f = [i \in 1..m |-> IF i = 1 THEN gs[i] ELSE f[i - 1] \o gs[i]]
<1>1. m \in Nat
  BY DEF Pieces
<1>2. PICK b : CutBy(gs, n, b)
  BY DEF Pieces
<1> DEFINE w == [g \in 1..m |-> [k \in 1..b[g] |-> k]]
<1>3. CASE m = 0
  <2>1. gs = <<>> /\ n = 0
    BY <1>2, <1>3 DEF CutBy, Pieces
  <2> QED BY <1>3, <2>1 DEF FlattenSeq
<1>4. CASE m # 0
  <2>1. FlattenSeq(gs) = (CHOOSE f : Rec(f))[m]
    BY <1>4 DEF FlattenSeq
  <2>2. \A g \in 0..m : b[g] \in Nat
    BY <1>2 DEF CutBy
  <2>3. ASSUME NEW g \in 1..m
        PROVE  [k \in 1..b[g] |-> k] = IF g = 1 THEN gs[g] ELSE [k \in 1..b[g - 1] |-> k] \o gs[g]
    <3>1. b[g] \in Nat /\ b[g - 1] \in Nat /\ b[g - 1] < b[g]
          /\ gs[g] = [k \in 1..(b[g] - b[g - 1]) |-> b[g - 1] + k]
      BY <1>1, <1>2, <2>2 DEF CutBy
    <3>2. CASE g = 1
      <4>1. b[g - 1] = 0
        BY <1>2, <3>2 DEF CutBy
      <4> QED BY <3>1, <3>2, <4>1
    <3>3. CASE g # 1
      <4> DEFINE p == b[g - 1]
                 q == b[g]
      <4>1. ASSUME NEW i \in Nat, NEW j \in Nat, i < j
            PROVE  [k \in 1..j |-> k] = [k \in 1..i |-> k] \o [k \in 1..(j - i) |-> i + k]
        <5> DEFINE x == [k \in 1..i |-> k]
                   y == [k \in 1..(j - i) |-> i + k]
        <5>1. x \in Seq(Nat) /\ y \in Seq(Nat) /\ Len(x) = i /\ Len(y) = j - i
          BY <4>1
        <5>2. /\ x \o y \in Seq(Nat) /\ Len(x \o y) = j
              /\ \A k \in 1..j : (x \o y)[k] = IF k <= i THEN x[k] ELSE y[k - i]
          <6>1. i + (j - i) = j
            BY <4>1
          <6> HIDE DEF x, y
          <6>2. /\ x \o y \in Seq(Nat) /\ Len(x \o y) = Len(x) + Len(y)
                /\ \A k \in 1..(Len(x) + Len(y)) :
                      (x \o y)[k] = IF k <= Len(x) THEN x[k] ELSE y[k - Len(x)]
            BY <5>1, ConcatProperties
          <6> QED BY <5>1, <6>1, <6>2
        <5>3. \A k \in 1..j : (x \o y)[k] = k
          BY <4>1, <5>2
        <5> HIDE DEF x, y
        <5>4. x \o y = [k \in 1..j |-> (x \o y)[k]]
          BY <5>2, ByElements
        <5>5. x \o y = [k \in 1..j |-> k]
          BY <5>3, <5>4
        <5> QED BY <5>5 DEF x, y
      <4>2. [k \in 1..q |-> k] = [k \in 1..p |-> k] \o [k \in 1..(q - p) |-> p + k]
        <5>1. p \in Nat /\ q \in Nat /\ p < q
          BY <3>1
        <5> HIDE DEF p, q
        <5> QED BY <4>1, <5>1
      <4> QED BY <3>1, <3>3, <4>2
    <3> QED BY <3>2, <3>3
  <2>4. Rec(w)
    <3>1. ASSUME NEW g \in 1..m PROVE w[g] = IF g = 1 THEN gs[g] ELSE w[g - 1] \o gs[g]
      <4>1. g # 1 => g - 1 \in 1..m
        BY <1>1
      <4> QED BY <2>3, <4>1
    <3> HIDE DEF m
    <3> QED BY <3>1
  <2>5. PICK f : Rec(f) /\ FlattenSeq(gs) = f[m]
    <3> HIDE DEF Rec, w
    <3> QED BY <2>1, <2>4
  <2> DEFINE S == {i \in 0..m : i # 0 => f[i] = [k \in 1..b[i] |-> k]}
  <2>6. 0 \in S
    BY <1>1
  <2>7. ASSUME NEW i \in 1..m, i - 1 \in S PROVE i \in S
    <3>1. f[i] = IF i = 1 THEN gs[i] ELSE f[i - 1] \o gs[i]
      BY <2>5
    <3>2. i # 1 => f[i - 1] = [k \in 1..b[i - 1] |-> k]
      BY <2>7
    <3>3. f[i] = [k \in 1..b[i] |-> k]
      <4> HIDE DEF m, S, Rec
      <4> QED BY <2>3, <3>1, <3>2
    <3> QED BY <3>3
  <2>8. m \in S
    <3> HIDE DEF S, m
    <3>1. \A i \in 0..m : i \in S
      BY <1>1, <2>6, <2>7, UpTo
    <3> QED BY <1>1, <3>1
  <2>9. b[m] = n
    BY <1>2 DEF CutBy
  <2> QED BY <1>1, <1>4, <2>5, <2>8, <2>9
<1> QED
  BY <1>3, <1>4

-----------------------------------------------------------------------------
(* Enrichment: packing *)

Sections == Len(bodies)
BodiesOK == bodies \in Seq(Nat)

PackStep(gs, s) ==
    IF gs # <<>> /\ Fits(Append(Last(gs), s)) THEN Append(Front(gs), Append(Last(gs), s))
    ELSE Append(gs, <<s>>)

\* The groups of the first sections: pieces of them that fit or are one section.
PackedTo(gs, i) ==
    Pieces(gs, i) /\ \A g \in 1..Len(gs) : Fits(gs[g]) \/ Len(gs[g]) = 1

\* The last of some pieces, and those before it.
LEMMA LastGroup ==
    ASSUME NEW A, NEW gs \in Seq(Seq(A)), gs # <<>>
    PROVE  /\ Len(gs) \in Nat /\ Len(gs) > 0 /\ Last(gs) = gs[Len(gs)] /\ Last(gs) \in Seq(A)
           /\ Front(gs) \in Seq(Seq(A)) /\ Len(Front(gs)) = Len(gs) - 1
           /\ \A g \in 1..(Len(gs) - 1) : Front(gs)[g] = gs[g]
<1>1. Len(gs) \in Nat /\ Len(gs) > 0 /\ Last(gs) = gs[Len(gs)] /\ Last(gs) \in Seq(A)
  BY DEF Last
<1>2. Front(gs) = [i \in 1..(Len(gs) - 1) |-> gs[i]]
  BY <1>1 DEF Front
<1>3. \A i \in 1..(Len(gs) - 1) : gs[i] \in Seq(A)
  BY <1>1
<1>4. Front(gs) \in Seq(Seq(A)) /\ Len(Front(gs)) = Len(gs) - 1
  BY <1>1, <1>2, <1>3
<1> QED
  BY <1>1, <1>2, <1>4

\* A group that gets a section, or a new one, is a group of sections.
LEMMA PackStepType ==
    ASSUME NEW A, NEW gs \in Seq(Seq(A)), NEW s \in A
    PROVE  PackStep(gs, s) \in Seq(Seq(A))
<1>1. <<s>> \in Seq(A)
  OBVIOUS
<1>2. CASE gs # <<>>
  <2>1. Last(gs) \in Seq(A) /\ Front(gs) \in Seq(Seq(A))
    BY <1>2, LastGroup
  <2>2. Append(Last(gs), s) \in Seq(A)
    BY <2>1
  <2>3. Append(Front(gs), Append(Last(gs), s)) \in Seq(Seq(A)) /\ Append(gs, <<s>>) \in Seq(Seq(A))
    BY <1>1, <2>1, <2>2
  <2> QED BY <2>3 DEF PackStep
<1>3. CASE gs = <<>>
  BY <1>1, <1>3 DEF PackStep
<1> QED
  BY <1>2, <1>3

\* The fold of Packed, one section after the other.
LEMMA PackedBySection ==
    ASSUME BodiesOK, ~Fits(Positions(bodies))
    PROVE  \E h : /\ h[0] = <<>> /\ h[Sections] = Packed
                  /\ \A i \in 1..Sections : h[i] = PackStep(h[i - 1], i)
<1> DEFINE n == Sections
           A == Seq(Seq(1..n))
           F == [p \in (1..n) \X A |-> PackStep(p[2], p[1])]
           Iter(g) == g = [t \in SUBSET (1..n) |->
                             IF t = {} THEN <<>>
                             ELSE PackStep(g[t \ {Max(t)}], [j \in 1..n |-> j][Max(t)])]
<1>0. n \in Nat /\ DOMAIN bodies = 1..n
  BY DEF BodiesOK, Sections
<1>1. Packed = (CHOOSE g : Iter(g))[1..n]
  BY <1>0 DEF Packed, Positions, FoldLeft, MapThenFoldSet, PackStep
<1>2. \A i \in 1..n, a \in A : F[<<i, a>>] = PackStep(a, i) /\ F[<<i, a>>] \in A
  BY PackStepType
<1>3. PICK g : FoldsUp(g, F, <<>>, n)
  BY <1>0, FoldsExist
<1>4. \A t \in SUBSET (1..n) : g[t] \in A
  <2> HIDE DEF F, A
  <2>1. <<>> \in A
    BY DEF A
  <2> HIDE DEF n
  <2> QED BY <1>0, <1>2, <1>3, <2>1, FoldsWithin
<1>5. Iter(g)
  <2>1. ASSUME NEW t \in SUBSET (1..n), t # {}
        PROVE  F[<<Max(t), g[t \ {Max(t)}]>>] = PackStep(g[t \ {Max(t)}], [j \in 1..n |-> j][Max(t)])
    <3>1. Max(t) \in 1..n
      BY <1>0, <2>1, LastPosition
    <3>2. g[t \ {Max(t)}] \in A
      BY <1>4
    <3> HIDE DEF F, A, n
    <3> QED BY <1>2, <3>1, <3>2
  <2> HIDE DEF F, A, n
  <2> QED BY <1>3, <2>1 DEF FoldsUp
<1>6. PICK f : Iter(f) /\ Packed = f[1..n]
  <2> HIDE DEF Iter
  <2> QED BY <1>1, <1>5
<1> DEFINE h == [i \in 0..n |-> f[1..i]]
<1> HIDE DEF n, A, F
<1>8. h[0] = <<>> /\ h[n] = Packed
  <2>1. 1..0 = {} /\ f[{}] = <<>>
    BY <1>6
  <2>2. f[1..0] = <<>>
    BY <2>1
  <2>3. 0 \in 0..n /\ n \in 0..n
    BY <1>0
  <2> QED BY <1>6, <2>2, <2>3
<1>9. ASSUME NEW i \in 1..n PROVE h[i] = PackStep(h[i - 1], i)
  <2>1. Max(1..i) = i /\ (1..i) \ {Max(1..i)} = 1..(i - 1) /\ 1..i # {} /\ 1..i \in SUBSET (1..n)
    BY <1>0, MaxOfPrefix
  <2>2. f[1..i] = PackStep(f[1..(i - 1)], i)
    BY <1>6, <2>1
  <2> QED BY <1>0, <2>2
<1> HIDE DEF h
<1> QED
  BY <1>8, <1>9 DEF n

\* A section more is a piece more, or one more in the last piece.
LEMMA PackOne ==
    ASSUME NEW i \in Nat \ {0}, NEW gs, PackedTo(gs, i - 1)
    PROVE  PackedTo(PackStep(gs, i), i)
<1> DEFINE m == Len(gs)
           to == PackStep(gs, i)
<1>0. \A A, B : A \subseteq B => Seq(Seq(A)) \subseteq Seq(Seq(B))
  OBVIOUS
<1>1. gs \in Seq(Seq(1..i)) /\ m \in Nat /\ \A g \in 1..m : gs[g] \in Seq(1..i)
  <2>1. gs \in Seq(Seq(1..(i - 1)))
    BY DEF PackedTo, Pieces
  <2>2. 1..(i - 1) \subseteq 1..i
    OBVIOUS
  <2> QED BY <1>0, <2>1, <2>2
<1>2. PICK b : CutBy(gs, i - 1, b)
  BY DEF PackedTo, Pieces
<1>3. to \in Seq(Seq(1..i))
  BY <1>1, PackStepType
<1>4. /\ b \in [0..m -> 0..(i - 1)] /\ b[0] = 0 /\ b[m] = i - 1
      /\ \A g \in 1..m : b[g - 1] < b[g] /\ gs[g] = [k \in 1..(b[g] - b[g - 1]) |-> b[g - 1] + k]
  BY <1>2 DEF CutBy
<1>5. CASE gs # <<>> /\ Fits(Append(Last(gs), i))
  <2>1. to = Append(Front(gs), Append(Last(gs), i))
    BY <1>5 DEF PackStep
  <2>2. /\ m > 0 /\ Last(gs) = gs[m] /\ Front(gs) \in Seq(Seq(1..i)) /\ Len(Front(gs)) = m - 1
        /\ \A g \in 1..(m - 1) : Front(gs)[g] = gs[g]
    BY <1>1, <1>5, LastGroup
  <2>3. Len(to) = m /\ to[m] = Append(gs[m], i) /\ \A g \in 1..(m - 1) : to[g] = gs[g]
    BY <1>1, <2>1, <2>2
  <2> DEFINE c == [g \in 0..m |-> IF g = m THEN i ELSE b[g]]
  <2>4. c \in [0..m -> 0..i] /\ c[0] = 0 /\ c[m] = i
    BY <1>1, <1>4, <2>2
  <2>5. ASSUME NEW g \in 1..m
        PROVE  c[g - 1] < c[g] /\ to[g] = [k \in 1..(c[g] - c[g - 1]) |-> c[g - 1] + k]
    <3>0. g - 1 \in 0..m /\ g - 1 # m /\ g \in 0..m
      <4> HIDE DEF m
      <4> QED BY <1>1
    <3>1. c[g - 1] = b[g - 1] /\ b[g - 1] \in Nat /\ b[g] \in Nat /\ b[g - 1] < b[g]
      <4>1. c[g - 1] = b[g - 1]
        BY <3>0
      <4> HIDE DEF c, to, m
      <4>2. b[g - 1] \in 0..(i - 1) /\ b[g] \in 0..(i - 1)
        BY <1>4, <3>0
      <4>3. b[g - 1] < b[g]
        BY <1>4
      <4> QED BY <4>1, <4>2, <4>3
    <3>2. CASE g # m
      <4>1. c[g] = b[g]
        BY <3>0, <3>2
      <4> HIDE DEF c, to, m
      <4>2. g \in 1..(m - 1)
        BY <1>1, <3>2
      <4>3. to[g] = gs[g]
        BY <2>3, <4>2
      <4> QED BY <1>4, <3>1, <4>1, <4>3
    <3>3. CASE g = m
      <4>1. c[g] = i /\ b[g] = i - 1
        BY <1>4, <3>3, <2>4
      <4>2. gs[m] = [k \in 1..((i - 1) - b[m - 1]) |-> b[m - 1] + k]
        BY <1>4, <3>3
      <4>3. Append(gs[m], i) = [k \in 1..(i - b[m - 1]) |-> b[m - 1] + k]
        <5> DEFINE p == b[m - 1]
                   l == [k \in 1..((i - 1) - p) |-> p + k]
        <5>1. p \in Nat /\ p < i
          BY <3>1, <3>3, <4>1
        <5>2. gs[m] = l
          BY <4>2
        <5> HIDE DEF p
        <5>3. l \in Seq(Nat) /\ Len(l) = (i - 1) - p
          BY <5>1
        <5>4. /\ Len(Append(l, i)) = i - p /\ Append(l, i) \in Seq(Nat)
              /\ \A k \in 1..(i - p) : Append(l, i)[k] = IF k <= (i - 1) - p THEN l[k] ELSE i
          <6> HIDE DEF l
          <6> QED BY <5>1, <5>3
        <5>5. \A k \in 1..(i - p) : Append(l, i)[k] = p + k
          BY <5>1, <5>4
        <5> HIDE DEF l
        <5>6. Append(l, i) = [k \in 1..(i - p) |-> Append(l, i)[k]]
          BY <5>4, ByElements
        <5>7. Append(l, i) = [k \in 1..(i - p) |-> p + k]
          BY <5>5, <5>6
        <5> QED BY <5>2, <5>7 DEF p
      <4> HIDE DEF c
      <4> QED BY <2>3, <3>1, <3>3, <4>1, <4>3
    <3> QED BY <3>2, <3>3
  <2>6. CutBy(to, i, c)
    <3> HIDE DEF c
    <3> QED BY <2>3, <2>4, <2>5 DEF CutBy
  <2>7. \A g \in 1..Len(to) : Fits(to[g]) \/ Len(to[g]) = 1
    <3>1. Fits(to[m])
      BY <1>5, <2>2, <2>3
    <3>2. \A g \in 1..m : g = m \/ g \in 1..(m - 1)
      BY <1>1
    <3> HIDE DEF to
    <3> QED BY <2>3, <3>1, <3>2 DEF PackedTo
  <2> HIDE DEF to, c
  <2> QED BY <1>3, <2>6, <2>7 DEF PackedTo, Pieces, to
<1>6. CASE ~(gs # <<>> /\ Fits(Append(Last(gs), i)))
  <2>1. to = Append(gs, <<i>>)
    BY <1>6 DEF PackStep
  <2>2. Len(to) = m + 1 /\ to[m + 1] = <<i>> /\ \A g \in 1..m : to[g] = gs[g]
    BY <1>1, <2>1
  <2> DEFINE c == [g \in 0..(m + 1) |-> IF g = m + 1 THEN i ELSE b[g]]
  <2>4. c \in [0..(m + 1) -> 0..i] /\ c[0] = 0 /\ c[m + 1] = i /\ c[m] = i - 1
    BY <1>1, <1>4
  <2>5. ASSUME NEW g \in 1..(m + 1)
        PROVE  c[g - 1] < c[g] /\ to[g] = [k \in 1..(c[g] - c[g - 1]) |-> c[g - 1] + k]
    <3>2. CASE g # m + 1
      <4>1. c[g - 1] = b[g - 1] /\ c[g] = b[g] /\ g \in 1..m
        BY <1>1, <3>2
      <4> HIDE DEF c, to
      <4>2. to[g] = gs[g]
        BY <2>2, <4>1
      <4>3. b[g - 1] < b[g] /\ gs[g] = [k \in 1..(b[g] - b[g - 1]) |-> b[g - 1] + k]
        BY <1>4, <4>1
      <4> QED BY <4>1, <4>2, <4>3
    <3>3. CASE g = m + 1
      <4>1. c[g] = i /\ c[g - 1] = i - 1 /\ to[g] = <<i>>
        BY <1>1, <2>2, <2>4, <3>3
      <4>2. <<i>> = [k \in 1..1 |-> (i - 1) + k]
        OBVIOUS
      <4>3. i - (i - 1) = 1 /\ i - 1 < i
        OBVIOUS
      <4> HIDE DEF c
      <4> QED BY <4>1, <4>2, <4>3
    <3> QED BY <3>2, <3>3
  <2>6. CutBy(to, i, c)
    <3> HIDE DEF c
    <3> QED BY <1>1, <2>2, <2>4, <2>5 DEF CutBy
  <2>7. \A g \in 1..Len(to) : Fits(to[g]) \/ Len(to[g]) = 1
    <3>1. Len(to[m + 1]) = 1
      BY <2>2
    <3>2. \A g \in 1..(m + 1) : g = m + 1 \/ g \in 1..m
      BY <1>1
    <3> HIDE DEF to
    <3> QED BY <2>2, <3>1, <3>2 DEF PackedTo
  <2> HIDE DEF to, c
  <2> QED BY <1>3, <2>6, <2>7 DEF PackedTo, Pieces, to
<1> QED
  BY <1>5, <1>6

\* The groups for OpenRouter are pieces of the document that respect the budget.
LEMMA PackedIsPieces ==
    ASSUME BodiesOK, bodies # <<>>
    PROVE  PackedTo(Packed, Sections)
<1>0. Sections \in Nat /\ Sections > 0 /\ DOMAIN bodies = 1..Sections
  BY DEF BodiesOK, Sections
<1>1. CASE Fits(Positions(bodies))
  <2> DEFINE all == [k \in 1..Sections |-> k]
             b == [g \in 0..1 |-> IF g = 0 THEN 0 ELSE Sections]
  <2>1. Positions(bodies) = all /\ Packed = <<all>>
    BY <1>0, <1>1 DEF Packed, Positions
  <2>2. all \in Seq(1..Sections)
    BY <1>0
  <2>3. CutBy(<<all>>, Sections, b)
    <3>1. b[0] = 0 /\ b[1] = Sections /\ b \in [0..1 -> 0..Sections]
      BY <1>0
    <3>2. all = [k \in 1..(Sections - 0) |-> 0 + k]
      BY <1>0
    <3>3. \A g \in 1..1 : b[g - 1] < b[g] /\ <<all>>[g] = [k \in 1..(b[g] - b[g - 1]) |-> b[g - 1] + k]
      <4>1. b[1 - 1] = 0
        BY <3>1
      <4> HIDE DEF b, all
      <4> QED BY <1>0, <3>1, <3>2, <4>1
    <3> HIDE DEF b, all
    <3> QED BY <3>1, <3>3 DEF CutBy
  <2>4. <<all>> \in Seq(Seq(1..Sections)) /\ Len(<<all>>) = 1 /\ <<all>>[1] = all
    <3> HIDE DEF all
    <3> QED BY <2>2
  <2> HIDE DEF all, b
  <2> QED BY <1>1, <2>1, <2>3, <2>4 DEF PackedTo, Pieces
<1>2. CASE ~Fits(Positions(bodies))
  <2>1. PICK h : /\ h[0] = <<>> /\ h[Sections] = Packed
                 /\ \A i \in 1..Sections : h[i] = PackStep(h[i - 1], i)
    BY <1>2, PackedBySection
  <2> DEFINE S == {i \in 0..Sections : PackedTo(h[i], i)}
  <2>2. 0 \in S
    <3> DEFINE b == [g \in 0..0 |-> 0]
    <3>1. <<>> \in Seq(Seq(1..0)) /\ Len(<<>>) = 0
      OBVIOUS
    <3>2. CutBy(<<>>, 0, b)
      BY DEF CutBy
    <3> HIDE DEF b
    <3>3. PackedTo(<<>>, 0)
      BY <3>1, <3>2 DEF PackedTo, Pieces
    <3> QED BY <1>0, <2>1, <3>3
  <2>3. ASSUME NEW i \in 1..Sections, i - 1 \in S PROVE i \in S
    <3>1. PackedTo(h[i - 1], i - 1) /\ i \in Nat \ {0} /\ i \in 0..Sections
      BY <1>0, <2>3
    <3>2. PackedTo(PackStep(h[i - 1], i), i)
      BY <3>1, PackOne
    <3> QED BY <2>1, <3>1, <3>2
  <2> HIDE DEF S
  <2>4. Sections \in S
    BY <1>0, <2>2, <2>3, UpTo
  <2> QED BY <2>1, <2>4 DEF S
<1> QED
  BY <1>1, <1>2

\* The batches for Ollama are pieces of the document.
LEMMA BatchesArePieces ==
    ASSUME BodiesOK
    PROVE  Pieces(Batches, Sections)
<1> DEFINE n == Sections
           B == BatchSize
           K == (n + B - 1) \div B
           b == [g \in 0..K |-> IF g * B < n THEN g * B ELSE n]
<1>0. n \in Nat /\ DOMAIN bodies = 1..n /\ n = Len(bodies) /\ B \in Nat /\ B > 0
  BY EnrichmentAssumption DEF BodiesOK, Sections, EnrichmentAssumption
<1>1. K \in Nat /\ K * B >= n /\ \A g \in 1..K : (g - 1) * B < n /\ (g - 1) * B \in Nat
  <2> DEFINE x == n + B - 1
             r == x % B
  <2>1. x \in Nat
    BY <1>0
  <2> HIDE DEF x
  <2>2. (x \div B) \in Nat /\ r \in 0..(B - 1) /\ x = (x \div B) * B + r
    <3> HIDE DEF B
    <3> QED BY <1>0, <2>1
  <2> DEFINE q == x \div B
  <2>3. K = q
    BY DEF x
  <2> HIDE DEF q, r, B, n, K
  <2>4. q \in Nat /\ q * B \in Nat /\ q * B = (n + B - 1) - r
    BY <1>0, <2>2 DEF q, x
  <2>5. q * B >= n /\ q * B <= n + B - 1
    BY <1>0, <2>2, <2>4, SMTT(30)
  <2>6. ASSUME NEW g \in 1..q PROVE (g - 1) * B < n /\ (g - 1) * B \in Nat
    <3>1. g \in Nat /\ g >= 1 /\ g <= q /\ q - g \in Nat
      BY <2>4
    <3>2. (g - 1) * B \in Nat
      BY <1>0, <3>1
    <3>3. (q - g) * B \in Nat
      BY <1>0, <3>1
    <3>4. q * B = (g - 1) * B + (q - g) * B + B
      BY <1>0, <2>4, <3>1
    <3> QED BY <1>0, <2>5, <3>2, <3>3, <3>4
  <2> QED BY <2>3, <2>4, <2>5, <2>6
<1> HIDE DEF K
<1>2. b \in [0..K -> 0..n] /\ b[0] = 0 /\ b[K] = n
  <2>1. \A g \in 0..K : g * B \in Nat
    BY <1>0, <1>1
  <2>2. 0 * B = 0
    BY <1>0
  <2> HIDE DEF n, B
  <2>3. \A g \in 0..K : (IF g * B < n THEN g * B ELSE n) \in 0..n
    BY <1>0, <2>1
  <2>4. b \in [0..K -> 0..n]
    BY <2>3
  <2>5. b[0] = IF 0 * B < n THEN 0 * B ELSE n
    BY <1>1
  <2>6. b[K] = IF K * B < n THEN K * B ELSE n
    BY <1>1
  <2>7. K * B \in Nat
    BY <1>1, <2>1
  <2> HIDE DEF b
  <2>8. K * B >= n
    BY <1>1
  <2>9. b[0] = 0
    BY <1>0, <2>2, <2>5
  <2>10. b[K] = n
    BY <1>0, <2>6, <2>7, <2>8
  <2> QED BY <2>4, <2>9, <2>10
<1>3. ASSUME NEW g \in 1..K PROVE b[g - 1] = (g - 1) * B /\ b[g - 1] < b[g] /\ b[g] \in 1..n
  <2>1. g - 1 \in 0..K /\ g \in 0..K
    BY <1>1
  <2>2. b[g - 1] = (g - 1) * B
    BY <1>1, <2>1
  <2>3. g * B = (g - 1) * B + B /\ g * B \in Nat
    BY <1>0, <1>1
  <2>4. (g - 1) * B < n /\ (g - 1) * B \in Nat
    BY <1>1
  <2>5. b[g] = IF g * B < n THEN g * B ELSE n
    BY <2>1
  <2> HIDE DEF b, n, B
  <2> QED BY <1>0, <2>2, <2>3, <2>4, <2>5
<1> DEFINE all == [k \in 1..n |-> k]
<1>4. Len(Batches) = K /\ \A g \in 1..K : Batches[g] = SubSeq(all, b[g - 1] + 1, b[g])
  <2>1. Positions(bodies) = all
    BY <1>0 DEF Positions
  <2>2. Batches = [g \in 1..K |-> SubSeq(all, (g - 1) * B + 1, IF g * B < n THEN g * B ELSE n)]
    BY <1>0, <2>1 DEF Batches, K
  <2>3. \A g \in 1..K : b[g] = IF g * B < n THEN g * B ELSE n
    BY <1>1
  <2> HIDE DEF all, b, n, B
  <2>4. Len(Batches) = K
    BY <1>1, <2>2
  <2>5. ASSUME NEW g \in 1..K PROVE Batches[g] = SubSeq(all, b[g - 1] + 1, b[g])
    BY <1>3, <2>2, <2>3
  <2> QED BY <2>4, <2>5
<1>5. ASSUME NEW p \in Nat, NEW q \in 1..n, p < q
      PROVE  /\ SubSeq(all, p + 1, q) = [k \in 1..(q - p) |-> p + k]
             /\ SubSeq(all, p + 1, q) \in Seq(1..n)
  <2>1. all \in Seq(1..n) /\ Len(all) = n /\ \A k \in 1..n : all[k] = k
    BY <1>0
  <2> HIDE DEF all, n
  <2>2. p + 1 \in 1..n /\ q \in 1..n
    BY <1>0, <1>5
  <2>3. /\ SubSeq(all, p + 1, q) \in Seq(1..n) /\ Len(SubSeq(all, p + 1, q)) = q - (p + 1) + 1
        /\ \A k \in 1..(q - (p + 1) + 1) : SubSeq(all, p + 1, q)[k] = all[p + 1 + k - 1]
    BY <1>0, <1>5, <2>1, <2>2, SubSeqProperties
  <2>4. q - (p + 1) + 1 = q - p /\ \A k \in 1..(q - p) : p + 1 + k - 1 = p + k /\ p + k \in 1..n
    BY <1>0, <1>5
  <2>5. \A k \in 1..(q - p) : SubSeq(all, p + 1, q)[k] = p + k
    BY <2>1, <2>3, <2>4
  <2>6. SubSeq(all, p + 1, q) = [k \in 1..(q - p) |-> SubSeq(all, p + 1, q)[k]]
    BY <2>3, <2>4
  <2> QED BY <2>3, <2>5, <2>6
<1> HIDE DEF all, b, n, B
<1>6. \A g \in 1..K : /\ b[g - 1] \in Nat /\ b[g] \in 1..n /\ b[g - 1] < b[g]
                      /\ Batches[g] = [k \in 1..(b[g] - b[g - 1]) |-> b[g - 1] + k]
                      /\ Batches[g] \in Seq(1..n)
  <2> SUFFICES ASSUME NEW g \in 1..K
               PROVE  /\ b[g - 1] \in Nat /\ b[g] \in 1..n /\ b[g - 1] < b[g]
                      /\ Batches[g] = [k \in 1..(b[g] - b[g - 1]) |-> b[g - 1] + k]
                      /\ Batches[g] \in Seq(1..n)
    OBVIOUS
  <2>1. b[g - 1] \in Nat /\ b[g] \in 1..n /\ b[g - 1] < b[g]
    BY <1>1, <1>3
  <2>2. Batches[g] = SubSeq(all, b[g - 1] + 1, b[g])
    BY <1>4
  <2> QED BY <1>5, <2>1, <2>2
<1>7. CutBy(Batches, n, b)
  BY <1>2, <1>4, <1>6 DEF CutBy
<1>8. Batches \in Seq(Seq(1..n))
  <2>1. DOMAIN Batches = 1..K /\ Batches = [g \in DOMAIN Batches |-> Batches[g]]
    BY <1>0, <1>1 DEF Batches, K, n, B
  <2>2. Batches \in [1..K -> Seq(1..n)]
    BY <1>6, <2>1
  <2> QED BY <1>1, <2>2
<1> QED
  BY <1>7, <1>8 DEF Pieces, n

-----------------------------------------------------------------------------
(* Enrichment: the index *)

MergeOK == groups \in Seq(Seq(1..Sections)) /\ DOMAIN bodies = 1..Sections

FromTexts == [s \in DOMAIN bodies |-> FromText(s)]
Entries ==
    [DOMAIN bodies -> {FromText(s) : s \in DOMAIN bodies} \union {From(g) : g \in 1..Len(groups)}]

\* The entries that known has after one group more, with either provider.
RouterStep(known, g) ==
    IF g \notin Answered THEN known
    ELSE [s \in DOMAIN bodies |-> IF s \in answers[g].named THEN From(g) ELSE known[s]]
OllamaStep(known, g) ==
    [s \in DOMAIN bodies |->
        IF g \in Answered /\ s \in answers[g].named /\ ~answers[g].blank THEN From(g)
        ELSE IF s \in Range(groups[g]) THEN FromText(s) ELSE known[s]]

\* x is the entry for s of the last group in S, or made of the section when S is empty.
LastSays(x, S, s) ==
    IF S = {} THEN x = FromText(s) ELSE \E g \in S : x = From(g) /\ \A h \in S : h <= g
NamedByRouter(s, i) == {g \in 1..i : g \in Answered /\ s \in answers[g].named}
NamedByOllama(s, first, i) ==
    {g \in first..i : g \in Answered /\ s \in answers[g].named /\ ~answers[g].blank}

\* Each step has an entry for each section.
LEMMA EntriesKept ==
    /\ FromTexts \in Entries
    /\ \A known \in Entries, g \in 1..Len(groups) :
          RouterStep(known, g) \in Entries /\ OllamaStep(known, g) \in Entries
<1> DEFINE E == {FromText(s) : s \in DOMAIN bodies} \union {From(g) : g \in 1..Len(groups)}
<1>1. \A s \in DOMAIN bodies : FromText(s) \in E
  OBVIOUS
<1>2. \A g \in 1..Len(groups) : From(g) \in E
  OBVIOUS
<1>3. Entries = [DOMAIN bodies -> E]
  BY DEF Entries
<1> HIDE DEF E
<1> QED
  BY <1>1, <1>2, <1>3 DEF FromTexts, RouterStep, OllamaStep

\* The fold of MergedByOpenRouter, one group after the other.
LEMMA RouterByGroup ==
    ASSUME MergeOK
    PROVE  \E h : /\ h[0] = FromTexts /\ h[Len(groups)] = MergedByOpenRouter
                  /\ \A i \in 1..Len(groups) : h[i - 1] \in Entries /\ h[i] = RouterStep(h[i - 1], i)
                  /\ h[Len(groups)] \in Entries
<1> DEFINE n == Len(groups)
           A == Entries
           F == [p \in (1..n) \X A |-> RouterStep(p[2], p[1])]
           Iter(g) == g = [t \in SUBSET (1..n) |->
                             IF t = {} THEN FromTexts
                             ELSE RouterStep(g[t \ {Max(t)}], [j \in 1..n |-> j][Max(t)])]
<1>0. n \in Nat /\ DOMAIN groups = 1..n
  BY DEF MergeOK
<1>1. MergedByOpenRouter = (CHOOSE g : Iter(g))[1..n]
  BY <1>0 DEF MergedByOpenRouter, Positions, FoldLeft, MapThenFoldSet, RouterStep, FromTexts
<1>2. \A i \in 1..n, a \in A : F[<<i, a>>] = RouterStep(a, i) /\ RouterStep(a, i) \in A
  BY EntriesKept
<1>3. PICK g : FoldsUp(g, F, FromTexts, n)
  BY <1>0, FoldsExist
<1>4. \A t \in SUBSET (1..n) : g[t] \in A
  <2>0. FromTexts \in A
    BY EntriesKept
  <2> HIDE DEF F, A
  <2>1. \A i \in 1..n, a \in A : F[<<i, a>>] \in A
    BY <1>2
  <2> HIDE DEF n
  <2> QED BY <1>0, <2>0, <1>3, <2>1, FoldsWithin
<1>5. Iter(g)
  <2>1. ASSUME NEW t \in SUBSET (1..n), t # {}
        PROVE  F[<<Max(t), g[t \ {Max(t)}]>>] = RouterStep(g[t \ {Max(t)}], [j \in 1..n |-> j][Max(t)])
    <3>1. Max(t) \in 1..n
      BY <1>0, <2>1, LastPosition
    <3>2. g[t \ {Max(t)}] \in A
      BY <1>4
    <3> HIDE DEF F, A, n
    <3> QED BY <1>2, <3>1, <3>2
  <2> HIDE DEF F, A, n
  <2> QED BY <1>3, <2>1 DEF FoldsUp
<1>6. PICK f : Iter(f) /\ MergedByOpenRouter = f[1..n]
  <2> HIDE DEF Iter
  <2> QED BY <1>1, <1>5
<1> DEFINE h == [i \in 0..n |-> f[1..i]]
<1> HIDE DEF n, F
<1>7. h[0] = FromTexts /\ h[n] = MergedByOpenRouter
  <2>1. 1..0 = {} /\ f[{}] = FromTexts
    BY <1>6
  <2>2. f[1..0] = FromTexts
    BY <2>1
  <2>3. 0 \in 0..n /\ n \in 0..n
    BY <1>0
  <2> QED BY <1>6, <2>2, <2>3
<1>8. ASSUME NEW i \in 1..n PROVE h[i] = RouterStep(h[i - 1], i)
  <2>1. Max(1..i) = i /\ (1..i) \ {Max(1..i)} = 1..(i - 1) /\ 1..i # {} /\ 1..i \in SUBSET (1..n)
    BY <1>0, MaxOfPrefix
  <2>2. f[1..i] = RouterStep(f[1..(i - 1)], i)
    BY <1>6, <2>1
  <2> QED BY <1>0, <2>2
<1> HIDE DEF h, A
<1>9. \A i \in 0..n : h[i] \in A
  <2> DEFINE T == {i \in 0..n : h[i] \in A}
  <2>1. 0 \in T
    BY <1>0, <1>7, EntriesKept DEF A
  <2>2. ASSUME NEW i \in 1..n, i - 1 \in T PROVE i \in T
    <3>1. i \in 0..n /\ h[i - 1] \in A
      BY <1>0, <2>2
    <3>2. h[i] \in A
      BY <1>2, <1>8, <3>1
    <3> QED BY <3>1, <3>2
  <2> HIDE DEF T
  <2>3. \A i \in 0..n : i \in T
    BY <1>0, <2>1, <2>2, UpTo
  <2> QED BY <2>3 DEF T
<1>10. \A i \in 1..n : i - 1 \in 0..n /\ n \in 0..n
  BY <1>0
<1>11. n \in 0..n
  BY <1>0
<1> QED
  BY <1>7, <1>8, <1>9, <1>10, <1>11 DEF n, A

\* The fold of MergedByOllama, one group after the other.
LEMMA OllamaByGroup ==
    ASSUME MergeOK
    PROVE  \E h : /\ h[0] = FromTexts /\ h[Len(groups)] = MergedByOllama
                  /\ \A i \in 1..Len(groups) : h[i - 1] \in Entries /\ h[i] = OllamaStep(h[i - 1], i)
                  /\ h[Len(groups)] \in Entries
<1> DEFINE n == Len(groups)
           A == Entries
           F == [p \in (1..n) \X A |-> OllamaStep(p[2], p[1])]
           Iter(g) == g = [t \in SUBSET (1..n) |->
                             IF t = {} THEN FromTexts
                             ELSE OllamaStep(g[t \ {Max(t)}], [j \in 1..n |-> j][Max(t)])]
<1>0. n \in Nat /\ DOMAIN groups = 1..n
  BY DEF MergeOK
<1>1. MergedByOllama = (CHOOSE g : Iter(g))[1..n]
  BY <1>0 DEF MergedByOllama, Positions, FoldLeft, MapThenFoldSet, OllamaStep, FromTexts
<1>2. \A i \in 1..n, a \in A : F[<<i, a>>] = OllamaStep(a, i) /\ OllamaStep(a, i) \in A
  BY EntriesKept
<1>3. PICK g : FoldsUp(g, F, FromTexts, n)
  BY <1>0, FoldsExist
<1>4. \A t \in SUBSET (1..n) : g[t] \in A
  <2>0. FromTexts \in A
    BY EntriesKept
  <2> HIDE DEF F, A
  <2>1. \A i \in 1..n, a \in A : F[<<i, a>>] \in A
    BY <1>2
  <2> HIDE DEF n
  <2> QED BY <1>0, <2>0, <1>3, <2>1, FoldsWithin
<1>5. Iter(g)
  <2>1. ASSUME NEW t \in SUBSET (1..n), t # {}
        PROVE  F[<<Max(t), g[t \ {Max(t)}]>>] = OllamaStep(g[t \ {Max(t)}], [j \in 1..n |-> j][Max(t)])
    <3>1. Max(t) \in 1..n
      BY <1>0, <2>1, LastPosition
    <3>2. g[t \ {Max(t)}] \in A
      BY <1>4
    <3> HIDE DEF F, A, n
    <3> QED BY <1>2, <3>1, <3>2
  <2> HIDE DEF F, A, n
  <2> QED BY <1>3, <2>1 DEF FoldsUp
<1>6. PICK f : Iter(f) /\ MergedByOllama = f[1..n]
  <2> HIDE DEF Iter
  <2> QED BY <1>1, <1>5
<1> DEFINE h == [i \in 0..n |-> f[1..i]]
<1> HIDE DEF n, F
<1>7. h[0] = FromTexts /\ h[n] = MergedByOllama
  <2>1. 1..0 = {} /\ f[{}] = FromTexts
    BY <1>6
  <2>2. f[1..0] = FromTexts
    BY <2>1
  <2>3. 0 \in 0..n /\ n \in 0..n
    BY <1>0
  <2> QED BY <1>6, <2>2, <2>3
<1>8. ASSUME NEW i \in 1..n PROVE h[i] = OllamaStep(h[i - 1], i)
  <2>1. Max(1..i) = i /\ (1..i) \ {Max(1..i)} = 1..(i - 1) /\ 1..i # {} /\ 1..i \in SUBSET (1..n)
    BY <1>0, MaxOfPrefix
  <2>2. f[1..i] = OllamaStep(f[1..(i - 1)], i)
    BY <1>6, <2>1
  <2> QED BY <1>0, <2>2
<1> HIDE DEF h, A
<1>9. \A i \in 0..n : h[i] \in A
  <2> DEFINE T == {i \in 0..n : h[i] \in A}
  <2>1. 0 \in T
    BY <1>0, <1>7, EntriesKept DEF A
  <2>2. ASSUME NEW i \in 1..n, i - 1 \in T PROVE i \in T
    <3>1. i \in 0..n /\ h[i - 1] \in A
      BY <1>0, <2>2
    <3>2. h[i] \in A
      BY <1>2, <1>8, <3>1
    <3> QED BY <3>1, <3>2
  <2> HIDE DEF T
  <2>3. \A i \in 0..n : i \in T
    BY <1>0, <2>1, <2>2, UpTo
  <2> QED BY <2>3 DEF T
<1>10. \A i \in 1..n : i - 1 \in 0..n /\ n \in 0..n
  BY <1>0
<1>11. n \in 0..n
  BY <1>0
<1> QED
  BY <1>7, <1>8, <1>9, <1>10, <1>11 DEF n, A

\* The entry of a section is that of the last group that names it.
LEMMA RouterFollows ==
    ASSUME MergeOK
    PROVE  /\ DOMAIN MergedByOpenRouter = DOMAIN bodies
           /\ \A s \in DOMAIN bodies : LastSays(MergedByOpenRouter[s], NamedByRouter(s, Len(groups)), s)
<1>0. Len(groups) \in Nat
  BY DEF MergeOK
<1>1. PICK h : /\ h[0] = FromTexts /\ h[Len(groups)] = MergedByOpenRouter
               /\ \A i \in 1..Len(groups) : h[i - 1] \in Entries /\ h[i] = RouterStep(h[i - 1], i)
               /\ h[Len(groups)] \in Entries
  BY RouterByGroup
<1>2. DOMAIN MergedByOpenRouter = DOMAIN bodies
  BY <1>1 DEF Entries
<1>3. ASSUME NEW s \in DOMAIN bodies
      PROVE  LastSays(MergedByOpenRouter[s], NamedByRouter(s, Len(groups)), s)
  <2> DEFINE T == {i \in 0..Len(groups) : LastSays(h[i][s], NamedByRouter(s, i), s)}
  <2>1. 0 \in T
    <3>1. NamedByRouter(s, 0) = {}
      BY DEF NamedByRouter
    <3>2. h[0][s] = FromText(s)
      BY <1>1 DEF FromTexts
    <3> QED BY <1>0, <3>1, <3>2 DEF LastSays
  <2>2. ASSUME NEW i \in 1..Len(groups), i - 1 \in T PROVE i \in T
    <3>1. h[i] = RouterStep(h[i - 1], i) /\ LastSays(h[i - 1][s], NamedByRouter(s, i - 1), s)
      BY <1>1, <2>2
    <3>2. CASE i \in Answered /\ s \in answers[i].named
      <4>1. h[i][s] = From(i)
        BY <3>1, <3>2 DEF RouterStep
      <4>2. i \in NamedByRouter(s, i) /\ \A g \in NamedByRouter(s, i) : g <= i
        BY <3>2 DEF NamedByRouter
      <4> QED BY <1>0, <4>1, <4>2 DEF LastSays
    <3>3. CASE ~(i \in Answered /\ s \in answers[i].named)
      <4>1. h[i][s] = h[i - 1][s]
        BY <3>1, <3>3 DEF RouterStep
      <4>2. NamedByRouter(s, i) = NamedByRouter(s, i - 1)
        <5>1. \A g : g \in 1..i <=> g \in 1..(i - 1) \/ g = i
          BY <1>0
        <5> QED BY <3>3, <5>1 DEF NamedByRouter
      <4> QED BY <1>0, <3>1, <4>1, <4>2
    <3> QED BY <3>2, <3>3
  <2> HIDE DEF T
  <2>3. \A i \in 0..Len(groups) : i \in T
    BY <1>0, <2>1, <2>2, UpTo
  <2>4. Len(groups) \in T
    BY <1>0, <2>3
  <2> QED BY <1>1, <2>4 DEF T
<1> QED
  BY <1>2, <1>3

\* The entry of a section is that of the last batch, from its own on, with
\* words for it.
LEMMA OllamaFollows ==
    ASSUME MergeOK
    PROVE  /\ DOMAIN MergedByOllama = DOMAIN bodies
           /\ \A s \in DOMAIN bodies : \A own \in 1..Len(groups) :
                (\A g \in 1..Len(groups) : s \in Range(groups[g]) <=> g = own)
                => LastSays(MergedByOllama[s], NamedByOllama(s, own, Len(groups)), s)
<1>0. Len(groups) \in Nat
  BY DEF MergeOK
<1>1. PICK h : /\ h[0] = FromTexts /\ h[Len(groups)] = MergedByOllama
               /\ \A i \in 1..Len(groups) : h[i - 1] \in Entries /\ h[i] = OllamaStep(h[i - 1], i)
               /\ h[Len(groups)] \in Entries
  BY OllamaByGroup
<1>2. DOMAIN MergedByOllama = DOMAIN bodies
  BY <1>1 DEF Entries
<1>3. ASSUME NEW s \in DOMAIN bodies, NEW own \in 1..Len(groups),
             \A g \in 1..Len(groups) : s \in Range(groups[g]) <=> g = own
      PROVE  LastSays(MergedByOllama[s], NamedByOllama(s, own, Len(groups)), s)
  <2> DEFINE T == {i \in 0..Len(groups) : i >= own => LastSays(h[i][s], NamedByOllama(s, own, i), s)}
  <2>1. 0 \in T
    BY <1>0
  <2>2. ASSUME NEW i \in 1..Len(groups), i - 1 \in T PROVE i \in T
    <3> SUFFICES ASSUME i >= own PROVE LastSays(h[i][s], NamedByOllama(s, own, i), s)
      BY <1>0
    <3>1. h[i] = OllamaStep(h[i - 1], i)
          /\ (i - 1 >= own => LastSays(h[i - 1][s], NamedByOllama(s, own, i - 1), s))
      BY <1>1, <2>2
    <3>2. CASE i \in Answered /\ s \in answers[i].named /\ ~answers[i].blank
      <4>1. h[i][s] = From(i)
        BY <3>1, <3>2 DEF OllamaStep
      <4>2. i \in NamedByOllama(s, own, i) /\ \A g \in NamedByOllama(s, own, i) : g <= i
        BY <3>2 DEF NamedByOllama
      <4> QED BY <1>0, <4>1, <4>2 DEF LastSays
    <3>3. CASE ~(i \in Answered /\ s \in answers[i].named /\ ~answers[i].blank)
      <4>1. NamedByOllama(s, own, i) = NamedByOllama(s, own, i - 1)
        <5>1. \A g : g \in own..i <=> g \in own..(i - 1) \/ g = i
          BY <1>0
        <5> QED BY <3>3, <5>1 DEF NamedByOllama
      <4>2. CASE i = own
        <5>1. h[i][s] = FromText(s)
          BY <1>3, <3>1, <3>3, <4>2 DEF OllamaStep
        <5>2. NamedByOllama(s, own, i - 1) = {}
          BY <1>0, <4>2 DEF NamedByOllama
        <5> QED BY <4>1, <5>1, <5>2 DEF LastSays
      <4>3. CASE i # own
        <5>1. h[i][s] = h[i - 1][s]
          BY <1>3, <3>1, <3>3, <4>3 DEF OllamaStep
        <5>2. i - 1 >= own
          BY <1>0, <4>3
        <5> QED BY <3>1, <4>1, <5>1, <5>2
      <4> QED BY <4>2, <4>3
    <3> QED BY <3>2, <3>3
  <2> HIDE DEF T
  <2>3. \A i \in 0..Len(groups) : i \in T
    BY <1>0, <2>1, <2>2, UpTo
  <2>4. Len(groups) \in T
    BY <1>0, <2>3
  <2> QED BY <1>0, <1>1, <2>4 DEF T
<1> QED
  BY <1>2, <1>3

-----------------------------------------------------------------------------
(* Enrichment: the invariant *)

Cut == IF provider = "openrouter" THEN Packed ELSE Batches
MergedIndex == IF provider = "openrouter" THEN MergedByOpenRouter ELSE MergedByOllama

\* The groups are what the provider's packing makes of the document, from the
\* first call on, and the index what its merge makes of their answers.
EnrichmentInv ==
    /\ EnrichmentTypeOK /\ BodiesOK
    /\ enStep # "pack" /\ bodies # <<>> => groups = Cut
    /\ enStep = "pack" \/ bodies = <<>> => groups = <<>> /\ index = <<>>
    /\ bodies = <<>> => enStep \in {"pack", "done"}
    /\ enStep = "done" /\ bodies # <<>> => index = MergedIndex

\* What the groups are, whenever they were made.
LEMMA CutIsPieces ==
    ASSUME BodiesOK, bodies # <<>>
    PROVE  /\ Pieces(Cut, Sections) /\ Cut \in Seq(Seq(1..Sections)) /\ DOMAIN bodies = 1..Sections
           /\ DOMAIN Cut = 1..Len(Cut) /\ \A g \in DOMAIN Cut : Range(Cut[g]) \subseteq DOMAIN bodies
           /\ Sections \in Nat
           /\ provider = "openrouter" => \A g \in 1..Len(Cut) : Fits(Cut[g]) \/ Len(Cut[g]) = 1
<1>1. Pieces(Cut, Sections)
  BY PackedIsPieces, BatchesArePieces DEF Cut, PackedTo
<1>2. Cut \in Seq(Seq(1..Sections)) /\ DOMAIN Cut = 1..Len(Cut)
  BY <1>1 DEF Pieces
<1>3. Sections \in Nat /\ DOMAIN bodies = 1..Sections
  BY DEF BodiesOK, Sections
<1>4. ASSUME NEW g \in DOMAIN Cut PROVE Range(Cut[g]) \subseteq 1..Sections
  <2>1. Cut[g] \in Seq(1..Sections)
    BY <1>2
  <2>2. \A k \in DOMAIN Cut[g] : Cut[g][k] \in 1..Sections
    <3>1. Cut[g] \in [1..Len(Cut[g]) -> 1..Sections]
      BY <2>1, LenProperties
    <3> QED BY <3>1
  <2> QED BY <2>2 DEF Range
<1>5. provider = "openrouter" => \A g \in 1..Len(Cut) : Fits(Cut[g]) \/ Len(Cut[g]) = 1
  BY PackedIsPieces DEF Cut, PackedTo
<1> QED
  BY <1>1, <1>2, <1>3, <1>4, <1>5

\* What is computed from the same document, groups and answers is the same.
LEMMA SameDocument ==
    ASSUME bodies' = bodies
    PROVE  /\ Packed' = Packed /\ Batches' = Batches /\ BodiesOK' <=> BodiesOK
<1>1. ASSUME NEW x PROVE Fits(x)' <=> Fits(x)
  BY DEF Fits, Size, FoldLeft, MapThenFoldSet
<1>2. Packed' = Packed
  BY DEF Packed, Fits, Size, Positions, FoldLeft, MapThenFoldSet
<1>3. Batches' = Batches
  BY DEF Batches, Positions
<1> QED
  BY <1>2, <1>3 DEF BodiesOK

\* Likewise what is merged from the same answers.
LEMMA SameAnswers ==
    ASSUME UNCHANGED <<bodies, groups, answers, provider>>
    PROVE  MergedIndex' = MergedIndex
<1>1. MergedByOpenRouter' = MergedByOpenRouter
  BY DEF MergedByOpenRouter, Positions, FoldLeft, MapThenFoldSet, Answered, From, FromText
<1>2. MergedByOllama' = MergedByOllama
  BY DEF MergedByOllama, Positions, FoldLeft, MapThenFoldSet, Answered, From, FromText
<1> QED
  BY <1>1, <1>2 DEF MergedIndex

\* Nothing is packed at first.
LEMMA EnrichmentStarts == EnrichmentInit => EnrichmentInv
<1> SUFFICES ASSUME EnrichmentInit PROVE EnrichmentInv
  OBVIOUS
<1>1. BodiesOK
  <2>1. PICK k \in 0..MaxSections : bodies \in [1..k -> BodySizes]
    BY DEF EnrichmentInit
  <2>2. k \in Nat /\ BodySizes \subseteq Nat
    BY EnrichmentAssumption DEF EnrichmentAssumption
  <2>3. bodies \in [1..k -> Nat]
    BY <2>1, <2>2
  <2> QED BY <2>2, <2>3 DEF BodiesOK
<1>2. EnrichmentTypeOK
  BY DEF EnrichmentInit, EnrichmentTypeOK
<1> QED
  BY <1>1, <1>2 DEF EnrichmentInit, EnrichmentInv

\* Where a call is and what it answers, by type.
LEMMA CallsKept ==
    ASSUME EnrichmentTypeOK, UNCHANGED <<bodies, provider, groups, enStep>>,
           calls' \in [DOMAIN groups -> {"waiting", "first", "second", "ended"}],
           answers' \in [DOMAIN groups -> GoodAnswers \union {NoAnswer, Malformed}]
    PROVE  EnrichmentTypeOK'
<1>1. (GoodAnswers \union {NoAnswer, Malformed})' = GoodAnswers \union {NoAnswer, Malformed}
  BY DEF GoodAnswers, Malformed, Named
<1> QED
  BY <1>1 DEF EnrichmentTypeOK

\* Every step of the enrichment keeps groups and index to the operators.
LEMMA EnrichmentStep == EnrichmentInv /\ [EnrichmentNext]_enrichment => EnrichmentInv'
<1> SUFFICES ASSUME EnrichmentInv, [EnrichmentNext]_enrichment PROVE EnrichmentInv'
  OBVIOUS
<1> USE DEF EnrichmentInv
<1> DEFINE States == {"waiting", "first", "second", "ended"}
           Results == GoodAnswers \union {NoAnswer, Malformed}
<1>0. calls \in [DOMAIN groups -> States] /\ answers \in [DOMAIN groups -> Results]
  BY DEF EnrichmentTypeOK
<1>a. ASSUME bodies' = bodies, provider' \in {"openrouter", "ollama"}, bodies # <<>>, CallAll(Cut'),
             enStep' = "calls"
      PROVE  EnrichmentInv'
  <2>1. BodiesOK' /\ bodies' # <<>>
    BY <1>a, SameDocument
  <2>2. groups' = Cut' /\ DOMAIN groups' = DOMAIN Cut'
    BY <1>a DEF CallAll
  <2>3. \A g \in DOMAIN groups' : Range(groups'[g]) \subseteq DOMAIN bodies'
    <3>1. (BodiesOK /\ bodies # <<>> => \A g \in DOMAIN Cut : Range(Cut[g]) \subseteq DOMAIN bodies)'
      BY CutIsPieces, PTL
    <3> QED BY <2>1, <2>2, <3>1
  <2>4. calls' \in [DOMAIN groups' -> States] /\ answers' \in [DOMAIN groups' -> {NoAnswer}]
    BY <1>a, <2>2 DEF CallAll
  <2>5. EnrichmentTypeOK'
    BY <1>a, <2>3, <2>4 DEF EnrichmentTypeOK
  <2> QED BY <1>a, <2>1, <2>2, <2>5
<1>b. ASSUME UNCHANGED <<bodies, provider, groups, index, enStep>>, enStep = "calls", EnrichmentTypeOK'
      PROVE  EnrichmentInv'
  BY <1>b, SameDocument DEF Cut
<1>1. CASE Pack
  <2>1. CASE bodies = <<>>
    <3>1. /\ enStep' = "done" /\ UNCHANGED <<bodies, provider, groups, calls, answers, index>>
      BY <1>1, <2>1 DEF Pack
    <3>2. EnrichmentTypeOK'
      BY <3>1 DEF EnrichmentTypeOK, GoodAnswers, Malformed, Named
    <3> QED BY <1>1, <2>1, <3>1, <3>2, SameDocument DEF Pack
  <2>2. CASE bodies # <<>>
    <3>1. /\ enStep' = "calls" /\ UNCHANGED <<bodies, provider, index>> /\ CallAll(Cut)
      BY <1>1, <2>2 DEF Pack, Cut
    <3>2. Cut' = Cut
      BY <3>1, SameDocument DEF Cut
    <3>3. provider' \in {"openrouter", "ollama"}
      BY <3>1 DEF EnrichmentTypeOK
    <3> QED BY <1>a, <2>2, <3>1, <3>2, <3>3
  <2> QED BY <2>1, <2>2
<1>2. ASSUME NEW g \in DOMAIN groups, CallStep(g) PROVE EnrichmentInv'
  <2>1. CASE Start(g)
    <3>1. /\ enStep = "calls" /\ UNCHANGED <<bodies, provider, groups, answers, index, enStep>>
          /\ calls' \in [DOMAIN groups -> States]
      BY <1>0, <2>1 DEF Start
    <3> QED BY <1>0, <1>b, <3>1, CallsKept
  <2>2. CASE NoJson(g)
    <3>1. /\ enStep = "calls" /\ UNCHANGED <<bodies, provider, groups, answers, index, enStep>>
          /\ calls' \in [DOMAIN groups -> States]
      BY <1>0, <2>2 DEF NoJson
    <3> QED BY <1>0, <1>b, <3>1, CallsKept
  <2>3. CASE CallRaises(g)
    <3>1. /\ enStep = "calls" /\ UNCHANGED <<bodies, provider, groups, answers, index, enStep>>
          /\ calls' \in [DOMAIN groups -> States]
      BY <1>0, <2>3 DEF CallRaises
    <3> QED BY <1>0, <1>b, <3>1, CallsKept
  <2>4. ASSUME NEW a \in GoodAnswers \union {Malformed}, Answer(g, a) PROVE EnrichmentInv'
    <3>1. /\ enStep = "calls" /\ UNCHANGED <<bodies, provider, groups, index, enStep>>
          /\ calls' \in [DOMAIN groups -> States] /\ answers' \in [DOMAIN groups -> Results]
      BY <1>0, <2>4 DEF Answer
    <3> QED BY <1>b, <3>1, CallsKept
  <2> QED BY <1>2, <2>1, <2>2, <2>3, <2>4 DEF CallStep
<1>3. CASE FallBack
  <2>1. /\ enStep = "calls" /\ provider' = "ollama" /\ CallAll(Batches) /\ UNCHANGED <<bodies, index, enStep>>
    BY <1>3 DEF FallBack, AllEnded
  <2>2. CASE bodies # <<>>
    <3>1. Cut' = Batches
      BY <2>1, SameDocument DEF Cut
    <3> QED BY <1>a, <2>1, <2>2, <3>1
  <2>3. bodies # <<>>
    BY <2>1
  <2> QED BY <2>2, <2>3
<1>4. CASE Gather
  <2>1. /\ enStep = "calls" /\ UNCHANGED <<bodies, provider, groups, calls, answers>>
        /\ \/ enStep' = "raised" /\ UNCHANGED index
           \/ enStep' = "done" /\ index' = MergedIndex
    BY <1>4 DEF Gather, AllEnded, MergedIndex
  <2>2. EnrichmentTypeOK'
    BY <2>1 DEF EnrichmentTypeOK, GoodAnswers, Malformed, Named
  <2>3. Cut' = Cut /\ MergedIndex' = MergedIndex
    BY <2>1, SameDocument, SameAnswers DEF Cut
  <2> QED BY <2>1, <2>2, <2>3, SameDocument
<1>5. CASE UNCHANGED enrichment
  <2>1. UNCHANGED <<bodies, provider, groups, calls, answers, index, enStep>>
    BY <1>5 DEF enrichment
  <2>2. EnrichmentTypeOK'
    BY <2>1 DEF EnrichmentTypeOK, GoodAnswers, Malformed, Named
  <2> QED BY <2>1, <2>2, SameDocument, SameAnswers DEF Cut
<1> QED
  BY <1>1, <1>2, <1>3, <1>4, <1>5 DEF EnrichmentNext

\* What is fixed by the invariant is what the property says of groups and index.
LEMMA InvariantFollows == EnrichmentInv => IndexFollowsTheGroups
<1> SUFFICES ASSUME EnrichmentInv PROVE IndexFollowsTheGroups
  OBVIOUS
<1> USE DEF EnrichmentInv
<1>1. CASE enStep = "pack" \/ bodies = <<>>
  <2>1. groups = <<>> /\ DOMAIN groups = {}
    BY <1>1
  <2>2. enStep = "done" => DOMAIN index = DOMAIN bodies /\ DOMAIN index = {}
    BY <1>1
  <2> QED BY <2>1, <2>2 DEF IndexFollowsTheGroups
<1>2. CASE enStep # "pack" /\ bodies # <<>>
  <2>1. groups = Cut
    BY <1>2
  <2>2. /\ Pieces(groups, Sections) /\ groups \in Seq(Seq(1..Sections)) /\ DOMAIN bodies = 1..Sections
        /\ DOMAIN groups = 1..Len(groups) /\ Sections \in Nat
        /\ provider = "openrouter" => \A g \in 1..Len(groups) : Fits(groups[g]) \/ Len(groups[g]) = 1
    BY <1>2, <2>1, CutIsPieces
  <2>3. FlattenSeq(groups) = Positions(bodies)
    BY <2>2, PiecesFlatten DEF Positions
  <2>4. MergeOK
    BY <2>2 DEF MergeOK
  <2>5. ASSUME enStep = "done"
        PROVE  /\ DOMAIN index = DOMAIN bodies
               /\ \A s \in DOMAIN index :
                    LET naming == {g \in Answered : s \in answers[g].named
                                      /\ (provider = "ollama" => g >= GroupOf(s) /\ ~answers[g].blank)}
                    IN index[s] = IF naming = {} THEN FromText(s)
                                  ELSE From(CHOOSE g \in naming : \A h \in naming : h <= g)
    <3>1. index = MergedIndex
      BY <1>2, <2>5
    <3>2. DOMAIN index = DOMAIN bodies
      BY <2>4, <3>1, RouterFollows, OllamaFollows DEF MergedIndex
    <3> SUFFICES ASSUME NEW s \in DOMAIN bodies
                 PROVE  LET naming == {g \in Answered : s \in answers[g].named
                                          /\ (provider = "ollama" => g >= GroupOf(s) /\ ~answers[g].blank)}
                        IN index[s] = IF naming = {} THEN FromText(s)
                                      ELSE From(CHOOSE g \in naming : \A h \in naming : h <= g)
      BY <3>2
    <3> DEFINE naming == {g \in Answered : s \in answers[g].named
                             /\ (provider = "ollama" => g >= GroupOf(s) /\ ~answers[g].blank)}
               n == Len(groups)
    <3>3. n \in Nat /\ \A g : g \in Answered <=> g \in 1..n /\ answers[g] # NoAnswer
      BY <2>2 DEF Answered
    <3>4. PICK own \in 1..n : \A g \in 1..n : s \in Range(groups[g]) <=> g = own
      <4>1. s \in 1..Sections /\ Pieces(groups, Sections) /\ Sections \in Nat
        BY <2>2
      <4> HIDE DEF EnrichmentInv
      <4>2. \E g \in 1..Len(groups) : \A h \in 1..Len(groups) : s \in Range(groups[h]) <=> h = g
        BY <4>1, OnePiece, SMTT(30)
      <4> QED BY <4>2
    <3>5. GroupOf(s) = own
      BY <2>2, <3>4 DEF GroupOf
    <3>6. LastSays(index[s], naming, s)
      <4>1. CASE provider = "openrouter"
        <5>1. naming = NamedByRouter(s, n)
          BY <3>3, <4>1 DEF NamedByRouter
        <5> HIDE DEF naming, n
        <5>2. LastSays(index[s], NamedByRouter(s, n), s)
          BY <2>4, <3>1, <4>1, RouterFollows DEF MergedIndex, n
        <5> QED BY <5>1, <5>2
      <4>2. CASE provider = "ollama"
        <5>1. naming = NamedByOllama(s, own, n)
          <6>1. \A g : g \in own..n <=> g \in 1..n /\ g >= own
            BY <3>3
          <6> QED BY <3>3, <3>5, <4>2, <6>1 DEF NamedByOllama
        <5> HIDE DEF naming
        <5>2. LastSays(index[s], NamedByOllama(s, own, n), s)
          BY <2>4, <3>1, <3>4, <4>2, OllamaFollows DEF MergedIndex
        <5> QED BY <5>1, <5>2
      <4> QED BY <4>1, <4>2 DEF EnrichmentTypeOK
    <3>7. \A g \in naming : g \in Nat
      BY <3>3
    <3> HIDE DEF naming, n
    <3>8. CASE naming = {}
      BY <3>6, <3>8 DEF LastSays, naming
    <3>9. CASE naming # {}
      <4>1. PICK g \in naming : index[s] = From(g) /\ \A h \in naming : h <= g
        BY <3>6, <3>9 DEF LastSays
      <4>2. ASSUME NEW k \in naming, \A h \in naming : h <= k PROVE k = g
        BY <3>7, <4>1, <4>2
      <4>3. (CHOOSE k \in naming : \A h \in naming : h <= k) = g
        BY <4>1, <4>2
      <4> QED BY <3>9, <4>1, <4>3 DEF naming
    <3> QED BY <3>8, <3>9
  <2> HIDE DEF EnrichmentInv
  <2> QED BY <2>2, <2>3, <2>5 DEF IndexFollowsTheGroups
<1> QED
  BY <1>1, <1>2

\* The sections, their groups and the calls keep their types (build_enrichment).
THEOREM EnrichmentTypeCorrect == EnrichmentSpec => []EnrichmentTypeOK
<1>1. EnrichmentInv => EnrichmentTypeOK
  BY DEF EnrichmentInv
<1> QED
  BY <1>1, EnrichmentStarts, EnrichmentStep, PTL DEF EnrichmentSpec

\* The groups are the document's sections in their order, cut so that they respect the
\* budget, and each section has the entry of the last group that names it, in
\* whatever order the calls are answered.
THEOREM IndexIsOfTheLastGroup == EnrichmentSpec => []IndexFollowsTheGroups
BY InvariantFollows, EnrichmentStarts, EnrichmentStep, PTL DEF EnrichmentSpec

-----------------------------------------------------------------------------
(* Chunking: the texts of a page and the pages of a section *)

USE ChunkingAssumption DEF ChunkingAssumption

ChunkElements == Texts \union Items
SourceOK == source \in [1..2 -> Seq(ChunkElements)]
Length(s) == Len(source[s])

\* What the document holds, by type.
LEMMA SourceTypes ==
    ASSUME SourceOK, NEW s \in 1..2
    PROVE  /\ Length(s) \in Nat /\ DOMAIN source[s] = 1..Length(s) /\ source[s] \in Seq(ChunkElements)
           /\ \A i \in 1..Length(s) : source[s][i] \in ChunkElements
  BY DEF SourceOK, Length

\* An element of a section, by type.
LEMMA ElementTypes ==
    ASSUME NEW e \in ChunkElements
    PROVE  /\ e.page \in Nat /\ e.type \in {"text", "table", "image"}
           /\ e.type = "text" => /\ e.page \in ChunkPages /\ e.tokens \in Nat /\ e.tokens > 0
                                 /\ e.stamp \in BOOLEAN
           /\ e.type # "text" => e.kind \in TableKinds \union ImageKinds
<1>1. CASE e \in Texts
  <2>1. ASSUME NEW p \in ChunkPages, NEW k \in Nat, k > 0, NEW b, e = Text(p, k, b)
        PROVE  e.page \in ChunkPages /\ e.page \in Nat /\ e.type = "text" /\ e.tokens \in Nat /\ e.tokens > 0
    BY <2>1 DEF Text
  <2>2. ASSUME NEW p, NEW k, NEW b \in BOOLEAN, e = Text(p, k, b)
        PROVE  e.stamp \in BOOLEAN
    <3>1. e.stamp = b
      BY <2>2 DEF Text
    <3> QED BY <3>1, Zenon
  <2>3. CASE e \in {Text(p, k, FALSE) : p \in ChunkPages, k \in Lengths}
    <3>1. PICK p \in ChunkPages, k \in Lengths : e = Text(p, k, FALSE)
      BY <2>3 DEF Text
    <3>2. k \in Nat /\ k > 0 /\ FALSE \in BOOLEAN
      OBVIOUS
    <3> QED BY <2>1, <2>2, <3>1, <3>2
  <2>4. CASE e \in {Text(p, 1, TRUE) : p \in ChunkPages}
    <3>1. PICK p \in ChunkPages : e = Text(p, 1, TRUE)
      BY <2>4 DEF Text
    <3>2. 1 \in Nat /\ 1 > 0 /\ TRUE \in BOOLEAN
      OBVIOUS
    <3> QED BY <2>1, <2>2, <3>1, <3>2
  <2>5. e \in {Text(p, k, FALSE) : p \in ChunkPages, k \in Lengths} \union {Text(p, 1, TRUE) : p \in ChunkPages}
    BY <1>1 DEF Texts, Text
  <2> QED BY <2>3, <2>4, <2>5 DEF Text
<1>2. CASE e \in Items
  <2>1. e.page = 1 /\ e.type \in {"table", "image"} /\ e.kind \in TableKinds \union ImageKinds
    BY <1>2 DEF Items
  <2> QED BY <2>1
<1> QED
  BY <1>1, <1>2 DEF ChunkElements

SpanSet(s) == [el : 1..Length(s), from : Nat, to : Nat]
PassedOver(s, page, e) == e.type # "text" \/ e.page # page \/ (e.stamp /\ StampIsWatermark)
NextSpan(spans, i, e) ==
    LET from == IF spans = <<>> THEN 0 ELSE Last(spans).to + SeparatorTokens
    IN [el |-> i, from |-> from, to |-> from + e.tokens]
SpanStep(s, page, spans, i) ==
    IF PassedOver(s, page, source[s][i]) THEN spans ELSE Append(spans, NextSpan(spans, i, source[s][i]))

\* A span added to spans of a section makes spans of the section.
LEMMA NextSpanType ==
    ASSUME SourceOK, NEW s \in 1..2, NEW i \in 1..Length(s), NEW spans \in Seq(SpanSet(s)),
           source[s][i].type = "text"
    PROVE  /\ NextSpan(spans, i, source[s][i]) \in SpanSet(s)
           /\ Append(spans, NextSpan(spans, i, source[s][i])) \in Seq(SpanSet(s))
<1>1. source[s][i].tokens \in Nat
  BY SourceTypes, ElementTypes
<1>2. spans # <<>> => Last(spans) \in SpanSet(s)
  BY DEF Last
<1>3. (IF spans = <<>> THEN 0 ELSE Last(spans).to + SeparatorTokens) \in Nat
  BY <1>2 DEF SpanSet, SeparatorTokens
<1>4. NextSpan(spans, i, source[s][i]) \in SpanSet(s)
  BY <1>1, <1>3, SMTT(30) DEF NextSpan, SpanSet
<1> QED
  BY <1>4

\* The fold of Spans, one element of the section after the other.
LEMMA SpansByElement ==
    ASSUME SourceOK, NEW s \in 1..2, NEW page
    PROVE  \E h : /\ h[0] = <<>> /\ h[Length(s)] = Spans(s, page)
                  /\ \A i \in 1..Length(s) : h[i] = SpanStep(s, page, h[i - 1], i)
<1> DEFINE n == Length(s)
           A == Seq(SpanSet(s))
           F == [p \in (1..n) \X A |-> SpanStep(s, page, p[2], p[1])]
           Iter(g) == g = [t \in SUBSET (1..n) |->
                             IF t = {} THEN <<>>
                             ELSE SpanStep(s, page, g[t \ {Max(t)}], [j \in 1..n |-> j][Max(t)])]
<1>1. Spans(s, page) = (CHOOSE g : Iter(g))[1..n]
  <2>1. DOMAIN source[s] = 1..n
    BY SourceTypes
  <2> QED
    BY <2>1 DEF Spans, FoldLeft, MapThenFoldSet, SpanStep, PassedOver, NextSpan
<1>2. \A i \in 1..n, a \in A : F[<<i, a>>] = SpanStep(s, page, a, i) /\ F[<<i, a>>] \in A
  <2> SUFFICES ASSUME NEW i \in 1..n, NEW a \in A PROVE SpanStep(s, page, a, i) \in A
    OBVIOUS
  <2>1. ~PassedOver(s, page, source[s][i]) => source[s][i].type = "text"
    BY DEF PassedOver
  <2> QED BY <2>1, NextSpanType DEF SpanStep
<1>3. PICK g : FoldsUp(g, F, <<>>, n)
  BY FoldsExist, SourceTypes
<1>4. \A t \in SUBSET (1..n) : g[t] \in A
  <2> HIDE DEF F, A
  <2>1. <<>> \in A
    BY DEF A
  <2>2. n \in Nat
    BY SourceTypes
  <2> HIDE DEF n
  <2> QED BY <1>2, <1>3, <2>1, <2>2, FoldsWithin
<1>5. Iter(g)
  <2>1. ASSUME NEW t \in SUBSET (1..n), t # {}
        PROVE  F[<<Max(t), g[t \ {Max(t)}]>>]
                 = SpanStep(s, page, g[t \ {Max(t)}], [j \in 1..n |-> j][Max(t)])
    <3>1. Max(t) \in 1..n
      BY <2>1, LastPosition, SourceTypes
    <3>2. g[t \ {Max(t)}] \in A
      BY <1>4
    <3> HIDE DEF F, A, n
    <3> QED BY <1>2, <3>1, <3>2
  <2> HIDE DEF F, A, n
  <2> QED BY <1>3, <2>1 DEF FoldsUp
<1>6. PICK f : Iter(f) /\ Spans(s, page) = f[1..n]
  <2> HIDE DEF Iter
  <2> QED BY <1>1, <1>5
<1> DEFINE h == [i \in 0..n |-> f[1..i]]
<1>7. n \in Nat
  BY SourceTypes
<1> HIDE DEF n, A, F
<1>8. h[0] = <<>> /\ h[n] = Spans(s, page)
  <2>1. 1..0 = {} /\ f[{}] = <<>>
    BY <1>6
  <2>2. f[1..0] = <<>>
    BY <2>1
  <2>3. 0 \in 0..n /\ n \in 0..n
    BY <1>7
  <2> QED BY <1>6, <2>2, <2>3
<1>9. ASSUME NEW i \in 1..n PROVE h[i] = SpanStep(s, page, h[i - 1], i)
  <2>1. Max(1..i) = i /\ (1..i) \ {Max(1..i)} = 1..(i - 1) /\ 1..i # {} /\ 1..i \in SUBSET (1..n)
    BY <1>7, MaxOfPrefix
  <2>2. f[1..i] = SpanStep(s, page, f[1..(i - 1)], i)
    BY <1>6, <2>1
  <2> QED BY <1>7, <2>2
<1> HIDE DEF h
<1> QED
  BY <1>8, <1>9 DEF n

\* What the spans of the first i elements are: each text that counts has one,
\* and between two of them is no more than a separator.
SpansOK(s, page, i, sp) ==
    /\ sp \in Seq(SpanSet(s))
    /\ \A j \in 1..Len(sp) :
        /\ source[s][sp[j].el].type = "text" /\ source[s][sp[j].el].page = page
        /\ sp[j].to - sp[j].from = source[s][sp[j].el].tokens
        /\ sp[j].from < sp[j].to /\ sp[j].to <= Tokens(sp)
    /\ \A k \in 1..i : PassedOver(s, page, source[s][k]) \/ \E j \in 1..Len(sp) : sp[j].el = k
    /\ \A t \in Nat : t < Tokens(sp) =>
         \E j \in 1..Len(sp) : /\ sp[j].from <= t + 1 /\ t < sp[j].to
                               /\ t + 1 = Tokens(sp) => sp[j].from <= t

\* The spans of a page, up to an element: laid out one after the other.
LEMMA SpansGrow ==
    ASSUME SourceOK, NEW s \in 1..2, NEW page, NEW i \in 1..Length(s), NEW sp, SpansOK(s, page, i - 1, sp)
    PROVE  SpansOK(s, page, i, SpanStep(s, page, sp, i))
<1> DEFINE e == source[s][i]
<1>1. CASE PassedOver(s, page, e)
  <2>1. SpanStep(s, page, sp, i) = sp
    BY <1>1 DEF SpanStep
  <2>2. \A k \in 1..i : k \in 1..(i - 1) \/ k = i
    BY SourceTypes
  <2>3. \A k \in 1..i : PassedOver(s, page, source[s][k]) \/ \E j \in 1..Len(sp) : sp[j].el = k
    BY <1>1, <2>2 DEF SpansOK
  <2> QED
    BY <2>1, <2>3 DEF SpansOK
<1>2. CASE ~PassedOver(s, page, e)
  <2> DEFINE new == NextSpan(sp, i, e)
             n == Len(sp)
             to == Append(sp, new)
             start == IF sp = <<>> THEN 0 ELSE Last(sp).to + SeparatorTokens
  <2>1. e.type = "text" /\ e.page = page
    BY <1>2 DEF PassedOver
  <2>2. e.tokens \in Nat /\ e.tokens > 0
    BY <2>1, SourceTypes, ElementTypes
  <2>3. sp \in Seq(SpanSet(s)) /\ n \in Nat /\ \A j \in 1..n : sp[j] \in SpanSet(s)
    BY DEF SpansOK
  <2>4. new \in SpanSet(s) /\ to \in Seq(SpanSet(s))
    BY <2>1, <2>3, NextSpanType
  <2>5. new.el = i /\ new.from = start /\ new.to = start + e.tokens
    BY DEF NextSpan
  <2>6. Tokens(sp) \in Nat /\ start = IF sp = <<>> THEN 0 ELSE Tokens(sp) + 1
    <3>1. CASE sp = <<>>
      BY <3>1 DEF Tokens
    <3>2. CASE sp # <<>>
      <4>1. Tokens(sp) = sp[n].to /\ Last(sp).to = sp[n].to /\ SeparatorTokens = 1
        BY <3>2 DEF Tokens, Last, SeparatorTokens
      <4>2. sp[n] \in SpanSet(s)
        BY <2>3, <3>2
      <4>3. sp[n].to \in Nat
        BY <4>2 DEF SpanSet
      <4> QED BY <3>2, <4>1, <4>3
    <3> QED BY <3>1, <3>2
  <2>7. Len(to) = n + 1 /\ to[n + 1] = new /\ \A j \in 1..n : to[j] = sp[j]
    BY <2>3, <2>4
  <2>8. Tokens(to) = start + e.tokens
    BY <2>4, <2>5, <2>7 DEF Tokens, Last
  <2>9. SpanStep(s, page, sp, i) = to
    BY <1>2 DEF SpanStep
  <2> HIDE DEF new, n, to, start
  <2>10. Tokens(sp) <= start /\ start \in Nat /\ Tokens(to) \in Nat /\ (Tokens(sp) = 0 \/ start = Tokens(sp) + 1)
    BY <2>6, <2>2, <2>8 DEF Tokens
  <2>11. \A j \in 1..(n + 1) : j \in 1..n \/ j = n + 1
    BY <2>3
  <2>12. \A j \in 1..(n + 1) :
           /\ source[s][to[j].el].type = "text" /\ source[s][to[j].el].page = page
           /\ to[j].to - to[j].from = source[s][to[j].el].tokens
           /\ to[j].from < to[j].to /\ to[j].to <= Tokens(to)
    <3> SUFFICES ASSUME NEW j \in 1..(n + 1)
                 PROVE  /\ source[s][to[j].el].type = "text" /\ source[s][to[j].el].page = page
                        /\ to[j].to - to[j].from = source[s][to[j].el].tokens
                        /\ to[j].from < to[j].to /\ to[j].to <= Tokens(to)
      OBVIOUS
    <3>1. CASE j \in 1..n
      <4>1. to[j] = sp[j] /\ sp[j].from \in Nat /\ sp[j].to \in Nat
        BY <2>3, <2>7, <3>1 DEF SpanSet
      <4>2. /\ source[s][sp[j].el].type = "text" /\ source[s][sp[j].el].page = page
            /\ sp[j].to - sp[j].from = source[s][sp[j].el].tokens
            /\ sp[j].from < sp[j].to /\ sp[j].to <= Tokens(sp)
        BY <3>1 DEF SpansOK, n
      <4>3. Tokens(sp) <= Tokens(to)
        BY <2>2, <2>6, <2>8, <2>10
      <4>4. sp[j].to <= Tokens(to)
        BY <2>6, <2>10, <4>1, <4>2, <4>3
      <4> QED BY <4>1, <4>2, <4>4, Zenon
    <3>2. CASE j = n + 1
      <4>1. to[j] = new
        BY <2>7, <3>2
      <4>2. new.to - new.from = e.tokens /\ new.from < new.to /\ new.to <= Tokens(to)
        BY <2>2, <2>5, <2>8, <2>10
      <4> QED BY <2>1, <2>5, <4>1, <4>2, Zenon
    <3> QED BY <2>11, <3>1, <3>2
  <2>13. \A k \in 1..i : PassedOver(s, page, source[s][k]) \/ \E j \in 1..(n + 1) : to[j].el = k
    <3> SUFFICES ASSUME NEW k \in 1..i, ~PassedOver(s, page, source[s][k])
                 PROVE  \E j \in 1..(n + 1) : to[j].el = k
      OBVIOUS
    <3>1. CASE k = i
      <4>1. n + 1 \in 1..(n + 1)
        BY <2>3
      <4> QED BY <2>5, <2>7, <3>1, <4>1
    <3>2. CASE k \in 1..(i - 1)
      <4>1. PICK j \in 1..n : sp[j].el = k
        BY <3>2 DEF SpansOK, n
      <4>2. j \in 1..(n + 1)
        BY <2>3
      <4> QED BY <2>7, <4>1, <4>2
    <3> QED BY <3>1, <3>2, SourceTypes
  <2>14. ASSUME NEW t \in Nat, t < Tokens(to)
         PROVE  \E j \in 1..(n + 1) : /\ to[j].from <= t + 1 /\ t < to[j].to
                                      /\ t + 1 = Tokens(to) => to[j].from <= t
    <3>1. CASE t < Tokens(sp)
      <4>1. PICK j \in 1..n : /\ sp[j].from <= t + 1 /\ t < sp[j].to
                              /\ t + 1 = Tokens(sp) => sp[j].from <= t
        BY <3>1 DEF SpansOK, n
      <4>2. j \in 1..(n + 1) /\ to[j] = sp[j]
        BY <2>3, <2>7
      <4>3. t + 1 # Tokens(to)
        BY <2>2, <2>6, <2>8, <2>10, <3>1, SMTT(30)
      <4> QED BY <4>1, <4>2, <4>3
    <3>2. CASE ~(t < Tokens(sp))
      <4>1. new.from <= t + 1 /\ t < new.to /\ (t + 1 = Tokens(to) => new.from <= t)
        BY <2>2, <2>5, <2>6, <2>8, <2>10, <2>14, <3>2
      <4>2. n + 1 \in 1..(n + 1)
        BY <2>3
      <4> QED BY <2>7, <4>1, <4>2
    <3> QED BY <3>1, <3>2
  <2> QED
    BY <2>4, <2>7, <2>9, <2>12, <2>13, <2>14 DEF SpansOK
<1> QED
  BY <1>1, <1>2

\* So the spans of a page are those of all its texts but watermarks.
LEMMA SpansAre ==
    ASSUME SourceOK, NEW s \in 1..2, NEW page
    PROVE  SpansOK(s, page, Length(s), Spans(s, page))
<1>1. PICK h : /\ h[0] = <<>> /\ h[Length(s)] = Spans(s, page)
               /\ \A i \in 1..Length(s) : h[i] = SpanStep(s, page, h[i - 1], i)
  BY SpansByElement
<1> DEFINE S == {i \in 0..Length(s) : SpansOK(s, page, i, h[i])}
<1>2. Length(s) \in Nat
  BY SourceTypes
<1>3. 0 \in S
  <2>1. SpansOK(s, page, 0, <<>>)
    BY DEF SpansOK, Tokens
  <2> QED BY <1>1, <1>2, <2>1
<1>4. ASSUME NEW i \in 1..Length(s), i - 1 \in S PROVE i \in S
  <2>1. SpansOK(s, page, i - 1, h[i - 1])
    BY <1>4
  <2>2. SpansOK(s, page, i, h[i])
    BY <1>1, <2>1, SpansGrow
  <2> QED BY <1>2, <2>2
<1>5. Length(s) \in S
  <2> HIDE DEF S
  <2> QED BY <1>2, <1>3, <1>4, UpTo
<1> QED
  BY <1>1, <1>5

PageStep(pages, e) ==
    IF e.type # "text" \/ e.page \in Range(pages) THEN pages ELSE Append(pages, e.page)

\* The fold of PageOrder, one element of the section after the other.
LEMMA PagesByElement ==
    ASSUME SourceOK, NEW s \in 1..2
    PROVE  \E h : /\ h[0] = <<>> /\ h[Length(s)] = PageOrder(s)
                  /\ \A i \in 1..Length(s) : h[i] = PageStep(h[i - 1], source[s][i])
<1> DEFINE n == Length(s)
           A == Seq(ChunkPages)
           F == [p \in (1..n) \X A |-> PageStep(p[2], source[s][p[1]])]
           Iter(g) == g = [t \in SUBSET (1..n) |->
                             IF t = {} THEN <<>> ELSE PageStep(g[t \ {Max(t)}], source[s][Max(t)])]
<1>1. PageOrder(s) = (CHOOSE g : Iter(g))[1..n]
  <2>1. DOMAIN source[s] = 1..n
    BY SourceTypes
  <2> QED
    BY <2>1 DEF PageOrder, FoldLeft, MapThenFoldSet, PageStep
<1>2. \A i \in 1..n, a \in A : F[<<i, a>>] = PageStep(a, source[s][i]) /\ F[<<i, a>>] \in A
  <2> SUFFICES ASSUME NEW i \in 1..n, NEW a \in A PROVE PageStep(a, source[s][i]) \in A
    OBVIOUS
  <2>1. source[s][i].type = "text" => source[s][i].page \in ChunkPages
    BY SourceTypes, ElementTypes
  <2> QED BY <2>1 DEF PageStep
<1>3. PICK g : FoldsUp(g, F, <<>>, n)
  BY FoldsExist, SourceTypes
<1>4. \A t \in SUBSET (1..n) : g[t] \in A
  <2> HIDE DEF F, A
  <2>1. <<>> \in A
    BY DEF A
  <2>2. n \in Nat
    BY SourceTypes
  <2> HIDE DEF n
  <2> QED BY <1>2, <1>3, <2>1, <2>2, FoldsWithin
<1>5. Iter(g)
  <2>1. ASSUME NEW t \in SUBSET (1..n), t # {}
        PROVE  F[<<Max(t), g[t \ {Max(t)}]>>] = PageStep(g[t \ {Max(t)}], source[s][Max(t)])
    <3>1. Max(t) \in 1..n
      BY <2>1, LastPosition, SourceTypes
    <3>2. g[t \ {Max(t)}] \in A
      BY <1>4
    <3> HIDE DEF F, A, n
    <3> QED BY <1>2, <3>1, <3>2
  <2> HIDE DEF F, A, n
  <2> QED BY <1>3, <2>1 DEF FoldsUp
<1>6. PICK f : Iter(f) /\ PageOrder(s) = f[1..n]
  <2> HIDE DEF Iter
  <2> QED BY <1>1, <1>5
<1> DEFINE h == [i \in 0..n |-> f[1..i]]
<1>7. n \in Nat
  BY SourceTypes
<1> HIDE DEF n, A, F
<1>8. h[0] = <<>> /\ h[n] = PageOrder(s)
  <2>1. 1..0 = {} /\ f[{}] = <<>>
    BY <1>6
  <2>2. f[1..0] = <<>>
    BY <2>1
  <2>3. 0 \in 0..n /\ n \in 0..n
    BY <1>7
  <2> QED BY <1>6, <2>2, <2>3
<1>9. ASSUME NEW i \in 1..n PROVE h[i] = PageStep(h[i - 1], source[s][i])
  <2>1. Max(1..i) = i /\ (1..i) \ {Max(1..i)} = 1..(i - 1) /\ 1..i # {} /\ 1..i \in SUBSET (1..n)
    BY <1>7, MaxOfPrefix
  <2>2. f[1..i] = PageStep(f[1..(i - 1)], source[s][i])
    BY <1>6, <2>1
  <2> QED BY <1>7, <2>2
<1> HIDE DEF h
<1> QED
  BY <1>8, <1>9 DEF n

PagesOK(s, i, pages) ==
    /\ pages \in Seq(ChunkPages)
    /\ \A j, k \in 1..Len(pages) : pages[j] = pages[k] => j = k
    /\ \A k \in 1..i : source[s][k].type = "text" => \E j \in 1..Len(pages) : pages[j] = source[s][k].page

\* The pages of a section's texts, each once.
LEMMA PagesAre ==
    ASSUME SourceOK, NEW s \in 1..2
    PROVE  PagesOK(s, Length(s), PageOrder(s))
<1>1. PICK h : /\ h[0] = <<>> /\ h[Length(s)] = PageOrder(s)
               /\ \A i \in 1..Length(s) : h[i] = PageStep(h[i - 1], source[s][i])
  BY PagesByElement
<1> DEFINE S == {i \in 0..Length(s) : PagesOK(s, i, h[i])}
<1>2. Length(s) \in Nat
  BY SourceTypes
<1>3. 0 \in S
  <2>1. PagesOK(s, 0, <<>>)
    BY DEF PagesOK
  <2> QED BY <1>1, <1>2, <2>1
<1>4. ASSUME NEW i \in 1..Length(s), i - 1 \in S PROVE i \in S
  <2> DEFINE e == source[s][i]
             pages == h[i - 1]
             n == Len(pages)
  <2>1. PagesOK(s, i - 1, pages) /\ h[i] = PageStep(pages, e)
    BY <1>1, <1>4
  <2>2. e.type = "text" => e.page \in ChunkPages
    BY SourceTypes, ElementTypes
  <2>3. pages \in Seq(ChunkPages) /\ n \in Nat
    BY <2>1 DEF PagesOK
  <2>4. \A k \in 1..i : k \in 1..(i - 1) \/ k = i
    OBVIOUS
  <2> HIDE DEF pages, e
  <2>5. CASE e.type # "text" \/ e.page \in Range(pages)
    <3>1. h[i] = pages
      BY <2>1, <2>5 DEF PageStep
    <3>2. e.type = "text" => \E j \in 1..Len(pages) : pages[j] = e.page
      BY <2>3, <2>5 DEF Range
    <3>3. PagesOK(s, i, pages)
      BY <2>1, <2>4, <3>2 DEF PagesOK, e
    <3> QED BY <1>2, <3>1, <3>3
  <2>6. CASE e.type = "text" /\ e.page \notin Range(pages)
    <3> DEFINE to == Append(pages, e.page)
    <3>1. h[i] = to
      BY <2>1, <2>6 DEF PageStep
    <3>2. to \in Seq(ChunkPages) /\ Len(to) = n + 1 /\ to[n + 1] = e.page /\ \A j \in 1..n : to[j] = pages[j]
      BY <2>2, <2>3, <2>6
    <3>3. \A j \in 1..n : pages[j] # e.page
      BY <2>3, <2>6 DEF Range
    <3> HIDE DEF to
    <3>4. \A j \in 1..(n + 1) : j \in 1..n \/ j = n + 1
      BY <2>3
    <3>5. \A j, k \in 1..(n + 1) : to[j] = to[k] => j = k
      BY <2>1, <3>2, <3>3, <3>4 DEF PagesOK
    <3>6. \A k \in 1..i : source[s][k].type = "text" => \E j \in 1..(n + 1) : to[j] = source[s][k].page
      <4> SUFFICES ASSUME NEW k \in 1..i, source[s][k].type = "text"
                   PROVE  \E j \in 1..(n + 1) : to[j] = source[s][k].page
        OBVIOUS
      <4>1. CASE k = i
        <5>1. n + 1 \in 1..(n + 1)
          BY <2>3
        <5> QED BY <3>2, <4>1, <5>1 DEF e
      <4>2. CASE k \in 1..(i - 1)
        <5>1. PICK j \in 1..n : pages[j] = source[s][k].page
          BY <2>1, <4>2 DEF PagesOK
        <5>2. j \in 1..(n + 1)
          BY <2>3
        <5> QED BY <3>2, <5>1, <5>2
      <4> QED BY <2>4, <4>1, <4>2
    <3>7. PagesOK(s, i, to)
      BY <3>2, <3>5, <3>6 DEF PagesOK
    <3> QED BY <1>2, <3>1, <3>7
  <2> QED BY <2>5, <2>6
<1>5. Length(s) \in S
  <2> HIDE DEF S
  <2> QED BY <1>2, <1>3, <1>4, UpTo
<1> QED
  BY <1>1, <1>5

\* What the texts and pages are does not change with the steps.
LEMMA SameSource ==
    ASSUME source' = source, NEW s
    PROVE  /\ SourceOK' = SourceOK /\ Length(s)' = Length(s) /\ PageOrder(s)' = PageOrder(s)
           /\ StampIsWatermark' = StampIsWatermark
           /\ \A page : Spans(s, page)' = Spans(s, page)
<1>1. StampIsWatermark' = StampIsWatermark
  BY DEF StampIsWatermark
<1>2. Length(s)' = Length(s) /\ SourceOK' = SourceOK
  BY DEF Length, SourceOK
<1>3. PageOrder(s)' = PageOrder(s)
  BY DEF PageOrder, FoldLeft, MapThenFoldSet
<1>4. ASSUME NEW page PROVE Spans(s, page)' = Spans(s, page)
  BY <1>1 DEF Spans, FoldLeft, MapThenFoldSet
<1> QED
  BY <1>1, <1>2, <1>3, <1>4

-----------------------------------------------------------------------------
(* Chunking: inductive invariant *)

ChunkRecords ==
    [type : {"text", "table", "image"}, idx : Nat, section : 1..2, page : Nat,
     els : SUBSET Nat, from : Nat, to : Nat]

CutTypeOK ==
    /\ SourceOK
    /\ cutting \in {"text", "items", "done"} /\ section \in 1..2
    /\ pagesLeft \in Seq(ChunkPages) /\ windowAt \in Nat /\ item \in Nat \ {0}
    /\ chunks \in Seq(ChunkRecords) /\ tableFiles \in SUBSET Nat

\* A page is cut once: it has no window of its section until it comes first.
PlaceInv ==
    /\ \A j, k \in 1..Len(pagesLeft) : pagesLeft[j] = pagesLeft[k] => j = k
    /\ cutting # "text" => pagesLeft = <<>>
    /\ windowAt > 0 => pagesLeft # <<>>
    /\ cutting = "done" => section = 2
    /\ \A c \in 1..Len(chunks) :
        /\ chunks[c].section <= section
        /\ chunks[c].type = "text" /\ chunks[c].section = section =>
             \A k \in 1..Len(pagesLeft) : chunks[c].page = pagesLeft[k] => k = 1 /\ windowAt > 0

\* A chunk has its number, is no longer than a window and is of one page.
ContentInv ==
    \A c \in 1..Len(chunks) :
        /\ chunks[c].idx = c - 1
        /\ chunks[c].to - chunks[c].from <= ChunkTokens
        /\ \A i \in chunks[c].els :
            /\ i \in 1..Length(chunks[c].section)
            /\ source[chunks[c].section][i].page = chunks[c].page
            /\ source[chunks[c].section][i].type = "text" <=> chunks[c].type = "text"

\* The last window of the page being cut ends where the next one, by its
\* start, expects it.
OverlapInv ==
    ChunkTokens > SeparatorTokens =>
        /\ \A c \in 1..(Len(chunks) - 1) :
             /\ chunks[c].type = "text" /\ chunks[c + 1].type = "text"
             /\ chunks[c].page = chunks[c + 1].page /\ chunks[c].section = chunks[c + 1].section
             => chunks[c].to - chunks[c + 1].from = ChunkTokens - WindowStep
        /\ windowAt > 0 => /\ Len(chunks) > 0
                           /\ chunks[Len(chunks)].to = windowAt + ChunkTokens - WindowStep

Covers(c, s, page, i, t) ==
    c.section = s /\ c.page = page /\ i \in c.els /\ c.from <= t /\ t < c.to
Left(page) == \E k \in 1..Len(pagesLeft) : pagesLeft[k] = page
CutSoFar(s, page, t) ==
    s < section \/ (s = section /\ (~Left(page) \/ (page = pagesLeft[1] /\ t < windowAt)))

\* What was cut so far is in the chunks.
CoverInv ==
    \A s \in 1..2, page \in ChunkPages : \A k \in 1..Len(Spans(s, page)), t \in Nat :
        Spans(s, page)[k].from <= t /\ t < Spans(s, page)[k].to /\ CutSoFar(s, page, t)
        => \E c \in 1..Len(chunks) : Covers(chunks[c], s, page, Spans(s, page)[k].el, t)

Holds(c, s, i) == c.section = s /\ i \in c.els
Looked(s, i) == s < section \/ (s = section /\ (cutting = "done" \/ (cutting = "items" /\ i < item)))
Large(e) == e.type = "table" /\ e.kind = "large"

\* A table or image that was looked at and not skipped is in one chunk.
ItemInv ==
    \A s \in 1..2 : \A i \in 1..Length(s) : source[s][i].type # "text" =>
        IF Looked(s, i) /\ ~Skipped(s, source[s][i])
        THEN \E c \in 1..Len(chunks) :
                /\ \A d \in 1..Len(chunks) : Holds(chunks[d], s, i) <=> d = c
                /\ Large(source[s][i]) => chunks[c].idx \in tableFiles
        ELSE \A d \in 1..Len(chunks) : ~Holds(chunks[d], s, i)

CutInv == CutTypeOK /\ PlaceInv /\ ContentInv /\ OverlapInv /\ CoverInv /\ ItemInv

-----------------------------------------------------------------------------
(* Chunking: the steps *)

\* Chunks, and what lies before them, by type.
LEMMA CutTypes ==
    ASSUME CutTypeOK
    PROVE  /\ Len(chunks) \in Nat /\ DOMAIN chunks = 1..Len(chunks)
           /\ \A c \in 1..Len(chunks) :
                /\ chunks[c] \in ChunkRecords /\ chunks[c].section \in 1..2 /\ chunks[c].idx \in Nat
                /\ chunks[c].from \in Nat /\ chunks[c].to \in Nat
           /\ Len(pagesLeft) \in Nat /\ \A k \in 1..Len(pagesLeft) : pagesLeft[k] \in ChunkPages
           /\ section \in 1..2 /\ windowAt \in Nat
<1>1. \A c \in 1..Len(chunks) : chunks[c] \in ChunkRecords
  BY DEF CutTypeOK
<1>2. \A c \in 1..Len(chunks) :
        chunks[c].section \in 1..2 /\ chunks[c].idx \in Nat /\ chunks[c].from \in Nat /\ chunks[c].to \in Nat
  BY <1>1 DEF ChunkRecords
<1>3. Len(chunks) \in Nat /\ DOMAIN chunks = 1..Len(chunks)
  BY DEF CutTypeOK
<1>4. /\ Len(pagesLeft) \in Nat /\ \A k \in 1..Len(pagesLeft) : pagesLeft[k] \in ChunkPages
      /\ section \in 1..2 /\ windowAt \in Nat
  BY DEF CutTypeOK
<1> QED
  BY <1>1, <1>2, <1>3, <1>4

\* A new chunk comes behind the others.
LEMMA NewChunkLast ==
    ASSUME chunks \in Seq(ChunkRecords), NEW new \in ChunkRecords, chunks' = Append(chunks, new)
    PROVE  /\ chunks' \in Seq(ChunkRecords) /\ Len(chunks) \in Nat
           /\ Len(chunks') = Len(chunks) + 1 /\ chunks'[Len(chunks) + 1] = new
           /\ \A c \in 1..Len(chunks) : chunks'[c] = chunks[c] /\ c \in 1..(Len(chunks) + 1)
           /\ \A c \in 1..(Len(chunks) + 1) : c \in 1..Len(chunks) \/ c = Len(chunks) + 1
  OBVIOUS

\* The window that is cut next, its tokens and texts, and its chunk.
WinPage == pagesLeft[1]
WinSpans == Spans(section, WinPage)
WinEnd == Least(windowAt + ChunkTokens, Tokens(WinSpans))
Meets(j) == WinSpans[j].from < WinEnd /\ WinSpans[j].to > windowAt
WinEls == {WinSpans[j].el : j \in {k \in DOMAIN WinSpans : Meets(k)}}
WinChunk == Chunk("text", WinPage, WinEls, windowAt, WinEnd)

\* Windows move on by one token at least and by their length at most.
LEMMA StepOfWindows ==
    WindowStep \in Nat /\ WindowStep > 0 /\ WindowStep <= ChunkTokens /\ ChunkTokens \in Nat
  BY DEF WindowStep

\* The window to be cut: its spans, its end and the texts it meets, by type.
LEMMA TheWindow ==
    ASSUME CutTypeOK, pagesLeft # <<>>
    PROVE  /\ WinPage \in ChunkPages /\ SpansOK(section, WinPage, Length(section), WinSpans)
           /\ DOMAIN WinSpans = 1..Len(WinSpans) /\ Len(WinSpans) \in Nat
           /\ \A j \in 1..Len(WinSpans) : WinSpans[j].from \in Nat /\ WinSpans[j].to \in Nat
                                          /\ WinSpans[j].el \in 1..Length(section)
           /\ Tokens(WinSpans) \in Nat /\ WinEnd \in Nat /\ WinEnd <= windowAt + ChunkTokens
           /\ WinEnd <= Tokens(WinSpans)
           /\ WinEnd < Tokens(WinSpans) => WinEnd = windowAt + ChunkTokens
           /\ \A i \in WinEls : /\ i \in 1..Length(section) /\ source[section][i].type = "text"
                                /\ source[section][i].page = WinPage
<1>1. WinPage \in ChunkPages /\ section \in 1..2 /\ SourceOK /\ windowAt \in Nat
  BY DEF CutTypeOK, WinPage
<1>2. SpansOK(section, WinPage, Length(section), WinSpans)
  BY <1>1, SpansAre DEF WinSpans
<1>3. WinSpans \in Seq(SpanSet(section))
  BY <1>2 DEF SpansOK
<1>4. /\ DOMAIN WinSpans = 1..Len(WinSpans) /\ Len(WinSpans) \in Nat
      /\ \A j \in 1..Len(WinSpans) : WinSpans[j] \in SpanSet(section)
  BY <1>3
<1>5. \A j \in 1..Len(WinSpans) : WinSpans[j].from \in Nat /\ WinSpans[j].to \in Nat
                                  /\ WinSpans[j].el \in 1..Length(section)
  BY <1>4 DEF SpanSet
<1>6. Tokens(WinSpans) \in Nat
  BY <1>3, <1>4, <1>5 DEF Tokens, Last
<1>7. /\ WinEnd \in Nat /\ WinEnd <= windowAt + ChunkTokens /\ WinEnd <= Tokens(WinSpans)
      /\ WinEnd < Tokens(WinSpans) => WinEnd = windowAt + ChunkTokens
  BY <1>1, <1>6 DEF WinEnd, Least
<1>8. ASSUME NEW i \in WinEls
      PROVE  i \in 1..Length(section) /\ source[section][i].type = "text" /\ source[section][i].page = WinPage
  <2>1. PICK j \in 1..Len(WinSpans) : i = WinSpans[j].el
    BY <1>4 DEF WinEls
  <2>2. source[section][WinSpans[j].el].type = "text" /\ source[section][WinSpans[j].el].page = WinPage
    BY <1>2 DEF SpansOK
  <2> QED BY <1>5, <2>1, <2>2
<1> QED
  BY <1>1, <1>2, <1>4, <1>5, <1>6, <1>7, <1>8

\* A window before the end of the page meets a text, unless it is one token
\* on a separator.
LEMMA WindowMeets ==
    ASSUME CutTypeOK, pagesLeft # <<>>, windowAt < Tokens(WinSpans), ChunkTokens > SeparatorTokens
    PROVE  WinEls # {}
<1>1. PICK j \in 1..Len(WinSpans) : /\ WinSpans[j].from <= windowAt + 1 /\ windowAt < WinSpans[j].to
                                    /\ windowAt + 1 = Tokens(WinSpans) => WinSpans[j].from <= windowAt
  BY TheWindow, CutTypes DEF SpansOK
<1>2. windowAt \in Nat /\ Tokens(WinSpans) \in Nat /\ WinSpans[j].from \in Nat
  BY TheWindow, CutTypes
<1>3. WinEnd = windowAt + ChunkTokens \/ WinEnd = Tokens(WinSpans)
  BY DEF WinEnd, Least
<1>4. WinSpans[j].from < WinEnd
  BY <1>1, <1>2, <1>3 DEF SeparatorTokens
<1> QED
  BY <1>1, <1>4, TheWindow, ZenonT(30) DEF WinEls, Meets

\* What CutWindow does: a chunk if the window meets a text, then the next window or page.
LEMMA WindowCut ==
    ASSUME CutTypeOK, CutWindow
    PROVE  /\ cutting = "text" /\ pagesLeft # <<>> /\ UNCHANGED <<source, cutting, section, item, tableFiles>>
           /\ WinChunk \in ChunkRecords
           /\ chunks' = IF WinEls = {} THEN chunks ELSE Append(chunks, WinChunk)
           /\ IF WinEnd >= Tokens(WinSpans) THEN pagesLeft' = Tail(pagesLeft) /\ windowAt' = 0
              ELSE windowAt' = windowAt + WindowStep /\ pagesLeft' = pagesLeft
<1>1. pagesLeft # <<>> /\ Head(pagesLeft) = WinPage
  BY DEF CutWindow, WinPage, CutTypeOK
<1>2. WinEls \in SUBSET Nat /\ WinPage \in Nat
  <2>1. WinPage \in ChunkPages /\ \A i \in WinEls : i \in 1..Length(section)
    BY <1>1, TheWindow
  <2> QED BY <2>1
<1>3. WinChunk \in ChunkRecords
  BY <1>1, <1>2, TheWindow, CutTypes DEF WinChunk, Chunk, ChunkRecords
<1> QED
  BY <1>1, <1>3 DEF CutWindow, WinSpans, WinEnd, WinEls, WinChunk, Meets

\* Either the page is done, or the next window of it is to be cut.
LEMMA PagesAfter ==
    ASSUME CutTypeOK, CutWindow
    PROVE  /\ Len(pagesLeft) \in Nat /\ Len(pagesLeft) > 0
           /\ \/ /\ WinEnd = Tokens(WinSpans) /\ windowAt' = 0 /\ pagesLeft' \in Seq(ChunkPages)
                 /\ Len(pagesLeft') = Len(pagesLeft) - 1
                 /\ \A k \in 1..Len(pagesLeft') :
                       k + 1 \in 1..Len(pagesLeft) /\ pagesLeft'[k] = pagesLeft[k + 1]
              \/ /\ WinEnd < Tokens(WinSpans) /\ WinEnd = windowAt + ChunkTokens
                 /\ windowAt' = windowAt + WindowStep /\ windowAt' \in Nat /\ windowAt' > 0
                 /\ pagesLeft' = pagesLeft
<1>1. pagesLeft \in Seq(ChunkPages) /\ pagesLeft # <<>> /\ windowAt \in Nat
  BY WindowCut DEF CutTypeOK
<1>2. Len(pagesLeft) \in Nat /\ Len(pagesLeft) > 0
  BY <1>1
<1>3. /\ WinEnd \in Nat /\ Tokens(WinSpans) \in Nat /\ WinEnd <= Tokens(WinSpans)
      /\ WinEnd < Tokens(WinSpans) => WinEnd = windowAt + ChunkTokens
  BY <1>1, TheWindow
<1>4. CASE WinEnd >= Tokens(WinSpans)
  <2>1. pagesLeft' = Tail(pagesLeft) /\ windowAt' = 0
    BY <1>4, WindowCut
  <2>2. /\ Tail(pagesLeft) \in Seq(ChunkPages) /\ Len(Tail(pagesLeft)) = Len(pagesLeft) - 1
        /\ \A k \in 1..Len(Tail(pagesLeft)) :
              k + 1 \in 1..Len(pagesLeft) /\ Tail(pagesLeft)[k] = pagesLeft[k + 1]
    BY <1>1, <1>2
  <2> QED BY <1>2, <1>3, <1>4, <2>1, <2>2
<1>5. CASE ~(WinEnd >= Tokens(WinSpans))
  <2>1. pagesLeft' = pagesLeft /\ windowAt' = windowAt + WindowStep
    BY <1>5, WindowCut
  <2> QED BY <1>1, <1>2, <1>3, <1>5, <2>1, StepOfWindows
<1> QED
  BY <1>4, <1>5

\* What is cut by windows keeps to the page and the length of a window.
LEMMA WindowTypes ==
    ASSUME CutTypeOK, PlaceInv, CutWindow
    PROVE  CutTypeOK'
<1>1. pagesLeft' \in Seq(ChunkPages) /\ windowAt' \in Nat
  BY PagesAfter DEF CutTypeOK
<1>2. chunks' \in Seq(ChunkRecords)
  BY WindowCut, NewChunkLast DEF CutTypeOK
<1> QED
  BY <1>1, <1>2, WindowCut, SameSource DEF CutTypeOK

\* A window leaves a page cut once and the windows in their page.
LEMMA WindowPlace ==
    ASSUME CutTypeOK, PlaceInv, CutWindow
    PROVE  PlaceInv'
<1> DEFINE n == Len(pagesLeft)
           m == Len(pagesLeft')
<1>1. /\ cutting = "text" /\ cutting' = "text" /\ pagesLeft # <<>> /\ section' = section /\ section \in 1..2
      /\ n \in Nat /\ n > 0
  BY WindowCut DEF CutTypeOK
<1>2. \/ /\ pagesLeft' = Tail(pagesLeft) /\ windowAt' = 0
         /\ m = n - 1 /\ \A k \in 1..m : k + 1 \in 1..n /\ pagesLeft'[k] = pagesLeft[k + 1]
      \/ /\ pagesLeft' = pagesLeft /\ windowAt' > 0 /\ m = n
  BY <1>1, PagesAfter
<1>3. \A j, k \in 1..m : pagesLeft'[j] = pagesLeft'[k] => j = k
  <2>1. \A j, k \in 1..n : pagesLeft[j] = pagesLeft[k] => j = k
    BY DEF PlaceInv
  <2> HIDE DEF n, m
  <2> QED BY <1>1, <1>2, <2>1
<1>4. windowAt' > 0 => pagesLeft' # <<>>
  BY <1>1, <1>2
<1>5. ASSUME NEW c \in 1..Len(chunks'), chunks'[c].type = "text", chunks'[c].section = section,
             NEW k \in 1..m, chunks'[c].page = pagesLeft'[k]
      PROVE  k = 1 /\ windowAt' > 0
  <2>1. CASE c \in 1..Len(chunks) /\ chunks'[c] = chunks[c]
    <3>1. \A j \in 1..n : chunks[c].page = pagesLeft[j] => j = 1 /\ windowAt > 0
      BY <1>5, <2>1 DEF PlaceInv
    <3> HIDE DEF n, m
    <3> QED BY <1>1, <1>2, <1>5, <2>1, <3>1
  <2>2. CASE chunks'[c] = WinChunk
    <3>1. pagesLeft'[k] = pagesLeft[1]
      BY <1>5, <2>2 DEF WinChunk, Chunk, WinPage
    <3>2. \A j, l \in 1..n : pagesLeft[j] = pagesLeft[l] => j = l
      BY DEF PlaceInv
    <3> HIDE DEF n, m
    <3>3. 1 \in 1..n
      BY <1>1
    <3> QED BY <1>1, <1>2, <3>1, <3>2, <3>3
  <2>3. (c \in 1..Len(chunks) /\ chunks'[c] = chunks[c]) \/ chunks'[c] = WinChunk
    BY WindowCut, NewChunkLast, SMTT(30) DEF CutTypeOK
  <2> QED BY <2>1, <2>2, <2>3
<1>6. \A c \in 1..Len(chunks') : chunks'[c].section <= section
  <2> SUFFICES ASSUME NEW c \in 1..Len(chunks') PROVE chunks'[c].section <= section
    OBVIOUS
  <2>1. (c \in 1..Len(chunks) /\ chunks'[c] = chunks[c]) \/ chunks'[c] = WinChunk
    BY WindowCut, NewChunkLast DEF CutTypeOK
  <2>2. WinChunk.section = section
    BY DEF WinChunk, Chunk
  <2> QED BY <1>1, <2>1, <2>2 DEF PlaceInv
<1> QED
  BY <1>1, <1>3, <1>4, <1>5, <1>6 DEF PlaceInv

\* A window makes a chunk of the texts it meets, in their section.
LEMMA WindowContent ==
    ASSUME CutTypeOK, ContentInv, CutWindow
    PROVE  ContentInv'
<1>1. /\ source' = source /\ pagesLeft # <<>> /\ Len(chunks) \in Nat
      /\ \A s : Length(s)' = Length(s)
  BY WindowCut, CutTypes, SameSource
<1> SUFFICES ASSUME NEW c \in 1..Len(chunks')
             PROVE  /\ chunks'[c].idx = c - 1
                    /\ chunks'[c].to - chunks'[c].from <= ChunkTokens
                    /\ \A i \in chunks'[c].els :
                        /\ i \in 1..Length(chunks'[c].section)
                        /\ source[chunks'[c].section][i].page = chunks'[c].page
                        /\ source[chunks'[c].section][i].type = "text" <=> chunks'[c].type = "text"
  BY <1>1 DEF ContentInv
<1>2. \/ c \in 1..Len(chunks) /\ chunks'[c] = chunks[c]
      \/ c = Len(chunks) + 1 /\ chunks'[c] = WinChunk
  BY WindowCut, NewChunkLast DEF CutTypeOK
<1>3. CASE c \in 1..Len(chunks) /\ chunks'[c] = chunks[c]
  BY <1>3 DEF ContentInv
<1>4. CASE c = Len(chunks) + 1 /\ chunks'[c] = WinChunk
  <2>1. /\ WinChunk.idx = Len(chunks) /\ WinChunk.section = section /\ WinChunk.page = WinPage
        /\ WinChunk.type = "text" /\ WinChunk.els = WinEls /\ WinChunk.from = windowAt /\ WinChunk.to = WinEnd
    BY DEF WinChunk, Chunk
  <2>2. WinEnd - windowAt <= ChunkTokens
    BY <1>1, TheWindow, CutTypes
  <2>3. \A i \in WinEls : i \in 1..Length(section) /\ source[section][i].type = "text"
                          /\ source[section][i].page = WinPage
    BY <1>1, TheWindow
  <2> QED BY <1>1, <1>4, <2>1, <2>2, <2>3
<1> QED
  BY <1>2, <1>3, <1>4

\* Windows of a page that follow each other overlap as set.
LEMMA WindowOverlap ==
    ASSUME CutTypeOK, PlaceInv, OverlapInv, CutWindow
    PROVE  OverlapInv'
<1> SUFFICES ASSUME ChunkTokens > SeparatorTokens
             PROVE  /\ \A c \in 1..(Len(chunks') - 1) :
                         /\ chunks'[c].type = "text" /\ chunks'[c + 1].type = "text"
                         /\ chunks'[c].page = chunks'[c + 1].page /\ chunks'[c].section = chunks'[c + 1].section
                         => chunks'[c].to - chunks'[c + 1].from = ChunkTokens - WindowStep
                    /\ windowAt' > 0 => /\ Len(chunks') > 0
                                        /\ chunks'[Len(chunks')].to = windowAt' + ChunkTokens - WindowStep
  BY DEF OverlapInv, SeparatorTokens, WindowStep
<1> DEFINE n == Len(chunks)
<1>1. /\ n \in Nat /\ windowAt \in Nat /\ section \in 1..2 /\ pagesLeft # <<>>
      /\ \A c \in 1..n : chunks[c].to \in Nat
  BY CutTypes, WindowCut
<1>2. /\ WinChunk.type = "text" /\ WinChunk.page = pagesLeft[1] /\ WinChunk.section = section
      /\ WinChunk.from = windowAt /\ WinChunk.to = WinEnd
  BY DEF WinChunk, Chunk, WinPage
<1>3. CASE WinEls = {}
  <2>1. chunks' = chunks
    BY <1>3, WindowCut
  <2>2. ~(windowAt < Tokens(WinSpans))
    BY <1>1, <1>3, WindowMeets
  <2>3. windowAt' = 0
    BY <1>1, <2>2, PagesAfter, StepOfWindows, TheWindow
  <2> QED BY <2>1, <2>3 DEF OverlapInv
<1>4. CASE WinEls # {}
  <2>1. /\ Len(chunks') = n + 1 /\ chunks'[n + 1] = WinChunk
        /\ \A c \in 1..n : chunks'[c] = chunks[c] /\ c \in 1..(n + 1)
    BY <1>4, WindowCut, NewChunkLast DEF CutTypeOK
  <2>2. windowAt' > 0 => chunks'[n + 1].to = windowAt' + ChunkTokens - WindowStep
    BY <1>1, <1>2, <2>1, PagesAfter, StepOfWindows
  <2>3. ASSUME NEW c \in 1..n, chunks'[c].type = "text", chunks'[c + 1].type = "text",
               chunks'[c].page = chunks'[c + 1].page, chunks'[c].section = chunks'[c + 1].section
        PROVE  chunks'[c].to - chunks'[c + 1].from = ChunkTokens - WindowStep
    <3>1. CASE c \in 1..(n - 1)
      <4>1. c + 1 \in 1..n
        BY <1>1, <3>1
      <4>2. chunks'[c] = chunks[c] /\ chunks'[c + 1] = chunks[c + 1]
        BY <2>1, <4>1
      <4> QED BY <2>3, <3>1, <4>2 DEF OverlapInv
    <3>2. CASE c = n
      <4>1. chunks'[c] = chunks[n] /\ chunks'[c + 1] = WinChunk
        BY <2>1, <3>2
      <4>2. chunks[n].page = pagesLeft[1] /\ chunks[n].type = "text" /\ chunks[n].section = section
        BY <1>2, <2>3, <4>1
      <4>3. windowAt > 0
        <5>1. 1 \in 1..Len(pagesLeft)
          BY PagesAfter
        <5> QED BY <3>2, <4>2, <5>1 DEF PlaceInv
      <4>4. chunks[n].to = windowAt + ChunkTokens - WindowStep
        BY <4>3 DEF OverlapInv
      <4> QED BY <1>1, <1>2, <4>1, <4>4, StepOfWindows
    <3> QED BY <1>1, <3>1, <3>2
  <2> QED BY <1>1, <2>1, <2>2, <2>3
<1> QED
  BY <1>3, <1>4

\* What a window covers is the next part of its page.
LEMMA WindowCover ==
    ASSUME CutTypeOK, PlaceInv, CoverInv, CutWindow
    PROVE  CoverInv'
<1>1. /\ section' = section /\ section \in 1..2 /\ pagesLeft # <<>> /\ windowAt \in Nat
      /\ \A s, page : Spans(s, page)' = Spans(s, page)
  BY WindowCut, CutTypes, SameSource
<1> SUFFICES ASSUME NEW s \in 1..2, NEW page \in ChunkPages, NEW k \in 1..Len(Spans(s, page)), NEW t \in Nat,
                    Spans(s, page)[k].from <= t, t < Spans(s, page)[k].to, CutSoFar(s, page, t)'
             PROVE  \E c \in 1..Len(chunks') : Covers(chunks'[c], s, page, Spans(s, page)[k].el, t)
  BY <1>1 DEF CoverInv
<1> DEFINE i == Spans(s, page)[k].el
<1>2. CASE CutSoFar(s, page, t)
  <2>1. PICK c \in 1..Len(chunks) : Covers(chunks[c], s, page, i, t)
    BY <1>2 DEF CoverInv
  <2>2. c \in 1..Len(chunks') /\ chunks'[c] = chunks[c]
    BY WindowCut, NewChunkLast DEF CutTypeOK
  <2> QED BY <2>1, <2>2
<1>3. CASE ~CutSoFar(s, page, t)
  <2>1. s = section /\ Left(page) /\ (page = pagesLeft[1] => ~(t < windowAt))
    BY <1>1, <1>3 DEF CutSoFar
  <2>2. page = pagesLeft[1] /\ t < WinEnd
    <3>1. PICK j \in 1..Len(pagesLeft) : pagesLeft[j] = page
      BY <2>1 DEF Left
    <3>2. CASE WinEnd = Tokens(WinSpans) /\ Len(pagesLeft') = Len(pagesLeft) - 1 /\ windowAt' = 0
      <4>1. \A l \in 1..Len(pagesLeft') : pagesLeft'[l] = pagesLeft[l + 1]
        BY <3>2, PagesAfter
      <4>2. ~(t < windowAt') /\ ~Left(page)'
        BY <1>1, <2>1, <3>2 DEF CutSoFar
      <4>3. j = 1
        <5> SUFFICES ASSUME j # 1 PROVE FALSE
          OBVIOUS
        <5>1. j - 1 \in 1..Len(pagesLeft')
          BY <3>2, PagesAfter
        <5>2. pagesLeft'[j - 1] = page
          BY <3>1, <4>1, <5>1, SMTT(30)
        <5> QED BY <4>2, <5>1, <5>2 DEF Left
      <4>4. SpansOK(s, page, Length(s), WinSpans) /\ WinSpans = Spans(s, page)
        BY <1>1, <2>1, <3>1, <4>3, TheWindow DEF WinPage, WinSpans
      <4>5. Spans(s, page)[k].to <= Tokens(WinSpans) /\ Spans(s, page)[k].to \in Nat
        BY <1>1, <4>4, TheWindow DEF SpansOK
      <4> QED BY <1>1, <3>1, <3>2, <4>3, <4>5, TheWindow, SMTT(30)
    <3>3. CASE pagesLeft' = pagesLeft /\ windowAt' = windowAt + WindowStep /\ WinEnd = windowAt + ChunkTokens
      <4>1. Left(page)'
        BY <2>1, <3>3 DEF Left
      <4>2. page = pagesLeft[1] /\ t < windowAt'
        BY <1>1, <2>1, <3>3, <4>1 DEF CutSoFar
      <4> QED BY <1>1, <3>3, <4>2, StepOfWindows
    <3> QED BY <3>2, <3>3, PagesAfter
  <2>3. WinSpans = Spans(s, page) /\ WinPage = page
    BY <2>1, <2>2 DEF WinSpans, WinPage
  <2>4. WinSpans[k].from \in Nat /\ WinSpans[k].to \in Nat /\ k \in 1..Len(WinSpans) /\ WinEnd \in Nat
        /\ DOMAIN WinSpans = 1..Len(WinSpans)
    BY <1>1, <2>3, TheWindow
  <2>5. Meets(k)
    BY <1>1, <2>1, <2>2, <2>3, <2>4 DEF Meets
  <2>6. i \in WinEls
    BY <2>3, <2>4, <2>5 DEF WinEls
  <2>7. Len(chunks) + 1 \in 1..Len(chunks') /\ chunks'[Len(chunks) + 1] = WinChunk
    BY <2>6, WindowCut, NewChunkLast, SMTT(30) DEF CutTypeOK
  <2>8. /\ WinChunk.section = section /\ WinChunk.page = WinPage /\ WinChunk.els = WinEls
        /\ WinChunk.from = windowAt /\ WinChunk.to = WinEnd
    BY DEF WinChunk, Chunk
  <2> HIDE DEF i
  <2>9. Covers(chunks'[Len(chunks) + 1], s, page, i, t)
    <3>1. chunks'[Len(chunks) + 1] = WinChunk
      BY <2>7
    <3>2. WinChunk.section = s /\ WinChunk.page = page /\ i \in WinChunk.els /\ WinChunk.from <= t /\ t < WinChunk.to
      BY <1>1, <2>1, <2>2, <2>3, <2>6, <2>8
    <3> QED BY <3>1, <3>2 DEF Covers
  <2> QED BY <2>7, <2>9 DEF i
<1> QED
  BY <1>2, <1>3

\* A step that neither looks at an item nor makes a chunk of one.
LEMMA ItemsKept ==
    ASSUME CutTypeOK, ItemInv, source' = source, tableFiles' = tableFiles,
           \A s \in 1..2 : \A i \in 1..Length(s) : Looked(s, i)' <=> Looked(s, i),
           \/ chunks' = chunks
           \/ \E c \in ChunkRecords :
                /\ chunks' = Append(chunks, c)
                /\ \A s \in 1..2 : \A i \in 1..Length(s) : source[s][i].type # "text" => ~Holds(c, s, i)
    PROVE  ItemInv'
<1>1. \A s : Length(s)' = Length(s)
  BY SameSource
<1> SUFFICES ASSUME NEW s \in 1..2, NEW i \in 1..Length(s), source[s][i].type # "text"
             PROVE  IF Looked(s, i)' /\ ~Skipped(s, source[s][i])
                    THEN \E c \in 1..Len(chunks') :
                            /\ \A d \in 1..Len(chunks') : Holds(chunks'[d], s, i) <=> d = c
                            /\ Large(source[s][i]) => chunks'[c].idx \in tableFiles
                    ELSE \A d \in 1..Len(chunks') : ~Holds(chunks'[d], s, i)
  BY <1>1 DEF ItemInv
<1>2. Looked(s, i)' <=> Looked(s, i)
  OBVIOUS
<1>3. CASE chunks' = chunks
  BY <1>2, <1>3 DEF ItemInv
<1>4. ASSUME NEW new \in ChunkRecords, chunks' = Append(chunks, new), ~Holds(new, s, i)
      PROVE  IF Looked(s, i)' /\ ~Skipped(s, source[s][i])
             THEN \E c \in 1..Len(chunks') :
                     /\ \A d \in 1..Len(chunks') : Holds(chunks'[d], s, i) <=> d = c
                     /\ Large(source[s][i]) => chunks'[c].idx \in tableFiles
             ELSE \A d \in 1..Len(chunks') : ~Holds(chunks'[d], s, i)
  <2> DEFINE n == Len(chunks)
  <2>1. /\ n \in Nat /\ Len(chunks') = n + 1 /\ chunks'[n + 1] = new
        /\ \A c \in 1..n : chunks'[c] = chunks[c] /\ c \in 1..(n + 1)
        /\ \A c \in 1..(n + 1) : c \in 1..n \/ c = n + 1
    BY <1>4, NewChunkLast DEF CutTypeOK
  <2> HIDE DEF n
  <2>2. CASE Looked(s, i) /\ ~Skipped(s, source[s][i])
    <3>1. PICK c \in 1..n : /\ \A d \in 1..n : Holds(chunks[d], s, i) <=> d = c
                            /\ Large(source[s][i]) => chunks[c].idx \in tableFiles
      BY <2>2 DEF ItemInv, n
    <3>2. c # n + 1
      BY <2>1
    <3>3. \A d \in 1..(n + 1) : Holds(chunks'[d], s, i) <=> d = c
      BY <1>4, <2>1, <3>1, <3>2
    <3>4. /\ c \in 1..Len(chunks') /\ \A d \in 1..Len(chunks') : Holds(chunks'[d], s, i) <=> d = c
      BY <2>1, <3>3
    <3>5. Large(source[s][i]) => chunks'[c].idx \in tableFiles
      BY <2>1, <3>1
    <3> QED BY <1>2, <2>2, <3>4, <3>5
  <2>3. CASE ~(Looked(s, i) /\ ~Skipped(s, source[s][i]))
    <3>1. \A d \in 1..n : ~Holds(chunks[d], s, i)
      BY <2>3 DEF ItemInv, n
    <3>2. \A d \in 1..(n + 1) : ~Holds(chunks'[d], s, i)
      BY <1>4, <2>1, <3>1
    <3> QED BY <1>2, <2>1, <2>3, <3>2
  <2> QED BY <2>2, <2>3
<1> QED
  BY <1>3, <1>4

\* Windows keep what is said of the items.
LEMMA WindowItems ==
    ASSUME CutTypeOK, ItemInv, CutWindow
    PROVE  ItemInv'
<1>1. /\ UNCHANGED <<source, cutting, section, item, tableFiles>> /\ pagesLeft # <<>>
      /\ WinChunk \in ChunkRecords
      /\ chunks' = IF WinEls = {} THEN chunks ELSE Append(chunks, WinChunk)
  BY WindowCut
<1>2. \A s \in 1..2 : \A i \in 1..Length(s) : Looked(s, i)' <=> Looked(s, i)
  BY <1>1 DEF Looked
<1>3. \A s \in 1..2 : \A i \in 1..Length(s) : source[s][i].type # "text" => ~Holds(WinChunk, s, i)
  <2>1. WinChunk.section = section /\ WinChunk.els = WinEls
    BY DEF WinChunk, Chunk
  <2> QED BY <1>1, <2>1, TheWindow DEF Holds
<1> QED
  BY <1>1, <1>2, <1>3, ItemsKept

\* A step that cuts no part of a page leaves what is cut in the chunks.
LEMMA CoverKept ==
    ASSUME CoverInv, UNCHANGED <<source, section, pagesLeft, windowAt, chunks>>
    PROVE  CoverInv'
<1>1. \A s \in 1..2, page \in ChunkPages : Spans(s, page)' = Spans(s, page)
  BY SameSource
<1>2. \A s, page, t : CutSoFar(s, page, t)' <=> CutSoFar(s, page, t)
  BY DEF CutSoFar, Left
<1> SUFFICES ASSUME NEW s \in 1..2, NEW page \in ChunkPages, NEW k \in 1..Len(Spans(s, page)), NEW t \in Nat,
                    Spans(s, page)[k].from <= t /\ t < Spans(s, page)[k].to, CutSoFar(s, page, t)
             PROVE  \E c \in 1..Len(chunks) : Covers(chunks[c], s, page, Spans(s, page)[k].el, t)
  BY <1>1, <1>2 DEF CoverInv
<1> QED
  BY DEF CoverInv

\* A section whose pages are cut goes on with its tables and images.
LEMMA TextEnds ==
    ASSUME CutInv, EndOfText
    PROVE  CutInv'
<1> USE DEF CutInv
<1>1. /\ cutting = "text" /\ pagesLeft = <<>> /\ cutting' = "items" /\ item' = 1
      /\ UNCHANGED <<source, section, pagesLeft, windowAt, chunks, tableFiles>>
  BY DEF EndOfText
<1>2. windowAt = 0
  BY <1>1, CutTypes DEF PlaceInv
<1>3. CutTypeOK'
  <2>1. SourceOK'
    BY <1>1 DEF CutTypeOK, SourceOK
  <2> QED BY <1>1, <2>1 DEF CutTypeOK
<1>4. PlaceInv'
  BY <1>1, <1>2 DEF PlaceInv
<1>5. ContentInv' /\ OverlapInv'
  BY <1>1, SameSource DEF ContentInv, OverlapInv
<1>6. CoverInv'
  BY <1>1, CoverKept
<1>7. \A s \in 1..2 : \A i \in 1..Length(s) : Looked(s, i)' <=> Looked(s, i)
  BY <1>1 DEF Looked
<1>8. ItemInv'
  BY <1>1, <1>7, ItemsKept
<1> QED
  BY <1>3, <1>4, <1>5, <1>6, <1>8

\* The root is followed by the section with a heading, that by the end.
LEMMA SectionEnds ==
    ASSUME CutInv, NextSection
    PROVE  CutInv'
<1> USE DEF CutInv
<1>1. /\ cutting = "items" /\ item > Length(section) /\ UNCHANGED <<source, windowAt, item, chunks, tableFiles>>
      /\ IF section = 1 THEN cutting' = "text" /\ section' = 2 /\ pagesLeft' = PageOrder(2)
                        ELSE cutting' = "done" /\ UNCHANGED <<section, pagesLeft>>
  BY DEF NextSection, Length
<1>2. /\ pagesLeft = <<>> /\ windowAt = 0 /\ section \in 1..2 /\ item \in Nat /\ Length(1) \in Nat /\ Length(2) \in Nat
      /\ SourceOK
  BY <1>1, CutTypes, SourceTypes DEF PlaceInv, CutTypeOK
<1>3. PagesOK(2, Length(2), PageOrder(2))
  BY <1>2, PagesAre
<1>4. CutTypeOK'
  <2>1. SourceOK'
    BY <1>1 DEF CutTypeOK, SourceOK
  <2>2. cutting' \in {"text", "items", "done"} /\ section' \in 1..2 /\ pagesLeft' \in Seq(ChunkPages)
    BY <1>1, <1>3 DEF CutTypeOK, PagesOK
  <2> QED BY <1>1, <2>1, <2>2 DEF CutTypeOK
<1>5. PlaceInv'
  <2>1. CASE section = 1
    <3>1. /\ cutting' = "text" /\ section' = 2 /\ pagesLeft' = PageOrder(2) /\ chunks' = chunks /\ windowAt' = 0
      BY <1>1, <1>2, <2>1
    <3>2. \A c \in 1..Len(chunks) : chunks[c].section <= 1 /\ chunks[c].section \in 1..2
      BY <2>1, CutTypes DEF PlaceInv
    <3>3. \A c \in 1..Len(chunks) : chunks[c].section <= 2 /\ chunks[c].section # 2
      BY <3>2
    <3> QED BY <1>3, <3>1, <3>3 DEF PlaceInv, PagesOK
  <2>2. CASE section # 1
    BY <1>1, <1>2, <2>2 DEF PlaceInv
  <2> QED BY <2>1, <2>2
<1>6. ContentInv' /\ OverlapInv'
  BY <1>1, SameSource DEF ContentInv, OverlapInv
<1>7. CoverInv'
  <2> SUFFICES ASSUME NEW s \in 1..2, NEW page \in ChunkPages, NEW k \in 1..Len(Spans(s, page)), NEW t \in Nat,
                      Spans(s, page)[k].from <= t, t < Spans(s, page)[k].to, CutSoFar(s, page, t)'
               PROVE  CutSoFar(s, page, t)
    BY <1>1, SameSource DEF CoverInv
  <2>1. CASE section # 1
    BY <1>1, <2>1 DEF CutSoFar, Left
  <2>2. CASE section = 1 /\ s = 1
    BY <1>2, <2>2 DEF CutSoFar, Left
  <2>3. CASE section = 1 /\ s = 2
    <3>1. ~Left(page)'
      BY <1>1, <1>2, <2>3 DEF CutSoFar
    <3>2. SpansOK(2, page, Length(2), Spans(2, page))
      BY <1>2, SpansAre
    <3>3. Spans(2, page)[k].el \in 1..Length(2)
      <4>1. Spans(2, page) \in Seq(SpanSet(2)) /\ k \in 1..Len(Spans(2, page))
        BY <2>3, <3>2 DEF SpansOK
      <4>2. Spans(2, page)[k] \in SpanSet(2)
        BY <4>1
      <4> QED BY <4>2 DEF SpanSet
    <3>4. /\ source[2][Spans(2, page)[k].el].type = "text"
          /\ source[2][Spans(2, page)[k].el].page = page
      BY <2>3, <3>2 DEF SpansOK
    <3>5. \E j \in 1..Len(PageOrder(2)) : PageOrder(2)[j] = page
      BY <1>3, <3>3, <3>4 DEF PagesOK
    <3> QED BY <1>1, <2>3, <3>1, <3>5 DEF Left
  <2> QED BY <2>1, <2>2, <2>3
<1>8. \A s \in 1..2 : \A i \in 1..Length(s) : Looked(s, i)' <=> Looked(s, i)
  <2> SUFFICES ASSUME NEW s \in 1..2, NEW i \in 1..Length(s)
               PROVE  Looked(s, i)' <=> Looked(s, i)
    OBVIOUS
  <2>1. s = section => i < item
    BY <1>1, <1>2
  <2>2. CASE section = 1
    BY <1>1, <2>1, <2>2 DEF Looked
  <2>3. CASE section = 2
    BY <1>1, <2>1, <2>3 DEF Looked
  <2> QED BY <1>2, <2>2, <2>3
<1>9. ItemInv'
  BY <1>1, <1>8, ItemsKept
<1> QED
  BY <1>4, <1>5, <1>6, <1>7, <1>9

\* The chunk of a table or image.
ItemChunk == Chunk(source[section][item].type, source[section][item].page, {item}, 0, 0)

\* What LookAtItem does: a chunk of the item, unless it is passed over.
LEMMA LookedAt ==
    ASSUME CutTypeOK, LookAtItem
    PROVE  /\ cutting = "items" /\ item \in 1..Length(section) /\ item' = item + 1
           /\ UNCHANGED <<source, cutting, section, pagesLeft, windowAt>>
           /\ ItemChunk \in ChunkRecords
           /\ IF source[section][item].type = "text" \/ Skipped(section, source[section][item])
              THEN chunks' = chunks /\ tableFiles' = tableFiles
              ELSE /\ chunks' = Append(chunks, ItemChunk)
                   /\ tableFiles' = IF Large(source[section][item])
                                    THEN tableFiles \union {Len(chunks)} ELSE tableFiles
<1>1. cutting = "items" /\ item \in 1..Length(section) /\ item \in Nat /\ section \in 1..2 /\ SourceOK
  <2>1. item <= Length(section) /\ cutting = "items"
    BY DEF LookAtItem, Length
  <2> QED BY <2>1, SourceTypes DEF CutTypeOK
<1>2. /\ source[section][item].page \in Nat
      /\ source[section][item].type \in {"text", "table", "image"}
  BY <1>1, SourceTypes, ElementTypes
<1>3. ItemChunk \in ChunkRecords
  BY <1>1, <1>2, CutTypes DEF ItemChunk, Chunk, ChunkRecords
<1> QED
  BY <1>1, <1>3 DEF LookAtItem, ItemChunk, Large

\* Looking at an item makes one chunk of it, or none where it is passed over.
LEMMA ItemStep ==
    ASSUME CutInv, LookAtItem
    PROVE  CutInv'
<1> USE DEF CutInv
<1> DEFINE e == source[section][item]
           n == Len(chunks)
<1>1. /\ cutting = "items" /\ pagesLeft = <<>> /\ windowAt = 0 /\ item \in 1..Length(section) /\ item' = item + 1
      /\ UNCHANGED <<source, cutting, section, pagesLeft, windowAt>>
      /\ section \in 1..2 /\ n \in Nat /\ ItemChunk \in ChunkRecords /\ item \in Nat /\ tableFiles \in SUBSET Nat
  BY LookedAt, CutTypes DEF PlaceInv, CutTypeOK
<1>2. SourceOK' /\ \A s : Length(s)' = Length(s)
  BY <1>1, SameSource DEF CutTypeOK, SourceOK
<1>3. /\ ItemChunk.type = e.type /\ ItemChunk.page = e.page /\ ItemChunk.els = {item} /\ ItemChunk.section = section
      /\ ItemChunk.idx = n /\ ItemChunk.from = 0 /\ ItemChunk.to = 0
  BY DEF ItemChunk, Chunk
<1>4. \/ chunks' = chunks /\ tableFiles' = tableFiles /\ (e.type = "text" \/ Skipped(section, e))
      \/ /\ chunks' = Append(chunks, ItemChunk) /\ e.type # "text" /\ ~Skipped(section, e)
         /\ tableFiles' = IF Large(e) THEN tableFiles \union {n} ELSE tableFiles
  BY LookedAt
<1> HIDE DEF e, n
<1>5. CutTypeOK'
  <2>1. chunks' \in Seq(ChunkRecords) /\ tableFiles' \in SUBSET Nat
    BY <1>1, <1>4, NewChunkLast DEF CutTypeOK
  <2> QED BY <1>1, <1>2, <2>1 DEF CutTypeOK
<1>6. \/ chunks' = chunks
      \/ /\ Len(chunks') = n + 1 /\ chunks'[n + 1] = ItemChunk
         /\ \A c \in 1..n : chunks'[c] = chunks[c] /\ c \in 1..(n + 1)
         /\ \A c \in 1..(n + 1) : c \in 1..n \/ c = n + 1
         /\ e.type # "text"
  BY <1>1, <1>4, NewChunkLast DEF CutTypeOK, n
<1>7. PlaceInv'
  <2>1. \A c \in 1..Len(chunks') : chunks'[c].section <= section
    BY <1>1, <1>3, <1>6 DEF PlaceInv, n
  <2> QED BY <1>1, <2>1 DEF PlaceInv
<1>8. ContentInv'
  <2> SUFFICES ASSUME NEW c \in 1..Len(chunks')
               PROVE  /\ chunks'[c].idx = c - 1
                      /\ chunks'[c].to - chunks'[c].from <= ChunkTokens
                      /\ \A i \in chunks'[c].els :
                          /\ i \in 1..Length(chunks'[c].section)
                          /\ source[chunks'[c].section][i].page = chunks'[c].page
                          /\ source[chunks'[c].section][i].type = "text" <=> chunks'[c].type = "text"
    BY <1>1, <1>2 DEF ContentInv
  <2>1. CASE c \in 1..n /\ chunks'[c] = chunks[c]
    BY <2>1 DEF ContentInv, n
  <2>2. CASE c = n + 1 /\ chunks'[c] = ItemChunk
    <3>1. chunks'[c].idx = c - 1 /\ chunks'[c].to - chunks'[c].from <= ChunkTokens
      BY <1>1, <1>3, <2>2, StepOfWindows
    <3>2. /\ chunks'[c].section = section /\ chunks'[c].els = {item} /\ item \in 1..Length(section)
          /\ chunks'[c].page = source[section][item].page /\ chunks'[c].type = source[section][item].type
      BY <1>1, <1>3, <2>2 DEF e
    <3>3. ASSUME NEW i \in chunks'[c].els
          PROVE  /\ i \in 1..Length(chunks'[c].section)
                 /\ source[chunks'[c].section][i].page = chunks'[c].page
                 /\ source[chunks'[c].section][i].type = chunks'[c].type
      BY <3>2
    <3> QED BY <3>1, <3>3
  <2> QED BY <1>6, <2>1, <2>2 DEF n
<1>9. OverlapInv'
  <2> SUFFICES ASSUME ChunkTokens > SeparatorTokens, NEW c \in 1..(Len(chunks') - 1),
                      chunks'[c].type = "text", chunks'[c + 1].type = "text",
                      chunks'[c].page = chunks'[c + 1].page, chunks'[c].section = chunks'[c + 1].section
               PROVE  chunks'[c].to - chunks'[c + 1].from = ChunkTokens - WindowStep
    BY <1>1 DEF OverlapInv, SeparatorTokens, WindowStep
  <2>1. CASE chunks' = chunks
    BY <2>1 DEF OverlapInv
  <2>2. CASE Len(chunks') = n + 1 /\ chunks'[n + 1] = ItemChunk /\ e.type # "text"
    <3>1. c + 1 # n + 1
      BY <1>3, <2>2
    <3>2. c \in 1..(n - 1) /\ c + 1 \in 1..n /\ c \in 1..n
      BY <1>1, <2>2, <3>1
    <3>3. chunks'[c] = chunks[c] /\ chunks'[c + 1] = chunks[c + 1]
      BY <1>6, <3>2
    <3> QED BY <3>2, <3>3 DEF OverlapInv, n
  <2> QED BY <1>6, <2>1, <2>2
<1>10. CoverInv'
  <2> SUFFICES ASSUME NEW s \in 1..2, NEW page \in ChunkPages, NEW k \in 1..Len(Spans(s, page)), NEW t \in Nat,
                      Spans(s, page)[k].from <= t, t < Spans(s, page)[k].to, CutSoFar(s, page, t)'
               PROVE  \E c \in 1..Len(chunks') : Covers(chunks'[c], s, page, Spans(s, page)[k].el, t)
    BY <1>1, SameSource DEF CoverInv
  <2>1. CutSoFar(s, page, t)
    BY <1>1 DEF CutSoFar, Left
  <2>2. PICK c \in 1..n : Covers(chunks[c], s, page, Spans(s, page)[k].el, t)
    BY <2>1 DEF CoverInv, n
  <2>3. c \in 1..Len(chunks') /\ chunks'[c] = chunks[c]
    BY <1>6, <2>2 DEF n
  <2> QED BY <2>2, <2>3
<1>11. ItemInv'
  <2> SUFFICES ASSUME NEW s \in 1..2, NEW i \in 1..Length(s), source[s][i].type # "text"
               PROVE  IF Looked(s, i)' /\ ~Skipped(s, source[s][i])
                      THEN \E c \in 1..Len(chunks') :
                              /\ \A d \in 1..Len(chunks') : Holds(chunks'[d], s, i) <=> d = c
                              /\ Large(source[s][i]) => chunks'[c].idx \in tableFiles'
                      ELSE \A d \in 1..Len(chunks') : ~Holds(chunks'[d], s, i)
    BY <1>1, <1>2 DEF ItemInv
  <2>0. i \in Nat
    OBVIOUS
  <2>1. CASE s = section /\ i = item
    <3>1. Looked(s, i)' /\ ~Looked(s, i) /\ source[s][i] = e
      BY <1>1, <2>1 DEF Looked, e
    <3>2. \A d \in 1..n : ~Holds(chunks[d], s, i)
      BY <3>1 DEF ItemInv, n
    <3>3. CASE Skipped(section, e)
      <4>1. chunks' = chunks
        BY <1>4, <3>3
      <4> QED BY <2>1, <3>1, <3>2, <3>3, <4>1 DEF n
    <3>4. CASE ~Skipped(section, e)
      <4>1. /\ chunks' = Append(chunks, ItemChunk)
            /\ tableFiles' = IF Large(e) THEN tableFiles \union {n} ELSE tableFiles
        BY <1>4, <3>1, <3>4
      <4>2. /\ Len(chunks') = n + 1 /\ chunks'[n + 1] = ItemChunk
            /\ \A c \in 1..n : chunks'[c] = chunks[c] /\ c \in 1..(n + 1)
            /\ \A c \in 1..(n + 1) : c \in 1..n \/ c = n + 1
        BY <1>1, <4>1, NewChunkLast DEF CutTypeOK, n
      <4>3. Holds(ItemChunk, s, i)
        BY <1>3, <2>1 DEF Holds
      <4>4. n + 1 \notin 1..n /\ n + 1 \in 1..(n + 1)
        BY <1>1
      <4>5. \A d \in 1..(n + 1) : Holds(chunks'[d], s, i) <=> d = n + 1
        BY <3>2, <4>2, <4>3, <4>4
      <4>6. Large(e) => chunks'[n + 1].idx \in tableFiles'
        BY <1>3, <4>1, <4>2
      <4> QED BY <2>1, <3>1, <3>4, <4>2, <4>4, <4>5, <4>6
    <3> QED BY <3>3, <3>4
  <2>2. CASE ~(s = section /\ i = item)
    <3>1. Looked(s, i)' <=> Looked(s, i)
      BY <1>1, <2>0, <2>2 DEF Looked
    <3>2. CASE chunks' = chunks /\ tableFiles' = tableFiles
      BY <3>1, <3>2 DEF ItemInv
    <3>3. CASE /\ chunks' = Append(chunks, ItemChunk) /\ e.type # "text" /\ ~Skipped(section, e)
               /\ tableFiles' = IF Large(e) THEN tableFiles \union {n} ELSE tableFiles
      <4>1. /\ Len(chunks') = n + 1 /\ chunks'[n + 1] = ItemChunk
            /\ \A c \in 1..n : chunks'[c] = chunks[c] /\ c \in 1..(n + 1)
            /\ \A c \in 1..(n + 1) : c \in 1..n \/ c = n + 1
        BY <1>1, <3>3, NewChunkLast DEF CutTypeOK, n
      <4>2. ~Holds(ItemChunk, s, i)
        BY <1>3, <2>2 DEF Holds
      <4>3. CASE Looked(s, i) /\ ~Skipped(s, source[s][i])
        <5>1. PICK c \in 1..n : /\ \A d \in 1..n : Holds(chunks[d], s, i) <=> d = c
                                /\ Large(source[s][i]) => chunks[c].idx \in tableFiles
          BY <4>3 DEF ItemInv, n
        <5>2. c # n + 1
          BY <1>1
        <5>3. \A d \in 1..(n + 1) : Holds(chunks'[d], s, i) <=> d = c
          BY <4>1, <4>2, <5>1, <5>2
        <5>4. Large(source[s][i]) => chunks'[c].idx \in tableFiles'
          BY <3>3, <4>1, <5>1
        <5> QED BY <3>1, <4>1, <4>3, <5>3, <5>4
      <4>4. CASE ~(Looked(s, i) /\ ~Skipped(s, source[s][i]))
        <5>1. \A d \in 1..n : ~Holds(chunks[d], s, i)
          BY <4>4 DEF ItemInv, n
        <5>2. \A d \in 1..(n + 1) : ~Holds(chunks'[d], s, i)
          BY <4>1, <4>2, <5>1
        <5> QED BY <3>1, <4>1, <4>4, <5>2
      <4> QED BY <4>3, <4>4
    <3> QED BY <1>4, <3>2, <3>3
  <2> QED BY <2>1, <2>2
<1> QED
  BY <1>5, <1>7, <1>8, <1>9, <1>10, <1>11

\* The invariant holds of a document of which nothing is cut.
LEMMA CutInit == ChunkingInit => CutInv
<1> SUFFICES ASSUME NEW r \in ElementLists(MaxInRoot), NEW b \in ElementLists(MaxInSection),
                    ChunkingInitOf(<<r, b>>)
             PROVE  CutInv
  BY DEF ChunkingInit
<1>1. r \in Seq(ChunkElements) /\ b \in Seq(ChunkElements)
  <2>1. ASSUME NEW n \in Nat, NEW l \in [1..n -> ChunkElements] PROVE l \in Seq(ChunkElements)
    OBVIOUS
  <2>2. \A m \in Nat : \A n \in 0..m : n \in Nat
    OBVIOUS
  <2> QED BY <2>1, <2>2 DEF ElementLists, ChunkElements
<1>2. source = <<r, b>> /\ SourceOK
  <2>1. source = <<r, b>>
    BY DEF ChunkingInitOf
  <2> QED BY <1>1, <2>1 DEF SourceOK
<1>3. /\ cutting = "text" /\ section = (IF source[1] = <<>> THEN 2 ELSE 1) /\ pagesLeft = PageOrder(section)
      /\ windowAt = 0 /\ item = 1 /\ chunks = <<>> /\ tableFiles = {} /\ section \in 1..2
  BY DEF ChunkingInitOf
<1>4. PagesOK(section, Length(section), pagesLeft)
  BY <1>2, <1>3, PagesAre
<1>5. CutTypeOK
  BY <1>2, <1>3, <1>4 DEF CutTypeOK, PagesOK
<1>6. PlaceInv /\ ContentInv /\ OverlapInv
  BY <1>3, <1>4 DEF PlaceInv, ContentInv, OverlapInv, PagesOK
<1>7. 1 < section => Length(1) = 0
  BY <1>3 DEF Length
<1>8. CoverInv
  <2> SUFFICES ASSUME NEW s \in 1..2, NEW page \in ChunkPages, NEW k \in 1..Len(Spans(s, page)), NEW t \in Nat,
                      CutSoFar(s, page, t)
               PROVE  FALSE
    BY DEF CoverInv
  <2>1. SpansOK(s, page, Length(s), Spans(s, page))
    BY <1>2, SpansAre
  <2>2. Spans(s, page)[k].el \in 1..Length(s)
    <3>1. Spans(s, page) \in Seq(SpanSet(s))
      BY <2>1 DEF SpansOK
    <3>2. Spans(s, page)[k] \in SpanSet(s)
      BY <3>1
    <3> QED BY <3>2 DEF SpanSet
  <2>3. s = section /\ ~Left(page)
    <3>1. ~(s < section)
      BY <1>3, <1>7, <2>2
    <3> QED BY <1>3, <3>1 DEF CutSoFar
  <2>4. /\ source[s][Spans(s, page)[k].el].type = "text"
        /\ source[s][Spans(s, page)[k].el].page = page
    BY <2>1 DEF SpansOK
  <2> QED BY <1>4, <2>2, <2>3, <2>4 DEF PagesOK, Left
<1>9. ItemInv
  <2>1. Len(chunks) = 0
    BY <1>3
  <2>2. ASSUME NEW s \in 1..2, NEW i \in 1..Length(s) PROVE ~Looked(s, i)
    BY <1>3, <1>7 DEF Looked
  <2> QED BY <2>1, <2>2 DEF ItemInv
<1> QED
  BY <1>5, <1>6, <1>8, <1>9 DEF CutInv

\* Every step keeps the invariant.
LEMMA CutStep == CutInv /\ [ChunkingNext]_chunking => CutInv'
<1> SUFFICES ASSUME CutInv, [ChunkingNext]_chunking PROVE CutInv'
  OBVIOUS
<1>1. CASE CutWindow
  BY <1>1, WindowTypes, WindowPlace, WindowContent, WindowOverlap, WindowCover, WindowItems DEF CutInv
<1>2. CASE EndOfText
  BY <1>2, TextEnds
<1>3. CASE LookAtItem
  BY <1>3, ItemStep
<1>4. CASE NextSection
  BY <1>4, SectionEnds
<1>5. CASE UNCHANGED chunking
  <2>1. UNCHANGED <<source, cutting, section, pagesLeft, windowAt, item, chunks, tableFiles>>
    BY <1>5 DEF chunking
  <2>2. CutTypeOK' /\ PlaceInv'
    <3>1. SourceOK'
      BY <2>1 DEF CutInv, CutTypeOK, SourceOK
    <3> QED BY <2>1, <3>1 DEF CutInv, CutTypeOK, PlaceInv
  <2>3. ContentInv'
    BY <2>1, SameSource DEF CutInv, ContentInv
  <2>7. OverlapInv'
    BY <2>1 DEF CutInv, OverlapInv
  <2>4. CoverInv'
    BY <2>1, CoverKept DEF CutInv
  <2>5. \A s \in 1..2 : \A i \in 1..Length(s) : Looked(s, i)' <=> Looked(s, i)
    BY <2>1 DEF Looked
  <2>6. ItemInv'
    BY <2>1, <2>5, ItemsKept DEF CutInv
  <2> QED BY <2>2, <2>3, <2>7, <2>4, <2>6 DEF CutInv
<1> QED
  BY <1>1, <1>2, <1>3, <1>4, <1>5 DEF ChunkingNext

\* Every variable of the cutting keeps its type.
THEOREM ChunkingTypeCorrect == ChunkingSpec => []ChunkingTypeOK
<1>1. CutInv => ChunkingTypeOK
  <2> SUFFICES ASSUME CutInv PROVE ChunkingTypeOK
    OBVIOUS
  <2>1. \A c \in DOMAIN chunks : /\ chunks[c].type \in {"text", "table", "image"}
                                 /\ chunks[c].idx \in Nat /\ chunks[c].section \in 1..2
    <3>1. \A c \in DOMAIN chunks : chunks[c] \in ChunkRecords
      BY DEF CutInv, CutTypeOK
    <3> QED BY <3>1 DEF ChunkRecords
  <2>2. Range(pagesLeft) \subseteq ChunkPages
    BY DEF CutInv, CutTypeOK, Range
  <2> QED BY <2>1, <2>2 DEF CutInv, CutTypeOK, ChunkingTypeOK
<1> QED
  BY <1>1, CutInit, CutStep, PTL DEF ChunkingSpec

\* build_chunks loses no token, table or image and doubles no table or image,
\* for a document of any length and windows of any size and overlap; its
\* chunks are windows of one page, numbered in order.
THEOREM DocumentIsChunked == ChunkingSpec => []ChunksCoverTheDocument
<1>1. CutInv => EveryElementIsChunked
  <2> SUFFICES ASSUME CutInv, cutting = "done", NEW s \in 1..2, NEW i \in DOMAIN source[s]
               PROVE  LET e == source[s][i] IN
                      IF e.type = "text"
                      THEN \/ e.stamp /\ StampIsWatermark
                           \/ \E k \in DOMAIN Spans(s, e.page) : LET span == Spans(s, e.page)[k] IN
                                 /\ span.el = i /\ span.to - span.from = e.tokens
                                 /\ \A t \in span.from..(span.to - 1) : \E c \in ChunksOf(s, i) :
                                       chunks[c].page = e.page /\ t \in chunks[c].from..(chunks[c].to - 1)
                      ELSE /\ Cardinality(ChunksOf(s, i)) = IF Skipped(s, e) THEN 0 ELSE 1
                           /\ e.type = "table" /\ e.kind = "large" =>
                                 \E c \in ChunksOf(s, i) : chunks[c].idx \in tableFiles
    BY DEF EveryElementIsChunked
  <2> USE DEF CutInv
  <2> DEFINE e == source[s][i]
  <2>1. /\ i \in 1..Length(s) /\ section = 2 /\ pagesLeft = <<>> /\ SourceOK
        /\ DOMAIN chunks = 1..Len(chunks) /\ e \in ChunkElements
    BY CutTypes, SourceTypes DEF PlaceInv, CutTypeOK
  <2>2. ChunksOf(s, i) = {c \in 1..Len(chunks) : Holds(chunks[c], s, i)}
    BY <2>1 DEF ChunksOf, Holds
  <2>3. ASSUME e.type = "text", ~(e.stamp /\ StampIsWatermark)
        PROVE  \E k \in DOMAIN Spans(s, e.page) : LET span == Spans(s, e.page)[k] IN
                  /\ span.el = i /\ span.to - span.from = e.tokens
                  /\ \A t \in span.from..(span.to - 1) : \E c \in ChunksOf(s, i) :
                        chunks[c].page = e.page /\ t \in chunks[c].from..(chunks[c].to - 1)
    <3> DEFINE page == e.page
               spans == Spans(s, page)
    <3>1. SpansOK(s, page, Length(s), spans) /\ page \in ChunkPages
      BY <2>1, <2>3, SpansAre, ElementTypes
    <3>2. ~PassedOver(s, page, e)
      BY <2>3 DEF PassedOver
    <3>3. PICK k \in 1..Len(spans) : spans[k].el = i
      BY <2>1, <3>1, <3>2 DEF SpansOK
    <3>4. DOMAIN spans = 1..Len(spans) /\ spans[k].from \in Nat /\ spans[k].to \in Nat
      <4>1. spans \in Seq(SpanSet(s))
        BY <3>1 DEF SpansOK
      <4>2. spans[k] \in SpanSet(s) /\ DOMAIN spans = 1..Len(spans)
        BY <4>1
      <4> QED BY <4>2 DEF SpanSet
    <3>5. spans[k].to - spans[k].from = e.tokens
      BY <3>1, <3>3 DEF SpansOK
    <3>6. ASSUME NEW t \in spans[k].from..(spans[k].to - 1)
          PROVE  \E c \in ChunksOf(s, i) : chunks[c].page = page /\ t \in chunks[c].from..(chunks[c].to - 1)
      <4>1. t \in Nat /\ spans[k].from <= t /\ t < spans[k].to
        BY <3>4
      <4>2. CutSoFar(s, page, t)
        BY <2>1 DEF CutSoFar, Left
      <4>3. PICK c \in 1..Len(chunks) : Covers(chunks[c], s, page, spans[k].el, t)
        BY <3>1, <4>1, <4>2 DEF CoverInv
      <4>4. c \in ChunksOf(s, i)
        BY <2>2, <3>3, <4>3 DEF Covers, Holds
      <4>5. chunks[c].from \in Nat /\ chunks[c].to \in Nat
        BY CutTypes
      <4> QED BY <4>1, <4>3, <4>4, <4>5 DEF Covers
    <3> QED BY <3>3, <3>4, <3>5, <3>6
  <2>4. ASSUME e.type # "text"
        PROVE  /\ Cardinality(ChunksOf(s, i)) = IF Skipped(s, e) THEN 0 ELSE 1
               /\ e.type = "table" /\ e.kind = "large" => \E c \in ChunksOf(s, i) : chunks[c].idx \in tableFiles
    <3>1. Looked(s, i)
      BY <2>1 DEF Looked
    <3>2. CASE Skipped(s, e)
      <4>1. ChunksOf(s, i) = {}
        BY <2>1, <2>2, <2>4, <3>2 DEF ItemInv
      <4>2. ~(e.type = "table" /\ e.kind = "large")
        BY <3>2 DEF Skipped
      <4> QED BY <3>2, <4>1, <4>2, FS_EmptySet
    <3>3. CASE ~Skipped(s, e)
      <4>1. PICK c \in 1..Len(chunks) : /\ \A d \in 1..Len(chunks) : Holds(chunks[d], s, i) <=> d = c
                                        /\ Large(e) => chunks[c].idx \in tableFiles
        BY <2>1, <2>4, <3>1, <3>3 DEF ItemInv
      <4>2. ChunksOf(s, i) = {c}
        BY <2>2, <4>1
      <4> QED BY <3>3, <4>1, <4>2, FS_Singleton DEF Large
    <3> QED BY <3>2, <3>3
  <2> QED BY <2>3, <2>4
<1>2. CutInv => ChunksAreWindows
  <2> SUFFICES ASSUME CutInv PROVE ChunksAreWindows
    OBVIOUS
  <2> USE DEF CutInv
  <2>1. Len(chunks) \in Nat /\ DOMAIN chunks = 1..Len(chunks)
    BY CutTypes
  <2>2. ASSUME NEW c \in DOMAIN chunks
        PROVE  /\ chunks[c].to - chunks[c].from <= ChunkTokens
               /\ \A i \in chunks[c].els : source[chunks[c].section][i].page = chunks[c].page
    BY <2>1 DEF ContentInv
  <2>3. ASSUME NEW c \in DOMAIN chunks, NEW d \in DOMAIN chunks, c < d
        PROVE  /\ chunks[c].idx < chunks[d].idx
               /\ ChunkTokens > SeparatorTokens
                     /\ d = c + 1 /\ chunks[c].type = "text" /\ chunks[d].type = "text"
                     /\ chunks[c].page = chunks[d].page /\ chunks[c].section = chunks[d].section
                  => chunks[c].to - chunks[d].from = ChunkTokens - WindowStep
    <3>1. chunks[c].idx = c - 1 /\ chunks[d].idx = d - 1
      BY <2>1 DEF ContentInv
    <3>2. d = c + 1 => c \in 1..(Len(chunks) - 1)
      BY <2>1
    <3> QED BY <2>1, <2>3, <3>1, <3>2 DEF OverlapInv
  <2> QED BY <2>2, <2>3 DEF ChunksAreWindows
<1> QED
  BY <1>1, <1>2, CutInit, CutStep, PTL DEF ChunkingSpec, ChunksCoverTheDocument

-----------------------------------------------------------------------------
(* A document on its way through the pipeline *)

\* The parts run each on its own, and each as its own specification says.
LEMMA PartsRunAlone ==
    MCSpec => /\ ArtefactsSpec /\ PdfSpec /\ TreeSpec
              /\ ExtractionSpec /\ ChunkingSpec /\ EnrichmentSpec
<1>1. MCInit => /\ ArtefactsInit /\ PdfInit /\ TreeInit
                /\ ExtractionInit /\ ChunkingInit /\ EnrichmentInit
  <2>1. ChunkingInitOf(<<<<>>, <<>>>>) => ChunkingInit
    <3>1. <<>> \in ElementLists(MaxInRoot) /\ <<>> \in ElementLists(MaxInSection)
      <4>1. 0 \in 0..MaxInRoot /\ 0 \in 0..MaxInSection
        BY ChunkingAssumption DEF ChunkingAssumption
      <4>2. <<>> \in [1..0 -> Texts \union Items]
        OBVIOUS
      <4>3. [1..0 -> Texts \union Items] \in {[1..n -> Texts \union Items] : n \in 0..MaxInRoot}
        BY <4>1
      <4>4. [1..0 -> Texts \union Items] \in {[1..n -> Texts \union Items] : n \in 0..MaxInSection}
        BY <4>1
      <4> QED BY <4>2, <4>3, <4>4 DEF ElementLists
    <3> QED BY <3>1 DEF ChunkingInit
  <2> QED BY <2>1 DEF MCInit
<1>2. ASSUME [MCNext]_<<part, document>>
      PROVE  /\ [ArtefactsNext]_artefacts /\ [PdfNext]_pdf /\ [TreeNext]_tree
             /\ [ExtractionNext]_extraction /\ [ChunkingNext]_chunking /\ [EnrichmentNext]_enrichment
  BY <1>2 DEF MCNext, document
<1> QED
  BY <1>1, <1>2, PTL DEF MCSpec, ArtefactsSpec, PdfSpec, TreeSpec, ExtractionSpec, ChunkingSpec, EnrichmentSpec

\* Type correctness of the pipeline's parts, run side by side.
THEOREM DocumentsTypeCorrect == MCSpec => []DocumentsTypeOK
<1>1. ArtefactsTypeOK /\ PdfTypeOK /\ TreeTypeOK /\ ExtractionTypeOK /\ ChunkingTypeOK /\ EnrichmentTypeOK
      => DocumentsTypeOK
  BY DEF DocumentsTypeOK
<1> QED
  BY <1>1, PartsRunAlone, ArtefactsTypeCorrect, PdfTypeCorrect, TreeTypeCorrect,
     TablesTypeCorrect, ChunkingTypeCorrect, EnrichmentTypeCorrect, PTL

=============================================================================

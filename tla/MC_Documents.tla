---------------------------- MODULE MC_Documents ----------------------------
(* One document on its way through the pipeline, each part on its own: its   *)
(* extraction from the file, the tree of its sections, its tables, its       *)
(* chunks, the enrichment of its sections; and what becomes of all that      *)
(* under repeated runs, readers and deletion.                                *)
EXTENDS DocumentArtefacts, PdfExtraction, DocumentTree, TableExtraction,
        Chunking, SectionEnrichment

VARIABLE part

MCShapes == {[cols |-> 1, body |-> <<"plain">>], [cols |-> 4, body |-> <<"plain", "rich">>]}

\* The inputs of a part vary only when it is the one that is checked.
MCInit ==
    /\ part \in {"artefacts", "pdf", "tree", "tables", "chunks", "enrichment"}
    /\ ArtefactsInit /\ (part # "artefacts" => backend = "local")
    /\ PdfInit /\ (part # "pdf" => ~forced)
    /\ TreeInit
    /\ ExtractionInit
    /\ IF part = "chunks" THEN ChunkingInit
       ELSE ChunkingInitOf(<<<<>>, <<>>>>)
    /\ EnrichmentInit /\ (part # "enrichment" => bodies = <<>> /\ provider = "ollama")

document == <<artefacts, pdf, tree, extraction, chunking, enrichment>>

MCNext ==
    /\ UNCHANGED part
    /\ \/ /\ part = "artefacts" /\ ArtefactsNext
          /\ UNCHANGED <<pdf, tree, extraction, chunking, enrichment>>
       \/ /\ part = "pdf" /\ PdfNext
          /\ UNCHANGED <<artefacts, tree, extraction, chunking, enrichment>>
       \/ /\ part = "tree" /\ TreeNext
          /\ UNCHANGED <<artefacts, pdf, extraction, chunking, enrichment>>
       \/ /\ part = "tables" /\ ExtractionNext
          /\ UNCHANGED <<artefacts, pdf, tree, chunking, enrichment>>
       \/ /\ part = "chunks" /\ ChunkingNext
          /\ UNCHANGED <<artefacts, pdf, tree, extraction, enrichment>>
       \/ /\ part = "enrichment" /\ EnrichmentNext
          /\ UNCHANGED <<artefacts, pdf, tree, extraction, chunking>>

MCSpec == MCInit /\ [][MCNext]_<<part, document>>

\* Every component's variables keep their types.
DocumentsTypeOK ==
    /\ ArtefactsTypeOK /\ PdfTypeOK /\ TreeTypeOK
    /\ ExtractionTypeOK /\ ChunkingTypeOK /\ EnrichmentTypeOK

=============================================================================

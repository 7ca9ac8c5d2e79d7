------------------------ MODULE MCDocumentPipeline ------------------------
(* DocumentPipeline on small instances: worker slots are interchangeable.  *)
EXTENDS DocumentPipeline, TLC

WorkerSymmetry == Permutations(Workers)
=============================================================================

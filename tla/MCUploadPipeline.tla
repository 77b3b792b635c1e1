-------------------------- MODULE MCUploadPipeline --------------------------
(* TLC instances of UploadPipeline. *)
EXTENDS UploadPipeline
=============================================================================

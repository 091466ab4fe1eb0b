-------------------------- MODULE MCReviewPipeline --------------------------
(* Small instances of ReviewPipeline for TLC. *)
EXTENDS ReviewPipeline
=============================================================================

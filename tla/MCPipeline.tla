----------------------------- MODULE MCPipeline -----------------------------
(* Pipeline for TLC. *)
EXTENDS Pipeline, TLC

CONSTANTS f1, f2, f3
MCFrames == {f1, f2, f3}
MCBlurry == {f3}
=============================================================================

----------------------------- MODULE MCPipeline -----------------------------
(* Small instances of Pipeline, and of what it makes of one of its files.  *)
EXTENDS PipelineOutput

CONSTANTS f1, f2, f3

TwoFiles == <<f1, f2>>
ThreeFiles == <<f1, f2, f3>>
=============================================================================

--------------------------- MODULE MCPipelineRuns ---------------------------
(* Small instances of PipelineRuns: the start-up thread, another one, one     *)
(* uploaded content.                                                          *)
EXTENDS PipelineRuns, TLC
=============================================================================

------------------------- MODULE MCPipelineWorkflow -------------------------
(* One pipeline, supervised or not, with or without suspension comments.   *)
EXTENDS PipelineWorkflow

MCConfigs == [hitl: BOOLEAN, notify: BOOLEAN]
=============================================================================

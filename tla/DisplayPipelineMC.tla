-------------------------- MODULE DisplayPipelineMC --------------------------
(* Two pictures, so that an old one can be told from a new one, and a limit  *)
(* of two low samples, so that the counter is seen below and at the limit.   *)
EXTENDS DisplayPipeline

CONSTANTS frameA, frameB

TwoFrames == {frameA, frameB}
OneFrame  == {frameA}
=============================================================================

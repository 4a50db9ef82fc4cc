----------------------------- MODULE MCPipeLine -----------------------------
(* The pipeline, its properties and the programs TLC runs on it. *)
EXTENDS RefinementInvariant, DocumentedBehaviour, Ucode, MCPrograms

(* The programs the refinement is proved for are not few: these are among them. *)
ASSUME PlainImages ==
  \A image \in Images3 \cup LatencyImages \cup LoopImages \cup LoadUseImages : PlainImage(image)
=============================================================================

--------------------------- MODULE MCLayerFanOut ---------------------------
(* Three layers in their order, two pods. *)
EXTENDS LayerFanOut

CONSTANTS cluster, dpu, workflows

MCOrder == <<cluster, dpu, workflows>>
=============================================================================

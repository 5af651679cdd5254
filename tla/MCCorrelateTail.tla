-------------------------- MODULE MCCorrelateTail --------------------------
(* Two sources, queried in this order. *)
EXTENDS CorrelateTail

CONSTANTS temporal, k8s

MCOrder == <<temporal, k8s>>

(* Nothing but the trimming of the answers reads a severity, so an event   *)
(* that is in no answer is followed with one severity only.                *)
PlainUnlessAnswered ==
  \A e \in happened :
    \/ e.sev = "info" \/ e \in answers[e.src]
    \/ phase = "querying" /\ \A i \in 1 .. asked : Order[i] # e.src
=============================================================================

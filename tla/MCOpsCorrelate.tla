--------------------------- MODULE MCOpsCorrelate ---------------------------
(* OpsCorrelate on two entities: a log line may name none, one or both.    *)
EXTENDS OpsCorrelate

CONSTANTS dpu, host

MCLogLines == { << >>, <<dpu>>, <<dpu, host>> }

(* The entities are alike but for the log lines, so of the behaviours that *)
(* differ in their names those are kept whose first popup is of dpu.       *)
FirstOnDpu == runs >= 1 => entityOf[1] = dpu
=============================================================================

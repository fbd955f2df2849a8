------------------------------ MODULE MCProbes ------------------------------
(* Probes with small thresholds: liveness fails at its second failure in  *)
(* a row, the other probes report their first result.                      *)
EXTENDS Probes

MCSuccess == [k \in Kinds |-> 1]
MCFailure == [k \in Kinds |-> IF k = "liveness" THEN 2 ELSE 1]

=============================================================================

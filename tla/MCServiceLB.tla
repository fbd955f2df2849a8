---------------------------- MODULE MCServiceLB ----------------------------
(* ServiceLB with the same target port for every service.                  *)
EXTENDS ServiceLB

MCTargetPort == [s \in Services |-> 80]

=============================================================================

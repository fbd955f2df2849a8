---------------------------- MODULE MCStaticPods ----------------------------
(* StaticPods with two manifests of one pod (an edit makes one of the      *)
(* other) that declare the same bootstrap VIP.                             *)
EXTENDS StaticPods

MCPodName == [c \in Contents |-> "pod"]
MCVipOf == [c \in Contents |-> "vip"]

=============================================================================

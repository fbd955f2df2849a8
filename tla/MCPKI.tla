--------------------------------- MODULE MCPKI ---------------------------------
(* A keypair, a root CA and an intermediate one, a leaf of the latter and  *)
(* a kubeconfig for it.  Spec contents: two that differ in a compared      *)
(* field; one with an address that does not parse, one that names no       *)
(* issuer and one with a short duration, all otherwise like the first.     *)
EXTENDS PKI, TLC

CONSTANTS sa, root, sub, leaf, user, old, new, badIP, noIssuer, brief

MCSpecs == {sa, root, sub, leaf, user}
MCKind == sa :> "KeyPair" @@ root :> "CA" @@ sub :> "CA" @@ leaf :> "Leaf"
              @@ user :> "Kubeconfig"
MCNameRank == leaf :> 1 @@ root :> 2 @@ sa :> 3 @@ sub :> 4 @@ user :> 5
MCIssuerRef == [s \in MCSpecs |-> IF s = leaf THEN sub ELSE root]
MCClientRef == [s \in MCSpecs |-> leaf]
MCCARef == [s \in MCSpecs |-> root]
MCContents == {old, new, badIP, noIssuer, brief}
MCShown == [c \in MCContents |-> IF c = new THEN new ELSE old]
MCKeys == 1..12
MCSerials == 1..9
================================================================================

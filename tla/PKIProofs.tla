------------------------------- MODULE PKIProofs -------------------------------
(***************************************************************************)
(* The safety of the PKI reconciler for every set of specs whose           *)
(* references a run can follow (ReferencesAssumption): a run that succeeds *)
(* leaves everything consistent, a run fails only for what a spec says,    *)
(* matching files are never rewritten and loadable keys never replaced.    *)
(*                                                                         *)
(* The inductive invariant adds to the properties where a run can be.  The *)
(* central part is Frontier: every spec already passed comes before every  *)
(* spec still to do, so what a passed spec refers to has been passed too   *)
(* and no later step of the run writes it.                                 *)
(***************************************************************************)
EXTENDS PKI, TLAPS

(* Every spec passed comes before every spec to do.                        *)
Frontier ==
    pc # "idle" => \A s \in todo, t \in Specs \ todo : Before(t, s)

(* Inside a reconcile the current spec has a key and an issuer, and a      *)
(* certificate about to be issued is still needed.                         *)
Underway ==
    /\ pc = "pub" => \A s \in todo : Current(s) => Kind[s] = "KeyPair" /\ key[s] # None
    /\ pc = "issue" => \A s \in todo : Current(s) =>
                          /\ IsCert(s)
                          /\ key[s] # None
                          /\ ~IssuerMissing(s)
                          /\ certDrift(s)

Outcome == (pc # "idle") <=> (result = "running")

IInv ==
    /\ TypeOK
    /\ Frontier
    /\ Underway
    /\ Outcome
    /\ SuccessIsConsistent
    /\ FailureIsTheSpecs

--------------------------------------------------------------------------------
(* The order of the passes.                                                *)

(* The pass each kind belongs to.                                          *)
LEMMA PassOfKind ==
    ASSUME NEW s \in Specs
    PROVE  /\ Kind[s] = "KeyPair" => Pass(s) = 1
           /\ Kind[s] = "CA" => Pass(s) = 2
           /\ Kind[s] = "Leaf" => Pass(s) = 3
           /\ Kind[s] = "Kubeconfig" => Pass(s) = 4
BY DEF Pass

(* The passes are numbered 1 to 4.                                         *)
LEMMA PassRange ==
    ASSUME NEW s \in Specs
    PROVE  Pass(s) \in 1..4
BY PassOfKind, SpecsAssumption

(* No spec comes both before and after another.                            *)
LEMMA BeforeAsymmetric ==
    ASSUME NEW s \in Specs, NEW t \in Specs, Before(s, t)
    PROVE  ~Before(t, s)
BY PassRange, SpecsAssumption DEF Before

(* The current spec is unique.                                             *)
LEMMA CurrentUnique ==
    ASSUME TypeOK, NEW s \in Specs, NEW t \in Specs, Current(s), Current(t)
    PROVE  s = t
BY BeforeAsymmetric DEF Current, TypeOK

(* An issuer comes before what it issues (main.go:92-99), except that a    *)
(* self-signed CA is its own.                                              *)
LEMMA IssuerFirst ==
    ASSUME NEW s \in Specs, IsCert(s), ~SelfSigned(s)
    PROVE  Before(IssuerRef[s], s)
<1>1. IssuerRef[s] \in Specs /\ Kind[IssuerRef[s]] = "CA"
  BY SpecsAssumption, ReferencesAssumption
<1>2. Pass(IssuerRef[s]) = 2
  BY <1>1, PassOfKind
<1>3. CASE Kind[s] = "CA"
  <2>1. Pass(s) = 2
    BY <1>3, PassOfKind
  <2>2. NameRank[IssuerRef[s]] < NameRank[s]
    BY <1>3, ReferencesAssumption
  <2> QED
    BY <1>2, <2>1, <2>2 DEF Before
<1>4. CASE Kind[s] = "Leaf"
  <2>1. Pass(s) = 3
    BY <1>4, PassOfKind
  <2> QED
    BY <1>2, <2>1 DEF Before
<1> QED
  BY <1>3, <1>4 DEF IsCert

(* The certificates a kubeconfig embeds come before it.                    *)
LEMMA ClientFirst ==
    ASSUME NEW s \in Specs, Kind[s] = "Kubeconfig"
    PROVE  /\ Before(ClientRef[s], s) /\ Before(CARef[s], s)
           /\ ClientRef[s] \in Specs /\ CARef[s] \in Specs
           /\ IsCert(ClientRef[s]) /\ IsCert(CARef[s])
<1>1. /\ ClientRef[s] \in Specs /\ CARef[s] \in Specs
      /\ IsCert(ClientRef[s]) /\ IsCert(CARef[s])
  BY SpecsAssumption, ReferencesAssumption
<1>2. Pass(s) = 4
  BY PassOfKind
<1>3. ASSUME NEW t \in Specs, IsCert(t) PROVE Pass(t) < 4
  BY <1>3, PassOfKind DEF IsCert
<1> QED
  BY <1>1, <1>2, <1>3, PassRange DEF Before

(* A spec that comes before the current one has been passed.               *)
LEMMA EarlierPassed ==
    ASSUME TypeOK, NEW s \in Specs, Current(s), NEW t \in Specs, Before(t, s)
    PROVE  t \notin todo /\ t # s
<1>1. ~Before(s, t)
  BY BeforeAsymmetric
<1>2. t # s
  BY <1>1
<1> QED
  BY <1>1, <1>2 DEF Current

(* What a passed spec refers to is not the current spec.                   *)
LEMMA PassedReferences ==
    ASSUME TypeOK, Frontier, pc # "idle",
           NEW s \in Specs, Current(s), NEW t \in Specs, t \notin todo
    PROVE  /\ t # s
           /\ IsCert(t) => IssuerRef[t] # s
           /\ Kind[t] = "Kubeconfig" => ClientRef[t] # s /\ CARef[t] # s
<1>1. s \in todo /\ Before(t, s)
  BY DEF Current, Frontier
<1>2. ~Before(s, t) /\ t # s
  BY <1>1, BeforeAsymmetric
<1>3. IsCert(t) => IssuerRef[t] # s
  BY <1>2, IssuerFirst DEF SelfSigned
<1>4. Kind[t] = "Kubeconfig" => ClientRef[t] # s /\ CARef[t] # s
  BY <1>2, ClientFirst
<1> QED
  BY <1>2, <1>3, <1>4

(* The issuer of the current certificate is there when it is not itself.   *)
LEMMA IssuerThere ==
    ASSUME IInv, pc # "idle", NEW s \in Specs, Current(s), IsCert(s), ~SelfSigned(s)
    PROVE  /\ IssuerRef[s] \in Specs
           /\ IssuerRef[s] # s
           /\ key[IssuerRef[s]] # None
           /\ crt[IssuerRef[s]] # None
           /\ crt[IssuerRef[s]].key = key[IssuerRef[s]]
<1> DEFINE r == IssuerRef[s]
<1>1. r \in Specs /\ IsCert(r)
  BY SpecsAssumption, ReferencesAssumption DEF IsCert
<1>2. Before(r, s)
  BY IssuerFirst
<1>3. r \notin todo /\ r # s
  BY <1>1, <1>2, EarlierPassed DEF IInv
<1>4. Consistent(r)
  BY <1>1, <1>3 DEF IInv, SuccessIsConsistent
<1> QED
  BY <1>1, <1>3, <1>4 DEF Consistent

(* A fresh key is a key.                                                   *)
LEMMA FreshKeyIsKey == FreshKeys # {} => FreshKey \in Keys
BY DEF FreshKeys, FreshKey

(* A fresh serial number is a serial number.                               *)
LEMMA FreshSerialIsSerial == FreshSerials # {} => FreshSerial \in Serials
BY DEF FreshSerials, FreshSerial

--------------------------------------------------------------------------------
(* Steps of a run.                                                         *)

(* A step changes no file but those of s.                                  *)
OnlyTouches(s) ==
    /\ want' = want
    /\ \A t \in Specs \ {s} :
          key'[t] = key[t] /\ crt'[t] = crt[t] /\ pub'[t] = pub[t] /\ conf'[t] = conf[t]

(* A step that writes files of the current spec only leaves the specs      *)
(* already passed consistent.                                              *)
LEMMA PassedStayConsistent ==
    ASSUME IInv, pc # "idle", NEW s \in Specs, Current(s), OnlyTouches(s),
           NEW t \in Specs, t \notin todo
    PROVE  Consistent(t)'
<1>1. /\ t # s
      /\ IsCert(t) => IssuerRef[t] # s
      /\ Kind[t] = "Kubeconfig" => ClientRef[t] # s /\ CARef[t] # s
  BY PassedReferences DEF IInv
<1>2. Consistent(t)
  BY DEF IInv, SuccessIsConsistent
<1>3. IssuerRef[t] \in Specs /\ ClientRef[t] \in Specs /\ CARef[t] \in Specs
  BY SpecsAssumption
<1> QED
  BY <1>1, <1>2, <1>3 DEF OnlyTouches, Consistent, content, IsCert

(* Finishing the current spec, consistent by then, keeps the frontier and  *)
(* the consistency of what is passed.                                      *)
LEMMA ReconciledStep ==
    ASSUME IInv, pc # "idle", NEW s \in Specs, Current(s), OnlyTouches(s),
           Reconciled(s), Consistent(s)'
    PROVE  Frontier' /\ Underway' /\ Outcome' /\ SuccessIsConsistent' /\ FailureIsTheSpecs'
<1>1. /\ todo' = todo \ {s} /\ pc' = "next" /\ result' = "running" /\ result = "running"
  BY DEF Reconciled, IInv, Outcome
<1>2. Frontier'
  <2> SUFFICES ASSUME NEW u \in todo', NEW t \in Specs \ todo'
               PROVE  Before(t, u)
    BY DEF Frontier, Before, Pass
  <2>1. CASE t = s
    BY <1>1, <2>1 DEF Current
  <2>2. CASE t # s
    BY <1>1, <2>2 DEF IInv, Frontier
  <2> QED
    BY <2>1, <2>2
<1>3. Underway' /\ Outcome' /\ FailureIsTheSpecs'
  BY <1>1 DEF Underway, Outcome, FailureIsTheSpecs
<1>4. SuccessIsConsistent'
  <2> SUFFICES ASSUME NEW t \in Specs, t \notin todo'
               PROVE  Consistent(t)'
    BY <1>1 DEF SuccessIsConsistent
  <2>1. CASE t = s
    BY <2>1
  <2>2. CASE t # s
    BY <1>1, <2>2, PassedStayConsistent
  <2> QED
    BY <2>1, <2>2
<1> QED
  BY <1>2, <1>3, <1>4

(* A step inside a reconcile: nothing more is passed by it.                *)
LEMMA InsideStep ==
    ASSUME IInv, pc # "idle", NEW s \in Specs, Current(s), OnlyTouches(s),
           todo' = todo, result' = result, pc' # "idle"
    PROVE  Frontier' /\ Outcome' /\ SuccessIsConsistent' /\ FailureIsTheSpecs'
<1>1. result' = "running"
  BY DEF IInv, Outcome
<1>2. Frontier'
  BY DEF IInv, Frontier, Before, Pass
<1>3. SuccessIsConsistent'
  <2> SUFFICES ASSUME NEW t \in Specs, t \notin todo
               PROVE  Consistent(t)'
    BY <1>1 DEF SuccessIsConsistent
  <2> QED
    BY PassedStayConsistent
<1> QED
  BY <1>1, <1>2, <1>3 DEF Outcome, FailureIsTheSpecs

(* A run that ends early, for a spec it must refuse, claims nothing more.  *)
LEMMA FatalStep ==
    ASSUME IInv, Fatal, want' = want, \E s \in Specs : want[s] \in Rejected \cup Invalid
    PROVE  Frontier' /\ Underway' /\ Outcome' /\ SuccessIsConsistent' /\ FailureIsTheSpecs'
BY DEF Fatal, Frontier, Underway, Outcome, SuccessIsConsistent, FailureIsTheSpecs

(* reconcileKeyPair preserves the invariant.                               *)
LEMMA KeyPairStep ==
    ASSUME IInv, pc = "next", NEW s \in Specs, Current(s), ReconcileKeyPair(s),
           UNCHANGED <<want, edits, crashes>>
    PROVE  IInv'
<1>1. TypeOK'
  BY FreshKeyIsKey DEF IInv, TypeOK, ReconcileKeyPair, Reconciled, Fatal
<1>2. OnlyTouches(s)
  BY DEF OnlyTouches, ReconcileKeyPair, IInv, TypeOK
<1>3. CASE key[s] # None
  <2>1. Reconciled(s) /\ key' = key /\ pub'[s] = key[s]
    BY <1>3 DEF ReconcileKeyPair, IInv, TypeOK
  <2>2. Consistent(s)'
    BY <1>3, <2>1 DEF Consistent, ReconcileKeyPair, IsCert
  <2> QED
    BY <1>1, <1>2, <2>1, <2>2, ReconciledStep DEF IInv
<1>4. CASE key[s] = None /\ want[s] \in Invalid
  BY <1>1, <1>4, FatalStep DEF IInv, ReconcileKeyPair
<1>5. CASE key[s] = None /\ want[s] \notin Invalid
  <2>1. /\ FreshKeys # {} /\ key' = [key EXCEPT ![s] = FreshKey]
        /\ pc' = "pub" /\ todo' = todo /\ result' = result
    BY <1>5 DEF ReconcileKeyPair
  <2>2. Frontier' /\ Outcome' /\ SuccessIsConsistent' /\ FailureIsTheSpecs'
    BY <1>2, <2>1, InsideStep
  <2>3. Underway'
    <3> SUFFICES ASSUME NEW t \in todo', Current(t)'
                 PROVE  Kind[t] = "KeyPair" /\ key'[t] # None
      BY <2>1 DEF Underway
    <3>1. Current(t)
      BY <2>1 DEF Current, Before, Pass
    <3>2. t = s
      BY <3>1, CurrentUnique, <2>1 DEF IInv, TypeOK
    <3> QED
      BY <2>1, <3>2, FreshKeyIsKey, ContentsAssumption DEF ReconcileKeyPair, IInv, TypeOK
  <2> QED
    BY <1>1, <2>2, <2>3 DEF IInv
<1> QED
  BY <1>3, <1>4, <1>5

(* Writing the public key preserves the invariant.                         *)
LEMMA PubStep ==
    ASSUME IInv, pc = "pub", NEW s \in Specs, Current(s), WritePub(s),
           UNCHANGED <<want, edits, crashes>>
    PROVE  IInv'
<1>1. TypeOK'
  BY DEF IInv, TypeOK, WritePub, Reconciled
<1>2. OnlyTouches(s)
  BY DEF OnlyTouches, WritePub, IInv, TypeOK
<1>3. Kind[s] = "KeyPair" /\ key[s] # None
  BY DEF IInv, Underway, Current
<1>4. Consistent(s)'
  BY <1>3 DEF Consistent, WritePub, IsCert, IInv, TypeOK
<1> QED
  BY <1>1, <1>2, <1>4, ReconciledStep DEF IInv, WritePub

(* reconcileCertificate, up to its first write, preserves the invariant.   *)
LEMMA CertificateStep ==
    ASSUME IInv, pc = "next", NEW s \in Specs, Current(s), ReconcileCertificate(s),
           UNCHANGED <<want, edits, crashes>>
    PROVE  IInv'
<1>1. TypeOK'
  BY FreshKeyIsKey DEF IInv, TypeOK, ReconcileCertificate, Reconciled, Fatal
<1>2. OnlyTouches(s)
  BY DEF OnlyTouches, ReconcileCertificate, IInv, TypeOK
<1>3. IsCert(s) /\ crt' = crt /\ pub' = pub /\ conf' = conf
  BY DEF ReconcileCertificate
<1>4. ~IssuerMissing(s)
  BY <1>3, IssuerThere DEF IssuerMissing
<1>5. CASE want[s] \in Rejected
  BY <1>1, <1>5, FatalStep DEF IInv, ReconcileCertificate
<1>6. CASE want[s] \notin Rejected /\ ~certDrift(s)
  <2>1. Reconciled(s) /\ key' = key
    BY <1>4, <1>6 DEF ReconcileCertificate
  <2>2. Consistent(s)
    <3>1. /\ crt[s] # None /\ key[s] # None /\ crt[s].key = key[s]
          /\ crt[s].fields = Shown[want[s]] /\ crt[s].signer = crt[IssuerRef[s]].key
      BY <1>6 DEF certDrift, SignedBy
    <3>2. crt[s].signer = key[IssuerRef[s]]
      <4>1. CASE SelfSigned(s)
        BY <3>1, <4>1 DEF SelfSigned
      <4>2. CASE ~SelfSigned(s)
        BY <1>3, <3>1, <4>2, IssuerThere
      <4> QED
        BY <4>1, <4>2
    <3> QED
      BY <1>3, <3>1, <3>2 DEF Consistent, IsCert
  <2>3. Consistent(s)'
    BY <1>3, <2>1, <2>2 DEF Consistent, content, IsCert
  <2> QED
    BY <1>1, <1>2, <2>1, <2>3, ReconciledStep DEF IInv
<1>7. CASE want[s] \notin Rejected /\ certDrift(s)
  <2>1. /\ pc' = "issue" /\ todo' = todo /\ result' = result
        /\ \/ key[s] # None /\ key' = key
           \/ key[s] = None /\ FreshKeys # {} /\ key' = [key EXCEPT ![s] = FreshKey]
    BY <1>4, <1>7 DEF ReconcileCertificate
  <2>2. Frontier' /\ Outcome' /\ SuccessIsConsistent' /\ FailureIsTheSpecs'
    BY <1>2, <2>1, InsideStep
  <2>3. key'[s] # None
    BY <2>1, FreshKeyIsKey, ContentsAssumption DEF IInv, TypeOK
  <2>4. ~IssuerMissing(s)'
    <3>1. CASE SelfSigned(s)
      BY <3>1 DEF IssuerMissing, SelfSigned
    <3>2. CASE ~SelfSigned(s)
      BY <1>2, <1>3, <3>2, IssuerThere DEF IssuerMissing, OnlyTouches, SelfSigned
    <3> QED
      BY <3>1, <3>2
  <2>5. certDrift(s)'
    <3>1. CASE key' = key
      BY <1>3, <1>7, <3>1 DEF certDrift, SignedBy, ReconcileCertificate
    <3>2. CASE key[s] = None /\ FreshKeys # {} /\ key' = [key EXCEPT ![s] = FreshKey]
      <4>1. FreshKey \notin KeysOnDisk
        BY <3>2 DEF FreshKeys, FreshKey
      <4>2. key'[s] = FreshKey
        BY <3>2 DEF IInv, TypeOK
      <4>3. crt[s] # None => crt[s].key \in KeysOnDisk
        BY DEF KeysOnDisk
      <4> QED
        BY <1>3, <4>1, <4>2, <4>3 DEF certDrift
    <3> QED
      BY <2>1, <3>1, <3>2
  <2>6. Underway'
    <3> SUFFICES ASSUME NEW t \in todo', Current(t)'
                 PROVE  IsCert(t) /\ key'[t] # None /\ ~IssuerMissing(t)' /\ certDrift(t)'
      BY <2>1 DEF Underway, IsCert
    <3>1. Current(t)
      BY <2>1 DEF Current, Before, Pass
    <3>2. t = s
      BY <3>1, CurrentUnique, <2>1 DEF IInv, TypeOK
    <3> QED
      BY <1>3, <2>3, <2>4, <2>5, <3>2
  <2> QED
    BY <1>1, <2>2, <2>6 DEF IInv
<1> QED
  BY <1>5, <1>6, <1>7

(* Issuing a certificate preserves the invariant.                          *)
LEMMA IssueStep ==
    ASSUME IInv, pc = "issue", NEW s \in Specs, Current(s), IssueCertificate(s),
           UNCHANGED <<want, edits, crashes>>
    PROVE  IInv'
<1>1. IsCert(s) /\ key[s] # None /\ ~IssuerMissing(s)
  BY DEF IInv, Underway, Current
<1>2. IssuerRef[s] \in Specs
  BY SpecsAssumption
<1>3. key[IssuerRef[s]] \in Keys
  <2>1. CASE SelfSigned(s)
    BY <1>1, <2>1 DEF SelfSigned, IInv, TypeOK
  <2>2. CASE ~SelfSigned(s)
    BY <1>1, <1>2, <2>2 DEF IssuerMissing, IInv, TypeOK
  <2> QED
    BY <2>1, <2>2
<1>4. OnlyTouches(s)
  BY DEF OnlyTouches, IssueCertificate, IInv, TypeOK
<1>5. CASE want[s] \in Invalid
  <2>1. TypeOK'
    BY <1>5 DEF IInv, TypeOK, IssueCertificate, Fatal
  <2> QED
    BY <1>5, <2>1, FatalStep DEF IInv, IssueCertificate
<1>6. CASE want[s] \notin Invalid
  <2> DEFINE c == [serial |-> FreshSerial, key |-> key[s], fields |-> Shown[want[s]],
                   signer |-> key[IssuerRef[s]],
                   issuer |-> IF SelfSigned(s) THEN Shown[want[s]]
                              ELSE crt[IssuerRef[s]].fields]
  <2>1. /\ FreshSerials # {} /\ crt' = [crt EXCEPT ![s] = c] /\ key' = key /\ pub' = pub
        /\ Reconciled(s) /\ conf' = conf
        /\ soon' = IF want[s] \in ShortLived THEN soon \cup {s} ELSE soon \ {s}
    BY <1>6 DEF IssueCertificate
  <2>2. c.issuer \in {Shown[x] : x \in Contents}
    <3>1. CASE SelfSigned(s)
      BY <3>1 DEF IInv, TypeOK
    <3>2. CASE ~SelfSigned(s)
      <4>1. crt[IssuerRef[s]] \in Certs
        BY <1>1, <1>2, <3>2 DEF IssuerMissing, IInv, TypeOK
      <4> QED
        BY <3>2, <4>1 DEF Certs
    <3> QED
      BY <3>1, <3>2
  <2>3. c \in Certs
    <3>1. key[s] \in Keys /\ want[s] \in Contents
      BY <1>1 DEF IInv, TypeOK
    <3>2. FreshSerial \in Serials
      BY <2>1, FreshSerialIsSerial
    <3> QED
      BY <1>3, <2>2, <3>1, <3>2 DEF Certs
  <2> HIDE DEF c
  <2>4. TypeOK'
    BY <2>1, <2>3 DEF IInv, TypeOK, Reconciled
  <2>5. crt'[s] = c
    BY <2>1 DEF IInv, TypeOK
  <2>6. /\ c # None /\ c.key = key[s] /\ c.fields = Shown[want[s]]
        /\ c.signer = key[IssuerRef[s]]
    BY <2>3, ContentsAssumption DEF c, Certs
  <2>7. Consistent(s)'
    BY <1>1, <2>1, <2>5, <2>6 DEF Consistent, IsCert
  <2> QED
    BY <1>4, <2>1, <2>4, <2>7, ReconciledStep DEF IInv
<1> QED
  BY <1>5, <1>6

(* reconcileKubeconfig preserves the invariant.                            *)
LEMMA KubeconfigStep ==
    ASSUME IInv, pc = "next", NEW s \in Specs, Current(s), ReconcileKubeconfig(s),
           UNCHANGED <<want, edits, crashes>>
    PROVE  IInv'
<1>1. /\ Kind[s] = "Kubeconfig" /\ key' = key /\ crt' = crt /\ pub' = pub
  BY DEF ReconcileKubeconfig
<1>2. /\ ClientRef[s] \in Specs /\ CARef[s] \in Specs /\ ClientRef[s] # s /\ CARef[s] # s
      /\ ClientRef[s] \notin todo /\ CARef[s] \notin todo
      /\ IsCert(ClientRef[s]) /\ IsCert(CARef[s])
  BY <1>1, ClientFirst, EarlierPassed DEF IInv
<1>3. Consistent(ClientRef[s]) /\ Consistent(CARef[s])
  BY <1>2 DEF IInv, SuccessIsConsistent
<1>4. crt[CARef[s]] # None /\ crt[ClientRef[s]] # None /\ key[ClientRef[s]] # None
  BY <1>2, <1>3 DEF Consistent
<1>5. CASE want[s] \in Rejected
  <2>1. Fatal
    BY <1>5 DEF ReconcileKubeconfig
  <2>2. TypeOK'
    BY <1>5, <2>1 DEF IInv, TypeOK, ReconcileKubeconfig, Fatal
  <2> QED
    BY <1>5, <2>1, <2>2, FatalStep DEF IInv
<1>6. CASE want[s] \notin Rejected
  <2>1. conf' = [conf EXCEPT ![s] = content(s)] /\ Reconciled(s)
    BY <1>4, <1>6 DEF ReconcileKubeconfig
  <2>2. OnlyTouches(s)
    BY <1>1, <2>1 DEF OnlyTouches, IInv, TypeOK
  <2>3. conf'[s] = content(s)
    BY <2>1 DEF IInv, TypeOK
  <2>4. content(s) \in Embeds
    BY <1>2, <1>4 DEF content, Embeds, IInv, TypeOK
  <2>5. TypeOK'
    BY <2>1, <2>4 DEF IInv, TypeOK, Reconciled, ReconcileKubeconfig
  <2>6. content(s)' = content(s)
    BY <1>1 DEF content
  <2>7. Consistent(s)'
    BY <1>1, <2>3, <2>6 DEF Consistent, IsCert
  <2> QED
    BY <2>5, <2>1, <2>2, <2>7, ReconciledStep DEF IInv
<1> QED
  BY <1>5, <1>6

(* A run cut off claims nothing about the files.                           *)
LEMMA CutOffStep ==
    ASSUME IInv, CutOff
    PROVE  IInv'
<1>1. TypeOK'
  BY ContentsAssumption DEF IInv, TypeOK, CutOff, files, TearCert, TearPub, TearKubeconfig
<1>2. Frontier' /\ Underway' /\ Outcome' /\ SuccessIsConsistent' /\ FailureIsTheSpecs'
  BY DEF CutOff, Frontier, Underway, Outcome, SuccessIsConsistent, FailureIsTheSpecs
<1> QED
  BY <1>1, <1>2 DEF IInv

(* The operator and time act between runs, and end the claim of the last.  *)
LEMMA ChangeStep ==
    ASSUME IInv, Change
    PROVE  IInv'
<1>1. PICK s \in Specs : EditSpec(s) \/ LoseKey(s) \/ ReplaceKey(s) \/ LoseCert(s) \/ Age(s)
  BY DEF Change
<1>2. edits' \in 0..MaxEdits
  BY ContentsAssumption DEF IInv, TypeOK, Change
<1>3. /\ want' \in [Specs -> Contents]
      /\ key' \in [Specs -> Keys \cup {None}]
      /\ crt' \in [Specs -> Certs \cup {None}]
      /\ soon' \subseteq Specs
  BY <1>1, FreshKeyIsKey DEF IInv, TypeOK, EditSpec, LoseKey, ReplaceKey, LoseCert, Age
<1>4. TypeOK'
  BY <1>2, <1>3 DEF IInv, TypeOK, Change
<1>5. Frontier' /\ Underway' /\ Outcome' /\ SuccessIsConsistent' /\ FailureIsTheSpecs'
  BY DEF IInv, Change, Frontier, Underway, Outcome, SuccessIsConsistent, FailureIsTheSpecs
<1> QED
  BY <1>4, <1>5 DEF IInv

(* Starting and finishing a run preserve the invariant.                    *)
LEMMA StartFinishStep ==
    ASSUME IInv, Start \/ Finish
    PROVE  IInv'
<1>1. TypeOK'
  BY DEF IInv, TypeOK, Start, Finish
<1>2. CASE Start
  BY <1>1, <1>2 DEF IInv, Start, Frontier, Underway, Outcome, SuccessIsConsistent,
                    FailureIsTheSpecs
<1>3. CASE Finish
  <2>1. \A t \in Specs : Consistent(t)
    BY <1>3 DEF Finish, IInv, SuccessIsConsistent
  <2>2. \A t \in Specs : Consistent(t)'
    BY <1>3, <2>1 DEF Finish, Consistent, content, IsCert
  <2> QED
    BY <1>1, <1>3, <2>2 DEF IInv, Finish, Frontier, Underway, Outcome,
                            SuccessIsConsistent, FailureIsTheSpecs
<1> QED
  BY <1>2, <1>3

(* A step of the reconciler preserves the invariant.                       *)
LEMMA ReconcileStep ==
    ASSUME IInv, Reconcile
    PROVE  IInv'
<1>1. PICK s \in Specs :
          /\ Current(s)
          /\ \/ pc = "next" /\ ReconcileKeyPair(s)
             \/ pc = "next" /\ ReconcileCertificate(s)
             \/ pc = "next" /\ ReconcileKubeconfig(s)
             \/ pc = "pub" /\ WritePub(s)
             \/ pc = "issue" /\ IssueCertificate(s)
  BY DEF Reconcile
<1>2. UNCHANGED <<want, edits, crashes>>
  BY DEF Reconcile
<1> QED
  BY <1>1, <1>2, KeyPairStep, CertificateStep, KubeconfigStep, PubStep, IssueStep

(* The invariant holds of the empty directory.                             *)
LEMMA InitIInv == Init => IInv
BY SpecsAssumption, ContentsAssumption
   DEF Init, IInv, TypeOK, Frontier, Underway, Outcome, SuccessIsConsistent, FailureIsTheSpecs

(* The invariant is inductive.                                             *)
LEMMA NextIInv == IInv /\ [Next]_vars => IInv'
<1> SUFFICES ASSUME IInv, [Next]_vars
             PROVE  IInv'
  OBVIOUS
<1>1. CASE Start \/ Finish
  BY <1>1, StartFinishStep
<1>2. CASE Reconcile
  BY <1>2, ReconcileStep
<1>3. CASE CutOff
  BY <1>3, CutOffStep
<1>4. CASE Change
  BY <1>4, ChangeStep
<1>5. CASE UNCHANGED vars
  BY <1>5 DEF IInv, vars, TypeOK, Frontier, Before, Pass, Underway, Current, IsCert,
              IssuerMissing, SelfSigned, certDrift, SignedBy, Outcome, SuccessIsConsistent, Consistent, content,
              FailureIsTheSpecs
<1> QED
  BY <1>1, <1>2, <1>3, <1>4, <1>5 DEF Next

--------------------------------------------------------------------------------
(* Every behaviour of the reconciler satisfies the invariant.              *)
THEOREM Invariance == Spec => []IInv
BY InitIInv, NextIInv, PTL DEF Spec

(* Keys, certificates and the run's position are what their types say.     *)
THEOREM PKITypeCorrect == Spec => []TypeOK
BY Invariance, PTL DEF IInv

(* A successful run leaves every file consistent with its spec and with    *)
(* what it refers to (main.go:92-108).                                     *)
THEOREM PKISuccess == Spec => []SuccessIsConsistent
BY Invariance, PTL DEF IInv

(* A run fails only for what a spec says, never for what lost files,       *)
(* crashes or a rotated CA left behind (main.go:217-224).                  *)
THEOREM PKIFailure == Spec => []FailureIsTheSpecs
BY Invariance, PTL DEF IInv

(* Where a certificate and its issuer are consistent and it is not about   *)
(* to expire, certDrift finds nothing.                                     *)
LEMMA ConsistentNoDrift ==
    ASSUME \A t \in Specs : Consistent(t) /\ t \notin soon, NEW s \in Specs, IsCert(s)
    PROVE  ~certDrift(s)
<1>1. IssuerRef[s] \in Specs /\ IsCert(IssuerRef[s])
  BY SpecsAssumption, ReferencesAssumption DEF IsCert
<1>2. crt[IssuerRef[s]].key = key[IssuerRef[s]]
  BY <1>1 DEF Consistent
<1> QED
  BY <1>2 DEF Consistent, certDrift, SignedBy

(* Material that matches its spec is left untouched (main.go:8-9).         *)
THEOREM PKIByteStable == Spec => ByteStable
<1>1. ASSUME IInv, \A t \in Specs : Consistent(t) /\ t \notin soon, Reconcile
      PROVE  UNCHANGED files
  <2>1. PICK s \in Specs :
            /\ Current(s)
            /\ \/ pc = "next" /\ ReconcileKeyPair(s)
               \/ pc = "next" /\ ReconcileCertificate(s)
               \/ pc = "next" /\ ReconcileKubeconfig(s)
               \/ pc = "pub" /\ WritePub(s)
               \/ pc = "issue" /\ IssueCertificate(s)
    BY <1>1 DEF Reconcile
  <2>2. Consistent(s)
    BY <1>1
  <2>3. CASE ReconcileKeyPair(s)
    BY <1>1, <2>2, <2>3 DEF ReconcileKeyPair, Consistent, files, IInv, TypeOK
  <2>4. CASE ReconcileCertificate(s)
    <3>1. ~certDrift(s)
      BY <1>1, <2>4, ConsistentNoDrift DEF ReconcileCertificate
    <3> QED
      BY <2>4, <3>1 DEF ReconcileCertificate, files
  <2>5. CASE ReconcileKubeconfig(s)
    BY <1>1, <2>2, <2>5 DEF ReconcileKubeconfig, Consistent, files, IInv, TypeOK
  <2>6. CASE pc = "pub" /\ WritePub(s)
    <3>1. Kind[s] = "KeyPair"
      BY <1>1, <2>1, <2>6 DEF IInv, Underway, Current
    <3> QED
      BY <1>1, <2>2, <2>6, <3>1 DEF WritePub, Consistent, files, IInv, TypeOK
  <2>7. CASE pc = "issue" /\ IssueCertificate(s)
    <3>1. IsCert(s) /\ certDrift(s)
      BY <1>1, <2>1, <2>7 DEF IInv, Underway, Current
    <3> QED
      BY <1>1, <3>1, ConsistentNoDrift
  <2> QED
    BY <2>1, <2>3, <2>4, <2>5, <2>6, <2>7
<1>2. IInv /\ [Next]_vars => [LeavesMatchingAlone]_vars
  BY <1>1 DEF LeavesMatchingAlone
<1> QED
  BY <1>2, Invariance, PTL DEF Spec, ByteStable

(* A key that loads is replaced by no run (main.go:234-243).               *)
THEOREM PKIKeysSurvive == Spec => KeysSurviveRuns
<1>1. ASSUME TypeOK, Next, pc # "idle", NEW t \in Specs, key[t] # None
      PROVE  key'[t] = key[t]
  <2>1. CASE Reconcile
    BY <1>1, <2>1 DEF Reconcile, ReconcileKeyPair, ReconcileCertificate, ReconcileKubeconfig,
                      WritePub, IssueCertificate, TypeOK
  <2>2. CASE CutOff
    BY <2>2 DEF CutOff, files, TearCert, TearPub, TearKubeconfig
  <2> QED
    BY <1>1, <2>1, <2>2 DEF Next, Start, Finish, Change
<1>2. TypeOK /\ [Next]_vars =>
        [pc # "idle" => \A s \in Specs : key[s] # None => key'[s] = key[s]]_vars
  BY <1>1
<1> QED
  BY <1>2, PKITypeCorrect, PTL DEF Spec, KeysSurviveRuns
================================================================================

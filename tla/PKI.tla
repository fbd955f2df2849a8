---------------------------------- MODULE PKI ----------------------------------
(***************************************************************************)
(* The declarative PKI reconciler (src/poc/pki/main.go): a directory of    *)
(* specs, each a KeyPair, a CA or leaf Certificate or a Kubeconfig, with   *)
(* the files generated for it alongside.  One run of the program walks the *)
(* specs in passes and writes what is missing or has drifted; it may be    *)
(* cut off between two writes, or in the middle of one, and is then run    *)
(* again.  Between runs the operator edits specs, loses or replaces files, *)
(* and time brings certificates close to their expiry.                     *)
(*                                                                         *)
(* Cryptography is abstract: a key is an identity, a certificate records   *)
(* whose key it holds and whose key signed it, and generated keys and      *)
(* certificates differ from all that are on disk.  A file that is absent   *)
(* and one truncated by an interrupted os.WriteFile are the same value,    *)
(* None: neither holds a complete PEM block, so neither loads.             *)
(***************************************************************************)
EXTENDS Naturals

CONSTANTS Specs,       \* the spec names
          Kind,          \* the kind of each: KeyPair, CA, Leaf or Kubeconfig
          NameRank,        \* its place in the sorted list of names
          IssuerRef,         \* a certificate's issuer; itself when self-signed
          ClientRef,           \* a Kubeconfig's client certificate
          CARef,                 \* a Kubeconfig's certificate authority
          Contents,        \* what a spec file can say
          Shown,             \* the part of it that certDrift compares
          Rejected,            \* contents refused before anything is written
          Invalid,               \* contents certTemplate or generateKey refuses
          ShortLived,              \* contents asking for less than 30 days
          Initially,       \* what the spec files say at first
          Keys, Serials,     \* identities of keys and of certificates
          None,
          MaxEdits,        \* bound: changes by the operator and by time
          MaxCrashes         \* bound: runs cut off

ASSUME SpecsAssumption ==
    /\ Kind \in [Specs -> {"KeyPair", "CA", "Leaf", "Kubeconfig"}]
    /\ NameRank \in [Specs -> Nat]
    /\ \A s, t \in Specs : NameRank[s] = NameRank[t] => s = t
    /\ IssuerRef \in [Specs -> Specs]
    /\ ClientRef \in [Specs -> Specs]
    /\ CARef \in [Specs -> Specs]

(* A certificate: whose key it holds, the fields certDrift compares, and the *)
(* key and the subject of its issuer.                                        *)
Certs == [serial : Serials, key : Keys, fields : {Shown[c] : c \in Contents},
          signer : Keys, issuer : {Shown[c] : c \in Contents}]

(* What a kubeconfig embeds.                                               *)
Embeds == [ca : Certs, crt : Certs, key : Keys, server : {Shown[c] : c \in Contents}]

ASSUME ContentsAssumption ==
    /\ Rejected \subseteq Contents
    /\ Invalid \subseteq Contents
    /\ ShortLived \subseteq Contents
    /\ Initially \in Contents
    /\ None \notin Keys
    /\ None \notin Certs
    /\ MaxEdits \in Nat
    /\ MaxCrashes \in Nat

IsCert(s) == Kind[s] \in {"CA", "Leaf"}

SelfSigned(s) == Kind[s] = "CA" /\ IssuerRef[s] = s

PassFlat(s) == IF Kind[s] = "Kubeconfig" THEN 2 ELSE 1 \* mutant of Pass

(* The passes of main: keypairs, then CAs, then leaves, then kubeconfigs,  *)
(* each in the order of the names.                                         *)
Pass(s) ==
    CASE Kind[s] = "KeyPair"    -> 1
      [] Kind[s] = "CA"         -> 2
      [] Kind[s] = "Leaf"       -> 3
      [] Kind[s] = "Kubeconfig" -> 4

Before(s, t) == \/ Pass(s) < Pass(t)
                \/ Pass(s) = Pass(t) /\ NameRank[s] < NameRank[t]

(* References that a run can follow: a certificate names a CA, a           *)
(* Kubeconfig names certificates, and a CA issued by another one comes     *)
(* after it in the order of the names.                                     *)
ASSUME ReferencesAssumption ==
    \A s \in Specs :
        /\ IsCert(s) => Kind[IssuerRef[s]] = "CA"
        /\ Kind[s] = "CA" /\ ~SelfSigned(s) => NameRank[IssuerRef[s]] < NameRank[s]
        /\ Kind[s] = "Kubeconfig" => IsCert(ClientRef[s]) /\ IsCert(CARef[s])

VARIABLES
    want,     \* what each spec file says
    key,      \* <name>.key: a key, or None
    crt,      \* <name>.crt: a certificate, or None
    pub,      \* <name>.pub: the key whose public half it holds, or None
    conf,     \* <name>.kubeconfig: the bytes it embeds, or None
    soon,     \* the certificates with less than 30 days left
    todo,     \* specs the current run has not reconciled
    pc,       \* idle, next, or inside a reconcile: "pub" or "issue"
    result,   \* how the last run ended, none once something changed after it
    edits, crashes

files == <<key, crt, pub, conf>>
vars == <<want, key, crt, pub, conf, soon, todo, pc, result, edits, crashes>>

(* The types of the files and of the run's state.                          *)
TypeOK ==
    /\ want \in [Specs -> Contents]
    /\ key \in [Specs -> Keys \cup {None}]
    /\ crt \in [Specs -> Certs \cup {None}]
    /\ pub \in [Specs -> Keys \cup {None}]
    /\ conf \in [Specs -> Embeds \cup {None}]
    /\ soon \subseteq Specs
    /\ todo \subseteq Specs
    /\ pc \in {"idle", "next", "pub", "issue"}
    /\ result \in {"none", "running", "ok", "failed", "cutoff"}
    /\ edits \in 0..MaxEdits
    /\ crashes \in 0..MaxCrashes

(* A directory of spec files and nothing else.                             *)
Init ==
    /\ want = [s \in Specs |-> Initially]
    /\ key = [s \in Specs |-> None]
    /\ crt = [s \in Specs |-> None]
    /\ pub = [s \in Specs |-> None]
    /\ conf = [s \in Specs |-> None]
    /\ soon = {}
    /\ todo = {}
    /\ pc = "idle"
    /\ result = "none"
    /\ edits = 0
    /\ crashes = 0

(* generateKey and the random serial number: not one that is on disk.      *)
(* Keys and Serials bound them; an instance has enough never to run out.   *)
KeysOnDisk ==
    UNION {{key[s], pub[s]} \cup
           (IF crt[s] = None THEN {} ELSE {crt[s].key, crt[s].signer}) \cup
           (IF conf[s] = None THEN {} ELSE {conf[s].key}) : s \in Specs}

FreshKeys == Keys \ KeysOnDisk
FreshKey == CHOOSE k \in FreshKeys : TRUE

SerialsOnDisk ==
    {crt[s].serial : s \in {t \in Specs : crt[t] # None}} \cup
    UNION {{conf[s].ca.serial, conf[s].crt.serial} : s \in {t \in Specs : conf[t] # None}}

FreshSerials == Serials \ SerialsOnDisk
FreshSerial == CHOOSE n \in FreshSerials : TRUE

(***************************************************************************)
(* Deciding                                                                *)
(***************************************************************************)
(* x509's CheckSignatureFrom: the signature verifies with the parent's     *)
(* key.  It compares no names.                                             *)
SignedBy(c, parent) == c.signer = parent.key

certDriftNoIssuer(s) == \* mutant of certDrift
    ~ /\ crt[s] # None
      /\ key[s] # None
      /\ crt[s].key = key[s]
      /\ crt[s].fields = Shown[want[s]]
      /\ s \notin soon

certDriftRaw(s) == \* mutant of certDrift
    ~ /\ crt[s] # None
      /\ key[s] # None
      /\ crt[s].key = key[s]
      /\ crt[s].fields = want[s]
      /\ SignedBy(crt[s], crt[IssuerRef[s]])
      /\ s \notin soon

(* certDrift: the certificate and the key on disk are not what the spec    *)
(* and the issuer ask for.                                                 *)
certDrift(s) ==
    ~ /\ crt[s] # None
      /\ key[s] # None
      /\ crt[s].key = key[s]
      /\ crt[s].fields = Shown[want[s]]
      /\ SignedBy(crt[s], crt[IssuerRef[s]])
      /\ s \notin soon

(* What a Kubeconfig embeds: the authority's and the client's bytes.       *)
content(s) == [ca |-> crt[CARef[s]], crt |-> crt[ClientRef[s]],
               key |-> key[ClientRef[s]], server |-> Shown[want[s]]]

(***************************************************************************)
(* One run of the program                                                  *)
(***************************************************************************)
Start ==
    /\ pc = "idle"
    /\ pc' = "next"
    /\ todo' = Specs
    /\ result' = "running"
    /\ UNCHANGED <<want, key, crt, pub, conf, soon, edits, crashes>>

(* The spec the passes reach next.                                         *)
Current(s) == s \in todo /\ \A t \in todo \ {s} : Before(s, t)

Reconciled(s) == todo' = todo \ {s} /\ pc' = "next" /\ result' = result

(* log.Fatalf: the run ends here.                                          *)
Fatal == todo' = {} /\ pc' = "idle" /\ result' = "failed"

ReconcileKeyPairStrict(s) == \* mutant of ReconcileKeyPair
    /\ Kind[s] = "KeyPair"
    /\ \/ /\ key[s] # None
          /\ pub[s] = key[s]
          /\ Reconciled(s)
          /\ UNCHANGED <<key, pub>>
       \/ /\ want[s] \in Invalid \/ key[s] # pub[s]
          /\ Fatal
          /\ UNCHANGED <<key, pub>>
       \/ /\ key[s] = None
          /\ pub[s] = None
          /\ want[s] \notin Invalid
          /\ key' = [key EXCEPT ![s] = FreshKey]
          /\ pc' = "pub"
          /\ UNCHANGED <<todo, result, pub>>
    /\ UNCHANGED <<crt, conf, soon>>

ReconcileKeyPairNew(s) == \* mutant of ReconcileKeyPair
    /\ Kind[s] = "KeyPair"
    /\ \/ /\ key[s] # None
          /\ pub[s] = key[s]
          /\ Reconciled(s)
          /\ UNCHANGED <<key, pub>>
       \/ /\ ~(key[s] # None /\ pub[s] = key[s])
          /\ want[s] \in Invalid
          /\ Fatal
          /\ UNCHANGED <<key, pub>>
       \/ /\ ~(key[s] # None /\ pub[s] = key[s])
          /\ want[s] \notin Invalid
          /\ FreshKeys # {}
          /\ key' = [key EXCEPT ![s] = FreshKey]
          /\ pc' = "pub"
          /\ UNCHANGED <<todo, result, pub>>
    /\ UNCHANGED <<crt, conf, soon>>

(* reconcileKeyPair: the public key follows an existing key; a missing key *)
(* is generated and written, then its public half.                         *)
ReconcileKeyPair(s) ==
    /\ Kind[s] = "KeyPair"
    /\ \/ /\ key[s] # None
          /\ pub' = [pub EXCEPT ![s] = key[s]]
          /\ Reconciled(s)
          /\ UNCHANGED key
       \/ /\ key[s] = None
          /\ want[s] \in Invalid
          /\ Fatal
          /\ UNCHANGED <<key, pub>>
       \/ /\ key[s] = None
          /\ want[s] \notin Invalid
          /\ FreshKeys # {}
          /\ key' = [key EXCEPT ![s] = FreshKey]
          /\ pc' = "pub"
          /\ UNCHANGED <<todo, result, pub>>
    /\ UNCHANGED <<crt, conf, soon>>

WritePub(s) ==
    /\ pub' = [pub EXCEPT ![s] = key[s]]
    /\ Reconciled(s)
    /\ UNCHANGED <<key, crt, conf, soon>>

(* The issuer of s has no loadable certificate or key.                     *)
IssuerMissing(s) ==
    ~SelfSigned(s) /\ (crt[IssuerRef[s]] = None \/ key[IssuerRef[s]] = None)

(* reconcileCertificate up to its first write: the issuer is loaded, a     *)
(* matching certificate is left alone, and an existing key is kept when    *)
(* only the certificate drifted.                                           *)
ReconcileCertificate(s) ==
    /\ IsCert(s)
    /\ \/ /\ want[s] \in Rejected \/ IssuerMissing(s)
          /\ Fatal
          /\ UNCHANGED key
       \/ /\ want[s] \notin Rejected /\ ~IssuerMissing(s)
          /\ ~certDrift(s)
          /\ Reconciled(s)
          /\ UNCHANGED key
       \/ /\ want[s] \notin Rejected /\ ~IssuerMissing(s)
          /\ certDrift(s)
          /\ \/ key[s] # None /\ UNCHANGED key
             \/ key[s] = None /\ FreshKeys # {} /\ key' = [key EXCEPT ![s] = FreshKey]
          /\ pc' = "issue"
          /\ UNCHANGED <<todo, result>>
    /\ UNCHANGED <<crt, pub, conf, soon>>

(* The rest of it: certTemplate may refuse the spec, and only then is the  *)
(* certificate signed, by the issuer or by its own key, and written.       *)
IssueCertificate(s) ==
    /\ \/ /\ want[s] \in Invalid
          /\ Fatal
          /\ UNCHANGED <<crt, soon>>
       \/ /\ want[s] \notin Invalid
          /\ FreshSerials # {}
          /\ crt' = [crt EXCEPT ![s] =
                       [serial |-> FreshSerial, key |-> key[s], fields |-> Shown[want[s]],
                        signer |-> key[IssuerRef[s]],
                        issuer |-> IF SelfSigned(s) THEN Shown[want[s]]
                                   ELSE crt[IssuerRef[s]].fields]]
          /\ soon' = IF want[s] \in ShortLived THEN soon \cup {s} ELSE soon \ {s}
          /\ Reconciled(s)
    /\ UNCHANGED <<key, pub, conf>>

(* reconcileKubeconfig.                                                    *)
ReconcileKubeconfig(s) ==
    /\ Kind[s] = "Kubeconfig"
    /\ \/ /\ \/ want[s] \in Rejected
             \/ crt[CARef[s]] = None
             \/ crt[ClientRef[s]] = None
             \/ key[ClientRef[s]] = None
          /\ Fatal
          /\ UNCHANGED conf
       \/ /\ want[s] \notin Rejected
          /\ crt[CARef[s]] # None
          /\ crt[ClientRef[s]] # None
          /\ key[ClientRef[s]] # None
          /\ conf' = [conf EXCEPT ![s] = content(s)]
          /\ Reconciled(s)
    /\ UNCHANGED <<key, crt, pub, soon>>

Finish ==
    /\ pc = "next"
    /\ todo = {}
    /\ pc' = "idle"
    /\ result' = "ok"
    /\ UNCHANGED <<want, key, crt, pub, conf, soon, todo, edits, crashes>>

Reconcile ==
    /\ \E s \in Specs :
          /\ Current(s)
          /\ \/ pc = "next" /\ ReconcileKeyPair(s)
             \/ pc = "next" /\ ReconcileCertificate(s)
             \/ pc = "next" /\ ReconcileKubeconfig(s)
             \/ pc = "pub" /\ WritePub(s)
             \/ pc = "issue" /\ IssueCertificate(s)
    /\ UNCHANGED <<want, edits, crashes>>

(* The process dies, or a write fails for lack of space: the file that was *)
(* being written is left as it was or truncated.  A key file is only       *)
(* written where none loads, so that truncating it changes nothing.        *)
TearCert(s) ==
    /\ pc = "issue"
    /\ want[s] \notin Invalid
    /\ crt' = [crt EXCEPT ![s] = None]
    /\ UNCHANGED <<key, pub, conf>>

TearPub(s) ==
    /\ Kind[s] = "KeyPair"
    /\ key[s] # None
    /\ pub[s] # key[s]
    /\ pub' = [pub EXCEPT ![s] = None]
    /\ UNCHANGED <<key, crt, conf>>

TearKubeconfig(s) ==
    /\ Kind[s] = "Kubeconfig"
    /\ want[s] \notin Rejected
    /\ conf[s] # content(s)
    /\ conf' = [conf EXCEPT ![s] = None]
    /\ UNCHANGED <<key, crt, pub>>

CutOff ==
    /\ pc # "idle"
    /\ crashes < MaxCrashes
    /\ crashes' = crashes + 1
    /\ \/ UNCHANGED files
       \/ \E s \in Specs : Current(s) /\ (TearCert(s) \/ TearPub(s) \/ TearKubeconfig(s))
    /\ todo' = {}
    /\ pc' = "idle"
    /\ result' = "cutoff"
    /\ UNCHANGED <<want, soon, edits>>

(***************************************************************************)
(* Between runs                                                            *)
(***************************************************************************)
(* The operator edits a spec; loses a certificate, a key (rotating a CA is *)
(* losing its key); puts another key in place; or a certificate gets old.  *)
EditSpec(s) ==
    /\ \E c \in Contents \ {want[s]} : want' = [want EXCEPT ![s] = c]
    /\ UNCHANGED <<key, crt, soon>>

LoseKey(s) ==
    /\ key[s] # None
    /\ key' = [key EXCEPT ![s] = None]
    /\ UNCHANGED <<want, crt, soon>>

ReplaceKey(s) ==
    /\ key[s] # None
    /\ FreshKeys # {}
    /\ key' = [key EXCEPT ![s] = FreshKey]
    /\ UNCHANGED <<want, crt, soon>>

LoseCert(s) ==
    /\ crt[s] # None
    /\ crt' = [crt EXCEPT ![s] = None]
    /\ UNCHANGED <<want, key, soon>>

Age(s) ==
    /\ crt[s] # None
    /\ s \notin soon
    /\ soon' = soon \cup {s}
    /\ UNCHANGED <<want, key, crt>>

Change ==
    /\ pc = "idle"
    /\ edits < MaxEdits
    /\ edits' = edits + 1
    /\ result' = "none"
    /\ \E s \in Specs : \/ EditSpec(s) \/ LoseKey(s) \/ ReplaceKey(s)
                        \/ LoseCert(s) \/ Age(s)
    /\ UNCHANGED <<pub, conf, todo, pc, crashes>>

Next == Start \/ Reconcile \/ Finish \/ CutOff \/ Change

Spec == Init /\ [][Next]_vars

(* A started run goes on, and an operator whose run was cut off, failed or *)
(* is out of date runs the program again.                                  *)
FairSpec == Spec /\ WF_vars(Reconcile \/ Finish) /\ WF_vars(Start)

(***************************************************************************)
(* Properties                                                              *)
(***************************************************************************)
(* The files of s are what its spec and the files it refers to ask for:    *)
(* the certificate holds the key beside it, carries the spec's fields and  *)
(* verifies with the issuer's present key; the public key and the          *)
(* kubeconfig hold the present bytes.                                      *)
Consistent(s) ==
    /\ Kind[s] = "KeyPair" => key[s] # None /\ pub[s] = key[s]
    /\ IsCert(s) =>
          /\ key[s] # None
          /\ crt[s] # None
          /\ crt[s].key = key[s]
          /\ crt[s].fields = Shown[want[s]]
          /\ crt[s].signer = key[IssuerRef[s]]
    /\ Kind[s] = "Kubeconfig" => conf[s] = content(s)

(* Whatever was lost, edited, rotated or cut off before it, a run that     *)
(* succeeds leaves every file consistent with its spec and with the files  *)
(* it depends on; inside a run that holds of the specs already passed      *)
(* (main.go:92-108: "Order matters only by dependency").                   *)
SuccessIsConsistent ==
    \A s \in Specs : (result = "ok" \/ (pc # "idle" /\ s \notin todo)) => Consistent(s)

(* A run fails only for what a spec file says: the state that lost files,  *)
(* crashes and rotated CAs leave behind never stops it (main.go:217-224,   *)
(* the errors for an issuer that is not materialized).                     *)
FailureIsTheSpecs ==
    result = "failed" => \E s \in Specs : want[s] \in Rejected \cup Invalid

LeavesMatchingAlone ==
    (\A s \in Specs : Consistent(s) /\ s \notin soon) /\ Reconcile => UNCHANGED files

(* "material matching its spec is left untouched (byte-stable across       *)
(* runs)" (main.go:8-9): where everything is consistent and no certificate *)
(* is about to expire, no step of a run changes a file.                    *)
ByteStable == [][LeavesMatchingAlone]_vars

(* A key that loads outlives every run: leaves keep theirs when only the   *)
(* certificate drifted, and the CA's is not silently rotated by a crash    *)
(* (main.go:234: "Keep an existing key when only the certificate drifted").*)
KeysSurviveRuns ==
    [][pc # "idle" => \A s \in Specs : key[s] # None => key'[s] = key[s]]_vars

(* Running the program again repairs everything: unless a spec stays one   *)
(* it must refuse, runs keep succeeding.                                   *)
Recovers ==
    []<>(result = "ok") \/ []<>(\E s \in Specs : want[s] \in Rejected \cup Invalid)

================================================================================
